--------------------------- MODULE MCSliceGroups ---------------------------
(***************************************************************************)
(* SliceGroups over four cells.  The windows overlap, touch, nest, lie     *)
(* apart and are empty; slices of one and of two cells an element.         *)
(***************************************************************************)
EXTENDS SliceGroups

MCEs(ty)   == IF ty = "pairs" THEN 2 ELSE 1
MCBlob(ty) == FALSE
MCLevel(ci) == IF ci % 3 = 1 THEN 2 ELSE IF ci % 3 = 2 THEN 3 ELSE 1

W(p, n, c, ty) == [p |-> p, n |-> n, c |-> c, ty |-> ty]

MCWindows ==
  {W(0, 2, 2, "ints"), W(1, 1, 2, "ints"), W(2, 2, 2, "ints"), W(1, 0, 0, "ints"),
   W(0, 1, 2, "pairs")}

MCMemories == {[k \in 0 .. 3 |-> IF k = 1 THEN 1 ELSE 0]}
=============================================================================
