--------------------------- MODULE MCInternSpace ---------------------------
(***************************************************************************)
(* InternSpace on a small universe of types: a recursive struct, pointers  *)
(* to it and to a pointer, a map, a slice, an interface, and two more      *)
(* types that share the struct's name, one of them with its structure.     *)
(***************************************************************************)
EXTENDS InternSpace

(* name, kind, field names, type-refs *)
Types ==
  [R   |-> <<"R", "struct", <<"p", "q", "m">>, <<"PT", "PPT", "M">>>>,
   Q   |-> <<"Q", "struct", <<"i", "n", "l">>, <<"PI", "PS", "L">>>>,
   T   |-> <<"T", "struct", <<"p", "n">>, <<"PT", "S">>>>,
   T2  |-> <<"T", "struct", <<"p", "n">>, <<"PT", "S">>>>,
   T3  |-> <<"T", "struct", <<"n">>, <<"S">>>>,
   PT  |-> <<"*T", "ptr", <<>>, <<"T">>>>,
   PPT |-> <<"**T", "ptr", <<>>, <<"PT">>>>,
   PS  |-> <<"*s", "ptr", <<>>, <<"S">>>>,
   PI  |-> <<"*any", "ptr", <<>>, <<"I">>>>,
   I   |-> <<"any", "iface", <<>>, <<>>>>,
   M   |-> <<"map", "map", <<>>, <<"S", "PT">>>>,
   L   |-> <<"[]", "slice", <<>>, <<"PI">>>>,
   S   |-> <<"s", "string", <<>>, <<>>>>]

MCDescs == DOMAIN Types
MCName == [d \in MCDescs |-> Types[d][1]]
MCKind == [d \in MCDescs |-> Types[d][2]]
MCFields == [d \in MCDescs |-> Types[d][3]]
MCKids == [d \in MCDescs |-> Types[d][4]]

MCTexts == {"n", "x"}

(* Hashes that collide, so that probing, growth and wrap-around happen. *)
MCStrings ==
  {MCName[d] : d \in MCDescs} \cup MCTexts
  \cup UNION {{MCFields[d][i] : i \in DOMAIN MCFields[d]} : d \in MCDescs}

MCHash ==
  [s \in MCStrings |-> CASE s \in {"T", "p", "*T"} -> 3
                         [] s \in {"n", "s", "R", "map"} -> 7
                         [] s \in {"x", "any", "m"} -> 6
                         [] OTHER -> 1]

MCRoots == {"R", "Q"}
MCDyn == {"T2", "T3", "S"}
MCDrops == {{}, {<<"R", "p">>}, {<<"R", "q">>, <<"T", "p">>}, {<<"Q", "i">>, <<"Q", "n">>}}
=============================================================================
