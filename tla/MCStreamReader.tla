--------------------------- MODULE MCStreamReader ---------------------------
(***************************************************************************)
(* StreamReader on two short streams: one that holds every token shape the *)
(* reader treats in a way of its own, with thresholds scaled down so that  *)
(* compaction, window growth and a direct read all happen inside it.       *)
(***************************************************************************)
EXTENDS StreamReader, Sequences

Tok(class, width, len) == [class |-> class, width |-> width, len |-> len]

(* A byte no token of this stream starts at. *)
Inner == Tok("other", 0, 0)

Body(n) == [i \in 1..n |-> Inner]

(* Concatenation of the tokens, offsets from 0. *)
AsInput(s) == [o \in 0..(Len(s) - 1) |-> s[o + 1]]

MCTokens ==
  <<Tok("ref", 1, 0)>> \o Body(1)
  \o <<Tok("other", 0, 7)>> \o Body(7)
  \o <<Tok("desc", 0, 0), Tok("string", 0, 1)>> \o Body(1)
  \o <<Tok("desc", 1, 0)>> \o Body(1) \o <<Tok("string", 1, 1)>> \o Body(2)
  \o <<Tok("ref", 0, 0)>>
  \o <<Tok("other", 1, 9)>> \o Body(10)
  \o <<Tok("ref", 1, 0)>> \o Body(1)

MCInput == AsInput(MCTokens)

MCInLen == Len(MCTokens)

(* A shorter stream, which ends in a record above the large-read threshold.*)
MCTailTokens ==
  <<Tok("other", 0, 2)>> \o Body(2)
  \o <<Tok("ref", 1, 0)>> \o Body(1)
  \o <<Tok("desc", 1, 0)>> \o Body(1) \o <<Tok("string", 1, 1)>> \o Body(2)
  \o <<Tok("other", 0, 9)>> \o Body(9)

MCTailInput == AsInput(MCTailTokens)

MCTailLen == Len(MCTailTokens)
=============================================================================
