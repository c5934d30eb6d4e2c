--------------------------- MODULE MCDecodeSession ---------------------------
(***************************************************************************)
(* DecodeSession on a stream of a plain value, a coder's value that holds  *)
(* a plain value and another coder's value, and a coder's value that holds *)
(* nothing.                                                                *)
(***************************************************************************)
EXTENDS DecodeSession

Plain == [kind |-> "plain"]
Body == [kind |-> "body"]
Coded(c, n) == [kind |-> "desc", coder |-> c, subs |-> n]

MCNames == {"A", "B"}

MCStream ==
  <<Plain, Body,
    Coded("A", 2), Plain, Body, Coded("B", 1), Plain, Body,
    Coded("B", 0)>>

(* The units make up the values meant. *)
ASSUME MCStreamAssumption == NumValues = 3
=============================================================================
