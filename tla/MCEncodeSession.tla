-------------------------- MODULE MCEncodeSession --------------------------
(***************************************************************************)
(* EncodeSession with coders of two types and two sets of budgets, the     *)
(* tighter one so small that a value of three bodies is over each of them. *)
(***************************************************************************)
EXTENDS EncodeSession

MCLimits ==
  {[bytes |-> 6, nodes |-> 4, depth |-> 3], [bytes |-> 11, nodes |-> 7, depth |-> 5]}
=============================================================================
