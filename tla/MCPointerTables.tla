-------------------------- MODULE MCPointerTables --------------------------
(***************************************************************************)
(* PointerTables with two addresses for three objects, so that an address  *)
(* is given away twice, and sweeps at every second insert.                 *)
(***************************************************************************)
EXTENDS PointerTables

Swaps == Permutations(Addrs)
=============================================================================
