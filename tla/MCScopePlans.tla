---------------------------- MODULE MCScopePlans ----------------------------
(***************************************************************************)
(* ScopePlans with two Encoders, a pooled encoder, and a struct type that  *)
(* has a field of another type.                                            *)
(***************************************************************************)
EXTENDS ScopePlans, TLC

CONSTANTS e1, e2, p1

MCTypes == {"S", "T"}

MCChild == ("S" :> {"T"}) @@ ("T" :> {})

(* An encoder in the pool is told from another one by nothing: its fields  *)
(* are set again before they are read.                                     *)
LiveView ==
  <<registryEpoch, plans, maps, meddled, at,
    [x \in {y \in Encoders : Live(y)} |->
       <<coders[x], asName[x], scopeEpoch[x], types[x], reserved[x],
         reservedOK[x], run[x], src[x]>>]>>
=============================================================================
