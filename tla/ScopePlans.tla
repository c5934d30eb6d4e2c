----------------------------- MODULE ScopePlans -----------------------------
(***************************************************************************)
(* The registrations of Encoders and the plan cache they share.  A plan is *)
(* what an encoder knows of a type: which of its parts leave the grammar   *)
(* for a coder, and the descriptor it travels under.  It is built from the *)
(* coders and the wire names of one encoder and cached for the process     *)
(* under the type and that encoder's scope epoch, a number taken from one  *)
(* counter at every registration.  Encoders run in parallel; a map with    *)
(* tied keys is ordered by marshalling its values with an encoder from a   *)
(* pool that inherits the coders and the epoch; coders run in the middle   *)
(* of a value and may register on the encoder they are handed.             *)
(*                                                                         *)
(* A value is the types it is made of, in any order: an interface in it    *)
(* may hold any type.                                                      *)
(***************************************************************************)
EXTENDS Integers, Sequences

CONSTANTS
  Streams,   \* the Encoders, each used by one goroutine at a time
  Pool,      \* the encoders of encoderPool
  Types,
  Child,     \* the types a type is made of
  Codable,   \* the types coders are written for
  WireNames, \* the names RegisterAs is given
  Bindable,  \* the types it is given them for
  Reservable,\* the names RegisterReserved is given
  Lead,      \* the encoders that bind and reserve names and marshal on the
             \* side (bounds the run)
  NoType,    \* no wire name, no coder map, no encoder
  MaxEpoch   \* registrations in all (bounds the run)

ASSUME ScopeAssumption ==
  /\ Child \in [Types -> SUBSET Types]
  /\ Codable \subseteq Types
  /\ Bindable \subseteq Types
  /\ Reservable \subseteq Types \cup WireNames
  /\ Lead \subseteq Streams \cup Pool
  /\ Streams \cap Pool = {}
  /\ NoType \notin Types \cup WireNames \cup Streams \cup Pool \cup Nat
  /\ MaxEpoch \in Nat

Encoders == Streams \cup Pool

(* nameOf: the name a type has by itself is named like the type. *)
Names == Types \cup WireNames

Epochs == 0..MaxEpoch

VARIABLES
  registryEpoch,
  plans,      \* planRegistry.m
  maps,       \* the coder maps made, named by their first epoch
  coders,     \* codecEncoder.coders: a map, or NoType
  asName,     \* codecEncoder.asName
  scopeEpoch,
  types,      \* codecEncoder.types: the descriptors in the stream
  reserved,   \* Encoder.reserved
  reservedOK, \* Encoder.reservedOK
  at,         \* where an encoder is
  run,        \* the coders that run, innermost last: activeCodrs
  src,        \* the encoder a pooled one marshals for
  meddled     \* maps changed under an encoder that was not asked

scope == <<coders, asName, scopeEpoch>>
facade == <<reserved, reservedOK>>
vars == <<registryEpoch, plans, maps, coders, asName, scopeEpoch, types,
          reserved, reservedOK, at, run, src, meddled>>

NoPlan == [descOk |-> FALSE, coder |-> <<>>, name |-> <<>>]
NoDesc == [coded |-> {}, name |-> <<>>]

Init ==
  /\ registryEpoch = 0
  /\ plans = [k \in Types \X Epochs |-> NoPlan]
  /\ maps = [m \in Epochs |-> {}]
  /\ coders = [x \in Encoders |-> NoType]
  /\ asName = [x \in Encoders |-> [t \in Types |-> NoType]]
  /\ scopeEpoch = [x \in Encoders |-> 0]
  /\ types = [x \in Encoders |-> [t \in Types |-> NoDesc]]
  /\ reserved = [x \in Encoders |-> {}]
  /\ reservedOK = [x \in Encoders |-> {}]
  /\ at = [x \in Encoders |-> IF x \in Streams THEN "idle" ELSE "pool"]
  /\ run = [x \in Encoders |-> <<>>]
  /\ src = [x \in Encoders |-> NoType]
  /\ meddled = {}

-----------------------------------------------------------------------------
(* Types under a scope.                                                    *)

(* The types met in a walk of t that stops at the types in leaves.         *)
Parts(t, leaves) ==
  {u \in Types :
     \A S \in SUBSET Types :
       t \in S /\ (\A v \in S \ leaves : Child[v] \subseteq S) => u \in S}

CoderTypes(x) == IF coders[x] = NoType THEN {} ELSE maps[coders[x]]

scopeName(x, t) == IF asName[x][t] = NoType THEN t ELSE asName[x][t]

(* A recursive type meets its own unfinished plan. *)
Acyclic(parts, leaves) ==
  \A u \in parts \ leaves : \A v \in Child[u] : u \notin Parts(v, leaves)

(* The plan of t under x's scope.  Its descriptor is kept when no part of  *)
(* it carries a per-stream coder tag.                                      *)
buildTypePlan(x, t) ==
  LET leaves == CoderTypes(x)
      parts  == Parts(t, leaves)
  IN [descOk |-> parts \cap leaves = {} /\ Acyclic(parts, leaves),
      coder  |-> [u \in parts |-> IF u \in leaves THEN coders[x] ELSE NoType],
      name   |-> [u \in parts |-> scopeName(x, u)]]

(* planFor: what the cache has under x's epoch, or the plan x builds.      *)
planFor(x, t) ==
  LET cached == plans[<<t, scopeEpoch[x]>>]
  IN IF cached # NoPlan THEN cached ELSE buildTypePlan(x, t)

(* The cache once x has asked for the plans of ts. *)
Planned(x, ts) ==
  [k \in Types \X Epochs |->
     IF k[1] \in ts /\ k[2] = scopeEpoch[x] THEN planFor(x, k[1]) ELSE plans[k]]

(* coderFor(t) # nil *)
Coded(x) == {t \in Types : planFor(x, t).coder[t] # NoType}

(* What writeDescOf writes for t: the plan's descriptor, or a walk of its  *)
(* own in which every type is asked for its coder.                         *)
DescOf(x, t) ==
  IF planFor(x, t).descOk
    THEN [coded |-> {}, name |-> planFor(x, t).name]
    ELSE LET parts == Parts(t, Coded(x))
         IN [coded |-> parts \cap Coded(x), name |-> [u \in parts |-> scopeName(x, u)]]

(* The plans writeDescOf asks for. *)
DescPlans(x, t) ==
  {t} \cup IF planFor(x, t).descOk THEN {} ELSE Parts(t, Coded(x))

(* WriteDesc, descEqual: a name that has gone to a different structure in  *)
(* this stream.                                                            *)
Claimed(x, d) ==
  \E t \in Types : \E u \in DOMAIN types[x][t].name \cap DOMAIN d.name :
    LET claim == types[x][t]
    IN /\ claim.name[u] = d.name[u]
       /\ \E v \in Parts(u, d.coded) :
            \/ v \notin DOMAIN claim.name
            \/ claim.name[v] # d.name[v]
            \/ (v \in claim.coded) # (v \in d.coded)

(* A descriptor is written once per stream, then referred to.  A name that *)
(* is claimed fails the value, and a stream that failed does nothing more. *)
writeDescOf(x, t) ==
  IF types[x][t] # NoDesc
    THEN UNCHANGED <<types, plans>>
    ELSE /\ ~Claimed(x, DescOf(x, t))
         /\ types' = [types EXCEPT ![x][t] = DescOf(x, t)]
         /\ plans' = Planned(x, DescPlans(x, t))

-----------------------------------------------------------------------------
(* Encoding.                                                               *)

(* The names of t's graph that x has reserved: gateReserved's scan.        *)
ReservedNames(x, t) ==
  {scopeName(x, u) : u \in Parts(t, CoderTypes(x))} \cap reserved[x]

(* Encode, by the caller or by a coder that runs: the gate, the scan's     *)
(* plan of the root, and its descriptor.                                   *)
Encode(x, t) ==
  /\ at[x] \in {"idle", "coder"}
  /\ \/ reserved[x] = {} /\ UNCHANGED reservedOK
     \/ reserved[x] # {} /\ t \in reservedOK[x] /\ UNCHANGED reservedOK
     \/ /\ reserved[x] # {} /\ t \notin reservedOK[x]
        /\ ReservedNames(x, t) = {}
        /\ reservedOK' = [reservedOK EXCEPT ![x] = @ \cup {t}]
  /\ writeDescOf(x, t)
  /\ at' = [at EXCEPT ![x] = "value"]
  /\ UNCHANGED <<registryEpoch, maps, scope, reserved, run, src, meddled>>

(* A part of the value: its plan is asked for by the scan or for its body, *)
(* and a coder runs unless it runs already.                                *)
encodeBody(x, t) ==
  /\ at[x] = "value"
  /\ plans' = Planned(x, {t})
  /\ IF planFor(x, t).coder[t] = NoType
       THEN UNCHANGED <<at, run>>
       ELSE /\ \A i \in 1..Len(run[x]) : run[x][i] # t
            /\ at' = [at EXCEPT ![x] = "coder"]
            /\ run' = [run EXCEPT ![x] = Append(@, t)]
  /\ UNCHANGED <<registryEpoch, maps, scope, types, facade, src, meddled>>

(* What an interface holds travels with its own descriptor.                *)
encodeInterface(x, t) ==
  /\ at[x] = "value"
  /\ writeDescOf(x, t)
  /\ UNCHANGED <<registryEpoch, maps, scope, facade, at, run, src, meddled>>

(* The pooled encoder keeps its epoch: what it was, or the initial one.    *)
ResetForPoolEpochKept(p, s) ==
  /\ coders' = [coders EXCEPT ![p] = IF s = NoType THEN NoType ELSE coders[s]]
  /\ UNCHANGED scopeEpoch
  /\ asName' = [asName EXCEPT ![p] = [t \in Types |-> NoType]]
  /\ types' = [types EXCEPT ![p] = [t \in Types |-> NoDesc]]
  /\ reserved' = [reserved EXCEPT ![p] = {}]
  /\ reservedOK' = [reservedOK EXCEPT ![p] = {}]
  /\ run' = [run EXCEPT ![p] = <<>>]
  /\ src' = [src EXCEPT ![p] = s]

(* resetForPool: a fresh stream with the coders and the epoch of s, but    *)
(* without its wire names.                                                 *)
resetForPool(p, s) ==
  /\ coders' = [coders EXCEPT ![p] = IF s = NoType THEN NoType ELSE coders[s]]
  /\ scopeEpoch' = [scopeEpoch EXCEPT ![p] = IF s = NoType THEN 0 ELSE scopeEpoch[s]]
  /\ asName' = [asName EXCEPT ![p] = [t \in Types |-> NoType]]
  /\ types' = [types EXCEPT ![p] = [t \in Types |-> NoDesc]]
  /\ reserved' = [reserved EXCEPT ![p] = {}]
  /\ reservedOK' = [reservedOK EXCEPT ![p] = {}]
  /\ run' = [run EXCEPT ![p] = <<>>]
  /\ src' = [src EXCEPT ![p] = s]

(* The values of tied map keys are marshalled on the side. *)
codecMarshalScoped(x, p) ==
  /\ at[x] = "value" /\ at[p] = "pool"
  /\ resetForPool(p, x)
  /\ at' = [at EXCEPT ![x] = "waiting", ![p] = "root"]
  /\ UNCHANGED <<registryEpoch, plans, maps, meddled>>

(* Marshal, the stateless call. *)
codecMarshal(p) ==
  /\ at[p] = "pool"
  /\ resetForPool(p, NoType)
  /\ at' = [at EXCEPT ![p] = "root"]
  /\ UNCHANGED <<registryEpoch, plans, maps, meddled>>

encodeRoot(p, t) ==
  /\ at[p] = "root"
  /\ writeDescOf(p, t)
  /\ at' = [at EXCEPT ![p] = "value"]
  /\ UNCHANGED <<registryEpoch, maps, scope, facade, run, src, meddled>>

(* The value is complete: for the coder that asked for it, the caller, or  *)
(* the encoder that waits for its bytes.                                   *)
EndOfValue(x) ==
  /\ at[x] = "value"
  /\ at' = IF run[x] # <<>> THEN [at EXCEPT ![x] = "coder"]
           ELSE IF x \in Streams THEN [at EXCEPT ![x] = "idle"]
           ELSE IF src[x] = NoType THEN [at EXCEPT ![x] = "pool"]
           ELSE [at EXCEPT ![x] = "pool", ![src[x]] = "value"]
  /\ UNCHANGED <<registryEpoch, plans, maps, scope, types, facade, run, src, meddled>>

CoderReturns(x) ==
  /\ at[x] = "coder"
  /\ at' = [at EXCEPT ![x] = "value"]
  /\ run' = [run EXCEPT ![x] = SubSeq(@, 1, Len(@) - 1)]
  /\ UNCHANGED <<registryEpoch, plans, maps, scope, types, facade, src, meddled>>

-----------------------------------------------------------------------------
(* Registrations, by the caller between two values or by a coder.          *)

CanRegister(x) == at[x] \in {"idle", "coder"}

(* The epoch counts the registrations of one encoder. *)
BumpOwnEpoch(x) ==
  /\ registryEpoch < MaxEpoch
  /\ registryEpoch' = registryEpoch + 1
  /\ scopeEpoch' = [scopeEpoch EXCEPT ![x] = @ + 1]

bumpScopeEpoch(x) ==
  /\ registryEpoch < MaxEpoch
  /\ registryEpoch' = registryEpoch + 1
  /\ scopeEpoch' = [scopeEpoch EXCEPT ![x] = registryEpoch + 1]

(* The map is changed in place, also for those it was inherited from.      *)
RegisterCoder(x, t) ==
  /\ CanRegister(x)
  /\ t \notin CoderTypes(x)
  /\ bumpScopeEpoch(x)
  /\ LET m == IF coders[x] = NoType THEN registryEpoch + 1 ELSE coders[x]
     IN /\ maps' = [maps EXCEPT ![m] = @ \cup {t}]
        /\ coders' = [coders EXCEPT ![x] = m]
        /\ meddled' = IF \E y \in Encoders \ {x} : at[y] # "pool" /\ coders[y] = m
                        THEN meddled \cup {m} ELSE meddled
  /\ UNCHANGED <<plans, asName, types, facade, at, run, src>>

(* A name for a type that has none, on a stream without a descriptor of it.*)
RegisterAs(x, n, t) ==
  /\ CanRegister(x)
  /\ asName[x][t] = NoType
  /\ n \notin reserved[x]
  /\ types[x][t] = NoDesc
  /\ \A u \in Types : asName[x][u] # n
  /\ asName' = [asName EXCEPT ![x][t] = n]
  /\ bumpScopeEpoch(x)
  /\ UNCHANGED <<plans, maps, coders, types, facade, at, run, src, meddled>>

(* The clean scans stay. *)
RegisterReservedOnly(x, n) ==
  /\ CanRegister(x)
  /\ n \notin reserved[x]
  /\ \A u \in Types : asName[x][u] # n
  /\ n \notin CoderTypes(x)
  /\ reserved' = [reserved EXCEPT ![x] = @ \cup {n}]
  /\ UNCHANGED <<registryEpoch, plans, maps, scope, types, reservedOK, at, run, src, meddled>>

RegisterReserved(x, n) ==
  /\ CanRegister(x)
  /\ n \notin reserved[x]
  /\ \A u \in Types : asName[x][u] # n
  /\ n \notin CoderTypes(x)
  /\ reserved' = [reserved EXCEPT ![x] = @ \cup {n}]
  /\ reservedOK' = [reservedOK EXCEPT ![x] = {}]
  /\ UNCHANGED <<registryEpoch, plans, maps, scope, types, at, run, src, meddled>>

Next ==
  \/ \E x \in Encoders, t \in Types :
       Encode(x, t) \/ encodeBody(x, t) \/ encodeInterface(x, t) \/ encodeRoot(x, t)
  \/ \E x \in Lead, p \in Pool : codecMarshalScoped(x, p)
  \/ \E p \in Pool : codecMarshal(p)
  \/ \E x \in Encoders : EndOfValue(x) \/ CoderReturns(x)
  \/ \E x \in Encoders, t \in Codable : RegisterCoder(x, t)
  \/ \E x \in Lead, n \in WireNames, t \in Bindable : RegisterAs(x, n, t)
  \/ \E x \in Lead, n \in Reservable : RegisterReserved(x, n)

Spec == Init /\ [][Next]_vars

-----------------------------------------------------------------------------
IsNaming(f) == DOMAIN f \subseteq Types /\ \A u \in DOMAIN f : f[u] \in Names

IsPlan(pl) ==
  /\ pl.descOk \in BOOLEAN
  /\ \A u \in DOMAIN pl.coder : pl.coder[u] \in Epochs \cup {NoType}
  /\ DOMAIN pl.coder = DOMAIN pl.name
  /\ IsNaming(pl.name)

TypeOK ==
  /\ registryEpoch \in Epochs
  /\ DOMAIN plans = Types \X Epochs /\ \A k \in DOMAIN plans : IsPlan(plans[k])
  /\ maps \in [Epochs -> SUBSET Types]
  /\ coders \in [Encoders -> Epochs \cup {NoType}]
  /\ asName \in [Encoders -> [Types -> WireNames \cup {NoType}]]
  /\ scopeEpoch \in [Encoders -> Epochs]
  /\ DOMAIN types = Encoders
  /\ \A x \in Encoders :
       /\ DOMAIN types[x] = Types
       /\ \A t \in Types : types[x][t].coded \subseteq Types /\ IsNaming(types[x][t].name)
  /\ reserved \in [Encoders -> SUBSET Names]
  /\ reservedOK \in [Encoders -> SUBSET Types]
  /\ at \in [Encoders -> {"idle", "pool", "root", "value", "coder", "waiting"}]
  /\ run \in [Encoders -> Seq(Types)]
  /\ src \in [Encoders -> Encoders \cup {NoType}]
  /\ meddled \subseteq Epochs

-----------------------------------------------------------------------------
(* Safety.                                                                 *)

Live(x) == at[x] # "pool"

(* Scopes do not leak: what the cache holds under an encoder's epoch names *)
(* that encoder's coders only, and an Encoder's descriptors name a type by *)
(* its own name or by the one this Encoder bound to it.                    *)
ScopesIsolated ==
  /\ \A x \in Encoders, t \in Types :
       Live(x) =>
         LET pl == plans[<<t, scopeEpoch[x]>>]
         IN \A u \in DOMAIN pl.coder : pl.coder[u] \in {NoType, coders[x]}
  /\ \A x \in Streams, t \in Types :
       \A u \in DOMAIN types[x][t].name : types[x][t].name[u] \in {u, asName[x][u]}

(* A cached plan is exact for the coders of every encoder that would use   *)
(* it, however registrations, sub-marshals and other Encoders interleave,  *)
(* unless a coder registered on a pooled encoder, whose map is that of the *)
(* encoder it marshals for.                                                *)
CoderScopeExact ==
  \A x \in Encoders, t \in Types :
    LET pl == plans[<<t, scopeEpoch[x]>>]
    IN Live(x) /\ coders[x] \notin meddled /\ pl # NoPlan =>
         pl.coder = buildTypePlan(x, t).coder

(* The gate of reserved names lets a type pass whose scan was clean once:  *)
(* it still is, whatever was reserved, bound or registered since.          *)
ReservedGated ==
  \A x \in Encoders : \A t \in reservedOK[x] : ReservedNames(x, t) = {}
=============================================================================
