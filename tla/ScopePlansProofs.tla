-------------------------- MODULE ScopePlansProofs --------------------------
(***************************************************************************)
(* Proofs about ScopePlans: scopes do not leak through the plan cache and  *)
(* cached plans are exact, for every set of types, Encoders, pooled        *)
(* encoders and names and every number of registrations.                   *)
(***************************************************************************)
EXTENDS ScopePlans, SequenceTheorems, TLAPS

-----------------------------------------------------------------------------
(* The inductive invariant.                                                *)

(* Nothing is ahead of the counter, and epoch 0 is the empty scope.        *)
Below ==
  /\ \A t \in Types, e \in Epochs : e > registryEpoch => plans[<<t, e>>] = NoPlan
  /\ \A x \in Encoders :
       /\ scopeEpoch[x] <= registryEpoch
       /\ coders[x] # NoType => coders[x] <= registryEpoch
       /\ scopeEpoch[x] = 0 =>
            coders[x] = NoType /\ \A t \in Types : asName[x][t] = NoType

(* An epoch stands for one coder map, and for the wire names of the one    *)
(* Encoder that has both.                                                  *)
EpochScopes ==
  /\ \A x, y \in Encoders : scopeEpoch[x] = scopeEpoch[y] => coders[x] = coders[y]
  /\ \A x \in Streams : \A y \in Encoders \ {x} :
       scopeEpoch[x] = scopeEpoch[y] => \A t \in Types : asName[y][t] = NoType

(* The plans of the empty scope. *)
BasePlans ==
  \A t \in Types :
    plans[<<t, 0>>] # NoPlan =>
      plans[<<t, 0>>].coder = [u \in Parts(t, {}) |-> NoType]

(* Plans name nothing of another scope. *)
PlanScopes ==
  \A t \in Types :
    /\ \A x \in Encoders : \A u \in DOMAIN plans[<<t, scopeEpoch[x]>>].coder :
         plans[<<t, scopeEpoch[x]>>].coder[u] \in {NoType, coders[x]}
    /\ \A x \in Streams : \A u \in DOMAIN plans[<<t, scopeEpoch[x]>>].name :
         plans[<<t, scopeEpoch[x]>>].name[u] \in {u, asName[x][u]}

(* The descriptors of an Encoder: the second half of ScopesIsolated. *)
DescScopes ==
  \A x \in Streams, t \in Types :
    \A u \in DOMAIN types[x][t].name : types[x][t].name[u] \in {u, asName[x][u]}

(* Whoever a pooled encoder marshals for waits for it, and for no other.   *)
Chain ==
  \A p \in Pool : Live(p) /\ src[p] # NoType =>
    /\ at[src[p]] = "waiting"
    /\ \A q \in Pool : Live(q) /\ src[q] = src[p] => q = p

IInv ==
  /\ TypeOK
  /\ Below
  /\ EpochScopes
  /\ BasePlans
  /\ PlanScopes
  /\ DescScopes
  /\ Chain
  /\ CoderScopeExact

(* TypeOK in three parts: a step disturbs few of them. *)
PlansOK == DOMAIN plans = Types \X Epochs /\ \A k \in DOMAIN plans : IsPlan(plans[k])

TypesOK ==
  /\ DOMAIN types = Encoders
  /\ \A x \in Encoders :
       /\ DOMAIN types[x] = Types
       /\ \A t \in Types : types[x][t].coded \subseteq Types /\ IsNaming(types[x][t].name)

RestOK ==
  /\ registryEpoch \in Epochs
  /\ maps \in [Epochs -> SUBSET Types]
  /\ coders \in [Encoders -> Epochs \cup {NoType}]
  /\ asName \in [Encoders -> [Types -> WireNames \cup {NoType}]]
  /\ scopeEpoch \in [Encoders -> Epochs]
  /\ reserved \in [Encoders -> SUBSET Names]
  /\ reservedOK \in [Encoders -> SUBSET Types]
  /\ at \in [Encoders -> {"idle", "pool", "root", "value", "coder", "waiting"}]
  /\ run \in [Encoders -> Seq(Types)]
  /\ src \in [Encoders -> Encoders \cup {NoType}]
  /\ meddled \subseteq Epochs

LEMMA TypeParts == TypeOK <=> PlansOK /\ TypesOK /\ RestOK
  BY DEF TypeOK, PlansOK, TypesOK, RestOK

-----------------------------------------------------------------------------
(* What the helpers return.                                                *)

LEMMA WalkFacts ==
  ASSUME NEW t \in Types, NEW leaves \in SUBSET Types
  PROVE  Parts(t, leaves) \subseteq Types /\ t \in Parts(t, leaves)
  BY DEF Parts

LEMMA NameFacts ==
  ASSUME TypeOK, NEW x \in Encoders, NEW u \in Types
  PROVE  scopeName(x, u) \in Names /\ scopeName(x, u) \in {u, asName[x][u]}
<1>1. asName[x][u] \in WireNames \cup {NoType}
  BY DEF TypeOK
<1>. QED
  BY <1>1 DEF scopeName, Names

LEMMA BuildFacts ==
  ASSUME TypeOK, NEW x \in Encoders, NEW t \in Types
  PROVE  /\ CoderTypes(x) \subseteq Types
         /\ IsPlan(buildTypePlan(x, t))
         /\ \A u \in DOMAIN buildTypePlan(x, t).coder :
              buildTypePlan(x, t).coder[u] \in {NoType, coders[x]}
         /\ \A u \in DOMAIN buildTypePlan(x, t).name :
              buildTypePlan(x, t).name[u] \in {u, asName[x][u]}
<1>1. CoderTypes(x) \subseteq Types
  BY DEF TypeOK, CoderTypes
<1> DEFINE parts == Parts(t, CoderTypes(x))
<1>2. parts \subseteq Types
  BY <1>1, WalkFacts
<1>3. buildTypePlan(x, t)
        = [descOk |-> parts \cap CoderTypes(x) = {} /\ Acyclic(parts, CoderTypes(x)),
           coder |-> [u \in parts |-> IF u \in CoderTypes(x) THEN coders[x] ELSE NoType],
           name |-> [u \in parts |-> scopeName(x, u)]]
  BY DEF buildTypePlan
<1> HIDE DEF parts
<1>4. coders[x] \in Epochs \cup {NoType}
  BY DEF TypeOK
<1>5. \A u \in parts : scopeName(x, u) \in Names /\ scopeName(x, u) \in {u, asName[x][u]}
  BY <1>2, NameFacts
<1>6. (parts \cap CoderTypes(x) = {} /\ Acyclic(parts, CoderTypes(x))) \in BOOLEAN
  OBVIOUS
<1>. QED
  BY <1>1, <1>2, <1>3, <1>4, <1>5, <1>6 DEF IsPlan, IsNaming

LEMMA PlanForFacts ==
  ASSUME IInv, NEW x \in Encoders, NEW t \in Types
  PROVE  /\ scopeEpoch[x] \in Epochs
         /\ IsPlan(planFor(x, t))
         /\ x \in Streams => \A u \in DOMAIN planFor(x, t).name :
              planFor(x, t).name[u] \in {u, asName[x][u]}
<1>1. scopeEpoch[x] \in Epochs
  BY DEF IInv, TypeOK
<1>2. IsPlan(plans[<<t, scopeEpoch[x]>>])
  BY <1>1 DEF IInv, TypeOK
<1>3. x \in Streams => \A u \in DOMAIN plans[<<t, scopeEpoch[x]>>].name :
        plans[<<t, scopeEpoch[x]>>].name[u] \in {u, asName[x][u]}
  BY DEF IInv, PlanScopes
<1>. QED
  BY <1>1, <1>2, <1>3, BuildFacts DEF planFor, IInv

(* A descriptor is well typed, and an Encoder's names are its own.         *)
LEMMA DescFacts ==
  ASSUME IInv, NEW x \in Encoders, NEW t \in Types
  PROVE  /\ DescOf(x, t).coded \subseteq Types
         /\ IsNaming(DescOf(x, t).name)
         /\ x \in Streams => \A u \in DOMAIN DescOf(x, t).name :
              DescOf(x, t).name[u] \in {u, asName[x][u]}
<1>1. CASE planFor(x, t).descOk
  <2>1. DescOf(x, t) = [coded |-> {}, name |-> planFor(x, t).name]
    BY <1>1 DEF DescOf
  <2>. QED
    BY <2>1, PlanForFacts DEF IsPlan
<1>2. CASE ~planFor(x, t).descOk
  <2> DEFINE parts == Parts(t, Coded(x))
  <2>1. Coded(x) \subseteq Types
    BY DEF Coded
  <2>2. parts \subseteq Types
    BY <2>1, WalkFacts
  <2>3. DescOf(x, t) = [coded |-> parts \cap Coded(x), name |-> [u \in parts |-> scopeName(x, u)]]
    BY <1>2 DEF DescOf
  <2>4. \A u \in parts : scopeName(x, u) \in Names /\ scopeName(x, u) \in {u, asName[x][u]}
    BY <2>2, NameFacts DEF IInv
  <2> HIDE DEF parts
  <2>. QED
    BY <2>2, <2>3, <2>4 DEF IsNaming
<1>. QED
  BY <1>1, <1>2

LEMMA DescPlansFacts ==
  ASSUME NEW x \in Encoders, NEW t \in Types
  PROVE  DescPlans(x, t) \subseteq Types
<1>1. Coded(x) \subseteq Types
  BY DEF Coded
<1>. QED
  BY <1>1, WalkFacts DEF DescPlans

-----------------------------------------------------------------------------
(* A step that only asks the cache for plans.                              *)

LEMMA PlannedEntries ==
  ASSUME IInv, NEW x \in Encoders, NEW ts \in SUBSET Types,
         plans' = plans \/ plans' = Planned(x, ts)
  PROVE  /\ DOMAIN plans' = Types \X Epochs
         /\ \A t \in Types, e \in Epochs :
              \/ plans'[<<t, e>>] = plans[<<t, e>>]
              \/ /\ e = scopeEpoch[x]
                 /\ plans[<<t, e>>] = NoPlan
                 /\ plans'[<<t, e>>] = buildTypePlan(x, t)
<1>1. DOMAIN plans = Types \X Epochs
  BY DEF IInv, TypeOK
<1>2. CASE plans' = plans
  BY <1>1, <1>2
<1>3. CASE plans' = Planned(x, ts)
  <2>1. plans' = [k \in Types \X Epochs |->
                    IF k[1] \in ts /\ k[2] = scopeEpoch[x] THEN planFor(x, k[1]) ELSE plans[k]]
    BY <1>3 DEF Planned
  <2>2. ASSUME NEW t \in Types, NEW e \in Epochs
        PROVE  \/ plans'[<<t, e>>] = plans[<<t, e>>]
               \/ /\ e = scopeEpoch[x]
                  /\ plans[<<t, e>>] = NoPlan
                  /\ plans'[<<t, e>>] = buildTypePlan(x, t)
    <3>1. plans'[<<t, e>>]
            = IF t \in ts /\ e = scopeEpoch[x] THEN planFor(x, t) ELSE plans[<<t, e>>]
      BY <2>1
    <3>2. planFor(x, t) = IF plans[<<t, scopeEpoch[x]>>] # NoPlan
                            THEN plans[<<t, scopeEpoch[x]>>] ELSE buildTypePlan(x, t)
      BY DEF planFor
    <3>. QED
      BY <3>1, <3>2
  <2>. QED
    BY <2>1, <2>2
<1>. QED
  BY <1>2, <1>3

LEMMA PlanStep ==
  ASSUME IInv, NEW x \in Encoders, Live(x), NEW ts \in SUBSET Types,
         plans' = plans \/ plans' = Planned(x, ts),
         UNCHANGED <<registryEpoch, maps, scope, meddled>>,
         \A y \in Encoders : Live(y)' => Live(y)
  PROVE  /\ DOMAIN plans' = Types \X Epochs
         /\ \A k \in DOMAIN plans' : IsPlan(plans'[k])
         /\ Below' /\ EpochScopes' /\ BasePlans' /\ PlanScopes' /\ CoderScopeExact'
<1>1. /\ DOMAIN plans' = Types \X Epochs
      /\ \A t \in Types, e \in Epochs :
           \/ plans'[<<t, e>>] = plans[<<t, e>>]
           \/ /\ e = scopeEpoch[x]
              /\ plans[<<t, e>>] = NoPlan
              /\ plans'[<<t, e>>] = buildTypePlan(x, t)
  BY PlannedEntries
<1>2. UNCHANGED <<registryEpoch, maps, coders, asName, scopeEpoch, meddled>>
  BY DEF scope
<1>3. /\ scopeEpoch \in [Encoders -> Epochs]
      /\ coders \in [Encoders -> Epochs \cup {NoType}]
      /\ registryEpoch \in Epochs
      /\ 0 \in Epochs /\ Epochs \subseteq Int
  BY ScopeAssumption DEF IInv, TypeOK, Epochs, ScopeAssumption
<1>4. \A t \in Types, e \in Epochs : IsPlan(plans[<<t, e>>])
  BY DEF IInv, TypeOK
<1>5. \A t \in Types, e \in Epochs : IsPlan(plans'[<<t, e>>])
  BY <1>1, <1>4, BuildFacts DEF IInv
<1>6. \A k \in DOMAIN plans' : IsPlan(plans'[k])
  BY <1>1, <1>5
<1>7. Below'
  BY <1>1, <1>2, <1>3 DEF IInv, Below
<1>8. EpochScopes'
  BY <1>2 DEF IInv, EpochScopes
<1>9. BasePlans'
  <2> SUFFICES ASSUME NEW t \in Types, plans'[<<t, 0>>] # NoPlan
               PROVE  plans'[<<t, 0>>].coder = [u \in Parts(t, {}) |-> NoType]
    BY DEF BasePlans
  <2>1. CASE plans'[<<t, 0>>] = plans[<<t, 0>>]
    BY <2>1 DEF IInv, BasePlans
  <2>2. CASE scopeEpoch[x] = 0 /\ plans'[<<t, 0>>] = buildTypePlan(x, t)
    <3>1. coders[x] = NoType
      BY <2>2 DEF IInv, Below
    <3>2. CoderTypes(x) = {}
      BY <3>1 DEF CoderTypes
    <3>. QED
      BY <2>2, <3>2 DEF buildTypePlan
  <2>. QED
    BY <1>1, <1>3, <2>1, <2>2
<1>10. PlanScopes'
  <2> SUFFICES ASSUME NEW t \in Types
               PROVE  /\ \A y \in Encoders : \A u \in DOMAIN plans'[<<t, scopeEpoch[y]>>].coder :
                           plans'[<<t, scopeEpoch[y]>>].coder[u] \in {NoType, coders[y]}
                      /\ \A y \in Streams : \A u \in DOMAIN plans'[<<t, scopeEpoch[y]>>].name :
                           plans'[<<t, scopeEpoch[y]>>].name[u] \in {u, asName[y][u]}
    BY <1>2 DEF PlanScopes
  <2>1. ASSUME NEW y \in Encoders
        PROVE  \A u \in DOMAIN plans'[<<t, scopeEpoch[y]>>].coder :
                 plans'[<<t, scopeEpoch[y]>>].coder[u] \in {NoType, coders[y]}
    <3>1. CASE plans'[<<t, scopeEpoch[y]>>] = plans[<<t, scopeEpoch[y]>>]
      BY <3>1 DEF IInv, PlanScopes
    <3>2. CASE scopeEpoch[y] = scopeEpoch[x] /\ plans'[<<t, scopeEpoch[y]>>] = buildTypePlan(x, t)
      <4>1. coders[y] = coders[x]
        BY <3>2 DEF IInv, EpochScopes
      <4>. QED
        BY <3>2, <4>1, BuildFacts DEF IInv
    <3>. QED
      BY <1>1, <1>3, <3>1, <3>2
  <2>2. ASSUME NEW y \in Streams
        PROVE  \A u \in DOMAIN plans'[<<t, scopeEpoch[y]>>].name :
                 plans'[<<t, scopeEpoch[y]>>].name[u] \in {u, asName[y][u]}
    <3>0. y \in Encoders
      BY DEF Encoders
    <3>1. CASE plans'[<<t, scopeEpoch[y]>>] = plans[<<t, scopeEpoch[y]>>]
      BY <3>1 DEF IInv, PlanScopes
    <3>2. CASE scopeEpoch[y] = scopeEpoch[x] /\ plans'[<<t, scopeEpoch[y]>>] = buildTypePlan(x, t)
      <4>1. CASE x = y
        BY <3>0, <3>2, <4>1, BuildFacts DEF IInv
      <4>2. CASE x # y
        <5>1. \A u \in Types : asName[x][u] = NoType
          BY <3>2, <4>2 DEF IInv, EpochScopes
        <5>2. \A u \in DOMAIN buildTypePlan(x, t).name :
                /\ u \in Types
                /\ buildTypePlan(x, t).name[u] \in Names
                /\ buildTypePlan(x, t).name[u] \in {u, asName[x][u]}
          BY BuildFacts DEF IInv, IsPlan, IsNaming
        <5>3. NoType \notin Names
          BY ScopeAssumption DEF ScopeAssumption, Names
        <5>. QED
          BY <3>2, <5>1, <5>2, <5>3
      <4>. QED
        BY <4>1, <4>2
    <3>. QED
      BY <1>1, <1>3, <3>0, <3>1, <3>2
  <2>. QED
    BY <2>1, <2>2
<1>11. CoderScopeExact'
  <2> SUFFICES ASSUME NEW y \in Encoders, NEW t \in Types,
                      Live(y), coders[y] \notin meddled,
                      plans'[<<t, scopeEpoch[y]>>] # NoPlan
               PROVE  plans'[<<t, scopeEpoch[y]>>].coder = buildTypePlan(y, t)'.coder
    BY <1>2 DEF CoderScopeExact
  <2>1. CoderTypes(y)' = CoderTypes(y)
    BY <1>2 DEF CoderTypes
  <2>2. buildTypePlan(y, t)'.coder = buildTypePlan(y, t).coder
    BY <1>2, <2>1 DEF buildTypePlan
  <2>3. CASE plans'[<<t, scopeEpoch[y]>>] = plans[<<t, scopeEpoch[y]>>]
    BY <2>2, <2>3 DEF IInv, CoderScopeExact
  <2>4. CASE scopeEpoch[y] = scopeEpoch[x] /\ plans'[<<t, scopeEpoch[y]>>] = buildTypePlan(x, t)
    <3>1. coders[y] = coders[x]
      BY <2>4 DEF IInv, EpochScopes
    <3>2. CoderTypes(y) = CoderTypes(x)
      BY <3>1 DEF CoderTypes
    <3>3. buildTypePlan(x, t).coder = buildTypePlan(y, t).coder
      BY <3>1, <3>2 DEF buildTypePlan
    <3>. QED
      BY <2>2, <2>4, <3>3
  <2>. QED
    BY <1>1, <1>3, <2>3, <2>4
<1>. QED
  BY <1>1, <1>6, <1>7, <1>8, <1>9, <1>10, <1>11

LEMMA WriteDescStep ==
  ASSUME IInv, NEW x \in Encoders, NEW t \in Types, writeDescOf(x, t), UNCHANGED asName
  PROVE  /\ \E ts \in SUBSET Types : plans' = plans \/ plans' = Planned(x, ts)
         /\ TypesOK'
         /\ DescScopes'
<1>1. CASE types[x][t] # NoDesc
  <2>1. UNCHANGED <<types, plans>>
    BY <1>1 DEF writeDescOf
  <2>. QED
    BY <2>1 DEF IInv, TypeOK, TypesOK, DescScopes
<1>2. CASE types[x][t] = NoDesc
  <2>1. /\ types' = [types EXCEPT ![x][t] = DescOf(x, t)]
        /\ plans' = Planned(x, DescPlans(x, t))
    BY <1>2 DEF writeDescOf
  <2>2. DescPlans(x, t) \in SUBSET Types
    BY DescPlansFacts
  <2>3. /\ DOMAIN types = Encoders
        /\ \A y \in Encoders : DOMAIN types[y] = Types
    BY DEF IInv, TypeOK
  <2>4. /\ DOMAIN types' = Encoders
        /\ \A y \in Encoders :
             /\ DOMAIN types'[y] = Types
             /\ \A u \in Types :
                  types'[y][u] = IF y = x /\ u = t THEN DescOf(x, t) ELSE types[y][u]
    BY <2>1, <2>3
  <2>5. TypesOK'
    BY <2>4, DescFacts DEF IInv, TypeOK, TypesOK
  <2>6. DescScopes'
    <3> SUFFICES ASSUME NEW y \in Streams, NEW u \in Types
                 PROVE  \A v \in DOMAIN types'[y][u].name : types'[y][u].name[v] \in {v, asName[y][v]}
      BY DEF DescScopes
    <3>1. y \in Encoders
      BY DEF Encoders
    <3>2. CASE y = x /\ u = t
      BY <2>4, <3>1, <3>2, DescFacts
    <3>3. CASE ~(y = x /\ u = t)
      BY <2>4, <3>1, <3>3 DEF IInv, DescScopes
    <3>. QED
      BY <3>2, <3>3
  <2>. QED
    BY <2>1, <2>2, <2>5, <2>6
<1>. QED
  BY <1>1, <1>2

-----------------------------------------------------------------------------
(* Every action keeps the invariant.                                       *)

LEMMA InitIInv == Init => IInv
<1> SUFFICES ASSUME Init PROVE IInv
  OBVIOUS
<1>1. 0 \in Epochs /\ Epochs \subseteq Int
  BY ScopeAssumption DEF ScopeAssumption, Epochs
<1>2. IsPlan(NoPlan) /\ NoDesc.coded \subseteq Types /\ IsNaming(NoDesc.name)
  BY DEF NoPlan, NoDesc, IsPlan, IsNaming
<1>3. PlansOK /\ TypesOK
  BY <1>2 DEF Init, PlansOK, TypesOK
<1>4. RestOK
  BY <1>1 DEF Init, RestOK
<1>5. TypeOK
  BY <1>3, <1>4, TypeParts
<1>6. \A t \in Types, e \in Epochs : plans[<<t, e>>] = NoPlan
  BY DEF Init
<1>7. Below /\ EpochScopes
  BY <1>1, <1>6 DEF Init, Below, EpochScopes, Encoders
<1>8. BasePlans /\ PlanScopes
  <2>1. BasePlans
    BY <1>1, <1>6 DEF BasePlans
  <2>2. DOMAIN NoPlan.coder = {} /\ DOMAIN NoPlan.name = {}
    BY DEF NoPlan
  <2>3. \A x \in Encoders : scopeEpoch[x] \in Epochs
    BY <1>1 DEF Init
  <2>4. Streams \subseteq Encoders
    BY DEF Encoders
  <2>5. PlanScopes
    BY <1>6, <2>2, <2>3, <2>4 DEF PlanScopes
  <2>. QED
    BY <2>1, <2>5
<1>9. DescScopes
  BY DEF Init, DescScopes, NoDesc, Encoders
<1>10. Chain /\ CoderScopeExact
  BY <1>1, <1>6 DEF Init, Chain, Live, CoderScopeExact, Encoders
<1>. QED
  BY <1>5, <1>7, <1>8, <1>9, <1>10 DEF IInv

(* An encoder moves on by itself. *)
LEMMA MoveKeepsChain ==
  ASSUME IInv, NEW x \in Encoders, NEW to, at[x] \notin {"pool", "waiting"}, to # "pool",
         at' = [at EXCEPT ![x] = to], UNCHANGED src
  PROVE  Chain' /\ (\A y \in Encoders : Live(y)' => Live(y))
<1>1. /\ at \in [Encoders -> {"idle", "pool", "root", "value", "coder", "waiting"}]
      /\ src \in [Encoders -> Encoders \cup {NoType}]
      /\ Pool \subseteq Encoders
  BY DEF IInv, TypeOK, Encoders
<1>2. \A y \in Encoders : at'[y] = IF y = x THEN to ELSE at[y]
  BY <1>1
<1>. QED
  BY <1>1, <1>2 DEF IInv, Chain, Live

(* A step of an encoder that asks for plans and may write a descriptor. *)
LEMMA AskStep ==
  ASSUME IInv, NEW x \in Encoders, NEW to \in {"value", "coder"},
         at[x] \notin {"pool", "waiting"},
         at' = [at EXCEPT ![x] = to] \/ at' = at,
         \E ts \in SUBSET Types : plans' = plans \/ plans' = Planned(x, ts),
         TypesOK', DescScopes',
         UNCHANGED <<registryEpoch, maps, scope, reserved, src, meddled>>,
         reservedOK' \in [Encoders -> SUBSET Types], run' \in [Encoders -> Seq(Types)]
  PROVE  IInv'
<1>1. PICK ts \in SUBSET Types : plans' = plans \/ plans' = Planned(x, ts)
  OBVIOUS
<1>2. Chain' /\ (\A y \in Encoders : Live(y)' => Live(y))
  <2>1. CASE at' = [at EXCEPT ![x] = to]
    BY <2>1, MoveKeepsChain
  <2>2. CASE at' = at
    BY <2>2 DEF IInv, Chain, Live
  <2>. QED
    BY <2>1, <2>2
<1>3. /\ PlansOK'
      /\ Below' /\ EpochScopes' /\ BasePlans' /\ PlanScopes' /\ CoderScopeExact'
  BY <1>1, <1>2, PlanStep DEF PlansOK, Live
<1>4. RestOK'
  <2>1. RestOK
    BY TypeParts DEF IInv
  <2>2. at' \in [Encoders -> {"idle", "pool", "root", "value", "coder", "waiting"}]
    BY <2>1 DEF RestOK
  <2>. QED
    BY <2>1, <2>2 DEF RestOK, scope
<1>5. TypeOK'
  BY <1>3, <1>4 DEF TypeOK, PlansOK, TypesOK, RestOK
<1>. QED
  BY <1>2, <1>3, <1>5 DEF IInv

LEMMA EncodeStep ==
  ASSUME IInv, NEW x \in Encoders, NEW t \in Types,
         Encode(x, t) \/ encodeInterface(x, t) \/ encodeRoot(x, t)
  PROVE  IInv'
<1>1. /\ writeDescOf(x, t)
      /\ at[x] \notin {"pool", "waiting"}
      /\ at' = [at EXCEPT ![x] = "value"] \/ at' = at
      /\ UNCHANGED <<registryEpoch, maps, scope, reserved, src, meddled, run>>
  BY DEF Encode, encodeInterface, encodeRoot, facade
<1>2. reservedOK' \in [Encoders -> SUBSET Types]
  BY DEF IInv, TypeOK, Encode, encodeInterface, encodeRoot, facade
<1>3. run' \in [Encoders -> Seq(Types)]
  BY <1>1 DEF IInv, TypeOK
<1>4. UNCHANGED asName
  BY <1>1 DEF scope
<1>5. /\ \E ts \in SUBSET Types : plans' = plans \/ plans' = Planned(x, ts)
      /\ TypesOK' /\ DescScopes'
  BY <1>1, <1>4, WriteDescStep
<1>. QED
  BY <1>1, <1>2, <1>3, <1>5, AskStep

LEMMA BodyStep ==
  ASSUME IInv, NEW x \in Encoders, NEW t \in Types, encodeBody(x, t)
  PROVE  IInv'
<1>1. /\ plans' = Planned(x, {t})
      /\ at[x] \notin {"pool", "waiting"}
      /\ at' = [at EXCEPT ![x] = "coder"] \/ at' = at
      /\ run' = run \/ run' = [run EXCEPT ![x] = Append(@, t)]
      /\ UNCHANGED <<registryEpoch, maps, scope, types, reserved, reservedOK, src, meddled>>
  BY DEF encodeBody, facade
<1>2. run' \in [Encoders -> Seq(Types)]
  <2>1. run \in [Encoders -> Seq(Types)]
    BY DEF IInv, TypeOK
  <2>2. Append(run[x], t) \in Seq(Types)
    BY <2>1
  <2>. QED
    BY <1>1, <2>1, <2>2
<1>3. TypesOK' /\ DescScopes'
  BY <1>1 DEF IInv, TypeOK, TypesOK, DescScopes, scope
<1>4. reservedOK' \in [Encoders -> SUBSET Types]
  BY <1>1 DEF IInv, TypeOK
<1>5. {t} \in SUBSET Types
  OBVIOUS
<1>. QED
  BY <1>1, <1>2, <1>3, <1>4, <1>5, AskStep

(* Nothing of a scope changes. *)
LEMMA QuietStep ==
  ASSUME IInv, RestOK', Chain', \A y \in Encoders : Live(y)' => Live(y),
         UNCHANGED <<registryEpoch, plans, maps, scope, types, meddled>>
  PROVE  IInv'
<1>1. UNCHANGED <<registryEpoch, plans, maps, coders, asName, scopeEpoch, types, meddled>>
  BY DEF scope
<1>2. TypeOK'
  BY <1>1 DEF IInv, TypeOK, RestOK
<1>3. Below' /\ EpochScopes' /\ BasePlans' /\ PlanScopes' /\ DescScopes'
  BY <1>1 DEF IInv, Below, EpochScopes, BasePlans, PlanScopes, DescScopes
<1>4. \A x \in Encoders, t \in Types : buildTypePlan(x, t)'.coder = buildTypePlan(x, t).coder
  BY <1>1 DEF buildTypePlan, CoderTypes
<1>5. CoderScopeExact'
  BY <1>1, <1>4 DEF IInv, CoderScopeExact
<1>. QED
  BY <1>2, <1>3, <1>5 DEF IInv

LEMMA EndStep ==
  ASSUME IInv, NEW x \in Encoders, EndOfValue(x)
  PROVE  IInv'
<1>1. /\ at \in [Encoders -> {"idle", "pool", "root", "value", "coder", "waiting"}]
      /\ src \in [Encoders -> Encoders \cup {NoType}]
      /\ Pool \subseteq Encoders /\ Streams \subseteq Encoders
      /\ NoType \notin Encoders /\ Encoders = Streams \cup Pool
  BY ScopeAssumption DEF IInv, TypeOK, Encoders, ScopeAssumption
<1>2. /\ at[x] = "value"
      /\ at' = IF run[x] # <<>> THEN [at EXCEPT ![x] = "coder"]
               ELSE IF x \in Streams THEN [at EXCEPT ![x] = "idle"]
               ELSE IF src[x] = NoType THEN [at EXCEPT ![x] = "pool"]
               ELSE [at EXCEPT ![x] = "pool", ![src[x]] = "value"]
      /\ UNCHANGED <<registryEpoch, plans, maps, scope, types, facade, run, src, meddled>>
  BY DEF EndOfValue
<1>3. Chain' /\ (\A y \in Encoders : Live(y)' => Live(y))
  <2>1. CASE run[x] # <<>>
    BY <1>2, <2>1, MoveKeepsChain
  <2>2. CASE run[x] = <<>> /\ x \in Streams
    BY <1>2, <2>2, MoveKeepsChain
  <2>3. CASE run[x] = <<>> /\ x \notin Streams /\ src[x] = NoType
    <3>1. \A y \in Encoders : at'[y] = IF y = x THEN "pool" ELSE at[y]
      BY <1>1, <1>2, <2>3
    <3>. QED
      BY <1>1, <1>2, <3>1 DEF IInv, Chain, Live
  <2>4. CASE run[x] = <<>> /\ x \notin Streams /\ src[x] # NoType
    <3>1. x \in Pool /\ src[x] \in Encoders /\ at[src[x]] = "waiting"
      BY <1>1, <1>2, <2>4 DEF IInv, Chain, Live
    <3>2. src[x] # x
      BY <1>2, <3>1
    <3>3. \A y \in Encoders :
            at'[y] = IF y = src[x] THEN "value" ELSE IF y = x THEN "pool" ELSE at[y]
      BY <1>1, <1>2, <2>4, <3>1
    <3>4. \A y \in Encoders : Live(y)' => Live(y)
      BY <3>1, <3>3 DEF Live
    <3>5. Chain'
      <4> SUFFICES ASSUME NEW p \in Pool, Live(p)', src[p] # NoType
                   PROVE  /\ at'[src[p]] = "waiting"
                          /\ \A q \in Pool : Live(q)' /\ src[q] = src[p] => q = p
        BY <1>2 DEF Chain
      <4>1. p # x
        BY <3>2, <3>3, <1>1 DEF Live
      <4>2. Live(p) /\ Live(x)
        BY <1>1, <1>2, <3>4 DEF Live
      <4>3. at[src[p]] = "waiting" /\ \A q \in Pool : Live(q) /\ src[q] = src[p] => q = p
        BY <4>2 DEF IInv, Chain
      <4>4. src[p] # src[x]
        BY <3>1, <4>1, <4>2, <4>3
      <4>5. src[p] \in Encoders /\ src[p] # x
        BY <1>1, <1>2, <4>3
      <4>. QED
        BY <1>1, <3>3, <3>4, <4>3, <4>4, <4>5
    <3>. QED
      BY <3>4, <3>5
  <2>. QED
    BY <2>1, <2>2, <2>3, <2>4
<1>4. RestOK'
  <2>1. at' \in [Encoders -> {"idle", "pool", "root", "value", "coder", "waiting"}]
    BY <1>1, <1>2
  <2>2. RestOK
    BY TypeParts DEF IInv
  <2>. QED
    BY <1>2, <2>1, <2>2 DEF RestOK, scope, facade
<1>. QED
  BY <1>2, <1>3, <1>4, QuietStep

LEMMA ReturnStep ==
  ASSUME IInv, NEW x \in Encoders, CoderReturns(x)
  PROVE  IInv'
<1>1. RestOK
  BY TypeParts DEF IInv
<1>2. Chain' /\ (\A y \in Encoders : Live(y)' => Live(y))
  BY MoveKeepsChain DEF CoderReturns
<1>3. run[x] \in Seq(Types)
  BY <1>1 DEF RestOK
<1>4. SubSeq(run[x], 1, Len(run[x]) - 1) \in Seq(Types)
  <2>1. \A i \in 1..(Len(run[x]) - 1) : run[x][i] \in Types
    BY <1>3
  <2>. QED
    BY <1>3, <2>1, SubSeqProperties
<1>5. RestOK'
  BY <1>1, <1>4 DEF RestOK, CoderReturns, scope, facade
<1>. QED
  BY <1>2, <1>5, QuietStep DEF CoderReturns

LEMMA ReserveStep ==
  ASSUME IInv, NEW x \in Encoders, NEW n \in Reservable, RegisterReserved(x, n)
  PROVE  IInv'
<1>1. RestOK
  BY TypeParts DEF IInv
<1>2. n \in Names
  BY ScopeAssumption DEF ScopeAssumption, Names
<1>3. RestOK'
  BY <1>1, <1>2 DEF RestOK, RegisterReserved, scope
<1>4. Chain' /\ (\A y \in Encoders : Live(y)' => Live(y))
  BY DEF RegisterReserved, IInv, Chain, Live
<1>. QED
  BY <1>3, <1>4, QuietStep DEF RegisterReserved

(* A pooled encoder takes over the scope of s, or the empty one. *)
LEMMA ResetStep ==
  ASSUME IInv, NEW p \in Pool, NEW s \in Encoders \cup {NoType}, at[p] = "pool",
         resetForPool(p, s), s # NoType => at[s] = "value",
         at' = IF s = NoType THEN [at EXCEPT ![p] = "root"]
               ELSE [at EXCEPT ![s] = "waiting", ![p] = "root"],
         UNCHANGED <<registryEpoch, plans, maps, meddled>>
  PROVE  IInv'
<1>1. RestOK /\ TypesOK /\ PlansOK
  BY TypeParts DEF IInv
<1>2. /\ p \in Encoders /\ p \notin Streams /\ Streams \subseteq Encoders /\ Pool \subseteq Encoders
      /\ NoType \notin Encoders /\ s # p /\ 0 \in Epochs
  BY ScopeAssumption DEF Encoders, ScopeAssumption, Epochs
<1>3. \A y \in Encoders :
        /\ coders'[y] = IF y # p THEN coders[y] ELSE IF s = NoType THEN NoType ELSE coders[s]
        /\ scopeEpoch'[y] = IF y # p THEN scopeEpoch[y] ELSE IF s = NoType THEN 0 ELSE scopeEpoch[s]
        /\ asName'[y] = IF y # p THEN asName[y] ELSE [t \in Types |-> NoType]
        /\ types'[y] = IF y # p THEN types[y] ELSE [t \in Types |-> NoDesc]
        /\ src'[y] = IF y # p THEN src[y] ELSE s
  BY <1>1, <1>2 DEF resetForPool, RestOK, TypesOK
<1>4. \A y \in Encoders :
        at'[y] = IF y = p THEN "root" ELSE IF y = s THEN "waiting" ELSE at[y]
  BY <1>1, <1>2 DEF RestOK
<1>5. TypeOK'
  <2>1. IsNaming(NoDesc.name) /\ NoDesc.coded \subseteq Types
    BY DEF NoDesc, IsNaming
  <2>2. TypesOK'
    <3>1. DOMAIN types' = Encoders
      BY <1>1 DEF resetForPool, TypesOK
    <3>. QED
      BY <1>1, <1>3, <2>1, <3>1 DEF TypesOK
  <2>3. PlansOK'
    BY <1>1 DEF PlansOK
  <2>4. coders' \in [Encoders -> Epochs \cup {NoType}] /\ scopeEpoch' \in [Encoders -> Epochs]
    BY <1>1, <1>2 DEF RestOK, resetForPool
  <2>5. asName' \in [Encoders -> [Types -> WireNames \cup {NoType}]]
    BY <1>1 DEF RestOK, resetForPool
  <2>6. reserved' \in [Encoders -> SUBSET Names] /\ reservedOK' \in [Encoders -> SUBSET Types]
    BY <1>1 DEF RestOK, resetForPool
  <2>7. run' \in [Encoders -> Seq(Types)] /\ src' \in [Encoders -> Encoders \cup {NoType}]
    <3>1. <<>> \in Seq(Types)
      OBVIOUS
    <3>2. run \in [Encoders -> Seq(Types)] /\ run' = [run EXCEPT ![p] = <<>>]
      BY <1>1 DEF RestOK, resetForPool
    <3>3. run' \in [Encoders -> Seq(Types)]
      BY <3>1, <3>2
    <3>4. src' \in [Encoders -> Encoders \cup {NoType}]
      BY <1>1 DEF RestOK, resetForPool
    <3>. QED
      BY <3>3, <3>4
  <2>8. at' \in [Encoders -> {"idle", "pool", "root", "value", "coder", "waiting"}]
    BY <1>1, <1>2 DEF RestOK
  <2>9. RestOK'
    BY <1>1, <2>4, <2>5, <2>6, <2>7, <2>8 DEF RestOK
  <2>. QED
    BY <2>2, <2>3, <2>9 DEF TypeOK, PlansOK, TypesOK, RestOK
<1>6. Below'
  BY <1>1, <1>2, <1>3 DEF IInv, Below, RestOK, Epochs
<1>7. EpochScopes'
  <2>1. ASSUME NEW x \in Encoders, NEW y \in Encoders, scopeEpoch'[x] = scopeEpoch'[y]
        PROVE  coders'[x] = coders'[y]
    BY <1>3, <2>1 DEF IInv, EpochScopes, Below
  <2>2. ASSUME NEW x \in Streams, NEW y \in Encoders \ {x}, scopeEpoch'[x] = scopeEpoch'[y],
               NEW t \in Types
        PROVE  asName'[y][t] = NoType
    BY <1>2, <1>3, <2>2 DEF IInv, EpochScopes
  <2>. QED
    BY <2>1, <2>2 DEF EpochScopes
<1>8. BasePlans'
  BY DEF IInv, BasePlans
<1>9. \A t \in Types :
        \/ plans[<<t, 0>>] = NoPlan
        \/ plans[<<t, 0>>].coder = [u \in Parts(t, {}) |-> NoType]
  BY DEF IInv, BasePlans
<1>10. PlanScopes'
  <2>1. ASSUME NEW t \in Types, NEW x \in Encoders, NEW u \in DOMAIN plans[<<t, scopeEpoch'[x]>>].coder
        PROVE  plans[<<t, scopeEpoch'[x]>>].coder[u] \in {NoType, coders'[x]}
    <3>1. CASE x # p \/ s # NoType
      BY <1>3, <2>1, <3>1 DEF IInv, PlanScopes
    <3>2. CASE x = p /\ s = NoType
      <4>1. scopeEpoch'[x] = 0
        BY <1>3, <3>2
      <4>2. plans[<<t, 0>>] # NoPlan
        BY <2>1, <4>1 DEF NoPlan
      <4>. QED
        BY <1>9, <2>1, <4>1, <4>2
    <3>. QED
      BY <3>1, <3>2
  <2>2. ASSUME NEW t \in Types, NEW x \in Streams, NEW u \in DOMAIN plans[<<t, scopeEpoch'[x]>>].name
        PROVE  plans[<<t, scopeEpoch'[x]>>].name[u] \in {u, asName'[x][u]}
    BY <1>2, <1>3, <2>2 DEF IInv, PlanScopes
  <2>. QED
    BY <2>1, <2>2 DEF PlanScopes
<1>11. DescScopes'
  BY <1>2, <1>3 DEF IInv, DescScopes
<1>12. Chain'
  <2> SUFFICES ASSUME NEW r \in Pool, Live(r)', src'[r] # NoType
               PROVE  /\ at'[src'[r]] = "waiting"
                      /\ \A q \in Pool : Live(q)' /\ src'[q] = src'[r] => q = r
    BY DEF Chain
  <2>1. \A q \in Pool : Live(q)' /\ q # p => Live(q)
    BY <1>2, <1>4 DEF Live
  <2>2. \A q \in Pool : q # p /\ Live(q) /\ src[q] # NoType =>
          src[q] \in Encoders /\ at[src[q]] = "waiting" /\ src[q] # p /\ src[q] # s
    BY <1>1, <1>2 DEF IInv, Chain, RestOK
  <2>3. CASE r = p
    BY <1>2, <1>3, <1>4, <2>1, <2>2, <2>3
  <2>4. CASE r # p
    <3>1. Live(r) /\ src'[r] = src[r] /\ src[r] # NoType
      BY <1>2, <1>3, <2>1, <2>4
    <3>2. at'[src[r]] = "waiting"
      BY <1>4, <2>2, <2>4, <3>1
    <3>3. ASSUME NEW q \in Pool, Live(q)', src'[q] = src'[r]
          PROVE  q = r
      <4>1. q # p
        BY <1>2, <1>3, <2>2, <2>4, <3>1, <3>3
      <4>. QED
        BY <1>2, <1>3, <2>1, <3>1, <3>3, <4>1 DEF IInv, Chain
    <3>. QED
      BY <3>1, <3>2, <3>3
  <2>. QED
    BY <2>3, <2>4
<1>13. CoderScopeExact'
  <2> SUFFICES ASSUME NEW y \in Encoders, NEW t \in Types,
                      Live(y)', coders'[y] \notin meddled, plans[<<t, scopeEpoch'[y]>>] # NoPlan
               PROVE  plans[<<t, scopeEpoch'[y]>>].coder = buildTypePlan(y, t)'.coder
    BY DEF CoderScopeExact
  <2>1. CASE y # p
    <3>1. Live(y) /\ coders'[y] = coders[y] /\ scopeEpoch'[y] = scopeEpoch[y]
      <4>1. at'[y] # "pool"
        BY DEF Live
      <4>2. y = s => at[y] = "value"
        BY <1>2
      <4>. QED
        BY <1>3, <1>4, <2>1, <4>1, <4>2 DEF Live
    <3>2. buildTypePlan(y, t)'.coder = buildTypePlan(y, t).coder
      BY <3>1 DEF buildTypePlan, CoderTypes
    <3>. QED
      BY <3>1, <3>2 DEF IInv, CoderScopeExact
  <2>2. CASE y = p /\ s # NoType
    <3>1. Live(s) /\ coders'[y] = coders[s] /\ scopeEpoch'[y] = scopeEpoch[s] /\ s \in Encoders
      BY <1>2, <1>3, <2>2 DEF Live
    <3>2. buildTypePlan(y, t)'.coder = buildTypePlan(s, t).coder
      BY <3>1 DEF buildTypePlan, CoderTypes
    <3>. QED
      BY <3>1, <3>2 DEF IInv, CoderScopeExact
  <2>3. CASE y = p /\ s = NoType
    <3>1. coders'[y] = NoType /\ scopeEpoch'[y] = 0
      BY <1>2, <1>3, <2>3
    <3>2. buildTypePlan(y, t)'.coder = [u \in Parts(t, {}) |-> NoType]
      BY <3>1 DEF buildTypePlan, CoderTypes
    <3>. QED
      BY <1>9, <3>1, <3>2
  <2>. QED
    BY <2>1, <2>2, <2>3
<1>. QED
  BY <1>5, <1>6, <1>7, <1>8, <1>10, <1>11, <1>12, <1>13 DEF IInv

(* A registration takes an epoch that nothing has. *)
LEMMA FreshEpoch ==
  ASSUME IInv, NEW x \in Encoders, bumpScopeEpoch(x)
  PROVE  /\ registryEpoch' = registryEpoch + 1 /\ registryEpoch' \in Epochs /\ registryEpoch' # 0
         /\ \A y \in Encoders :
              /\ scopeEpoch'[y] = IF y = x THEN registryEpoch' ELSE scopeEpoch[y]
              /\ scopeEpoch[y] \in Epochs /\ scopeEpoch[y] < registryEpoch'
              /\ coders[y] # registryEpoch'
         /\ \A t \in Types : plans[<<t, registryEpoch'>>] = NoPlan
         /\ scopeEpoch' \in [Encoders -> Epochs]
<1>1. /\ registryEpoch \in Epochs /\ scopeEpoch \in [Encoders -> Epochs]
      /\ coders \in [Encoders -> Epochs \cup {NoType}]
      /\ MaxEpoch \in Nat /\ NoType \notin Nat
  BY ScopeAssumption DEF IInv, TypeOK, ScopeAssumption
<1>2. /\ registryEpoch < MaxEpoch /\ registryEpoch' = registryEpoch + 1
      /\ scopeEpoch' = [scopeEpoch EXCEPT ![x] = registryEpoch + 1]
  BY DEF bumpScopeEpoch
<1>3. registryEpoch' \in Epochs /\ registryEpoch' # 0
  BY <1>1, <1>2 DEF Epochs
<1>4. \A y \in Encoders :
        /\ scopeEpoch'[y] = IF y = x THEN registryEpoch' ELSE scopeEpoch[y]
        /\ scopeEpoch[y] \in Epochs /\ scopeEpoch[y] < registryEpoch'
  BY <1>1, <1>2 DEF IInv, Below, Epochs
<1>5. \A y \in Encoders : coders[y] # registryEpoch'
  BY <1>1, <1>2, <1>3 DEF IInv, Below, Epochs
<1>6. \A t \in Types : plans[<<t, registryEpoch'>>] = NoPlan
  BY <1>1, <1>2, <1>3 DEF IInv, Below, Epochs
<1>7. scopeEpoch' \in [Encoders -> Epochs]
  BY <1>1, <1>2, <1>3
<1>. QED
  BY <1>2, <1>3, <1>4, <1>5, <1>6, <1>7

(* What a registration leaves of the invariant, whatever it registers. *)
LEMMA RegisterScopes ==
  ASSUME IInv, NEW x \in Encoders, bumpScopeEpoch(x),
         \A y \in Encoders \ {x} : coders'[y] = coders[y] /\ asName'[y] = asName[y],
         coders'[x] = coders[x] \/ coders'[x] = registryEpoch',
         UNCHANGED <<plans, types, at, src>>
  PROVE  /\ Below' /\ EpochScopes' /\ BasePlans' /\ Chain'
         /\ \A t \in Types, y \in Encoders : \A u \in DOMAIN plans[<<t, scopeEpoch'[y]>>].coder :
              plans[<<t, scopeEpoch'[y]>>].coder[u] \in {NoType, coders'[y]}
<1>1. /\ registryEpoch \in Epochs /\ registryEpoch \in Int /\ registryEpoch' \in Int
      /\ coders \in [Encoders -> Epochs \cup {NoType}] /\ Epochs \subseteq Int
      /\ Streams \subseteq Encoders
  BY FreshEpoch DEF IInv, TypeOK, Epochs, Encoders
<1>2. Below'
  <2>1. ASSUME NEW t \in Types, NEW e \in Epochs, e > registryEpoch'
        PROVE  plans[<<t, e>>] = NoPlan
    BY <1>1, <2>1, FreshEpoch DEF IInv, Below
  <2>2. ASSUME NEW y \in Encoders
        PROVE  /\ scopeEpoch'[y] <= registryEpoch'
               /\ coders'[y] # NoType => coders'[y] <= registryEpoch'
               /\ scopeEpoch'[y] = 0 =>
                    coders'[y] = NoType /\ \A t \in Types : asName'[y][t] = NoType
    <3>1. scopeEpoch'[y] <= registryEpoch'
      BY <1>1, FreshEpoch
    <3>2. coders'[y] # NoType => coders'[y] <= registryEpoch'
      <4>1. CASE coders'[y] = coders[y]
        <5>1. coders[y] # NoType => coders[y] \in Int /\ coders[y] <= registryEpoch
          BY <1>1 DEF IInv, Below
        <5>2. registryEpoch' = registryEpoch + 1
          BY FreshEpoch
        <5>. QED
          BY <1>1, <4>1, <5>1, <5>2
      <4>2. CASE coders'[y] = registryEpoch'
        BY <1>1, <4>2
      <4>. QED
        BY <4>1, <4>2
    <3>3. scopeEpoch'[y] = 0 => y # x
      BY FreshEpoch
    <3>. QED
      BY <3>1, <3>2, <3>3, FreshEpoch DEF IInv, Below
  <2>. QED
    BY <2>1, <2>2 DEF Below
<1>3. EpochScopes'
  <2>1. \A y \in Encoders \ {x} : scopeEpoch'[y] # scopeEpoch'[x] /\ scopeEpoch'[y] = scopeEpoch[y]
    BY <1>1, FreshEpoch
  <2>. QED
    BY <1>1, <2>1 DEF IInv, EpochScopes
<1>4. BasePlans'
  BY DEF IInv, BasePlans
<1>5. Chain'
  BY DEF IInv, Chain, Live
<1>6. ASSUME NEW t \in Types, NEW y \in Encoders, NEW u \in DOMAIN plans[<<t, scopeEpoch'[y]>>].coder
      PROVE  plans[<<t, scopeEpoch'[y]>>].coder[u] \in {NoType, coders'[y]}
  <2>1. y # x
    BY <1>6, FreshEpoch DEF NoPlan
  <2>. QED
    BY <1>6, <2>1, FreshEpoch DEF IInv, PlanScopes
<1>. QED
  BY <1>2, <1>3, <1>4, <1>5, <1>6

LEMMA CoderStep ==
  ASSUME IInv, NEW x \in Encoders, NEW c \in Codable, RegisterCoder(x, c)
  PROVE  IInv'
<1> DEFINE m == IF coders[x] = NoType THEN registryEpoch + 1 ELSE coders[x]
<1>1. /\ maps' = [maps EXCEPT ![m] = @ \cup {c}]
      /\ coders' = [coders EXCEPT ![x] = m]
      /\ meddled' = IF \E y \in Encoders \ {x} : at[y] # "pool" /\ coders[y] = m
                      THEN meddled \cup {m} ELSE meddled
      /\ bumpScopeEpoch(x)
      /\ UNCHANGED <<plans, asName, types, reserved, reservedOK, at, run, src>>
  BY DEF RegisterCoder, facade
<1>2. PlansOK /\ TypesOK /\ RestOK /\ c \in Types /\ Streams \subseteq Encoders
  BY TypeParts, ScopeAssumption DEF IInv, ScopeAssumption, Encoders
<1>3. /\ registryEpoch' = registryEpoch + 1
      /\ registryEpoch' \in Epochs
      /\ scopeEpoch' \in [Encoders -> Epochs]
  BY <1>1, FreshEpoch
<1>4. m \in Epochs /\ (m = coders[x] \/ m = registryEpoch')
  BY <1>2, <1>3 DEF RestOK
<1> HIDE DEF m
<1>5. \A y \in Encoders : coders'[y] = IF y = x THEN m ELSE coders[y]
  BY <1>1, <1>2 DEF RestOK
<1>6. TypeOK'
  <2>1. maps' \in [Epochs -> SUBSET Types] /\ coders' \in [Encoders -> Epochs \cup {NoType}]
    BY <1>1, <1>2, <1>4 DEF RestOK
  <2>2. meddled' \subseteq Epochs
    BY <1>1, <1>2, <1>4 DEF RestOK
  <2>3. RestOK'
    BY <1>1, <1>2, <1>3, <2>1, <2>2 DEF RestOK
  <2>. QED
    BY <1>1, <1>2, <2>3 DEF TypeOK, PlansOK, TypesOK, RestOK
<1>7. /\ Below' /\ EpochScopes' /\ BasePlans' /\ Chain'
      /\ \A t \in Types, y \in Encoders : \A u \in DOMAIN plans[<<t, scopeEpoch'[y]>>].coder :
           plans[<<t, scopeEpoch'[y]>>].coder[u] \in {NoType, coders'[y]}
  BY <1>1, <1>4, <1>5, RegisterScopes
<1>8. ASSUME NEW t \in Types, NEW y \in Streams, NEW u \in DOMAIN plans[<<t, scopeEpoch'[y]>>].name
      PROVE  plans[<<t, scopeEpoch'[y]>>].name[u] \in {u, asName[y][u]}
  <2>1. y # x
    BY <1>1, <1>2, <1>8, FreshEpoch DEF NoPlan
  <2>2. scopeEpoch'[y] = scopeEpoch[y]
    BY <1>1, <1>2, <2>1, FreshEpoch
  <2>. QED
    BY <1>8, <2>2 DEF IInv, PlanScopes
<1>9. PlanScopes' /\ DescScopes'
  BY <1>1, <1>7, <1>8 DEF PlanScopes, IInv, DescScopes
<1>10. CoderScopeExact'
  <2> SUFFICES ASSUME NEW y \in Encoders, NEW t \in Types,
                      Live(y)', coders'[y] \notin meddled', plans[<<t, scopeEpoch'[y]>>] # NoPlan
               PROVE  plans[<<t, scopeEpoch'[y]>>].coder = buildTypePlan(y, t)'.coder
    BY <1>1 DEF CoderScopeExact
  <2>1. y # x
    BY <1>1, FreshEpoch
  <2>2. Live(y) /\ coders'[y] = coders[y] /\ scopeEpoch'[y] = scopeEpoch[y]
    BY <1>1, <1>5, <2>1, FreshEpoch DEF Live
  <2>3. coders[y] # m
    <3> SUFFICES ASSUME coders[y] = m PROVE FALSE
      OBVIOUS
    <3>1. m \in meddled'
      BY <1>1, <2>1, <2>2 DEF Live
    <3>. QED
      BY <2>2, <3>1
  <2>4. CoderTypes(y)' = CoderTypes(y)
    BY <1>1, <1>2, <2>2, <2>3 DEF CoderTypes, RestOK
  <2>5. buildTypePlan(y, t)'.coder = buildTypePlan(y, t).coder
    BY <2>2, <2>4 DEF buildTypePlan
  <2>6. coders[y] \notin meddled
    BY <1>1, <2>2
  <2>. QED
    BY <2>2, <2>5, <2>6 DEF IInv, CoderScopeExact
<1>. QED
  BY <1>6, <1>7, <1>9, <1>10 DEF IInv

LEMMA NameStep ==
  ASSUME IInv, NEW x \in Encoders, NEW n \in WireNames, NEW c \in Bindable, RegisterAs(x, n, c)
  PROVE  IInv'
<1>1. /\ asName[x][c] = NoType
      /\ asName' = [asName EXCEPT ![x][c] = n]
      /\ bumpScopeEpoch(x)
      /\ UNCHANGED <<plans, maps, coders, types, reserved, reservedOK, at, run, src, meddled>>
  BY DEF RegisterAs, facade
<1>2. PlansOK /\ TypesOK /\ RestOK /\ c \in Types /\ Streams \subseteq Encoders
  BY TypeParts, ScopeAssumption DEF IInv, ScopeAssumption, Encoders
<1>3. registryEpoch' \in Epochs /\ scopeEpoch' \in [Encoders -> Epochs]
  BY <1>1, FreshEpoch
<1>4. \A y \in Encoders, u \in Types :
        asName'[y][u] = IF y = x /\ u = c THEN n ELSE asName[y][u]
  BY <1>1, <1>2 DEF RestOK
<1>5. \A y \in Encoders \ {x} : asName'[y] = asName[y]
  BY <1>1, <1>2 DEF RestOK
<1>6. TypeOK'
  <2>1. asName' \in [Encoders -> [Types -> WireNames \cup {NoType}]]
    BY <1>1, <1>2 DEF RestOK
  <2>2. RestOK'
    BY <1>1, <1>2, <1>3, <2>1 DEF RestOK
  <2>. QED
    BY <1>1, <1>2, <2>2 DEF TypeOK, PlansOK, TypesOK, RestOK
<1>7. /\ Below' /\ EpochScopes' /\ BasePlans' /\ Chain'
      /\ \A t \in Types, y \in Encoders : \A u \in DOMAIN plans[<<t, scopeEpoch'[y]>>].coder :
           plans[<<t, scopeEpoch'[y]>>].coder[u] \in {NoType, coders'[y]}
  BY <1>1, <1>5, RegisterScopes
<1>8. ASSUME NEW t \in Types, NEW y \in Streams, NEW u \in DOMAIN plans[<<t, scopeEpoch'[y]>>].name
      PROVE  plans[<<t, scopeEpoch'[y]>>].name[u] \in {u, asName'[y][u]}
  <2>1. y # x
    BY <1>1, <1>2, <1>8, FreshEpoch DEF NoPlan
  <2>. QED
    BY <1>1, <1>2, <1>5, <1>8, <2>1, FreshEpoch DEF IInv, PlanScopes
<1>9. PlanScopes'
  BY <1>1, <1>7, <1>8 DEF PlanScopes
<1>10. ASSUME NEW y \in Streams, NEW t \in Types, NEW u \in DOMAIN types[y][t].name
       PROVE  types[y][t].name[u] \in {u, asName'[y][u]}
  <2>1. types[y][t].name[u] \in {u, asName[y][u]}
    BY DEF IInv, DescScopes
  <2>2. u \in Types /\ types[y][t].name[u] \in Names
    BY <1>2 DEF TypesOK, IsNaming
  <2>3. NoType \notin Names
    BY ScopeAssumption DEF ScopeAssumption, Names
  <2>. QED
    BY <1>1, <1>2, <1>4, <2>1, <2>2, <2>3
<1>11. DescScopes'
  BY <1>1, <1>10 DEF DescScopes
<1>12. CoderScopeExact'
  <2> SUFFICES ASSUME NEW y \in Encoders, NEW t \in Types,
                      Live(y)', coders[y] \notin meddled, plans[<<t, scopeEpoch'[y]>>] # NoPlan
               PROVE  plans[<<t, scopeEpoch'[y]>>].coder = buildTypePlan(y, t)'.coder
    BY <1>1 DEF CoderScopeExact
  <2>1. y # x
    BY <1>1, FreshEpoch
  <2>2. Live(y) /\ scopeEpoch'[y] = scopeEpoch[y]
    BY <1>1, <2>1, FreshEpoch DEF Live
  <2>3. buildTypePlan(y, t)'.coder = buildTypePlan(y, t).coder
    BY <1>1 DEF buildTypePlan, CoderTypes
  <2>. QED
    BY <2>2, <2>3 DEF IInv, CoderScopeExact
<1>. QED
  BY <1>6, <1>7, <1>9, <1>11, <1>12 DEF IInv

LEMMA NextIInv == IInv /\ [Next]_vars => IInv'
<1> SUFFICES ASSUME IInv, [Next]_vars PROVE IInv'
  OBVIOUS
<1>1. ASSUME NEW x \in Encoders, NEW t \in Types,
             Encode(x, t) \/ encodeInterface(x, t) \/ encodeRoot(x, t)
      PROVE  IInv'
  BY <1>1, EncodeStep
<1>2. ASSUME NEW x \in Encoders, NEW t \in Types, encodeBody(x, t)
      PROVE  IInv'
  BY <1>2, BodyStep
<1>3. ASSUME NEW x \in Lead, NEW p \in Pool, codecMarshalScoped(x, p)
      PROVE  IInv'
  <2>1. x \in Encoders /\ x # NoType
    BY ScopeAssumption DEF ScopeAssumption, Encoders
  <2>. QED
    BY <1>3, <2>1, ResetStep DEF codecMarshalScoped
<1>4. ASSUME NEW p \in Pool, codecMarshal(p)
      PROVE  IInv'
  BY <1>4, ResetStep DEF codecMarshal
<1>5. ASSUME NEW x \in Encoders, EndOfValue(x) \/ CoderReturns(x)
      PROVE  IInv'
  BY <1>5, EndStep, ReturnStep
<1>6. ASSUME NEW x \in Encoders, NEW t \in Codable, RegisterCoder(x, t)
      PROVE  IInv'
  BY <1>6, CoderStep
<1>7. ASSUME NEW x \in Lead, NEW n \in WireNames, NEW t \in Bindable, RegisterAs(x, n, t)
      PROVE  IInv'
  <2>1. x \in Encoders
    BY ScopeAssumption DEF ScopeAssumption, Encoders
  <2>. QED
    BY <1>7, <2>1, NameStep
<1>8. ASSUME NEW x \in Lead, NEW n \in Reservable, RegisterReserved(x, n)
      PROVE  IInv'
  <2>1. x \in Encoders
    BY ScopeAssumption DEF ScopeAssumption, Encoders
  <2>. QED
    BY <1>8, <2>1, ReserveStep
<1>9. ASSUME UNCHANGED vars
      PROVE  IInv'
  <2>1. RestOK' /\ Chain' /\ (\A y \in Encoders : Live(y)' => Live(y))
    BY <1>9, TypeParts DEF vars, IInv, RestOK, Chain, Live, scope, facade
  <2>. QED
    BY <1>9, <2>1, QuietStep DEF vars, scope
<1>. QED
  BY <1>1, <1>2, <1>3, <1>4, <1>5, <1>6, <1>7, <1>8, <1>9 DEF Next

(* The invariant holds of every behaviour of Encoders that share the cache.*)
THEOREM Invariance == Spec => []IInv
  BY InitIInv, NextIInv, PTL DEF Spec

(* Every variable keeps its type. *)
THEOREM TypeCorrectness == Spec => []TypeOK
<1>1. IInv => TypeOK
  BY DEF IInv
<1>. QED
  BY <1>1, Invariance, PTL

(* planRegistry never hands an encoder a coder of another scope, and the   *)
(* descriptors an Encoder writes carry no other Encoder's wire names.      *)
THEOREM Isolation == Spec => []ScopesIsolated
<1>1. IInv => ScopesIsolated
  BY DEF IInv, PlanScopes, DescScopes, ScopesIsolated
<1>. QED
  BY <1>1, Invariance, PTL

(* What planFor hands out is what the encoder would build now, although    *)
(* nothing ever leaves the cache.                                          *)
THEOREM Exactness == Spec => []CoderScopeExact
<1>1. IInv => CoderScopeExact
  BY DEF IInv
<1>. QED
  BY <1>1, Invariance, PTL

-----------------------------------------------------------------------------
(* The gate of reserved names.                                             *)

(* More coders, smaller walks. *)
LEMMA PartsShrink ==
  ASSUME NEW t \in Types, NEW A \in SUBSET Types, NEW B \in SUBSET Types, A \subseteq B
  PROVE  Parts(t, B) \subseteq Parts(t, A)
<1> SUFFICES ASSUME NEW u \in Parts(t, B), NEW S \in SUBSET Types,
                    t \in S, \A v \in S \ A : Child[v] \subseteq S
             PROVE  u \in S
  BY WalkFacts DEF Parts
<1>1. \A v \in S \ B : Child[v] \subseteq S
  OBVIOUS
<1>. QED
  BY <1>1 DEF Parts

(* A scan that was clean stays clean: coders only make the walk shorter,   *)
(* and a name is neither bound while it is reserved nor reserved while it  *)
(* is bound (gateReserved, RegisterAs, RegisterReserved).                  *)
THEOREM Gate == Spec => []ReservedGated
<1>1. Init => ReservedGated
  BY DEF Init, ReservedGated
<1>2. TypeOK /\ ReservedGated /\ [Next]_vars => ReservedGated'
  <2> SUFFICES ASSUME TypeOK, ReservedGated, [Next]_vars,
                      NEW x \in Encoders, NEW t \in reservedOK'[x]
               PROVE  ReservedNames(x, t)' = {}
    BY DEF ReservedGated
  <2>1. /\ coders \in [Encoders -> Epochs \cup {NoType}]
        /\ maps \in [Epochs -> SUBSET Types]
        /\ reserved \in [Encoders -> SUBSET Names]
        /\ reservedOK \in [Encoders -> SUBSET Types]
        /\ asName \in [Encoders -> [Types -> WireNames \cup {NoType}]]
        /\ NoType \notin Epochs
        /\ Pool \subseteq Encoders /\ Lead \subseteq Encoders
        /\ Codable \subseteq Types /\ Bindable \subseteq Types
    BY ScopeAssumption DEF TypeOK, ScopeAssumption, Epochs, Encoders
  <2>2. ASSUME t \in reservedOK[x], t \in Types, reserved'[x] = reserved[x],
               CoderTypes(x) \in SUBSET Types, CoderTypes(x)' \in SUBSET Types,
               CoderTypes(x) \subseteq CoderTypes(x)',
               \A u \in Types : scopeName(x, u)' \notin reserved[x] \/ scopeName(x, u)' = scopeName(x, u)
        PROVE  ReservedNames(x, t)' = {}
    <3>1. Parts(t, CoderTypes(x)') \subseteq Parts(t, CoderTypes(x))
      BY <2>2, PartsShrink
    <3>2. Parts(t, CoderTypes(x)) \subseteq Types
      BY <2>2, WalkFacts
    <3>3. \A u \in Parts(t, CoderTypes(x)) : scopeName(x, u) \notin reserved[x]
      BY <2>2 DEF ReservedGated, ReservedNames
    <3>4. \A u \in Parts(t, CoderTypes(x)') : scopeName(x, u)' \notin reserved[x]
      BY <2>2, <3>1, <3>2, <3>3
    <3>. QED
      BY <2>2, <3>4 DEF ReservedNames
  <2>3. CoderTypes(x) \in SUBSET Types
    BY <2>1 DEF CoderTypes
  <2>4. ASSUME UNCHANGED <<maps, coders, asName, reserved, reservedOK>>
        PROVE  ReservedNames(x, t)' = {}
    BY <2>4 DEF ReservedGated, ReservedNames, CoderTypes, scopeName
  <2>5. ASSUME NEW y \in Encoders, NEW u \in Types, Encode(y, u)
        PROVE  ReservedNames(x, t)' = {}
    <3>1. UNCHANGED <<maps, coders, asName, reserved>>
      BY <2>5 DEF Encode, scope
    <3>2. ReservedNames(x, t)' = ReservedNames(x, t)
      BY <3>1 DEF ReservedNames, CoderTypes, scopeName
    <3>3. t \in reservedOK[x] \/ (y = x /\ t = u /\ ReservedNames(y, u) = {})
      BY <2>1, <2>5 DEF Encode
    <3>. QED
      BY <3>2, <3>3 DEF ReservedGated
  <2>6. ASSUME NEW y \in Encoders, NEW u \in Types,
               encodeBody(y, u) \/ encodeInterface(y, u) \/ encodeRoot(y, u)
        PROVE  ReservedNames(x, t)' = {}
    BY <2>4, <2>6 DEF encodeBody, encodeInterface, encodeRoot, scope, facade
  <2>7. ASSUME NEW y \in Encoders, EndOfValue(y) \/ CoderReturns(y)
        PROVE  ReservedNames(x, t)' = {}
    BY <2>4, <2>7 DEF EndOfValue, CoderReturns, scope, facade
  <2>8. ASSUME NEW p \in Pool, NEW s, resetForPool(p, s), UNCHANGED maps
        PROVE  ReservedNames(x, t)' = {}
    <3>1. x # p
      BY <2>1, <2>8 DEF resetForPool
    <3>2. /\ coders'[x] = coders[x] /\ asName'[x] = asName[x]
          /\ reserved'[x] = reserved[x] /\ reservedOK'[x] = reservedOK[x]
      BY <2>1, <2>8, <3>1 DEF resetForPool
    <3>. QED
      BY <2>8, <3>2 DEF ReservedGated, ReservedNames, CoderTypes, scopeName
  <2>9. ASSUME NEW y \in Encoders, NEW c \in Codable, RegisterCoder(y, c)
        PROVE  ReservedNames(x, t)' = {}
    <3> DEFINE m == IF coders[y] = NoType THEN registryEpoch + 1 ELSE coders[y]
    <3>1. /\ maps' = [maps EXCEPT ![m] = @ \cup {c}]
          /\ coders' = [coders EXCEPT ![y] = m]
          /\ UNCHANGED <<asName, reserved, reservedOK>>
          /\ bumpScopeEpoch(y)
      BY <2>9 DEF RegisterCoder, facade
    <3>2. m \in Epochs
      <4>1. registryEpoch \in 0..MaxEpoch /\ MaxEpoch \in Nat /\ registryEpoch < MaxEpoch
        BY <3>1, ScopeAssumption DEF TypeOK, bumpScopeEpoch, Epochs, ScopeAssumption
      <4>2. registryEpoch + 1 \in Epochs
        BY <4>1 DEF Epochs
      <4>. QED
        BY <2>1, <4>2
    <3> HIDE DEF m
    <3>3. \A e \in Epochs : maps[e] \subseteq maps'[e] /\ maps'[e] \in SUBSET Types
      BY <2>1, <3>1, <3>2
    <3>4. coders'[x] = IF x = y THEN m ELSE coders[x]
      BY <2>1, <3>1
    <3>5. coders[x] # NoType => coders'[x] = coders[x]
      BY <3>4 DEF m
    <3>6. CoderTypes(x)' \in SUBSET Types
      BY <2>1, <3>2, <3>3, <3>4 DEF CoderTypes
    <3>7. CoderTypes(x) \subseteq CoderTypes(x)'
      BY <2>1, <3>3, <3>5 DEF CoderTypes
    <3>8. \A u \in Types : scopeName(x, u)' = scopeName(x, u)
      BY <3>1 DEF scopeName
    <3>. QED
      BY <2>1, <2>2, <2>3, <3>1, <3>6, <3>7, <3>8
  <2>10. ASSUME NEW y \in Lead, NEW n \in WireNames, NEW c \in Bindable, RegisterAs(y, n, c)
         PROVE  ReservedNames(x, t)' = {}
    <3>1. /\ n \notin reserved[y]
          /\ asName' = [asName EXCEPT ![y][c] = n]
          /\ UNCHANGED <<maps, coders, reserved, reservedOK>>
      BY <2>10 DEF RegisterAs, facade
    <3>2. \A u \in Types : asName'[x][u] = IF x = y /\ u = c THEN n ELSE asName[x][u]
      BY <2>1, <3>1
    <3>3. n # NoType
      BY ScopeAssumption DEF ScopeAssumption
    <3>4. \A u \in Types : scopeName(x, u)' \notin reserved[x] \/ scopeName(x, u)' = scopeName(x, u)
      BY <3>1, <3>2, <3>3 DEF scopeName
    <3>5. CoderTypes(x)' = CoderTypes(x)
      BY <3>1 DEF CoderTypes
    <3>. QED
      BY <2>1, <2>2, <2>3, <3>1, <3>4, <3>5
  <2>11. ASSUME NEW y \in Lead, NEW n \in Reservable, RegisterReserved(y, n)
         PROVE  ReservedNames(x, t)' = {}
    <3>1. /\ reservedOK' = [reservedOK EXCEPT ![y] = {}]
          /\ reserved' = [reserved EXCEPT ![y] = @ \cup {n}]
          /\ UNCHANGED <<maps, coders, asName>>
      BY <2>11 DEF RegisterReserved, scope
    <3>2. x # y
      BY <2>1, <3>1
    <3>3. reserved'[x] = reserved[x] /\ reservedOK'[x] = reservedOK[x]
      BY <2>1, <3>1, <3>2
    <3>. QED
      BY <3>1, <3>3 DEF ReservedGated, ReservedNames, CoderTypes, scopeName
  <2>12. ASSUME NEW y \in Lead, NEW p \in Pool, codecMarshalScoped(y, p)
         PROVE  ReservedNames(x, t)' = {}
    BY <2>8, <2>12 DEF codecMarshalScoped
  <2>13. ASSUME UNCHANGED vars
         PROVE  ReservedNames(x, t)' = {}
    BY <2>4, <2>13 DEF vars
  <2>14. ASSUME NEW p \in Pool, codecMarshal(p)
         PROVE  ReservedNames(x, t)' = {}
    BY <2>8, <2>14 DEF codecMarshal
  <2>. QED
    BY <2>5, <2>6, <2>7, <2>9, <2>10, <2>11, <2>12, <2>13, <2>14 DEF Next
<1>. QED
  BY <1>1, <1>2, TypeCorrectness, PTL DEF Spec
=============================================================================
