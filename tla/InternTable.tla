---------------------------- MODULE InternTable ----------------------------
(***************************************************************************)
(* The Writer's string table (internal/wire/wire.go): open addressing over *)
(* a power-of-two number of slots, linear probing, ids biased by one so    *)
(* that 0 marks an empty slot.  A table is a function of its slot numbers. *)
(***************************************************************************)
EXTENDS Integers, FiniteSets

CONSTANTS
  Hash,       \* the seeded hash of every string
  InitSlots,  \* slots of the first allocation (internSlotsInit)
  LoadDiv     \* grow beyond n - n/LoadDiv entries (internLoadDiv)

ASSUME TableAssumption ==
  /\ InitSlots \in Nat \ {0, 1} /\ LoadDiv \in Nat \ {0}
  /\ LoadDiv =< InitSlots
  /\ \A s \in DOMAIN Hash : Hash[s] \in Nat

EmptySlot == [s |-> "", idPlus1 |-> 0]

Slots(n) == [i \in 0..(n - 1) |-> EmptySlot]

EmptyTable == [i \in {} |-> EmptySlot]

Size(t) == Cardinality(DOMAIN t)

Count(t) == Cardinality({i \in DOMAIN t : t[i].idPlus1 # 0})

(* (mutant: strings of one hash are taken for the same) *)
ProbeByHash(t, s) ==
  LET at(j)   == (Hash[s] + j) % Size(t)
      stop(j) == \/ t[at(j)].idPlus1 = 0
                 \/ Hash[t[at(j)].s] = Hash[s]
  IN  at(CHOOSE j \in 0..(Size(t) - 1) :
           stop(j) /\ \A k \in 0..(j - 1) : ~stop(k))

(* The first slot, from the hash on, that is empty or holds s.  The spare  *)
(* slots of the load factor end every search.                              *)
Probe(t, s) ==
  LET at(j)   == (Hash[s] + j) % Size(t)
      stop(j) == t[at(j)].idPlus1 = 0 \/ t[at(j)].s = s
  IN  at(CHOOSE j \in 0..(Size(t) - 1) :
           stop(j) /\ \A k \in 0..(j - 1) : ~stop(k))

(* The id of s plus one, 0 for a string that is not in the table.          *)
Get(t, s) == IF Count(t) = 0 THEN 0 ELSE t[Probe(t, s)].idPlus1

Insert(t, s, idPlus1) ==
  [t EXCEPT ![Probe(t, s)] = [s |-> s, idPlus1 |-> idPlus1]]

(* A slot array of another size, every entry inserted again by its hash.   *)
Rehash(t, n) ==
  LET moved[k \in 0..Size(t)] ==   \* the first k slots are moved
        IF k = 0 THEN Slots(n)
        ELSE IF t[k - 1].idPlus1 = 0 THEN moved[k - 1]
             ELSE Insert(moved[k - 1], t[k - 1].s, t[k - 1].idPlus1)
  IN  moved[Size(t)]

Grown(t) ==
  IF Size(t) = 0 THEN Rehash(t, InitSlots)
  ELSE IF Count(t) + 1 > Size(t) - Size(t) \div LoadDiv
       THEN Rehash(t, 2 * Size(t))
       ELSE t

Set(t, s, id) == Insert(Grown(t), s, id + 1)
=============================================================================
