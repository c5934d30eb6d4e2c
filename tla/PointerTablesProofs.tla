------------------------ MODULE PointerTablesProofs ------------------------
(***************************************************************************)
(* Proofs about PointerTables: addresses are used again, identities are    *)
(* not, for every number of objects, addresses, values and positions,      *)
(* every choice of samples and every moment of a collection.  The one      *)
(* exception, a map that only a coder keeps, is a premise.  For values of  *)
(* the plain shapes, sharing is kept as well and a refusal has its cause.  *)
(***************************************************************************)
EXTENDS PointerTables, SequenceTheorems, TLAPS

-----------------------------------------------------------------------------
(* The inductive invariant.                                                *)

Fields == {"map", "coder", "whole", "first", "second"}
Positions == [o : Nat, f : Fields]
Objects == [sort : {"map", "struct"}, at : Addrs, live : BOOLEAN]
Frames == [call : Nat \X Nat, todo : Seq(Positions), pins : SUBSET Nat]
Records ==
  [o : Nat, grain : {"map", "struct", "field", "cell"}, root : Nat, begun : BOOLEAN]
Tokens == [call : Nat \X Nat, o : Nat, f : Fields, id : Nat]

TypeOK ==
  /\ heap \in Seq(Objects)
  /\ stack \in Seq(Frames)
  /\ out \in Seq(Tokens)
  /\ ids \in Seq(Records)
  /\ encEp \in Nat

(* What is kept is alive, and no two live objects share an address.        *)
Memory ==
  /\ \A o \in Kept : o \in DOMAIN heap /\ Live(o)
  /\ \A o, p \in DOMAIN heap :
       Live(o) /\ Live(p) /\ heap[o].at = heap[p].at => o = p

(* What stays alive to the end of the top-level Encode.                    *)
Steady == held \cup stack[1].pins

(* A frame pins what it has still to write, and maps are steady.           *)
Rows ==
  \A i \in DOMAIN stack : \A j \in DOMAIN stack[i].todo :
    /\ stack[i].todo[j].f # "coder" => stack[i].todo[j].o \in stack[i].pins
    /\ stack[i].todo[j].f = "map" => stack[i].todo[j].o \in Steady

(* The entry of an address: its object had the address, its id is the      *)
(* object's.                                                               *)
Sound(a, e) ==
  /\ e.o \in DOMAIN heap /\ heap[e.o].at = a
  /\ e.id < Len(ids) /\ ids[e.id + 1].o = e.o

MapEntries ==
  \A a \in DOMAIN maps :
    maps[a] \in [id : Nat, ep : 0..encEp, o : Nat] /\ Sound(a, maps[a])

IsPartTable(t) ==
  \A k \in DOMAIN t :
    /\ t[k] \in [id : Nat, grain : {"struct", "field"}, o : Nat]
    /\ Sound(k[1], t[k])

(* Where alive does not look at the handle, the object is steady.          *)
Stamped ==
  stack # <<>> => \A a \in DOMAIN maps : maps[a].ep = encEp => maps[a].o \in Steady

Roots ==
  \A n \in DOMAIN ids :
    ids[n].root < Len(ids) /\ ids[ids[n].root + 1].o = ids[n].o

Truthful ==
  \A i \in DOMAIN out : out[i].id < Len(ids) /\ ids[out[i].id + 1].o = out[i].o

IInv ==
  /\ TypeOK
  /\ Memory
  /\ Rows
  /\ MapEntries
  /\ IsPartTable(grains)
  /\ IsPartTable(cells)
  /\ Stamped
  /\ Roots
  /\ Truthful

-----------------------------------------------------------------------------
(* What the helpers do.                                                    *)

(* An entry that a sweep keeps is unchanged, and a live one is kept.       *)
LEMMA SweepFacts ==
  ASSUME NEW n, NEW g, NEW m, noteInternInsert(n, g, m)
  PROVE  /\ \A k \in DOMAIN grains' : k \in DOMAIN g /\ grains'[k] = g[k]
         /\ \A a \in DOMAIN maps' : a \in DOMAIN m /\ maps'[a] = m[a]
         /\ \A k \in DOMAIN g : Live(g[k].o) => k \in DOMAIN grains'
         /\ \A a \in DOMAIN m : Live(m[a].o) => a \in DOMAIN maps'
<1>1. ASSUME NEW t
      PROVE  /\ \A k \in DOMAIN Swept(t) : k \in DOMAIN t /\ Swept(t)[k] = t[k]
             /\ \A k \in DOMAIN t : Live(t[k].o) => k \in DOMAIN Swept(t)
  BY DEF Swept, Dead
<1>2. grains' = g \/ grains' = Swept(g)
  BY DEF noteInternInsert
<1>3. maps' = m \/ maps' = Swept(m)
  BY DEF noteInternInsert
<1>. QED
  BY <1>1, <1>2, <1>3

(* A frame that has something left to write keeps it alive.                *)
LEMMA DueFacts ==
  ASSUME TypeOK, Memory, Rows, NEW F, Due(F)
  PROVE  /\ Len(stack) \in Nat \ {0} /\ Len(stack) \in DOMAIN stack
         /\ Running \in Frames
         /\ Next1 \in Positions /\ Next1.f \in F
         /\ Next1.f # "coder" =>
              Next1.o \in Kept /\ Next1.o \in DOMAIN heap /\ Live(Next1.o)
         /\ Next1.f = "map" => Next1.o \in Steady
<1>1. Len(stack) \in Nat \ {0} /\ Len(stack) \in DOMAIN stack
  BY DEF TypeOK, Due
<1>2. Running \in Frames
  BY <1>1 DEF TypeOK, Running
<1>3. /\ Running.todo \in Seq(Positions) /\ Running.todo # <<>>
  BY <1>2 DEF Frames, Due
<1>4. /\ 1 \in DOMAIN Running.todo /\ Next1 = Running.todo[1]
      /\ Next1 \in Positions /\ Next1.f \in F
  BY <1>3 DEF Next1, Due
<1>5. /\ Next1.f # "coder" => Next1.o \in Running.pins
      /\ Next1.f = "map" => Next1.o \in Steady
  BY <1>1, <1>4 DEF Rows, Running
<1>6. Next1.o \in Running.pins => Next1.o \in Kept
  BY <1>1 DEF Kept, Running
<1>. QED
  BY <1>1, <1>2, <1>4, <1>5, <1>6 DEF Memory

(* Writing a position takes it off its frame and nothing else.             *)
LEMMA AdvanceFacts ==
  ASSUME TypeOK, Memory, Rows, NEW F, Due(F)
  PROVE  /\ Advanced \in Seq(Frames) /\ Advanced # <<>>
         /\ DOMAIN Advanced = DOMAIN stack
         /\ Len(Advanced) = Len(stack)
         /\ \A i \in DOMAIN stack : Advanced[i].pins = stack[i].pins
         /\ \A i \in DOMAIN stack : \A j \in DOMAIN Advanced[i].todo :
              \E m \in DOMAIN stack[i].todo :
                Advanced[i].todo[j] = stack[i].todo[m]
<1>1. Len(stack) \in Nat \ {0} /\ Len(stack) \in DOMAIN stack /\ Running \in Frames
  BY DueFacts
<1>2. stack \in Seq(Frames) /\ DOMAIN stack = 1..Len(stack)
  BY DEF TypeOK
<1> DEFINE n == Len(stack)
           rest == Tail(Running.todo)
           fr == [Running EXCEPT !.todo = rest]
<1>3. /\ Running.todo \in Seq(Positions) /\ Running.todo # <<>>
  BY <1>1 DEF Frames, Due
<1>4. /\ rest \in Seq(Positions) /\ Len(rest) = Len(Running.todo) - 1
      /\ \A j \in 1..Len(rest) : rest[j] = Running.todo[j + 1]
  BY <1>3, HeadTailProperties
<1>5. fr \in Frames /\ fr.pins = Running.pins /\ fr.todo = rest
  BY <1>1, <1>4 DEF Frames
<1>6. Advanced = [stack EXCEPT ![n] = fr]
  BY DEF Advanced, Running
<1>7. \A j \in DOMAIN rest :
        j + 1 \in DOMAIN Running.todo /\ rest[j] = Running.todo[j + 1]
  BY <1>3, <1>4
<1> HIDE DEF fr, rest
<1>8. /\ Advanced \in Seq(Frames) /\ Len(Advanced) = n
      /\ \A i \in 1..n : Advanced[i] = IF i = n THEN fr ELSE stack[i]
  BY <1>1, <1>2, <1>5, <1>6, ExceptSeq
<1>9. DOMAIN Advanced = DOMAIN stack /\ Advanced # <<>>
  <2>1. DOMAIN Advanced = 1..Len(Advanced)
    BY <1>8, LenProperties
  <2>2. Advanced # <<>>
    BY <1>1, <1>8, EmptySeq
  <2>. QED
    BY <1>2, <1>8, <2>1, <2>2
<1>10. ASSUME NEW i \in DOMAIN stack
       PROVE  /\ Advanced[i].pins = stack[i].pins
              /\ \A j \in DOMAIN Advanced[i].todo :
                   \E m \in DOMAIN stack[i].todo :
                     Advanced[i].todo[j] = stack[i].todo[m]
  <2>1. CASE i = n
    BY <1>2, <1>5, <1>7, <1>8, <2>1 DEF Running
  <2>2. CASE i # n
    BY <1>2, <1>8, <2>2
  <2>. QED
    BY <2>1, <2>2
<1>. QED
  BY <1>8, <1>9, <1>10
(* The step of every action that writes a position.                        *)
LEMMA PutFacts ==
  ASSUME TypeOK, Memory, Rows, Roots, Truthful,
         NEW F, Due(F), "coder" \notin F,
         NEW id \in Nat, NEW records \in Seq(Records), Put(id, records),
         id < Len(ids) + Len(records),
         (ids \o records)[id + 1].o = Next1.o,
         \A n \in DOMAIN records :
           /\ records[n].root < Len(ids) + Len(records)
           /\ (ids \o records)[records[n].root + 1].o = records[n].o
  PROVE  /\ TypeOK' /\ Memory' /\ Rows' /\ Roots' /\ Truthful'
         /\ stack' # <<>> /\ Steady' = Steady /\ UNCHANGED <<heap, encEp>>
         /\ Len(ids') = Len(ids) + Len(records)
         /\ \A n \in DOMAIN records : ids'[Len(ids) + n] = records[n]
         /\ \A a, e : e.id \in Nat /\ Sound(a, e) => Sound(a, e)'
<1> DEFINE more == ids \o records
           l == Len(ids)
           r == Len(records)
<1>1. /\ out' = Append(out, Token(id)) /\ ids' = more /\ stack' = Advanced
      /\ UNCHANGED <<heap, held, scans, encEp, refused>>
  BY DEF Put
<1>2. /\ ids \in Seq(Records) /\ l \in Nat /\ r \in Nat
      /\ DOMAIN ids = 1..l /\ DOMAIN records = 1..r
  BY LenProperties DEF TypeOK
<1>3. /\ more \in Seq(Records) /\ Len(more) = l + r /\ DOMAIN more = 1..(l + r)
      /\ \A i \in 1..(l + r) : more[i] = IF i <= l THEN ids[i] ELSE records[i - l]
  BY <1>2, ConcatProperties, LenProperties
<1>4. Token(id) \in Tokens
  <2>1. Running \in Frames /\ Next1 \in Positions
    BY DueFacts
  <2>. QED
    BY <2>1 DEF Token, Tokens, Frames, Positions
<1>5. /\ out \in Seq(Tokens) /\ Len(out) \in Nat /\ DOMAIN out = 1..Len(out)
      /\ Append(out, Token(id)) \in Seq(Tokens)
      /\ Len(Append(out, Token(id))) = Len(out) + 1
      /\ DOMAIN Append(out, Token(id)) = 1..(Len(out) + 1)
      /\ \A i \in 1..Len(out) : Append(out, Token(id))[i] = out[i]
      /\ Append(out, Token(id))[Len(out) + 1] = Token(id)
  BY <1>4, AppendProperties, LenProperties DEF TypeOK
<1> HIDE DEF more, l, r
<1>6. /\ Advanced \in Seq(Frames) /\ Advanced # <<>>
      /\ DOMAIN Advanced = DOMAIN stack /\ 1 \in DOMAIN stack
      /\ \A i \in DOMAIN stack : Advanced[i].pins = stack[i].pins
      /\ \A i \in DOMAIN stack : \A j \in DOMAIN Advanced[i].todo :
           \E m \in DOMAIN stack[i].todo : Advanced[i].todo[j] = stack[i].todo[m]
  <2>1. 1 \in DOMAIN stack
    BY DueFacts DEF TypeOK
  <2>. QED
    BY <2>1, AdvanceFacts
<1>7. TypeOK'
  BY <1>1, <1>3, <1>5, <1>6 DEF TypeOK
<1>8. Kept' = Kept /\ Steady' = Steady
  <2>1. {Advanced[i].pins : i \in DOMAIN Advanced} = {stack[i].pins : i \in DOMAIN stack}
    <3>1. DOMAIN Advanced = DOMAIN stack
      BY <1>6
    <3>2. \A i \in DOMAIN stack : Advanced[i].pins = stack[i].pins
      BY <1>6
    <3>. QED
      BY <3>1, <3>2
  <2>2. Advanced[1].pins = stack[1].pins
    BY <1>6
  <2>. QED
    BY <1>1, <2>1, <2>2 DEF Kept, Steady
<1>9. Memory'
  BY <1>1, <1>8 DEF Memory, Live
<1>10. Rows'
  <2>1. ASSUME NEW i \in DOMAIN stack, NEW j \in DOMAIN Advanced[i].todo
        PROVE  /\ Advanced[i].todo[j].f # "coder" =>
                    Advanced[i].todo[j].o \in Advanced[i].pins
               /\ Advanced[i].todo[j].f = "map" => Advanced[i].todo[j].o \in Steady
    BY <1>6 DEF Rows
  <2>. QED
    BY <1>1, <1>6, <1>8, <2>1 DEF Rows
<1>11. \A n \in Nat : n < l => more[n + 1] = ids[n + 1]
  BY <1>2, <1>3
<1>12. Roots'
  <2>1. ASSUME NEW n \in 1..(l + r)
        PROVE  more[n].root < l + r /\ more[more[n].root + 1].o = more[n].o
    <3>1. CASE n <= l
      <4>1. /\ more[n] = ids[n] /\ ids[n].root \in Nat /\ ids[n].root < l
            /\ ids[ids[n].root + 1].o = ids[n].o
        <5>1. n \in 1..l
          BY <1>2, <3>1
        <5>2. ids[n] \in Records /\ n \in DOMAIN ids
          BY <1>2, <5>1, ElementOfSeq DEF l
        <5>3. ids[n].root \in Nat
          BY <5>2 DEF Records
        <5>4. ids[n].root < l /\ ids[ids[n].root + 1].o = ids[n].o
          BY <5>2 DEF Roots, l
        <5>5. more[n] = ids[n]
          BY <1>3, <2>1, <3>1
        <5>. QED
          BY <5>3, <5>4, <5>5
      <4>. QED
        BY <1>2, <1>11, <4>1
    <3>2. CASE n > l
      <4>1. n - l \in DOMAIN records /\ more[n] = records[n - l]
        <5>1. n - l \in 1..r /\ ~(n <= l)
          BY <1>2, <3>2
        <5>. QED
          BY <1>2, <1>3, <5>1
      <4>. QED
        BY <4>1 DEF more, l, r
    <3>. QED
      BY <1>2, <3>1, <3>2
  <2>. QED
    BY <1>1, <1>3, <2>1 DEF Roots
<1>13. Truthful'
  <2>1. ASSUME NEW i \in 1..Len(out)
        PROVE  out[i].id < l + r /\ more[out[i].id + 1].o = out[i].o
    <3>1. out[i].id \in Nat /\ out[i].id < l /\ ids[out[i].id + 1].o = out[i].o
      <4>1. out[i] \in Tokens /\ i \in DOMAIN out
        BY <1>5, ElementOfSeq
      <4>. QED
        BY <4>1 DEF Truthful, Tokens, l
    <3>. QED
      BY <1>2, <1>11, <3>1
  <2>2. Token(id).id < l + r /\ more[Token(id).id + 1].o = Token(id).o
    BY DEF Token, more, l, r
  <2>. QED
    BY <1>1, <1>3, <1>5, <2>1, <2>2 DEF Truthful
<1>14. ASSUME NEW a, NEW e, e.id \in Nat, Sound(a, e)
       PROVE  Sound(a, e)'
  BY <1>1, <1>2, <1>3, <1>11, <1>14 DEF Sound, l
<1>15. \A n \in DOMAIN records : ids'[Len(ids) + n] = records[n]
  BY <1>1, <1>2, <1>3 DEF l
<1>. QED
  BY <1>1, <1>3, <1>6, <1>7, <1>8, <1>9, <1>10, <1>12, <1>13, <1>14, <1>15 DEF l, r
(* An address has one live object: a live entry is the object's own.       *)
LEMMA OneObject ==
  ASSUME Memory, NEW o \in DOMAIN heap, Live(o),
         NEW e, Sound(heap[o].at, e), Live(e.o)
  PROVE  e.o = o
  BY DEF Memory, Sound

(* An entry a repeat is written for is of the object that is repeated.     *)
LEMMA MapIsKnown ==
  ASSUME IInv, Due({"map"}), MapKnown
  PROVE  /\ MapAt \in DOMAIN maps
         /\ maps[MapAt].o = Next1.o /\ Next1.o \in Steady
<1>1. /\ Next1.o \in Steady /\ Next1.o \in DOMAIN heap /\ Live(Next1.o)
  BY DueFacts DEF IInv
<1>2. MapAt \in DOMAIN maps /\ Alive(maps[MapAt]) /\ Sound(MapAt, maps[MapAt])
  BY DEF MapKnown, IInv, MapEntries
<1>3. Steady \subseteq Kept
  <2>1. 1 \in DOMAIN stack
    BY DueFacts DEF IInv, TypeOK
  <2>. QED
    BY <2>1 DEF Steady, Kept
<1>4. Live(maps[MapAt].o)
  BY <1>2, <1>3 DEF Alive, IInv, Stamped, Memory, Due
<1>. QED
  BY <1>1, <1>2, <1>4, OneObject DEF MapAt, IInv

LEMMA PartIsKnown ==
  ASSUME IInv, NEW F, Due(F), "coder" \notin F, NEW t, IsPartTable(t),
         NEW x, Holds(t, <<Here[1], x>>)
  PROVE  LET e == t[<<Here[1], x>>]
         IN  e.o = Next1.o /\ e.id \in Nat /\ e.id < Len(ids) /\ ids[e.id + 1].o = Next1.o
<1> DEFINE e == t[<<Here[1], x>>]
<1>1. /\ Next1.o \in DOMAIN heap /\ Live(Next1.o)
  BY DueFacts DEF IInv
<1>2. Here[1] = heap[Next1.o].at
  BY DEF Here, Key
<1>3. /\ <<Here[1], x>> \in DOMAIN t /\ Live(e.o)
  BY DEF Holds
<1>4. Sound(Here[1], e) /\ e.id \in Nat
  <2>1. <<Here[1], x>>[1] = Here[1]
    OBVIOUS
  <2>. QED
    BY <1>3, <2>1 DEF IsPartTable
<1> HIDE DEF e
<1>5. e.o = Next1.o
  BY <1>1, <1>2, <1>3, <1>4, OneObject DEF IInv
<1>. QED
  BY <1>4, <1>5 DEF Sound, e

(* The records of one new id. *)
LEMMA NewRecord ==
  ASSUME IInv, NEW F, Due(F), "coder" \notin F,
         NEW grain \in {"map", "struct", "field"}
  PROVE  LET records == <<Record(Next1.o, grain)>>
         IN  /\ records \in Seq(Records) /\ Len(records) = 1 /\ NextID \in Nat
             /\ NextID < Len(ids) + Len(records)
             /\ records[1].o = Next1.o
             /\ (ids \o records)[NextID + 1].o = Next1.o
             /\ \A n \in DOMAIN records :
                  /\ records[n].root < Len(ids) + Len(records)
                  /\ (ids \o records)[records[n].root + 1].o = records[n].o
<1> DEFINE rec == Record(Next1.o, grain)
           records == <<rec>>
<1>1. ids \in Seq(Records) /\ NextID \in Nat /\ NextID = Len(ids)
  BY DEF IInv, TypeOK, NextID
<1>2. rec \in Records /\ rec.o = Next1.o /\ rec.root = NextID
  BY <1>1, DueFacts DEF IInv, Record, Records, Positions
<1> HIDE DEF rec
<1>3. records \in Seq(Records) /\ Len(records) = 1 /\ records[1] = rec /\ DOMAIN records = {1}
  BY <1>2
<1> HIDE DEF records
<1>4. (ids \o records)[NextID + 1] = rec
  BY <1>1, <1>3, ConcatProperties
<1>. QED
  BY <1>1, <1>2, <1>3, <1>4 DEF records, rec

LEMMA NothingNew ==
  ASSUME IInv, NEW id \in Nat, id < Len(ids), ids[id + 1].o = Next1.o
  PROVE  /\ <<>> \in Seq(Records) /\ Len(<<>>) = 0 /\ DOMAIN <<>> = {}
         /\ id < Len(ids) + Len(<<>>)
         /\ (ids \o <<>>)[id + 1].o = Next1.o
<1>1. ids \in Seq(Records) /\ Len(ids) \in Nat
  BY DEF IInv, TypeOK
<1>2. ids \o <<>> = ids
  BY <1>1, ConcatEmptySeq
<1>. QED
  BY <1>1, <1>2, EmptySeq
-----------------------------------------------------------------------------
(* The steps that write a position.                                        *)

LEMMA MapRefStep ==
  ASSUME IInv, EncodeMapRef
  PROVE  IInv'
<1> DEFINE e == maps[MapAt]
<1>1. /\ Due({"map"}) /\ MapKnown
      /\ maps' = [maps EXCEPT ![MapAt].ep = encEp]
      /\ Put(e.id, <<>>) /\ UNCHANGED <<grains, cells>>
  BY DEF EncodeMapRef, Repeat
<1>2. MapAt \in DOMAIN maps /\ e.o = Next1.o /\ Next1.o \in Steady
  BY <1>1, MapIsKnown
<1>3. /\ e \in [id : Nat, ep : 0..encEp, o : Nat] /\ Sound(MapAt, e)
  BY <1>2 DEF IInv, MapEntries
<1>4. e.id \in Nat /\ e.id < Len(ids) /\ ids[e.id + 1].o = Next1.o
  BY <1>2, <1>3 DEF Sound
<1> HIDE DEF e
<1>5. /\ TypeOK' /\ Memory' /\ Rows' /\ Roots' /\ Truthful'
      /\ stack' # <<>> /\ Steady' = Steady /\ UNCHANGED <<heap, encEp>>
      /\ \A a, x : x.id \in Nat /\ Sound(a, x) => Sound(a, x)'
  BY <1>1, <1>4, NothingNew, PutFacts DEF IInv
<1>6. ASSUME NEW a \in DOMAIN maps'
      PROVE  /\ a \in DOMAIN maps
             /\ maps'[a].id = maps[a].id /\ maps'[a].o = maps[a].o
             /\ maps'[a] \in [id : Nat, ep : 0..encEp, o : Nat]
             /\ maps'[a].ep = encEp => maps[a].ep = encEp \/ a = MapAt
  <2>1. a \in DOMAIN maps /\ maps[a] \in [id : Nat, ep : 0..encEp, o : Nat]
    BY <1>1 DEF IInv, MapEntries
  <2>2. maps'[a] = IF a = MapAt THEN [maps[a] EXCEPT !.ep = encEp] ELSE maps[a]
    BY <1>1, <2>1
  <2>3. encEp \in 0..encEp
    BY DEF IInv, TypeOK
  <2>. QED
    BY <2>1, <2>2, <2>3
<1>7. MapEntries'
  BY <1>5, <1>6 DEF IInv, MapEntries, Sound
<1>8. Stamped'
  BY <1>2, <1>5, <1>6, <1>1 DEF IInv, Stamped, Due, e
<1>9. IsPartTable(grains)' /\ IsPartTable(cells)'
  BY <1>1, <1>5 DEF IInv, IsPartTable
<1>. QED
  BY <1>5, <1>7, <1>8, <1>9 DEF IInv

LEMMA MapStep ==
  ASSUME IInv, EncodeMap
  PROVE  IInv'
<1> DEFINE entry == [id |-> NextID, ep |-> encEp, o |-> Next1.o]
           m == With(maps, MapAt, entry)
           records == <<Record(Next1.o, "map")>>
<1>1. /\ Due({"map"}) /\ Put(NextID, records)
      /\ noteInternInsert(1, grains, m) /\ UNCHANGED cells
  BY DEF EncodeMap
<1>2. /\ Next1.o \in Nat /\ Next1.o \in Steady /\ Next1.o \in DOMAIN heap
  BY <1>1, DueFacts DEF IInv, Positions
<1>3. /\ records \in Seq(Records) /\ Len(records) = 1 /\ NextID \in Nat
      /\ NextID < Len(ids) + Len(records)
      /\ records[1].o = Next1.o
      /\ (ids \o records)[NextID + 1].o = Next1.o
      /\ \A n \in DOMAIN records :
           /\ records[n].root < Len(ids) + Len(records)
           /\ (ids \o records)[records[n].root + 1].o = records[n].o
  BY <1>1, NewRecord
<1> HIDE DEF records
<1>4. /\ TypeOK' /\ Memory' /\ Rows' /\ Roots' /\ Truthful'
      /\ stack' # <<>> /\ Steady' = Steady /\ UNCHANGED <<heap, encEp>>
      /\ Len(ids') = Len(ids) + Len(records)
      /\ \A n \in DOMAIN records : ids'[Len(ids) + n] = records[n]
      /\ \A a, x : x.id \in Nat /\ Sound(a, x) => Sound(a, x)'
  BY <1>1, <1>3, PutFacts DEF IInv
<1>5. /\ entry \in [id : Nat, ep : 0..encEp, o : Nat] /\ entry.o \in Steady
      /\ \A a, x : a = MapAt /\ x = entry => Sound(a, x)'
  <2>1. encEp \in 0..encEp /\ Len(ids) \in Nat
    BY DEF IInv, TypeOK
  <2>2. ids'[NextID + 1].o = Next1.o /\ NextID < Len(ids')
    BY <1>3, <1>4, <2>1 DEF NextID
  <2>3. heap[Next1.o].at = MapAt
    BY DEF MapAt
  <2>. QED
    BY <1>2, <1>3, <1>4, <2>1, <2>2, <2>3 DEF Sound
<1> HIDE DEF entry
<1>6. /\ \A a \in DOMAIN maps' :
           \/ a = MapAt /\ maps'[a] = entry
           \/ a \in DOMAIN maps /\ maps'[a] = maps[a]
      /\ \A k \in DOMAIN grains' : k \in DOMAIN grains /\ grains'[k] = grains[k]
  <2>1. /\ DOMAIN m = DOMAIN maps \cup {MapAt} /\ m[MapAt] = entry
        /\ \A a \in DOMAIN maps : a # MapAt => m[a] = maps[a]
    BY DEF With
  <2> HIDE DEF m
  <2>2. /\ \A k \in DOMAIN grains' : k \in DOMAIN grains /\ grains'[k] = grains[k]
        /\ \A a \in DOMAIN maps' : a \in DOMAIN m /\ maps'[a] = m[a]
    BY <1>1, SweepFacts
  <2>. QED
    BY <2>1, <2>2
<1>7. MapEntries'
  BY <1>4, <1>5, <1>6 DEF IInv, MapEntries
<1>8. Stamped'
  <2>1. stack # <<>>
    BY <1>1 DEF Due
  <2>. QED
    BY <1>4, <1>5, <1>6, <2>1 DEF IInv, Stamped
<1>9. IsPartTable(grains)' /\ IsPartTable(cells)'
  BY <1>1, <1>4, <1>6 DEF IInv, IsPartTable
<1>. QED
  BY <1>4, <1>7, <1>8, <1>9 DEF IInv
(* A pointer that repeats the record or the cell of an id. *)
LEMMA PointerRefStep ==
  ASSUME IInv, DuePointer, NEW id \in Nat, id < Len(ids), ids[id + 1].o = Next1.o,
         Repeat(id), UNCHANGED maps
  PROVE  IInv'
<1>1. Put(id, <<>>) /\ UNCHANGED <<grains, cells, maps>>
  BY DEF Repeat
<1>2. /\ TypeOK' /\ Memory' /\ Rows' /\ Roots' /\ Truthful'
      /\ stack' # <<>> /\ Steady' = Steady /\ UNCHANGED <<heap, encEp>>
      /\ \A a, x : x.id \in Nat /\ Sound(a, x) => Sound(a, x)'
  BY <1>1, NothingNew, PutFacts DEF IInv, DuePointer
<1>3. MapEntries' /\ IsPartTable(grains)' /\ IsPartTable(cells)'
  BY <1>1, <1>2 DEF IInv, MapEntries, IsPartTable
<1>4. Stamped'
  <2>1. stack # <<>>
    BY DEF DuePointer, Due
  <2>. QED
    BY <1>1, <1>2, <2>1 DEF IInv, Stamped
<1>. QED
  BY <1>2, <1>3, <1>4 DEF IInv

LEMMA HereIs == Here = <<Here[1], Here[2]>> /\ Base = <<Here[1], 0>>
  BY DEF Here, Key, Base

LEMMA CellRefStep ==
  ASSUME IInv, EncodeCellRef
  PROVE  IInv'
<1>1. DuePointer /\ Holds(cells, Here) /\ Repeat(cells[Here].id) /\ UNCHANGED maps
  BY DEF EncodeCellRef
<1>2. /\ cells[Here].id \in Nat /\ cells[Here].id < Len(ids)
      /\ ids[cells[Here].id + 1].o = Next1.o
  BY <1>1, HereIs, PartIsKnown DEF IInv, DuePointer
<1>. QED
  BY <1>1, <1>2, PointerRefStep

LEMMA RefStep ==
  ASSUME IInv, EncodeRef
  PROVE  IInv'
<1>1. DuePointer /\ Holds(grains, Here) /\ Repeat(grains[Here].id) /\ UNCHANGED maps
  BY DEF EncodeRef
<1>2. /\ grains[Here].id \in Nat /\ grains[Here].id < Len(ids)
      /\ ids[grains[Here].id + 1].o = Next1.o
  BY <1>1, HereIs, PartIsKnown DEF IInv, DuePointer
<1>. QED
  BY <1>1, <1>2, PointerRefStep

LEMMA RecordStep ==
  ASSUME IInv, EncodeRecord
  PROVE  IInv'
<1> DEFINE entry == [id |-> NextID, grain |-> CanonicalGrain, o |-> Next1.o]
           g == With(grains, Here, entry)
           records == <<Record(Next1.o, CanonicalGrain)>>
<1>1. /\ DuePointer /\ Put(NextID, records)
      /\ noteInternInsert(1, g, maps) /\ UNCHANGED cells
  BY DEF EncodeRecord
<1>2. /\ Next1.o \in Nat /\ Next1.o \in DOMAIN heap /\ CanonicalGrain \in {"struct", "field"}
  BY <1>1, DueFacts DEF IInv, Positions, DuePointer, CanonicalGrain
<1>3. /\ records \in Seq(Records) /\ Len(records) = 1 /\ NextID \in Nat
      /\ NextID < Len(ids) + Len(records)
      /\ records[1].o = Next1.o
      /\ (ids \o records)[NextID + 1].o = Next1.o
      /\ \A n \in DOMAIN records :
           /\ records[n].root < Len(ids) + Len(records)
           /\ (ids \o records)[records[n].root + 1].o = records[n].o
  BY <1>1, <1>2, NewRecord DEF DuePointer
<1> HIDE DEF records
<1>4. /\ TypeOK' /\ Memory' /\ Rows' /\ Roots' /\ Truthful'
      /\ stack' # <<>> /\ Steady' = Steady /\ UNCHANGED <<heap, encEp>>
      /\ Len(ids') = Len(ids) + Len(records)
      /\ \A n \in DOMAIN records : ids'[Len(ids) + n] = records[n]
      /\ \A a, x : x.id \in Nat /\ Sound(a, x) => Sound(a, x)'
  BY <1>1, <1>3, PutFacts DEF IInv, DuePointer
<1>5. /\ entry \in [id : Nat, grain : {"struct", "field"}, o : Nat]
      /\ \A a, x : a = Here[1] /\ x = entry => Sound(a, x)'
  <2>1. Len(ids) \in Nat
    BY DEF IInv, TypeOK
  <2>2. ids'[NextID + 1].o = Next1.o /\ NextID < Len(ids')
    BY <1>3, <1>4, <2>1 DEF NextID
  <2>3. heap[Next1.o].at = Here[1]
    BY DEF Here, Key
  <2>. QED
    BY <1>2, <1>3, <1>4, <2>1, <2>2, <2>3 DEF Sound
<1> HIDE DEF entry
<1>6. /\ \A k \in DOMAIN grains' :
           \/ k = Here /\ grains'[k] = entry
           \/ k \in DOMAIN grains /\ grains'[k] = grains[k]
      /\ \A a \in DOMAIN maps' : a \in DOMAIN maps /\ maps'[a] = maps[a]
  <2>1. /\ DOMAIN g = DOMAIN grains \cup {Here} /\ g[Here] = entry
        /\ \A k \in DOMAIN grains : k # Here => g[k] = grains[k]
    BY DEF With
  <2> HIDE DEF g
  <2>2. /\ \A k \in DOMAIN grains' : k \in DOMAIN g /\ grains'[k] = g[k]
        /\ \A a \in DOMAIN maps' : a \in DOMAIN maps /\ maps'[a] = maps[a]
    BY <1>1, SweepFacts
  <2>. QED
    BY <2>1, <2>2
<1>7. MapEntries' /\ IsPartTable(cells)'
  BY <1>1, <1>4, <1>6 DEF IInv, MapEntries, IsPartTable
<1>8. IsPartTable(grains)'
  BY <1>4, <1>5, <1>6 DEF IInv, IsPartTable
<1>9. Stamped'
  <2>1. stack # <<>>
    BY <1>1 DEF DuePointer, Due
  <2>. QED
    BY <1>4, <1>6, <2>1 DEF IInv, Stamped
<1>. QED
  BY <1>4, <1>7, <1>8, <1>9 DEF IInv
(* A path reference writes a cell behind the record of its struct, which   *)
(* was written before or gets its id here.                                 *)
LEMMA PathRecords ==
  ASSUME IInv, PathDue
  PROVE  LET forced == ~Holds(grains, Base)
             root == IF forced THEN NextID ELSE grains[Base].id
             cell == IF forced THEN NextID + 1 ELSE NextID
             records == IF forced THEN <<Forced(Next1.o), Cell(root)>> ELSE <<Cell(root)>>
             more == ids \o records
         IN  /\ records \in Seq(Records) /\ NextID \in Nat /\ cell \in Nat
             /\ cell < Len(ids) + Len(records)
             /\ more[cell + 1].o = Next1.o
             /\ forced => more[NextID + 1].o = Next1.o /\ NextID < Len(ids) + Len(records)
             /\ \A n \in DOMAIN records :
                  /\ records[n].root < Len(ids) + Len(records)
                  /\ more[records[n].root + 1].o = records[n].o
<1>1. ids \in Seq(Records) /\ NextID \in Nat /\ NextID = Len(ids) /\ Next1.o \in Nat
  BY DueFacts DEF IInv, TypeOK, NextID, PathDue, DuePointer, Positions
<1>2. CASE ~Holds(grains, Base)
  <2> DEFINE first == Forced(Next1.o)
             second == Cell(NextID)
             records == <<first, second>>
  <2>1. /\ first \in Records /\ first.o = Next1.o /\ first.root = NextID
        /\ second \in Records /\ second.o = Next1.o /\ second.root = NextID
    BY <1>1 DEF Forced, Cell, Records
  <2> HIDE DEF first, second
  <2>2. /\ records \in Seq(Records) /\ Len(records) = 2 /\ DOMAIN records = {1, 2}
        /\ records[1] = first /\ records[2] = second
    BY <2>1
  <2> HIDE DEF records
  <2>3. (ids \o records)[NextID + 1] = first /\ (ids \o records)[NextID + 2] = second
    <3>1. \A i \in 1..(Len(ids) + Len(records)) :
            (ids \o records)[i] = IF i <= Len(ids) THEN ids[i] ELSE records[i - Len(ids)]
      <4>1. ids \in Seq(Records) /\ records \in Seq(Records)
        BY <1>1, <2>2
      <4>. QED
        BY <4>1, ConcatProperties
    <3>2. /\ NextID + 1 \in 1..(Len(ids) + Len(records))
          /\ NextID + 2 \in 1..(Len(ids) + Len(records))
          /\ ~(NextID + 1 <= Len(ids)) /\ ~(NextID + 2 <= Len(ids))
          /\ NextID + 1 - Len(ids) = 1 /\ NextID + 2 - Len(ids) = 2
      BY <1>1, <2>2
    <3>3. /\ (ids \o records)[NextID + 1] = records[NextID + 1 - Len(ids)]
          /\ (ids \o records)[NextID + 2] = records[NextID + 2 - Len(ids)]
      BY <1>1, <3>1, <3>2
    <3>. QED
      BY <2>2, <3>2, <3>3
  <2>4. /\ NextID + 1 \in Nat /\ NextID + 1 < Len(ids) + Len(records)
        /\ NextID < Len(ids) + Len(records)
        /\ (ids \o records)[NextID + 1].o = Next1.o
        /\ (ids \o records)[(NextID + 1) + 1].o = Next1.o
        /\ \A n \in DOMAIN records :
             /\ records[n].root < Len(ids) + Len(records)
             /\ (ids \o records)[records[n].root + 1].o = records[n].o
    <3>1. (NextID + 1) + 1 = NextID + 2 /\ NextID + 2 = Len(ids) + Len(records)
      BY <1>1, <2>2
    <3>2. \A n \in DOMAIN records : records[n].root = NextID /\ records[n].o = Next1.o
      BY <2>1, <2>2
    <3>. QED
      BY <1>1, <2>1, <2>3, <3>1, <3>2
  <2>5. records = IF ~Holds(grains, Base)
                  THEN <<Forced(Next1.o),
                         Cell(IF ~Holds(grains, Base) THEN NextID ELSE grains[Base].id)>>
                  ELSE <<Cell(IF ~Holds(grains, Base) THEN NextID ELSE grains[Base].id)>>
    BY <1>2 DEF records, first, second
  <2>. QED
    BY <1>1, <1>2, <2>2, <2>4, <2>5
<1>3. CASE Holds(grains, Base)
  <2> DEFINE root == grains[Base].id
             rec == Cell(root)
             records == <<rec>>
  <2>1. root \in Nat /\ root < Len(ids) /\ ids[root + 1].o = Next1.o
    BY <1>3, HereIs, PartIsKnown DEF IInv, PathDue, DuePointer
  <2> HIDE DEF root
  <2>2. rec \in Records /\ rec.o = Next1.o /\ rec.root = root
    BY <1>1, <2>1 DEF Cell, Records
  <2> HIDE DEF rec
  <2>3. records \in Seq(Records) /\ Len(records) = 1 /\ DOMAIN records = {1} /\ records[1] = rec
    BY <2>2
  <2> HIDE DEF records
  <2>4. (ids \o records)[NextID + 1] = rec /\ (ids \o records)[root + 1] = ids[root + 1]
    BY <1>1, <2>1, <2>3, ConcatProperties
  <2>. QED
    BY <1>1, <1>3, <2>1, <2>2, <2>3, <2>4 DEF records, rec, root
<1>. QED
  BY <1>2, <1>3

LEMMA PathRefStep ==
  ASSUME IInv, EncodePathRef
  PROVE  IInv'
<1> DEFINE forced == ~Holds(grains, Base)
           root == IF forced THEN NextID ELSE grains[Base].id
           cell == IF forced THEN NextID + 1 ELSE NextID
           records == IF forced THEN <<Forced(Next1.o), Cell(root)>> ELSE <<Cell(root)>>
           entry == [id |-> NextID, grain |-> "struct", o |-> Next1.o]
           part == [id |-> cell, grain |-> "field", o |-> Next1.o]
           g == IF forced THEN With(grains, Base, entry) ELSE grains
           n == IF forced THEN 2 ELSE 1
<1>1. /\ PathDue /\ DuePointer /\ Put(cell, records)
      /\ noteInternInsert(n, g, maps)
      /\ cells' = With(cells, Here, part)
  BY DEF EncodePathRef, PathDue
<1>2. /\ Next1.o \in Nat /\ Next1.o \in DOMAIN heap
  BY <1>1, DueFacts DEF IInv, Positions, DuePointer
<1>3. /\ records \in Seq(Records) /\ NextID \in Nat /\ cell \in Nat
      /\ cell < Len(ids) + Len(records)
      /\ (ids \o records)[cell + 1].o = Next1.o
      /\ forced => /\ (ids \o records)[NextID + 1].o = Next1.o
                   /\ NextID < Len(ids) + Len(records)
      /\ \A m \in DOMAIN records :
           /\ records[m].root < Len(ids) + Len(records)
           /\ (ids \o records)[records[m].root + 1].o = records[m].o
  BY <1>1, PathRecords
<1> HIDE DEF records, cell
<1>4. /\ TypeOK' /\ Memory' /\ Rows' /\ Roots' /\ Truthful'
      /\ stack' # <<>> /\ Steady' = Steady /\ UNCHANGED <<heap, encEp>>
      /\ Len(ids') = Len(ids) + Len(records)
      /\ \A a, x : x.id \in Nat /\ Sound(a, x) => Sound(a, x)'
      /\ ids' = ids \o records
  BY <1>1, <1>3, PutFacts DEF IInv, DuePointer, Put
<1>5. heap[Next1.o].at = Here[1] /\ Base[1] = Here[1]
  BY DEF Here, Key, Base
<1>6. /\ part \in [id : Nat, grain : {"struct", "field"}, o : Nat]
      /\ \A a, x : a = Here[1] /\ x = part => Sound(a, x)'
  BY <1>2, <1>3, <1>4, <1>5 DEF Sound
<1>7. /\ entry \in [id : Nat, grain : {"struct", "field"}, o : Nat]
      /\ forced => \A a, x : a = Here[1] /\ x = entry => Sound(a, x)'
  BY <1>2, <1>3, <1>4, <1>5 DEF Sound
<1> HIDE DEF entry, part
<1>8. \A k \in DOMAIN cells' :
        \/ k = Here /\ cells'[k] = part
        \/ k \in DOMAIN cells /\ cells'[k] = cells[k]
  BY <1>1 DEF With
<1>9. /\ \A k \in DOMAIN grains' :
           \/ forced /\ k = Base /\ grains'[k] = entry
           \/ k \in DOMAIN grains /\ grains'[k] = grains[k]
      /\ \A a \in DOMAIN maps' : a \in DOMAIN maps /\ maps'[a] = maps[a]
  <2>1. \A k \in DOMAIN g :
          \/ forced /\ k = Base /\ g[k] = entry
          \/ k \in DOMAIN grains /\ g[k] = grains[k]
    BY DEF With
  <2> HIDE DEF g, forced
  <2>2. /\ \A k \in DOMAIN grains' : k \in DOMAIN g /\ grains'[k] = g[k]
        /\ \A a \in DOMAIN maps' : a \in DOMAIN maps /\ maps'[a] = maps[a]
    BY <1>1, SweepFacts
  <2>. QED
    BY <2>1, <2>2
<1>10. MapEntries'
  BY <1>4, <1>9 DEF IInv, MapEntries
<1>11. IsPartTable(grains)'
  BY <1>4, <1>5, <1>7, <1>9 DEF IInv, IsPartTable
<1>12. IsPartTable(cells)'
  BY <1>4, <1>6, <1>8 DEF IInv, IsPartTable
<1>13. Stamped'
  <2>1. stack # <<>>
    BY <1>1 DEF DuePointer, Due
  <2>. QED
    BY <1>4, <1>9, <2>1 DEF IInv, Stamped
<1>. QED
  BY <1>4, <1>10, <1>11, <1>12, <1>13 DEF IInv
-----------------------------------------------------------------------------
(* The steps between positions.                                            *)

(* A collection clears a handle; the addresses stay what they were.        *)
LEMMA CollectStep ==
  ASSUME IInv, Collect
  PROVE  IInv'
<1>1. PICK o \in DOMAIN heap \ Kept : heap' = [heap EXCEPT ![o].live = FALSE]
  BY DEF Collect
<1>2. UNCHANGED <<held, maps, grains, cells, encEp, stack, out, ids>>
  BY DEF Collect, tables
<1>3. /\ heap \in Seq(Objects) /\ o \in 1..Len(heap) /\ heap[o] \in Objects
      /\ DOMAIN heap = 1..Len(heap)
  BY <1>1, ElementOfSeq DEF IInv, TypeOK
<1> DEFINE cleared == [heap[o] EXCEPT !.live = FALSE]
<1>4. cleared \in Objects /\ cleared.at = heap[o].at /\ cleared.live = FALSE
  BY <1>3 DEF Objects
<1>5. heap' = [heap EXCEPT ![o] = cleared]
  BY <1>1
<1> HIDE DEF cleared
<1>6. /\ heap' \in Seq(Objects) /\ DOMAIN heap' = DOMAIN heap
      /\ \A x \in DOMAIN heap : heap'[x] = IF x = o THEN cleared ELSE heap[x]
  BY <1>3, <1>4, <1>5, ExceptSeq
<1>7. \A x \in DOMAIN heap : heap'[x].at = heap[x].at /\ (heap'[x].live => heap[x].live)
  BY <1>4, <1>6
<1>8. Kept' = Kept /\ Steady' = Steady
  BY <1>2 DEF Kept, Steady
<1>9. TypeOK'
  BY <1>2, <1>6 DEF IInv, TypeOK
<1>10. Memory'
  BY <1>1, <1>6, <1>7, <1>8 DEF IInv, Memory, Live
<1>11. \A a, x : Sound(a, x) => Sound(a, x)'
  BY <1>2, <1>6, <1>7 DEF Sound
<1>12. MapEntries' /\ IsPartTable(grains)' /\ IsPartTable(cells)'
  BY <1>2, <1>11 DEF IInv, MapEntries, IsPartTable
<1>13. Rows' /\ Stamped' /\ Roots' /\ Truthful'
  BY <1>2, <1>8 DEF IInv, Rows, Stamped, Roots, Truthful
<1>. QED
  BY <1>9, <1>10, <1>12, <1>13 DEF IInv

(* A new object takes an address that no live one has. *)
LEMMA NewObject ==
  ASSUME IInv, NEW a \in FreeAddrs, NEW sort \in {"map", "struct"},
         heap' = Append(heap, Object(sort, a)), ids' = ids
  PROVE  /\ heap' \in Seq(Objects) /\ DOMAIN heap' = DOMAIN heap \cup {Len(heap) + 1}
         /\ Len(heap) + 1 \in Nat \ {0} /\ Len(heap) + 1 \notin DOMAIN heap
         /\ \A o \in DOMAIN heap : heap'[o] = heap[o]
         /\ heap'[Len(heap) + 1].live
         /\ \A o, p \in DOMAIN heap' :
              heap'[o].live /\ heap'[p].live /\ heap'[o].at = heap'[p].at => o = p
         /\ \A b, x : Sound(b, x) => Sound(b, x)'
<1> DEFINE new == Object(sort, a)
           n == Len(heap) + 1
<1>1. /\ heap \in Seq(Objects) /\ Len(heap) \in Nat /\ DOMAIN heap = 1..Len(heap)
  BY LenProperties DEF IInv, TypeOK
<1>2. new \in Objects /\ new.at = a /\ new.live
  BY DEF Object, Objects, FreeAddrs
<1>3. \A o \in DOMAIN heap : heap[o].live => heap[o].at # a
  BY DEF FreeAddrs, Live
<1> HIDE DEF new
<1>4. /\ heap' \in Seq(Objects) /\ DOMAIN heap' = 1..n
      /\ \A o \in 1..Len(heap) : heap'[o] = heap[o]
      /\ heap'[n] = new
  BY <1>1, <1>2, AppendProperties, LenProperties DEF new
<1>5. DOMAIN heap' = DOMAIN heap \cup {n} /\ n \in Nat \ {0} /\ n \notin DOMAIN heap
  BY <1>1, <1>4
<1> HIDE DEF n
<1>6. \A o, p \in DOMAIN heap' :
        heap'[o].live /\ heap'[p].live /\ heap'[o].at = heap'[p].at => o = p
  BY <1>1, <1>2, <1>3, <1>4, <1>5 DEF IInv, Memory, Live
<1>7. \A b, x : Sound(b, x) => Sound(b, x)'
  BY <1>1, <1>4, <1>5 DEF Sound
<1>. QED
  BY <1>1, <1>2, <1>4, <1>5, <1>6, <1>7 DEF n

LEMMA AllocateStep ==
  ASSUME IInv, Allocate
  PROVE  IInv'
<1>1. PICK a \in FreeAddrs, sort \in {"map", "struct"} :
        heap' = Append(heap, Object(sort, a))
  BY DEF Allocate
<1>2. /\ stack = <<>> /\ held' = held \cup {Len(heap) + 1}
      /\ UNCHANGED <<maps, grains, cells, encEp, stack, out, ids>>
  BY DEF Allocate, tables
<1>3. /\ heap' \in Seq(Objects) /\ DOMAIN heap' = DOMAIN heap \cup {Len(heap) + 1}
      /\ \A o \in DOMAIN heap : heap'[o] = heap[o]
      /\ heap'[Len(heap) + 1].live
      /\ \A o, p \in DOMAIN heap' :
           heap'[o].live /\ heap'[p].live /\ heap'[o].at = heap'[p].at => o = p
      /\ \A b, x : Sound(b, x) => Sound(b, x)'
  BY <1>1, <1>2, NewObject
<1>4. TypeOK'
  BY <1>2, <1>3 DEF IInv, TypeOK
<1>5. Kept' = Kept \cup {Len(heap) + 1}
  BY <1>2 DEF Kept
<1>6. Memory'
  BY <1>3, <1>5 DEF IInv, Memory, Live
<1>7. MapEntries' /\ IsPartTable(grains)' /\ IsPartTable(cells)'
  BY <1>2, <1>3 DEF IInv, MapEntries, IsPartTable
<1>8. Rows' /\ Stamped' /\ Roots' /\ Truthful'
  BY <1>2 DEF IInv, Rows, Stamped, Roots, Truthful
<1>. QED
  BY <1>4, <1>6, <1>7, <1>8 DEF IInv

LEMMA ReleaseStep ==
  ASSUME IInv, Release
  PROVE  IInv'
<1>1. /\ stack = <<>> /\ held' \subseteq held
      /\ UNCHANGED <<heap, maps, grains, cells, encEp, stack, out, ids>>
  BY DEF Release, tables
<1>2. Kept' \subseteq Kept
  BY <1>1 DEF Kept
<1>3. TypeOK' /\ Memory'
  BY <1>1, <1>2 DEF IInv, TypeOK, Memory, Live
<1>4. MapEntries' /\ IsPartTable(grains)' /\ IsPartTable(cells)'
  BY <1>1 DEF IInv, MapEntries, IsPartTable, Sound
<1>5. Rows' /\ Stamped' /\ Roots' /\ Truthful'
  BY <1>1 DEF IInv, Rows, Stamped, Roots, Truthful
<1>. QED
  BY <1>3, <1>4, <1>5 DEF IInv
(* What the program hands to an Encode is a position of an object it holds. *)
LEMMA HeldPosition ==
  ASSUME IInv, NEW o \in held, NEW p \in PositionsOf(o)
  PROVE  /\ p \in Positions /\ p.o = o /\ p.f # "coder"
         /\ o \in DOMAIN heap /\ o \in Nat \ {0}
<1>1. o \in DOMAIN heap /\ o \in Nat \ {0}
  BY DEF IInv, TypeOK, Memory, Kept
<1>. QED
  BY <1>1 DEF PositionsOf, At, Positions, Fields

LEMMA FrameFacts ==
  ASSUME IInv, NEW call \in Nat \X Nat, NEW row \in Seq(Positions), NEW pins \in SUBSET Nat
  PROVE  /\ Frame(call, row, pins) \in Frames
         /\ Frame(call, row, pins).todo = row
         /\ Frame(call, row, pins).pins = pins
  BY DEF Frame, Frames

LEMMA EncodeStep ==
  ASSUME IInv, Encode
  PROVE  IInv'
<1>1. PICK n \in 1..MaxPositions :
        \E row \in [1..n -> (UNION {PositionsOf(o) : o \in held}) \cup {CoderHere}] :
          stack' = <<Frame(<<encEp + 1, 0>>, row, {row[i].o : i \in 1..n} \ {0})>>
  BY DEF Encode
<1>2. PICK row \in [1..n -> (UNION {PositionsOf(o) : o \in held}) \cup {CoderHere}] :
        stack' = <<Frame(<<encEp + 1, 0>>, row, {row[i].o : i \in 1..n} \ {0})>>
  BY <1>1
<1> DEFINE pins == {row[i].o : i \in 1..n} \ {0}
           fr == Frame(<<encEp + 1, 0>>, row, pins)
<1>3. /\ stack = <<>> /\ encEp' = encEp + 1 /\ stack' = <<fr>>
      /\ UNCHANGED <<heap, held, maps, grains, cells, out, ids>>
  BY <1>2 DEF Encode, tables
<1>4. n \in Nat
  BY TablesAssumption DEF TablesAssumption
<1>5. ASSUME NEW j \in 1..n
      PROVE  /\ row[j] \in Positions
             /\ row[j].f # "coder" => row[j].o \in held /\ row[j].o # 0
             /\ row[j].o \in held \cup {0}
  <2> DEFINE own == UNION {PositionsOf(o) : o \in held}
  <2>0. row \in [1..n -> own \cup {CoderHere}]
    OBVIOUS
  <2> HIDE DEF own
  <2>1. row[j] \in own \/ row[j] = CoderHere
    BY <2>0
  <2>2. CASE row[j] = CoderHere
    BY <2>2 DEF CoderHere, At, Positions, Fields
  <2>3. CASE row[j] \in own
    <3>1. PICK o \in held : row[j] \in PositionsOf(o)
      BY <2>3 DEF own
    <3>. QED
      BY <3>1, HeldPosition
  <2>. QED
    BY <2>1, <2>2, <2>3
<1>6. row \in Seq(Positions) /\ DOMAIN row = 1..n
  <2>1. row \in [1..n -> Positions]
    BY <1>5
  <2>. QED
    BY <1>4, <2>1
<1>7. pins \subseteq held /\ pins \in SUBSET Nat
  <2>1. held \subseteq Nat
    BY DEF IInv, TypeOK, Memory, Kept
  <2>. QED
    BY <1>5, <2>1
<1>8. fr \in Frames /\ fr.todo = row /\ fr.pins = pins
  <2>1. <<encEp + 1, 0>> \in Nat \X Nat
    BY DEF IInv, TypeOK
  <2> HIDE DEF pins
  <2>. QED
    BY <1>6, <1>7, <2>1, FrameFacts
<1>9. \A j \in 1..n : row[j].f # "coder" => row[j].o \in pins
  BY <1>5
<1> HIDE DEF pins, fr
<1>10. stack' \in Seq(Frames) /\ DOMAIN stack' = {1} /\ stack'[1] = fr
  BY <1>3, <1>8
<1>11. TypeOK'
  BY <1>3, <1>10 DEF IInv, TypeOK
<1>12. Kept' = Kept
  <2>1. {stack'[i].pins : i \in DOMAIN stack'} = {pins}
    BY <1>8, <1>10
  <2>2. Kept = held
    BY <1>3 DEF Kept
  <2>. QED
    BY <1>3, <1>7, <2>1, <2>2 DEF Kept
<1>13. Memory'
  BY <1>3, <1>12 DEF IInv, Memory, Live
<1>14. Steady' = held \cup pins
  BY <1>3, <1>8, <1>10 DEF Steady
<1>15. Rows'
  BY <1>6, <1>8, <1>9, <1>10, <1>14 DEF Rows
<1>16. \A a \in DOMAIN maps : maps[a].ep \in 0..encEp
  BY DEF IInv, MapEntries
<1>17. MapEntries'
  <2>1. 0..encEp \subseteq 0..(encEp + 1)
    BY DEF IInv, TypeOK
  <2>. QED
    BY <1>3, <2>1 DEF IInv, MapEntries, Sound
<1>18. Stamped'
  BY <1>3, <1>16 DEF IInv, TypeOK, Stamped
<1>19. IsPartTable(grains)' /\ IsPartTable(cells)' /\ Roots' /\ Truthful'
  BY <1>3 DEF IInv, IsPartTable, Sound, Roots, Truthful
<1>. QED
  BY <1>11, <1>13, <1>15, <1>17, <1>18, <1>19 DEF IInv

(* A coder's Encode puts a frame of its own on the stack. *)
LEMMA SubFrame ==
  ASSUME IInv, Due({"coder"}),
         NEW row \in Seq(Positions), NEW pins \in SUBSET Nat,
         stack' = Append(Advanced, Frame(Call, row, pins)), held' = held,
         \A j \in DOMAIN row :
           /\ row[j].f # "coder" => row[j].o \in pins
           /\ row[j].f = "map" => row[j].o \in Steady
  PROVE  /\ stack' \in Seq(Frames) /\ Rows'
         /\ Kept' = Kept \cup pins /\ Steady' = Steady
<1> DEFINE fr == Frame(Call, row, pins)
           n == Len(stack) + 1
<1>1. /\ Advanced \in Seq(Frames) /\ DOMAIN Advanced = DOMAIN stack
      /\ Len(Advanced) = Len(stack)
      /\ \A i \in DOMAIN stack : Advanced[i].pins = stack[i].pins
      /\ \A i \in DOMAIN stack : \A j \in DOMAIN Advanced[i].todo :
           \E m \in DOMAIN stack[i].todo : Advanced[i].todo[j] = stack[i].todo[m]
  BY AdvanceFacts DEF IInv
<1>2. /\ Len(stack) \in Nat \ {0} /\ DOMAIN stack = 1..Len(stack)
      /\ Running \in Frames
  BY DueFacts DEF IInv, TypeOK
<1>3. Call \in Nat \X Nat
  BY <1>2 DEF Call, IInv, TypeOK, Frames
<1>4. fr \in Frames /\ fr.todo = row /\ fr.pins = pins
  BY <1>3, FrameFacts
<1>5. stack' = Append(Advanced, fr)
  OBVIOUS
<1> HIDE DEF fr
<1>6. /\ stack' \in Seq(Frames) /\ DOMAIN stack' = 1..n
      /\ \A i \in DOMAIN stack : stack'[i] = Advanced[i]
      /\ stack'[n] = fr
  BY <1>1, <1>2, <1>4, <1>5, AppendProperties, LenProperties
<1>7. DOMAIN stack' = DOMAIN stack \cup {n} /\ 1 \in DOMAIN stack
  BY <1>2, <1>6
<1> HIDE DEF n
<1>8. Steady' = Steady
  BY <1>1, <1>6, <1>7 DEF Steady
<1>9. Kept' = Kept \cup pins
  <2>1. {stack'[i].pins : i \in DOMAIN stack'}
          = {stack[i].pins : i \in DOMAIN stack} \cup {pins}
    <3>1. \A i \in DOMAIN stack : stack'[i].pins = stack[i].pins
      BY <1>1, <1>6
    <3>2. stack'[n].pins = pins
      BY <1>4, <1>6
    <3>. QED
      BY <1>7, <3>1, <3>2
  <2>. QED
    BY <2>1 DEF Kept
<1>10. Rows'
  <2>1. ASSUME NEW i \in DOMAIN stack, NEW j \in DOMAIN Advanced[i].todo
        PROVE  /\ Advanced[i].todo[j].f # "coder" =>
                    Advanced[i].todo[j].o \in Advanced[i].pins
               /\ Advanced[i].todo[j].f = "map" => Advanced[i].todo[j].o \in Steady
    BY <1>1 DEF IInv, Rows
  <2>. QED
    BY <1>4, <1>6, <1>7, <1>8, <2>1 DEF Rows
<1>. QED
  BY <1>6, <1>8, <1>9, <1>10
(* A coder's own struct, which only its frame keeps. *)
LEMMA OwnStep ==
  ASSUME IInv, Due({"coder"}), NEW a \in FreeAddrs,
         LET o == Len(heap) + 1
         IN  /\ heap' = Append(heap, Object("struct", a))
             /\ stack' = Append(Advanced, Frame(Call, <<At(o, "whole")>>, {o})),
         UNCHANGED <<held, tables, encEp, out, ids, refused>>
  PROVE  IInv'
<1> DEFINE o == Len(heap) + 1
           row == <<At(o, "whole")>>
<1>1. /\ heap' = Append(heap, Object("struct", a))
      /\ stack' = Append(Advanced, Frame(Call, row, {o}))
      /\ UNCHANGED <<held, maps, grains, cells, encEp, out, ids>>
  BY DEF tables
<1>2. /\ heap' \in Seq(Objects) /\ DOMAIN heap' = DOMAIN heap \cup {o}
      /\ o \in Nat
      /\ \A x \in DOMAIN heap : heap'[x] = heap[x]
      /\ heap'[o].live
      /\ \A x, p \in DOMAIN heap' :
           heap'[x].live /\ heap'[p].live /\ heap'[x].at = heap'[p].at => x = p
      /\ \A b, x : Sound(b, x) => Sound(b, x)'
  BY <1>1, NewObject
<1> HIDE DEF o
<1>3. /\ row \in Seq(Positions) /\ DOMAIN row = {1}
      /\ row[1].o = o /\ row[1].f = "whole"
  BY <1>2 DEF At, Positions, Fields
<1> HIDE DEF row
<1>4. /\ stack' \in Seq(Frames) /\ Rows'
      /\ Kept' = Kept \cup {o} /\ Steady' = Steady
  <2>1. \A j \in DOMAIN row :
          /\ row[j].f # "coder" => row[j].o \in {o}
          /\ row[j].f = "map" => row[j].o \in Steady
    BY <1>3
  <2>2. {o} \in SUBSET Nat
    BY <1>2
  <2>. QED
    BY <1>1, <1>3, <2>1, <2>2, SubFrame
<1>5. TypeOK'
  BY <1>1, <1>2, <1>4 DEF IInv, TypeOK
<1>6. Memory'
  BY <1>2, <1>4 DEF IInv, Memory, Live
<1>7. MapEntries' /\ IsPartTable(grains)' /\ IsPartTable(cells)'
  BY <1>1, <1>2 DEF IInv, MapEntries, IsPartTable
<1>8. Stamped'
  <2>1. stack # <<>>
    BY DEF Due
  <2>. QED
    BY <1>1, <1>4, <2>1 DEF IInv, Stamped
<1>9. Roots' /\ Truthful'
  BY <1>1 DEF IInv, Roots, Truthful
<1>. QED
  BY <1>4, <1>5, <1>6, <1>7, <1>8, <1>9 DEF IInv

(* A coder's Encode of something the program holds. *)
LEMMA HandedStep ==
  ASSUME IInv, Due({"coder"}), NEW o \in held, NEW p \in PositionsOf(o),
         stack' = Append(Advanced, Frame(Call, <<p>>, {o})),
         UNCHANGED <<heap, held, tables, encEp, out, ids, refused>>
  PROVE  IInv'
<1>1. UNCHANGED <<heap, held, maps, grains, cells, encEp, out, ids>>
  BY DEF tables
<1>2. p \in Positions /\ p.o = o /\ o \in Nat
  BY HeldPosition
<1>3. <<p>> \in Seq(Positions) /\ DOMAIN <<p>> = {1} /\ <<p>>[1] = p
  BY <1>2
<1>4. /\ stack' \in Seq(Frames) /\ Rows'
      /\ Kept' = Kept \cup {o} /\ Steady' = Steady
  <2> DEFINE row == <<p>>
  <2>1. \A j \in DOMAIN row :
          /\ row[j].f # "coder" => row[j].o \in {o}
          /\ row[j].f = "map" => row[j].o \in Steady
    BY <1>2, <1>3 DEF Steady
  <2>2. {o} \in SUBSET Nat /\ row \in Seq(Positions)
    BY <1>2, <1>3
  <2>3. stack' = Append(Advanced, Frame(Call, row, {o}))
    OBVIOUS
  <2> HIDE DEF row
  <2>. QED
    BY <1>1, <2>1, <2>2, <2>3, SubFrame
<1>5. Kept' = Kept
  BY <1>4 DEF Kept
<1>6. TypeOK' /\ Memory'
  BY <1>1, <1>4, <1>5 DEF IInv, TypeOK, Memory, Live
<1>7. MapEntries' /\ IsPartTable(grains)' /\ IsPartTable(cells)'
  BY <1>1 DEF IInv, MapEntries, IsPartTable, Sound
<1>8. Stamped'
  <2>1. stack # <<>>
    BY DEF Due
  <2>. QED
    BY <1>1, <1>4, <2>1 DEF IInv, Stamped
<1>9. Roots' /\ Truthful'
  BY <1>1 DEF IInv, Roots, Truthful
<1>. QED
  BY <1>4, <1>6, <1>7, <1>8, <1>9 DEF IInv

LEMMA CoderEncodeStep ==
  ASSUME IInv, CoderEncode, "temp_map" \notin Shapes
  PROVE  IInv'
<1>1. /\ Due({"coder"})
      /\ UNCHANGED <<held, tables, encEp, out, ids, refused>>
  BY DEF CoderEncode
<1>2. CASE \E a \in FreeAddrs :
             LET o == Len(heap) + 1
             IN  /\ heap' = Append(heap, Object("struct", a))
                 /\ stack' = Append(Advanced, Frame(Call, <<At(o, "whole")>>, {o}))
  BY <1>1, <1>2, OwnStep
<1>3. CASE \E o \in held, p \in UNION {PositionsOf(x) : x \in held} :
             /\ p.o = o /\ UNCHANGED heap
             /\ stack' = Append(Advanced, Frame(Call, <<p>>, {o}))
  <2>1. PICK o \in held, p \in UNION {PositionsOf(x) : x \in held} :
          /\ p.o = o /\ UNCHANGED heap
          /\ stack' = Append(Advanced, Frame(Call, <<p>>, {o}))
    BY <1>3
  <2>2. PICK x \in held : p \in PositionsOf(x)
    BY <2>1
  <2>3. x = o
    BY <2>1, <2>2, HeldPosition
  <2>. QED
    BY <1>1, <2>1, <2>2, <2>3, HandedStep
<1>4. QED
  BY <1>2, <1>3 DEF CoderEncode

LEMMA EncodeEndsStep ==
  ASSUME IInv, EncodeEnds
  PROVE  IInv'
<1> DEFINE n == Len(stack) - 1
<1>1. /\ stack # <<>> /\ stack' = SubSeq(stack, 1, n)
      /\ UNCHANGED <<heap, held, maps, grains, cells, encEp, out, ids>>
  BY DEF EncodeEnds, tables
<1>2. /\ stack \in Seq(Frames) /\ DOMAIN stack = 1..Len(stack) /\ n \in Nat
  BY <1>1 DEF IInv, TypeOK
<1>3. /\ stack' \in Seq(Frames) /\ DOMAIN stack' = 1..n /\ 1..n \subseteq DOMAIN stack
      /\ \A i \in 1..n : stack'[i] = stack[i]
  <2>1. \A i \in 1..n : stack[i] \in Frames
    BY <1>2, ElementOfSeq
  <2>2. /\ SubSeq(stack, 1, n) \in Seq(Frames)
        /\ Len(SubSeq(stack, 1, n)) = IF 1 <= n THEN n - 1 + 1 ELSE 0
        /\ \A i \in 1..(n - 1 + 1) : SubSeq(stack, 1, n)[i] = stack[1 + i - 1]
    BY <1>2, <2>1, SubSeqProperties
  <2>3. Len(stack') = n
    BY <1>1, <1>2, <2>2
  <2>. QED
    BY <1>1, <1>2, <2>2, <2>3, LenProperties
<1> HIDE DEF n
<1>4. stack' # <<>> => Steady' = Steady
  <2>1. stack' # <<>> => 1 \in 1..n
    BY <1>2, <1>3
  <2>. QED
    BY <1>1, <1>3, <2>1 DEF Steady
<1>5. Kept' \subseteq Kept
  BY <1>1, <1>3 DEF Kept
<1>6. TypeOK' /\ Memory'
  BY <1>1, <1>3, <1>5 DEF IInv, TypeOK, Memory, Live
<1>7. Rows'
  <2>1. 1..n # {} => stack' # <<>>
    <3>1. DOMAIN <<>> = {}
      OBVIOUS
    <3>. QED
      BY <1>3, <3>1
  <2>. QED
    BY <1>3, <1>4, <2>1 DEF IInv, Rows
<1>8. MapEntries' /\ IsPartTable(grains)' /\ IsPartTable(cells)'
  BY <1>1 DEF IInv, MapEntries, IsPartTable, Sound
<1>9. Stamped' /\ Roots' /\ Truthful'
  BY <1>1, <1>4 DEF IInv, Stamped, Roots, Truthful
<1>. QED
  BY <1>6, <1>7, <1>8, <1>9 DEF IInv

LEMMA RefuseStep ==
  ASSUME IInv, NEW class, Refuse(class)
  PROVE  IInv'
  BY DEF Refuse, tables, IInv, TypeOK, Memory, Live, Kept, Rows, Steady, MapEntries,
         IsPartTable, Sound, Stamped, Roots, Truthful

LEMMA StutterStep ==
  ASSUME IInv, UNCHANGED vars
  PROVE  IInv'
  BY DEF vars, tables, IInv, TypeOK, Memory, Live, Kept, Rows, Steady, MapEntries,
         IsPartTable, Sound, Stamped, Roots, Truthful
LEMMA InvInit ==
  ASSUME Init
  PROVE  IInv
<1>1. /\ heap = <<>> /\ stack = <<>> /\ out = <<>> /\ ids = <<>> /\ encEp = 0 /\ held = {}
      /\ DOMAIN maps = {} /\ DOMAIN grains = {} /\ DOMAIN cells = {}
  BY DEF Init
<1>2. TypeOK
  BY <1>1 DEF TypeOK
<1>3. Memory /\ Rows /\ Roots /\ Truthful
  <2>1. DOMAIN <<>> = {}
    OBVIOUS
  <2>. QED
    BY <1>1, <2>1 DEF Memory, Kept, Rows, Roots, Truthful
<1>4. MapEntries /\ IsPartTable(grains) /\ IsPartTable(cells) /\ Stamped
  BY <1>1 DEF MapEntries, IsPartTable, Stamped
<1>. QED
  BY <1>2, <1>3, <1>4 DEF IInv

LEMMA InvStep ==
  ASSUME IInv, [Next]_vars, "temp_map" \notin Shapes
  PROVE  IInv'
<1>1. CASE Collect
  BY <1>1, CollectStep
<1>2. CASE Allocate
  BY <1>2, AllocateStep
<1>3. CASE Release
  BY <1>3, ReleaseStep
<1>4. CASE Encode
  BY <1>4, EncodeStep
<1>5. CASE CoderEncode
  BY <1>5, CoderEncodeStep
<1>6. CASE EncodeEnds
  BY <1>6, EncodeEndsStep
<1>7. CASE EncodeMapRef
  BY <1>7, MapRefStep
<1>8. CASE EncodeMap
  BY <1>8, MapStep
<1>9. CASE EncodeCellRef
  BY <1>9, CellRefStep
<1>10. CASE EncodeRef
  BY <1>10, RefStep
<1>11. CASE EncodeCoarser
  BY <1>11, RefuseStep DEF EncodeCoarser
<1>12. CASE EncodeRecord
  BY <1>12, RecordStep
<1>13. CASE EncodePathRef
  BY <1>13, PathRefStep
<1>14. CASE EncodePathEarly
  BY <1>14, RefuseStep DEF EncodePathEarly
<1>15. CASE UNCHANGED vars
  BY <1>15, StutterStep
<1>. QED
  BY <1>1, <1>2, <1>3, <1>4, <1>5, <1>6, <1>7, <1>8, <1>9, <1>10, <1>11, <1>12,
     <1>13, <1>14, <1>15 DEF Next

(* What a token names is its own object's, by way of the record's root.    *)
LEMMA StorageIsOwn ==
  ASSUME IInv
  PROVE  NeverMerged
<1>1. ASSUME NEW i \in DOMAIN out
      PROVE  ids[Storage(out[i])[1] + 1].o = out[i].o
  <2> DEFINE id == out[i].id
             e == ids[id + 1]
  <2>1. id \in Nat /\ id < Len(ids) /\ e.o = out[i].o
    <3>1. out[i] \in Tokens
      BY DEF IInv, TypeOK
    <3>. QED
      BY <3>1 DEF IInv, Truthful, Tokens
  <2>2. id + 1 \in DOMAIN ids
    BY <2>1 DEF IInv, TypeOK
  <2>3. ids[e.root + 1].o = out[i].o
    BY <2>1, <2>2 DEF IInv, Roots
  <2> HIDE DEF e, id
  <2>4. Storage(out[i])[1] = e.root \/ Storage(out[i])[1] = id
    BY DEF Storage, e, id
  <2>. QED
    BY <2>1, <2>3, <2>4 DEF e
<1>. QED
  BY <1>1 DEF NeverMerged

-----------------------------------------------------------------------------
(* Sweeps. *)

(* An entry of the map table is a record of three fields. *)
MapsAreRecords ==
  \A a \in DOMAIN maps :
    maps[a] = [id |-> maps[a].id, ep |-> maps[a].ep, o |-> maps[a].o]

LEMMA RecordsInit == Init => MapsAreRecords
  BY DEF Init, MapsAreRecords

(* A step that inserts nothing and evicts nothing. *)
LEMMA TablesSame ==
  ASSUME MapsAreRecords, UNCHANGED <<grains, maps>>
  PROVE  MapsAreRecords' /\ LiveEntriesStay
  BY DEF MapsAreRecords, LiveEntriesStay

LEMMA RestampStays ==
  ASSUME MapsAreRecords, EncodeMapRef
  PROVE  MapsAreRecords' /\ LiveEntriesStay
<1>1. maps' = [maps EXCEPT ![MapAt].ep = encEp] /\ UNCHANGED grains
  BY DEF EncodeMapRef, Repeat
<1>2. ASSUME NEW a \in DOMAIN maps
      PROVE  /\ a \in DOMAIN maps' /\ maps'[a].id = maps[a].id
             /\ maps'[a] = [id |-> maps'[a].id, ep |-> maps'[a].ep, o |-> maps'[a].o]
  <2>1. maps[a] = [id |-> maps[a].id, ep |-> maps[a].ep, o |-> maps[a].o]
    BY DEF MapsAreRecords
  <2>2. maps'[a] = IF a = MapAt THEN [maps[a] EXCEPT !.ep = encEp] ELSE maps[a]
    BY <1>1
  <2>3. [maps[a] EXCEPT !.ep = encEp] = [id |-> maps[a].id, ep |-> encEp, o |-> maps[a].o]
    BY <2>1
  <2>. QED
    BY <1>1, <2>1, <2>2, <2>3
<1>3. DOMAIN maps' = DOMAIN maps
  BY <1>1
<1>. QED
  BY <1>1, <1>2, <1>3 DEF MapsAreRecords, LiveEntriesStay

(* An insert takes the place of a dead entry or of none. *)
LEMMA MapInsertStays ==
  ASSUME MapsAreRecords, EncodeMap
  PROVE  MapsAreRecords' /\ LiveEntriesStay
<1> DEFINE entry == [id |-> NextID, ep |-> encEp, o |-> Next1.o]
           m == With(maps, MapAt, entry)
<1>1. noteInternInsert(1, grains, m) /\ ~MapKnown
  BY DEF EncodeMap
<1>2. /\ DOMAIN m = DOMAIN maps \cup {MapAt} /\ m[MapAt] = entry
      /\ \A a \in DOMAIN maps : a # MapAt => m[a] = maps[a]
  BY DEF With
<1>3. entry = [id |-> entry.id, ep |-> entry.ep, o |-> entry.o]
  OBVIOUS
<1>4. MapAt \in DOMAIN maps => ~Live(maps[MapAt].o)
  BY <1>1 DEF MapKnown, Alive
<1> HIDE DEF entry, m
<1>5. /\ \A k \in DOMAIN grains' : k \in DOMAIN grains /\ grains'[k] = grains[k]
      /\ \A a \in DOMAIN maps' : a \in DOMAIN m /\ maps'[a] = m[a]
      /\ \A k \in DOMAIN grains : Live(grains[k].o) => k \in DOMAIN grains'
      /\ \A a \in DOMAIN m : Live(m[a].o) => a \in DOMAIN maps'
  BY <1>1, SweepFacts
<1>6. MapsAreRecords'
  BY <1>2, <1>3, <1>5 DEF MapsAreRecords
<1>7. LiveEntriesStay
  BY <1>2, <1>4, <1>5 DEF LiveEntriesStay
<1>. QED
  BY <1>6, <1>7

LEMMA PartInsertStays ==
  ASSUME MapsAreRecords, NEW n, NEW g, noteInternInsert(n, g, maps),
         \A k \in DOMAIN grains :
           Live(grains[k].o) => k \in DOMAIN g /\ g[k] = grains[k]
  PROVE  MapsAreRecords' /\ LiveEntriesStay
<1>1. /\ \A k \in DOMAIN grains' : k \in DOMAIN g /\ grains'[k] = g[k]
      /\ \A a \in DOMAIN maps' : a \in DOMAIN maps /\ maps'[a] = maps[a]
      /\ \A k \in DOMAIN g : Live(g[k].o) => k \in DOMAIN grains'
      /\ \A a \in DOMAIN maps : Live(maps[a].o) => a \in DOMAIN maps'
  BY SweepFacts
<1>. QED
  BY <1>1 DEF MapsAreRecords, LiveEntriesStay

LEMMA RecordInsertStays ==
  ASSUME MapsAreRecords, EncodeRecord
  PROVE  MapsAreRecords' /\ LiveEntriesStay
<1> DEFINE entry == [id |-> NextID, grain |-> CanonicalGrain, o |-> Next1.o]
           g == With(grains, Here, entry)
<1>1. noteInternInsert(1, g, maps) /\ ~Holds(grains, Here)
  BY DEF EncodeRecord
<1>2. \A k \in DOMAIN grains : Live(grains[k].o) => k \in DOMAIN g /\ g[k] = grains[k]
  BY <1>1 DEF With, Holds
<1> HIDE DEF g
<1>. QED
  BY <1>1, <1>2, PartInsertStays

LEMMA PathInsertStays ==
  ASSUME MapsAreRecords, EncodePathRef
  PROVE  MapsAreRecords' /\ LiveEntriesStay
<1> DEFINE forced == ~Holds(grains, Base)
           entry == [id |-> NextID, grain |-> "struct", o |-> Next1.o]
           g == IF forced THEN With(grains, Base, entry) ELSE grains
<1>1. \E n : noteInternInsert(n, g, maps)
  BY DEF EncodePathRef
<1>2. \A k \in DOMAIN grains : Live(grains[k].o) => k \in DOMAIN g /\ g[k] = grains[k]
  BY DEF With, Holds
<1> HIDE DEF g
<1>. QED
  BY <1>1, <1>2, PartInsertStays

LEMMA SweepStep ==
  ASSUME MapsAreRecords, [Next]_vars
  PROVE  MapsAreRecords' /\ LiveEntriesStay
<1>1. CASE EncodeMapRef
  BY <1>1, RestampStays
<1>2. CASE EncodeMap
  BY <1>2, MapInsertStays
<1>3. CASE EncodeRecord
  BY <1>3, RecordInsertStays
<1>4. CASE EncodePathRef
  BY <1>4, PathInsertStays
<1>5. CASE UNCHANGED <<grains, maps>>
  BY <1>5, TablesSame
<1>. QED
  BY <1>1, <1>2, <1>3, <1>4, <1>5
     DEF Next, Collect, Allocate, Release, Encode, CoderEncode, EncodeEnds,
         EncodeCellRef, EncodeRef, EncodeCoarser, EncodePathEarly, Repeat, Refuse,
         vars, tables

-----------------------------------------------------------------------------
(* What sharing and the causes of a refusal need, where no value holds     *)
(* more than Admitted says.                                                *)

(* A coder calls no coder, and asks for no part of a struct.               *)
Nested ==
  /\ Len(stack) <= 2
  /\ \A i \in DOMAIN stack : i > 1 =>
       \A j \in DOMAIN stack[i].todo : stack[i].todo[j].f \in {"map", "whole"}

(* A map position leads to a map, the others into structs.                 *)
OfSort(p) == p.f = "map" <=> heap[p.o].sort = "map"

RowsSorted ==
  \A i \in DOMAIN stack : \A j \in DOMAIN stack[i].todo :
    stack[i].todo[j].f # "coder" => OfSort(stack[i].todo[j])

TokensSorted ==
  \A i \in DOMAIN out :
    out[i].o \in DOMAIN heap /\ out[i].f # "coder" /\ OfSort(out[i])

Todo == stack[1].todo

(* While an interior pointer is to be written, the scan of its value is    *)
(* the last one made: no coder ran before it.                              *)
ScanStands ==
  stack # <<>> =>
    \A j \in DOMAIN Todo : Interior(Todo[j]) =>
      /\ Len(stack) = 1
      /\ \A m \in DOMAIN Todo : m < j => Todo[m].f # "coder"
      /\ \A m \in DOMAIN Todo : Todo[m].f \notin {"map", "coder"} =>
           Key(Todo[m]) \in DOMAIN gscan /\ Grain(Todo[m]) \in gscan[Key(Todo[m])]

WholeKey(o) == <<heap[o].at, 0>>
Entered(t, k, o) == k \in DOMAIN t /\ t[k].o = o

(* A pointer to a second field has a name, and its struct is written or    *)
(* to be written.                                                          *)
SecondsNamed ==
  /\ \A k \in names : k[2] = 1
  /\ stack # <<>> =>
       \A j \in DOMAIN Todo : Todo[j].f = "second" =>
         /\ Key(Todo[j]) \in names /\ WholeKey(Todo[j].o) \in DOMAIN gscan
         /\ \/ \E m \in DOMAIN Todo : Todo[m] = At(Todo[j].o, "whole")
            \/ Entered(grains, WholeKey(Todo[j].o), Todo[j].o)

(* No two Encodes have the same name.                                      *)
Calls ==
  /\ \A i \in DOMAIN out :
       /\ out[i].call[1] <= encEp
       /\ stack # <<>> /\ out[i].call[1] = encEp =>
            out[i].call[2] = 0 \/ out[i].call[2] > Len(Todo)
  /\ stack # <<>> => stack[1].call = <<encEp, 0>>
  /\ Len(stack) = 2 => stack[2].call[1] = encEp /\ stack[2].call[2] > Len(Todo)

(* The entries say what their records are, and none is of a second field.  *)
Exact ==
  /\ \A n \in DOMAIN ids : ids[n].begun
  /\ \A k \in DOMAIN grains : k[2] = 0 /\ ids[grains[k].id + 1].grain = grains[k].grain
  /\ \A a \in DOMAIN maps : ids[maps[a].id + 1].grain = "map"
  /\ \A k \in DOMAIN cells : ids[cells[k].id + 1].grain = "cell"

(* What was written of a live object is found again.                       *)
EntryOf(t, k, tk, id) == Entered(t, k, tk.o) /\ t[k].id = id

FoundAgain(tk) ==
  CASE tk.f = "map" -> EntryOf(maps, heap[tk.o].at, tk, tk.id)
    [] tk.f \in {"whole", "first"} -> EntryOf(grains, WholeKey(tk.o), tk, tk.id)
    [] OTHER -> /\ EntryOf(cells, <<heap[tk.o].at, 1>>, tk, tk.id)
                /\ EntryOf(grains, WholeKey(tk.o), tk, ids[tk.id + 1].root)

Found == \A i \in DOMAIN out : Live(out[i].o) => FoundAgain(out[i])

(* The struct of a path's cell is known as long as it lives.               *)
OfStruct(k, e) == EntryOf(grains, <<k[1], 0>>, e, ids[e.id + 1].root)

CellsRooted ==
  \A k \in DOMAIN cells : Live(cells[k].o) => OfStruct(k, cells[k])

(* An Encode that wrote the first field of a struct and will not write the *)
(* struct.                                                                 *)
Parted(o, tk) ==
  /\ tk.o = o /\ tk.f = "first" /\ ids[tk.id + 1].grain = "field"
  /\ \A n \in DOMAIN stack : stack[n].call = tk.call =>
       \A j \in DOMAIN stack[n].todo : stack[n].todo[j] # At(o, "whole")

ByFirstField ==
  \A k \in DOMAIN grains : Live(grains[k].o) /\ grains[k].grain = "field" =>
    \E i \in DOMAIN out : Parted(grains[k].o, out[i])

SInv ==
  /\ Nested
  /\ RowsSorted
  /\ TokensSorted
  /\ ScanStands
  /\ SecondsNamed
  /\ Calls
  /\ Exact
  /\ Found
  /\ CellsRooted
  /\ ByFirstField
  /\ SharingKept
  /\ RefusedForCause

-----------------------------------------------------------------------------
(* What the value has left.                                                *)

(* Writing a position: the order of what is left stays. *)
LEMMA AdvanceTodos ==
  ASSUME TypeOK, Memory, Rows, NEW F, Due(F)
  PROVE  LET n == Len(stack)
             l == Len(stack[n].todo)
         IN  /\ n \in Nat \ {0} /\ DOMAIN stack = 1..n /\ Running = stack[n]
             /\ DOMAIN Advanced = 1..n /\ Len(Advanced) = n
             /\ \A i \in 1..n : Advanced[i].call = stack[i].call
             /\ \A i \in 1..n : i # n => Advanced[i] = stack[i]
             /\ l \in Nat \ {0} /\ DOMAIN stack[n].todo = 1..l
             /\ DOMAIN Advanced[n].todo = 1..(l - 1) /\ Len(Advanced[n].todo) = l - 1
             /\ \A j \in 1..(l - 1) : Advanced[n].todo[j] = stack[n].todo[j + 1]
             /\ stack[n].todo[1] = Next1
<1>1. Len(stack) \in Nat \ {0} /\ Running \in Frames
  BY DueFacts
<1>2. stack \in Seq(Frames) /\ DOMAIN stack = 1..Len(stack)
  BY DEF TypeOK
<1> DEFINE n == Len(stack)
           rest == Tail(Running.todo)
           fr == [Running EXCEPT !.todo = rest]
<1>3. Running.todo \in Seq(Positions) /\ Running.todo # <<>> /\ Running = stack[n]
  BY <1>1 DEF Frames, Due, Running
<1>4. /\ rest \in Seq(Positions) /\ Len(rest) = Len(Running.todo) - 1
      /\ \A j \in 1..Len(rest) : rest[j] = Running.todo[j + 1]
      /\ Head(Running.todo) = Running.todo[1]
  BY <1>3, HeadTailProperties
<1>5. fr \in Frames /\ fr.todo = rest /\ fr.call = Running.call
  BY <1>1, <1>4 DEF Frames
<1>6. Advanced = [stack EXCEPT ![n] = fr]
  BY DEF Advanced, Running
<1>7. /\ Len(Running.todo) \in Nat \ {0} /\ DOMAIN Running.todo = 1..Len(Running.todo)
      /\ DOMAIN rest = 1..Len(rest)
  BY <1>3, <1>4, LenProperties, EmptySeq
<1> HIDE DEF fr, rest
<1>8. /\ Advanced \in Seq(Frames) /\ Len(Advanced) = n
      /\ \A i \in 1..n : Advanced[i] = IF i = n THEN fr ELSE stack[i]
  BY <1>1, <1>2, <1>5, <1>6, ExceptSeq
<1>9. DOMAIN Advanced = 1..n /\ n \in 1..n
  BY <1>1, <1>8, LenProperties
<1>10. Advanced[n] = fr /\ \A i \in 1..n : i # n => Advanced[i] = stack[i]
  BY <1>8, <1>9
<1>11. \A i \in 1..n : Advanced[i].call = stack[i].call
  BY <1>3, <1>5, <1>10
<1>. QED
  BY <1>1, <1>2, <1>3, <1>4, <1>5, <1>7, <1>8, <1>9, <1>10, <1>11 DEF Next1

(* What the value has left, as a position is written or a coder called.    *)
LEMMA TodoFacts ==
  ASSUME IInv, Nested, NEW F, Due(F)
  PROVE  /\ stack # <<>> /\ Len(stack) \in Nat /\ (Len(stack) = 1 \/ Len(stack) = 2)
         /\ DOMAIN stack = 1..Len(stack)
         /\ DOMAIN Advanced = 1..Len(stack) /\ Len(Advanced) = Len(stack)
         /\ Running = stack[Len(stack)] /\ Advanced[1].call = stack[1].call
         /\ Len(Todo) \in Nat /\ DOMAIN Todo = 1..Len(Todo)
<1>1. /\ Len(stack) \in Nat \ {0} /\ DOMAIN stack = 1..Len(stack)
      /\ Running = stack[Len(stack)]
      /\ DOMAIN Advanced = 1..Len(stack) /\ Len(Advanced) = Len(stack)
      /\ \A i \in 1..Len(stack) : Advanced[i].call = stack[i].call
  BY AdvanceTodos DEF IInv
<1>2. Len(stack) <= 2 /\ stack # <<>>
  BY DEF Nested, Due
<1>3. Len(Todo) \in Nat /\ DOMAIN Todo = 1..Len(Todo)
  <2>1. stack \in Seq(Frames) /\ 1 \in DOMAIN stack
    BY <1>1 DEF IInv, TypeOK
  <2>2. stack[1] \in Frames
    BY <2>1
  <2>. QED
    BY <2>2, LenProperties DEF Frames, Todo
<1>4. 1 \in 1..Len(stack)
  BY <1>1
<1>. QED
  BY <1>1, <1>2, <1>3, <1>4

LEMMA TodoOfOne ==
  ASSUME IInv, Nested, NEW F, Due(F), Len(stack) = 1
  PROVE  /\ Running = stack[1] /\ Len(Todo) \in Nat \ {0} /\ Todo[1] = Next1
         /\ Len(Advanced[1].todo) = Len(Todo) - 1
         /\ DOMAIN Advanced[1].todo = 1..(Len(Todo) - 1)
         /\ \A j \in 1..(Len(Todo) - 1) :
              j + 1 \in DOMAIN Todo /\ Advanced[1].todo[j] = Todo[j + 1]
<1> DEFINE l == Len(stack[1].todo)
<1>1. /\ Running = stack[1]
      /\ l \in Nat \ {0} /\ DOMAIN stack[1].todo = 1..l
      /\ DOMAIN Advanced[1].todo = 1..(l - 1) /\ Len(Advanced[1].todo) = l - 1
      /\ \A j \in 1..(l - 1) : Advanced[1].todo[j] = stack[1].todo[j + 1]
      /\ stack[1].todo[1] = Next1
  BY AdvanceTodos DEF IInv
<1>2. l = Len(Todo)
  BY DEF Todo
<1> HIDE DEF l
<1>3. \A j \in 1..(l - 1) : j + 1 \in 1..l
  BY <1>1
<1>. QED
  BY <1>1, <1>2, <1>3 DEF Todo

LEMMA TodoOfTwo ==
  ASSUME IInv, Nested, ScanStands, NEW F, Due(F), Len(stack) = 2
  PROVE  /\ Running = stack[2] /\ Advanced[1] = stack[1] /\ Advanced[2].call = stack[2].call
         /\ \A j \in DOMAIN Todo : ~Interior(Todo[j])
         /\ Next1.f \in {"map", "whole"}
         /\ \A j \in DOMAIN Advanced[2].todo : Advanced[2].todo[j].f \in {"map", "whole"}
<1> DEFINE l == Len(stack[2].todo)
<1>1. /\ Running = stack[2] /\ DOMAIN stack = 1..2
      /\ \A i \in 1..2 : Advanced[i].call = stack[i].call
      /\ \A i \in 1..2 : i # 2 => Advanced[i] = stack[i]
      /\ l \in Nat \ {0} /\ DOMAIN stack[2].todo = 1..l
      /\ DOMAIN Advanced[2].todo = 1..(l - 1)
      /\ \A j \in 1..(l - 1) : Advanced[2].todo[j] = stack[2].todo[j + 1]
      /\ stack[2].todo[1] = Next1
  BY AdvanceTodos DEF IInv
<1> HIDE DEF l
<1>2. \A j \in DOMAIN Todo : ~Interior(Todo[j])
  <2>1. stack # <<>>
    BY DEF Due
  <2>. QED
    BY <2>1 DEF ScanStands
<1>3. \A j \in 1..l : stack[2].todo[j].f \in {"map", "whole"}
  BY <1>1 DEF Nested
<1>4. \A j \in 1..(l - 1) : j + 1 \in 1..l
  BY <1>1
<1>5. 1 \in 1..l
  BY <1>1
<1>6. Next1.f \in {"map", "whole"}
  BY <1>1, <1>3, <1>5
<1>7. \A j \in 1..(l - 1) : Advanced[2].todo[j].f \in {"map", "whole"}
  BY <1>1, <1>3, <1>4
<1>. QED
  BY <1>1, <1>2, <1>6, <1>7

(* One token more. *)
LEMMA OutFacts ==
  ASSUME IInv, NEW id, NEW records, Put(id, records)
  PROVE  LET n == Len(out) + 1
         IN  /\ n \notin DOMAIN out /\ DOMAIN out' = DOMAIN out \cup {n}
             /\ \A i \in DOMAIN out : out'[i] = out[i]
             /\ out'[n] = Token(id)
<1>1. /\ out \in Seq(Tokens) /\ out' = Append(out, Token(id))
  BY DEF IInv, TypeOK, Put
<1>2. /\ Len(out) \in Nat /\ DOMAIN out = 1..Len(out)
  BY <1>1, LenProperties
<1> DEFINE tk == Token(id)
<1> HIDE DEF tk
<1>3. /\ DOMAIN out' = 1..(Len(out) + 1)
      /\ \A i \in 1..Len(out) : out'[i] = out[i]
      /\ out'[Len(out) + 1] = tk
  <2>1. out' = Append(out, tk)
    BY <1>1 DEF tk
  <2>. QED
    BY <1>1, <1>2, <2>1
<1>. QED
  BY <1>2, <1>3 DEF tk

(* The records of ids given before stay. *)
LEMMA IdsStay ==
  ASSUME IInv, NEW records \in Seq(Records), ids' = ids \o records
  PROVE  /\ \A i \in Nat : i < Len(ids) => i + 1 \in DOMAIN ids /\ ids'[i + 1] = ids[i + 1]
         /\ Len(ids') = Len(ids) + Len(records)
         /\ \A i \in DOMAIN records : ids'[Len(ids) + i] = records[i]
         /\ \A i \in DOMAIN ids' :
              \/ i \in DOMAIN ids /\ ids'[i] = ids[i]
              \/ i - Len(ids) \in DOMAIN records /\ ids'[i] = records[i - Len(ids)]
<1>1. /\ ids \in Seq(Records) /\ Len(ids) \in Nat /\ Len(records) \in Nat
      /\ DOMAIN ids = 1..Len(ids) /\ DOMAIN records = 1..Len(records)
  BY LenProperties DEF IInv, TypeOK
<1>2. /\ Len(ids') = Len(ids) + Len(records) /\ DOMAIN ids' = 1..(Len(ids) + Len(records))
      /\ \A i \in 1..(Len(ids) + Len(records)) :
           ids'[i] = IF i <= Len(ids) THEN ids[i] ELSE records[i - Len(ids)]
  BY <1>1, ConcatProperties, LenProperties
<1>. QED
  BY <1>1, <1>2

(* The ids that tables, tokens and roots name have been given. *)
LEMMA GivenIds ==
  ASSUME IInv
  PROVE  /\ \A k \in DOMAIN grains : grains[k].id \in Nat /\ grains[k].id < Len(ids)
         /\ \A k \in DOMAIN cells : cells[k].id \in Nat /\ cells[k].id < Len(ids)
         /\ \A a \in DOMAIN maps : maps[a].id \in Nat /\ maps[a].id < Len(ids)
         /\ \A i \in DOMAIN out :
              /\ out[i].id \in Nat /\ out[i].id < Len(ids)
              /\ ids[out[i].id + 1].root \in Nat /\ ids[out[i].id + 1].root < Len(ids)
         /\ \A k \in DOMAIN grains : grains[k].o \in DOMAIN heap
         /\ \A k \in DOMAIN cells : cells[k].o \in DOMAIN heap
         /\ \A a \in DOMAIN maps : maps[a].o \in DOMAIN heap
<1>1. /\ \A k \in DOMAIN grains : /\ grains[k].id \in Nat /\ grains[k].id < Len(ids)
                                  /\ grains[k].o \in DOMAIN heap
      /\ \A k \in DOMAIN cells : /\ cells[k].id \in Nat /\ cells[k].id < Len(ids)
                                 /\ cells[k].o \in DOMAIN heap
  BY DEF IInv, IsPartTable, Sound
<1>2. \A a \in DOMAIN maps : /\ maps[a].id \in Nat /\ maps[a].id < Len(ids)
                             /\ maps[a].o \in DOMAIN heap
  BY DEF IInv, MapEntries, Sound
<1>3. ASSUME NEW i \in DOMAIN out
      PROVE  /\ out[i].id \in Nat /\ out[i].id < Len(ids)
             /\ ids[out[i].id + 1].root \in Nat /\ ids[out[i].id + 1].root < Len(ids)
  <2>1. out[i] \in Tokens
    BY DEF IInv, TypeOK
  <2>2. out[i].id \in Nat /\ out[i].id < Len(ids)
    BY <2>1 DEF IInv, Truthful, Tokens
  <2>3. ids \in Seq(Records) /\ Len(ids) \in Nat /\ DOMAIN ids = 1..Len(ids)
    BY LenProperties DEF IInv, TypeOK
  <2>4. out[i].id + 1 \in DOMAIN ids
    BY <2>2, <2>3
  <2>5. ids[out[i].id + 1] \in Records
    BY <2>3, <2>4, ElementOfSeq
  <2>. QED
    BY <2>2, <2>4, <2>5 DEF Records, IInv, Roots
<1>. QED
  BY <1>1, <1>2, <1>3

(* Where the tokens of a live object lead to. *)
RootOf(o) == IF heap[o].sort = "map" THEN maps[heap[o].at].id ELSE grains[WholeKey(o)].id

AllRooted ==
  \A i \in DOMAIN out :
    Live(out[i].o) => Storage(out[i]) = <<RootOf(out[i].o), out[i].f>>

LEMMA Rooted == IInv /\ Exact /\ Found /\ TokensSorted => AllRooted
<1> SUFFICES ASSUME IInv, Exact, Found, TokensSorted,
                    NEW i \in DOMAIN out, Live(out[i].o)
             PROVE  Storage(out[i]) = <<RootOf(out[i].o), out[i].f>>
  BY DEF AllRooted
<1> DEFINE tk == out[i]
           o == tk.o
           e == ids[tk.id + 1]
<1>1. FoundAgain(tk) /\ tk.f # "coder" /\ OfSort(tk) /\ tk.f \in Fields
  <2>1. tk \in Tokens
    BY DEF IInv, TypeOK
  <2>. QED
    BY <2>1 DEF Found, TokensSorted, Tokens
<1> HIDE DEF tk
<1>2. CASE tk.f = "map"
  <2>1. EntryOf(maps, heap[o].at, tk, tk.id)
    BY <1>1, <1>2 DEF FoundAgain
  <2>2. e.grain = "map" /\ maps[heap[o].at].id = tk.id
    BY <2>1 DEF EntryOf, Entered, Exact
  <2>3. Storage(tk) = <<tk.id, tk.f>>
    BY <2>2 DEF Storage
  <2>. QED
    BY <1>1, <1>2, <2>2, <2>3 DEF OfSort, RootOf, tk
<1>3. CASE tk.f \in {"whole", "first"}
  <2>1. EntryOf(grains, WholeKey(o), tk, tk.id)
    BY <1>1, <1>3 DEF FoundAgain
  <2>2. e.grain \in {"struct", "field"} /\ grains[WholeKey(o)].id = tk.id
    BY <2>1 DEF EntryOf, Entered, Exact, IInv, IsPartTable
  <2>3. Storage(tk) = <<tk.id, tk.f>>
    BY <1>3, <2>2 DEF Storage
  <2>. QED
    BY <1>1, <1>3, <2>2, <2>3 DEF OfSort, RootOf, tk
<1>4. CASE tk.f = "second"
  <2>1. /\ EntryOf(cells, <<heap[o].at, 1>>, tk, tk.id)
        /\ EntryOf(grains, WholeKey(o), tk, e.root)
    BY <1>1, <1>4 DEF FoundAgain
  <2>2. e.grain = "cell" /\ grains[WholeKey(o)].id = e.root
    BY <2>1 DEF EntryOf, Entered, Exact
  <2>3. Storage(tk) = <<e.root, "second">>
    BY <2>2 DEF Storage
  <2>. QED
    BY <1>1, <1>4, <2>2, <2>3 DEF OfSort, RootOf, tk
<1>. QED
  BY <1>1, <1>2, <1>3, <1>4 DEF Fields

StorageGiven == \A i \in DOMAIN out : Storage(out[i])[1] + 1 \in DOMAIN ids

LEMMA StorageIsGiven == IInv => StorageGiven
<1> SUFFICES ASSUME IInv, NEW i \in DOMAIN out
             PROVE  Storage(out[i])[1] + 1 \in DOMAIN ids
  BY DEF StorageGiven
<1> DEFINE e == ids[out[i].id + 1]
<1>1. /\ out[i].id \in Nat /\ out[i].id < Len(ids)
      /\ e.root \in Nat /\ e.root < Len(ids)
  BY GivenIds
<1>2. \A x \in Nat : x < Len(ids) => x + 1 \in DOMAIN ids
  BY LenProperties DEF IInv, TypeOK
<1> HIDE DEF e
<1>3. Storage(out[i])[1] \in {out[i].id, e.root}
  BY DEF Storage, e
<1>. QED
  BY <1>1, <1>2, <1>3

(* Sharing is a matter of the new token's object only, and that one lives. *)
LEMMA SharingStep ==
  ASSUME IInv, TokensSorted', AllRooted', SharingKept,
         NEW F, Due(F), "coder" \notin F, NEW id, NEW records \in Seq(Records),
         Put(id, records), \A n \in DOMAIN ids' : ids'[n].begun,
         IInv'
  PROVE  SharingKept'
<1> DEFINE n == Len(out) + 1
<1>1. /\ n \notin DOMAIN out /\ DOMAIN out' = DOMAIN out \cup {n}
      /\ \A i \in DOMAIN out : out'[i] = out[i]
      /\ out'[n] = Token(id)
  BY OutFacts
<1>2. ids' = ids \o records /\ heap' = heap
  BY DEF Put
<1>3. \A i \in Nat : i < Len(ids) => ids'[i + 1] = ids[i + 1]
  BY <1>2, IdsStay
<1>4. out'[n].o = Next1.o /\ heap'[Next1.o].live
  <2>1. Live(Next1.o)
    BY DueFacts DEF IInv
  <2>. QED
    BY <1>1, <1>2, <2>1 DEF Token, Live
<1>5. \A i \in DOMAIN out : Storage(out[i])' = Storage(out[i])
  <2>1. ASSUME NEW i \in DOMAIN out
        PROVE  ids'[out[i].id + 1] = ids[out[i].id + 1] /\ out'[i] = out[i]
    BY <1>1, <1>3, GivenIds
  <2>. QED
    BY <2>1 DEF Storage
<1>6. \A i \in DOMAIN out' : heap'[out'[i].o].live =>
        Storage(out[i])' = <<RootOf(out[i].o)', out'[i].f>>
  BY DEF AllRooted, Live
<1>7. \A i \in DOMAIN out' :
        ids'[Storage(out[i])'[1] + 1].begun /\ Storage(out[i])'[2] = out'[i].f
  <2>1. StorageGiven'
    BY StorageIsGiven, PTL
  <2>2. \A i \in DOMAIN out' : ids'[Storage(out[i])'[1] + 1].begun
    BY <2>1 DEF StorageGiven
  <2>3. \A i \in DOMAIN out : Storage(out[i])'[2] = out'[i].f
    BY <1>1, <1>5 DEF SharingKept
  <2>4. ASSUME NEW i \in DOMAIN out', i \notin DOMAIN out
        PROVE  Storage(out[i])'[2] = out'[i].f
    <3>1. heap'[out'[i].o].live
      BY <1>1, <1>4, <2>4
    <3>2. Storage(out[i])' = <<RootOf(out[i].o)', out'[i].f>>
      BY <1>6, <3>1
    <3>. QED
      BY <3>2
  <2>. QED
    BY <2>2, <2>3, <2>4
<1>8. ASSUME NEW i \in DOMAIN out', NEW j \in DOMAIN out', Overlap(out'[i], out'[j])
      PROVE  Storage(out[i])'[1] = Storage(out[j])'[1]
  <2>1. out'[i].o = out'[j].o
    BY <1>8 DEF Overlap
  <2>2. CASE i \in DOMAIN out /\ j \in DOMAIN out
    BY <1>1, <1>5, <1>8, <2>2 DEF SharingKept
  <2>3. CASE i = n \/ j = n
    <3>1. heap'[out'[i].o].live /\ heap'[out'[j].o].live
      BY <1>4, <2>1, <2>3
    <3> DEFINE root(x) == RootOf(out[x].o)'
    <3>2. root(i) = root(j)
      BY <2>1 DEF RootOf, WholeKey
    <3> HIDE DEF root
    <3>3. Storage(out[i])' = <<root(i), out'[i].f>> /\ Storage(out[j])' = <<root(j), out'[j].f>>
      BY <1>6, <3>1 DEF root
    <3>. QED
      BY <3>2, <3>3
  <2>. QED
    BY <1>1, <2>2, <2>3
<1>. QED
  BY <1>7, <1>8 DEF SharingKept, Overlap

(* What is left of a value that a position of is written. *)
LEMMA RowsAdvance ==
  ASSUME IInv, Nested, RowsSorted, ScanStands, NEW F, Due(F),
         stack' = Advanced, UNCHANGED <<heap, gscan>>
  PROVE  Nested' /\ RowsSorted' /\ ScanStands'
<1>1. /\ stack # <<>> /\ Len(stack) \in Nat /\ (Len(stack) = 1 \/ Len(stack) = 2)
      /\ DOMAIN stack = 1..Len(stack)
      /\ DOMAIN Advanced = 1..Len(stack) /\ Len(Advanced) = Len(stack)
  BY TodoFacts
<1>2. DOMAIN Advanced = DOMAIN stack
  BY <1>1
<1>3. Nested'
  <2>1. ASSUME NEW i \in DOMAIN Advanced, i > 1
        PROVE  \A j \in DOMAIN Advanced[i].todo : Advanced[i].todo[j].f \in {"map", "whole"}
    <3>1. i = 2 /\ Len(stack) = 2
      BY <1>1, <2>1
    <3>. QED
      BY <3>1, TodoOfTwo
  <2>. QED
    BY <1>1, <2>1 DEF Nested
<1>4. RowsSorted'
  <2>1. \A i \in DOMAIN stack : \A j \in DOMAIN Advanced[i].todo :
          \E m \in DOMAIN stack[i].todo : Advanced[i].todo[j] = stack[i].todo[m]
    BY AdvanceFacts DEF IInv
  <2>2. ASSUME NEW i \in DOMAIN stack, NEW j \in DOMAIN Advanced[i].todo
        PROVE  Advanced[i].todo[j].f # "coder" => OfSort(Advanced[i].todo[j])
    BY <2>1 DEF RowsSorted
  <2>. QED
    BY <1>2, <2>2 DEF RowsSorted, OfSort
<1>5. ScanStands'
  <2> DEFINE todo == Advanced[1].todo
  <2>1. CASE Len(stack) = 2
    <3>1. todo = Todo /\ \A j \in DOMAIN Todo : ~Interior(Todo[j])
      BY <2>1, TodoOfTwo DEF Todo
    <3>. QED
      BY <3>1 DEF ScanStands, Todo, Interior
  <2>2. CASE Len(stack) = 1
    <3>1. PICK l \in Nat : l = Len(Todo)
      BY <2>2, TodoOfOne
    <3>2. /\ DOMAIN todo = 1..(l - 1)
          /\ \A j \in 1..(l - 1) : j + 1 \in DOMAIN Todo /\ todo[j] = Todo[j + 1]
      BY <2>2, <3>1, TodoOfOne
    <3> HIDE DEF todo
    <3>3. ASSUME NEW j \in DOMAIN todo, Interior(todo[j])
          PROVE  /\ \A m \in DOMAIN todo : m < j => todo[m].f # "coder"
                 /\ \A m \in DOMAIN todo : todo[m].f \notin {"map", "coder"} =>
                      Key(todo[m]) \in DOMAIN gscan /\ Grain(todo[m]) \in gscan[Key(todo[m])]
      <4>1. j + 1 \in DOMAIN Todo /\ Interior(Todo[j + 1])
        BY <3>2, <3>3
      <4>2. /\ \A m \in DOMAIN Todo : m < j + 1 => Todo[m].f # "coder"
            /\ \A m \in DOMAIN Todo : Todo[m].f \notin {"map", "coder"} =>
                 Key(Todo[m]) \in DOMAIN gscan /\ Grain(Todo[m]) \in gscan[Key(Todo[m])]
        BY <1>1, <4>1 DEF ScanStands
      <4>3. ASSUME NEW m \in DOMAIN todo, m < j
            PROVE  m + 1 < j + 1
        BY <3>1, <3>2, <4>3
      <4>. QED
        BY <3>2, <4>2, <4>3
    <3>4. todo = Todo'
      BY DEF todo, Todo
    <3>5. Len(Advanced) = 1
      BY <1>1, <2>2
    <3>. QED
      BY <3>3, <3>4, <3>5 DEF ScanStands, Key, Grain, Interior
  <2>. QED
    BY <1>1, <2>1, <2>2
<1>. QED
  BY <1>3, <1>4, <1>5

(* Every frame keeps its name, and its positions are of those it had.      *)
LEMMA FramesAdvance ==
  ASSUME IInv, Nested, ScanStands, NEW F, Due(F), stack' = Advanced
  PROVE  /\ DOMAIN stack' = DOMAIN stack
         /\ \A i \in DOMAIN stack :
              /\ stack'[i].call = stack[i].call
              /\ \A j \in DOMAIN stack'[i].todo :
                   \E m \in DOMAIN stack[i].todo : stack'[i].todo[j] = stack[i].todo[m]
<1>1. \A i \in DOMAIN stack : Advanced[i].call = stack[i].call
  BY AdvanceTodos DEF IInv
<1>. QED
  BY <1>1, AdvanceFacts DEF IInv

LEMMA PartedStays ==
  ASSUME NEW o, NEW tk, Parted(o, tk), ids'[tk.id + 1] = ids[tk.id + 1],
         \A i \in DOMAIN stack' : stack'[i].call = tk.call =>
           /\ i \in DOMAIN stack /\ stack'[i].call = stack[i].call
           /\ \A j \in DOMAIN stack'[i].todo :
                \E m \in DOMAIN stack[i].todo : stack'[i].todo[j] = stack[i].todo[m]
  PROVE  Parted(o, tk)'
<1>1. tk = tk'
  OBVIOUS
<1>. QED
  BY DEF Parted, At

(* The Encode that writes is named by what the value has left. *)
LEMMA CallsAdvance ==
  ASSUME IInv, Nested, ScanStands, Calls, NEW F, Due(F), NEW id, NEW records,
         Put(id, records)
  PROVE  Calls'
<1>1. /\ stack # <<>> /\ Len(stack) \in Nat /\ (Len(stack) = 1 \/ Len(stack) = 2)
      /\ DOMAIN stack = 1..Len(stack) /\ Len(Advanced) = Len(stack)
      /\ Running = stack[Len(stack)] /\ Advanced[1].call = stack[1].call
      /\ Len(Todo) \in Nat
  BY TodoFacts
<1>2. stack' = Advanced /\ encEp' = encEp
  BY DEF Put
<1> DEFINE n == Len(out) + 1
<1>3. /\ n \notin DOMAIN out /\ DOMAIN out' = DOMAIN out \cup {n}
      /\ \A i \in DOMAIN out : out'[i] = out[i]
      /\ out'[n] = Token(id)
  BY OutFacts
<1> HIDE DEF n
<1>4. Token(id).call = Running.call /\ encEp \in Nat
  BY DEF Token, IInv, TypeOK
<1>5. PICK l \in Nat, m \in Nat :
        /\ l = Len(Todo) /\ m = Len(Advanced[1].todo) /\ m <= l
        /\ Len(stack) = 2 => m = l
  <2>1. CASE Len(stack) = 1
    BY <1>1, <2>1, TodoOfOne
  <2>2. CASE Len(stack) = 2
    BY <1>1, <2>2, TodoOfTwo DEF Todo
  <2>. QED
    BY <1>1, <2>1, <2>2
<1>6. Len(Todo') = m
  BY <1>2, <1>5 DEF Todo
<1>7. ASSUME NEW i \in DOMAIN out
      PROVE  /\ out[i].call[1] <= encEp /\ out[i].call[2] \in Nat
             /\ out[i].call[1] = encEp => out[i].call[2] = 0 \/ out[i].call[2] > m
  <2>1. out[i].call[2] \in Nat
    <3>1. out[i] \in Tokens
      BY DEF IInv, TypeOK
    <3>. QED
      BY <3>1 DEF Tokens
  <2>2. /\ out[i].call[1] <= encEp
        /\ out[i].call[1] = encEp => out[i].call[2] = 0 \/ out[i].call[2] > l
    BY <1>1, <1>5 DEF Calls
  <2>. QED
    BY <1>5, <2>1, <2>2
<1>8. /\ stack[1].call = <<encEp, 0>>
      /\ Len(stack) = 2 => stack[2].call[1] = encEp /\ stack[2].call[2] > l
  BY <1>1, <1>5 DEF Calls
<1>9. Len(stack) = 2 => stack[2].call[2] \in Nat /\ stack[2].call[2] > m
  <2>1. Len(stack) = 2 => l = m
    BY <1>5
  <2>2. Len(stack) = 2 => stack[2] \in Frames
    <3>1. stack \in Seq(Frames) /\ (Len(stack) = 2 => 2 \in 1..Len(stack))
      BY <1>1 DEF IInv, TypeOK
    <3>. QED
      BY <3>1, ElementOfSeq
  <2>. QED
    BY <1>8, <2>1, <2>2 DEF Frames
<1>10. Running.call[1] = encEp /\ (Running.call[2] = 0 \/ Running.call[2] > m)
  <2>1. Running = stack[1] \/ (Len(stack) = 2 /\ Running = stack[2])
    BY <1>1
  <2>2. <<encEp, 0>>[1] = encEp /\ <<encEp, 0>>[2] = 0
    OBVIOUS
  <2>. QED
    BY <1>8, <1>9, <2>1, <2>2
<1>11. /\ Advanced[1].call = <<encEp, 0>>
       /\ Len(Advanced) = 2 => Advanced[2].call[1] = encEp /\ Advanced[2].call[2] > m
  <2>1. Len(stack) = 2 => Advanced[2].call = stack[2].call
    BY TodoOfTwo
  <2>. QED
    BY <1>1, <1>8, <1>9, <2>1
<1>12. \A i \in DOMAIN out' :
         /\ out'[i].call[1] <= encEp
         /\ out'[i].call[1] = encEp => out'[i].call[2] = 0 \/ out'[i].call[2] > m
  BY <1>3, <1>4, <1>7, <1>10
<1>. QED
  BY <1>2, <1>6, <1>11, <1>12 DEF Calls

(* What is known of a live object stays known. *)
EntriesStay ==
  /\ \A k \in DOMAIN grains :
       Live(grains[k].o) => k \in DOMAIN grains' /\ grains'[k] = grains[k]
  /\ \A a \in DOMAIN maps :
       Live(maps[a].o) =>
         a \in DOMAIN maps' /\ maps'[a].o = maps[a].o /\ maps'[a].id = maps[a].id
  /\ \A k \in DOMAIN cells :
       Live(cells[k].o) => k \in DOMAIN cells' /\ cells'[k] = cells[k]

LEMMA StillFound ==
  ASSUME IInv, NEW tk, Live(tk.o), FoundAgain(tk), EntriesStay, heap' = heap,
         ids'[tk.id + 1] = ids[tk.id + 1]
  PROVE  FoundAgain(tk)'
<1>1. tk' = tk
  OBVIOUS
<1>2. ASSUME NEW k, NEW id, EntryOf(grains, k, tk, id)
      PROVE  k \in DOMAIN grains' /\ grains'[k].o = tk.o /\ grains'[k].id = id
  BY <1>2 DEF EntryOf, Entered, EntriesStay
<1>3. ASSUME NEW k, NEW id, EntryOf(cells, k, tk, id)
      PROVE  k \in DOMAIN cells' /\ cells'[k].o = tk.o /\ cells'[k].id = id
  BY <1>3 DEF EntryOf, Entered, EntriesStay
<1>4. ASSUME NEW k, NEW id, EntryOf(maps, k, tk, id)
      PROVE  k \in DOMAIN maps' /\ maps'[k].o = tk.o /\ maps'[k].id = id
  BY <1>4 DEF EntryOf, Entered, EntriesStay
<1>5. CASE tk.f = "map"
  <2>1. EntryOf(maps, heap[tk.o].at, tk, tk.id)
    BY <1>5 DEF FoundAgain
  <2>. QED
    BY <1>4, <1>5, <2>1 DEF FoundAgain, EntryOf, Entered
<1>6. CASE tk.f \in {"whole", "first"}
  <2>1. EntryOf(grains, WholeKey(tk.o), tk, tk.id)
    BY <1>6 DEF FoundAgain
  <2>. QED
    BY <1>2, <1>6, <2>1 DEF FoundAgain, EntryOf, Entered, WholeKey
<1>7. CASE tk.f \notin {"map", "whole", "first"}
  <2>1. /\ EntryOf(cells, <<heap[tk.o].at, 1>>, tk, tk.id)
        /\ EntryOf(grains, WholeKey(tk.o), tk, ids[tk.id + 1].root)
    BY <1>7 DEF FoundAgain
  <2>. QED
    BY <1>2, <1>3, <1>7, <2>1 DEF FoundAgain, EntryOf, Entered, WholeKey
<1>. QED
  BY <1>5, <1>6, <1>7

LEMMA DueOfSort ==
  ASSUME IInv, RowsSorted, NEW F, Due(F), "coder" \notin F
  PROVE  OfSort(Next1) /\ Next1.f # "coder" /\ Next1 = At(Next1.o, Next1.f)
<1> DEFINE n == Len(stack)
           l == Len(stack[n].todo)
<1>1. /\ n \in Nat \ {0} /\ DOMAIN stack = 1..n
      /\ l \in Nat \ {0} /\ DOMAIN stack[n].todo = 1..l
      /\ stack[n].todo[1] = Next1
  BY AdvanceTodos DEF IInv
<1>2. Next1 \in Positions /\ Next1.f \in F
  BY DueFacts DEF IInv
<1> HIDE DEF n, l
<1>3. n \in DOMAIN stack /\ 1 \in DOMAIN stack[n].todo
  BY <1>1
<1>4. OfSort(Next1)
  BY <1>1, <1>2, <1>3 DEF RowsSorted
<1>. QED
  BY <1>2, <1>4 DEF Positions, At

(* The struct of a pointer to a second field is written or to be written.  *)
LEMMA SecondsAdvance ==
  ASSUME IInv, Nested, ScanStands, SecondsNamed, NEW F, Due(F), "coder" \notin F,
         NEW id, NEW records, Put(id, records), EntriesStay,
         \A tk : tk = Token(id) => FoundAgain(tk)'
  PROVE  SecondsNamed'
<1>1. stack' = Advanced /\ heap' = heap /\ gscan' = gscan /\ names' = names /\ stack # <<>>
  BY DEF Put, scans, Due
<1>2. /\ Len(stack) = 1 \/ Len(stack) = 2
      /\ DOMAIN Todo = 1..Len(Todo)
  BY TodoFacts
<1>3. \A j \in DOMAIN Todo : Todo[j].f = "second" =>
        /\ Key(Todo[j]) \in names /\ WholeKey(Todo[j].o) \in DOMAIN gscan
        /\ \/ \E m \in DOMAIN Todo : Todo[m] = At(Todo[j].o, "whole")
           \/ Entered(grains, WholeKey(Todo[j].o), Todo[j].o)
  BY <1>1 DEF SecondsNamed
<1> DEFINE todo == Advanced[1].todo
<1>4. CASE Len(stack) = 2
  <2>1. \A j \in DOMAIN todo : ~Interior(todo[j])
    BY <1>4, TodoOfTwo DEF Todo
  <2>. QED
    BY <1>1, <2>1 DEF SecondsNamed, Todo, Interior
<1>5. CASE Len(stack) = 1
  <2>1. PICK l \in Nat : l = Len(Todo) /\ l # 0
    BY <1>5, TodoOfOne
  <2>2. /\ DOMAIN todo = 1..(l - 1) /\ Todo[1] = Next1
        /\ \A j \in 1..(l - 1) : j + 1 \in DOMAIN Todo /\ todo[j] = Todo[j + 1]
    BY <1>5, <2>1, TodoOfOne
  <2> HIDE DEF todo
  <2>3. ASSUME NEW o, Entered(grains, WholeKey(o), o), o \in DOMAIN heap, Live(o)
        PROVE  \A x : x = o => Entered(grains, WholeKey(x), x)'
    <3>1. /\ WholeKey(o) \in DOMAIN grains' /\ grains'[WholeKey(o)] = grains[WholeKey(o)]
      BY <2>3 DEF EntriesStay, Entered
    <3>. QED
      BY <1>1, <2>3, <3>1 DEF Entered, WholeKey
  <2>4. ASSUME NEW j \in DOMAIN todo, todo[j].f = "second"
        PROVE  /\ Key(todo[j]) \in names /\ WholeKey(todo[j].o) \in DOMAIN gscan
               /\ \/ \E m \in DOMAIN todo : todo[m] = At(todo[j].o, "whole")
                  \/ \A x : x = todo[j].o => Entered(grains, WholeKey(x), x)'
    <3> DEFINE o == todo[j].o
    <3>1. j + 1 \in DOMAIN Todo /\ Todo[j + 1] = todo[j]
      BY <2>2
    <3>2. o \in DOMAIN heap /\ Live(o)
      <4>1. 1 \in DOMAIN stack
        BY <1>5, TodoFacts
      <4>2. o \in stack[1].pins
        BY <2>4, <3>1, <4>1 DEF IInv, Rows, Todo
      <4>. QED
        BY <4>1, <4>2 DEF IInv, Memory, Kept
    <3>3. CASE \E m \in DOMAIN Todo : Todo[m] = At(o, "whole")
      <4>1. PICK m \in DOMAIN Todo : Todo[m] = At(o, "whole")
        BY <3>3
      <4>2. CASE m = 1
        <5>1. Next1 = At(o, "whole")
          BY <2>2, <4>1, <4>2
        <5>2. \A tk : tk = Token(id) => tk.f = "whole" /\ tk.o = o
          BY <5>1 DEF At, Token
        <5>3. ASSUME NEW tk, tk = Token(id)
              PROVE  Entered(grains, WholeKey(tk.o), tk.o)'
          <6>1. FoundAgain(tk)' /\ tk.f = "whole"
            BY <5>2, <5>3
          <6>. QED
            BY <6>1 DEF FoundAgain, EntryOf
        <5>4. \A x : x = o => Entered(grains, WholeKey(x), x)'
          BY <5>2, <5>3
        <5>. QED
          BY <1>3, <2>4, <3>1, <5>4
      <4>3. CASE m # 1
        <5>1. m - 1 \in DOMAIN todo /\ todo[m - 1] = Todo[m]
          <6>1. m \in 1..l
            BY <1>2, <2>1, <4>1
          <6>2. m - 1 \in 1..(l - 1)
            BY <4>3, <6>1
          <6>3. (m - 1) + 1 = m
            BY <6>1
          <6>. QED
            BY <2>2, <6>2, <6>3
        <5>. QED
          BY <1>3, <2>4, <3>1, <4>1, <5>1
      <4>. QED
        BY <4>2, <4>3
    <3>4. CASE Entered(grains, WholeKey(o), o)
      BY <1>3, <2>3, <2>4, <3>1, <3>2, <3>4
    <3>. QED
      BY <1>3, <2>4, <3>1, <3>3, <3>4
  <2>5. Todo' = todo
    BY <1>1 DEF Todo, todo
  <2>. QED
    BY <1>1, <2>4, <2>5 DEF SecondsNamed, Key, WholeKey, At
<1>. QED
  BY <1>2, <1>4, <1>5

(* The step of every action that writes a position. *)
LEMMA PutKeeps ==
  ASSUME IInv, SInv, IInv', NEW F, Due(F), "coder" \notin F,
         NEW id \in Nat, NEW records \in Seq(Records), Put(id, records),
         EntriesStay, Exact',
         \A tk : tk = Token(id) => FoundAgain(tk)',
         \A k \in DOMAIN cells' :
           \/ k \in DOMAIN cells /\ cells'[k] = cells[k]
           \/ \A e : e = cells'[k] => OfStruct(k, e)',
         \A k \in DOMAIN grains' : grains'[k].grain = "field" =>
           \/ k \in DOMAIN grains /\ grains'[k] = grains[k]
           \/ /\ grains'[k].o = Next1.o
              /\ \A o, tk : o = Next1.o /\ tk = Token(id) => Parted(o, tk)'
  PROVE  SInv'
<1> DEFINE n == Len(out) + 1
<1>1. /\ n \notin DOMAIN out /\ DOMAIN out' = DOMAIN out \cup {n}
      /\ \A i \in DOMAIN out : out'[i] = out[i]
      /\ out'[n] = Token(id)
  BY OutFacts
<1> HIDE DEF n
<1>2. /\ ids' = ids \o records /\ stack' = Advanced
      /\ UNCHANGED <<heap, gscan, names, encEp, refused>>
  BY DEF Put, scans
<1>3. \A i \in Nat : i < Len(ids) => ids'[i + 1] = ids[i + 1]
  BY <1>2, IdsStay
<1>4. Nested' /\ RowsSorted' /\ ScanStands'
  BY <1>2, RowsAdvance DEF SInv
<1>5. Calls'
  BY CallsAdvance DEF SInv
<1>6. SecondsNamed'
  BY SecondsAdvance DEF SInv
<1>7. TokensSorted'
  <2>1. Next1.o \in DOMAIN heap /\ Live(Next1.o)
    BY DueFacts, DueOfSort DEF IInv, SInv
  <2>2. OfSort(Next1) /\ Next1.f # "coder"
    BY DueOfSort DEF SInv
  <2>3. Token(id).o = Next1.o /\ Token(id).f = Next1.f
    BY DEF Token
  <2>4. \A i \in DOMAIN out :
          /\ out[i].o \in DOMAIN heap /\ out[i].f # "coder"
          /\ out[i].f = "map" <=> heap[out[i].o].sort = "map"
    BY DEF SInv, TokensSorted, OfSort
  <2>5. \A i \in DOMAIN out' :
          /\ out'[i].o \in DOMAIN heap /\ out'[i].f # "coder"
          /\ out'[i].f = "map" <=> heap[out'[i].o].sort = "map"
    BY <1>1, <2>1, <2>2, <2>3, <2>4 DEF OfSort
  <2>. QED
    BY <1>2, <2>5 DEF TokensSorted, OfSort
<1>8. Found'
  <2>1. ASSUME NEW i \in DOMAIN out, Live(out[i].o)
        PROVE  \A tk : tk = out[i] => FoundAgain(tk)'
    <3>1. FoundAgain(out[i])
      BY <2>1 DEF SInv, Found
    <3>2. ids'[out[i].id + 1] = ids[out[i].id + 1]
      BY <1>3, GivenIds
    <3>3. ASSUME NEW tk, tk = out[i]
          PROVE  FoundAgain(tk)'
      BY <1>2, <2>1, <3>1, <3>2, <3>3, StillFound
    <3>. QED
      BY <3>3
  <2>2. ASSUME NEW i \in DOMAIN out', heap'[out'[i].o].live
        PROVE  \A tk : tk = out'[i] => FoundAgain(tk)'
    BY <1>1, <1>2, <2>1, <2>2 DEF Live
  <2>3. ASSUME NEW i \in DOMAIN out', Live(out[i].o)'
        PROVE  FoundAgain(out[i])'
    <3>1. \A tk : tk = out'[i] => FoundAgain(tk)'
      BY <2>2, <2>3 DEF Live
    <3>. QED
      BY <3>1 DEF FoundAgain, EntryOf, Entered, WholeKey
  <2>. QED
    BY <2>3 DEF Found
<1>9. AllRooted'
  BY <1>7, <1>8, Rooted, PTL
<1>10. SharingKept'
  BY <1>7, <1>9, SharingStep DEF SInv, Exact
<1>11. ByFirstField'
  <2>1. ASSUME NEW k \in DOMAIN grains', heap'[grains'[k].o].live, grains'[k].grain = "field"
        PROVE  \E i \in DOMAIN out' : \A o, tk : o = grains'[k].o /\ tk = out'[i] => Parted(o, tk)'
    <3>1. CASE k \in DOMAIN grains /\ grains'[k] = grains[k]
      <4>1. PICK i \in DOMAIN out : Parted(grains[k].o, out[i])
        BY <1>2, <2>1, <3>1 DEF SInv, ByFirstField, Live
      <4>2. ids'[out[i].id + 1] = ids[out[i].id + 1]
        BY <1>3, GivenIds
      <4>3. /\ DOMAIN stack' = DOMAIN stack
            /\ \A x \in DOMAIN stack :
                 /\ stack'[x].call = stack[x].call
                 /\ \A j \in DOMAIN stack'[x].todo :
                      \E m \in DOMAIN stack[x].todo : stack'[x].todo[j] = stack[x].todo[m]
        BY <1>2, FramesAdvance DEF SInv
      <4>4. ASSUME NEW o, NEW tk, o = grains[k].o, tk = out[i]
            PROVE  Parted(o, tk)'
        <5>1. Parted(o, tk) /\ ids'[tk.id + 1] = ids[tk.id + 1]
          BY <4>1, <4>2, <4>4
        <5>. QED
          BY <4>3, <5>1, PartedStays
      <4>5. i \in DOMAIN out' /\ out'[i] = out[i]
        BY <1>1
      <4>. QED
        BY <3>1, <4>4, <4>5
    <3>2. CASE /\ grains'[k].o = Next1.o
               /\ \A o, tk : o = Next1.o /\ tk = Token(id) => Parted(o, tk)'
      <4>1. n \in DOMAIN out' /\ out'[n] = Token(id)
        BY <1>1
      <4>. QED
        BY <3>2, <4>1
    <3>. QED
      BY <2>1, <3>1, <3>2
  <2>. QED
    BY <2>1 DEF ByFirstField, Live, Parted, At
<1>13. CellsRooted'
  <2>1. ASSUME NEW k \in DOMAIN cells', heap'[cells'[k].o].live
        PROVE  \A e : e = cells'[k] => OfStruct(k, e)'
    <3>1. CASE k \in DOMAIN cells /\ cells'[k] = cells[k]
      <4>1. OfStruct(k, cells[k]) /\ Live(cells[k].o)
        BY <1>2, <2>1, <3>1 DEF SInv, CellsRooted, Live
      <4>2. ids'[cells[k].id + 1] = ids[cells[k].id + 1]
        BY <1>3, <3>1, GivenIds
      <4>3. /\ <<k[1], 0>> \in DOMAIN grains' /\ grains'[<<k[1], 0>>] = grains[<<k[1], 0>>]
            /\ grains[<<k[1], 0>>].o = cells[k].o
            /\ grains[<<k[1], 0>>].id = ids[cells[k].id + 1].root
        BY <4>1 DEF OfStruct, EntryOf, Entered, EntriesStay
      <4>. QED
        BY <3>1, <4>2, <4>3 DEF OfStruct, EntryOf, Entered
    <3>. QED
      BY <3>1
  <2>. QED
    BY <2>1 DEF CellsRooted, OfStruct, EntryOf, Entered, Live
<1>12. RefusedForCause'
  BY <1>2 DEF Due, RefusedForCause
<1>. QED
  BY <1>4, <1>5, <1>6, <1>7, <1>8, <1>10, <1>11, <1>12, <1>13 DEF SInv

-----------------------------------------------------------------------------
(* The steps that write a position keep sharing.                           *)

(* Only a pointer to a second field has a name. *)
LEMMA SecondFacts ==
  ASSUME IInv, SInv, DuePointer
  PROVE  /\ Next1.f # "second" => ~Named /\ Here = WholeKey(Next1.o) /\ Base = Here
         /\ Next1.f = "second" =>
              /\ Len(stack) = 1 /\ Named /\ Here = <<heap[Next1.o].at, 1>>
              /\ Base = WholeKey(Next1.o) /\ Base \in DOMAIN gscan
              /\ \/ \E m \in DOMAIN Todo : Todo[m] = At(Next1.o, "whole")
                 \/ Entered(grains, Base, Next1.o)
<1>1. /\ Here = <<heap[Next1.o].at, IF Next1.f = "second" THEN 1 ELSE 0>>
      /\ Base = <<heap[Next1.o].at, 0>>
  BY DEF Here, Base, Key
<1>2. Next1.f # "second" => ~Named /\ Here = WholeKey(Next1.o) /\ Base = Here
  <2>1. \A k \in names : k[2] = 1
    BY DEF SInv, SecondsNamed
  <2>2. Next1.f # "second" => Here[2] = 0
    BY <1>1
  <2>. QED
    BY <1>1, <2>1, <2>2 DEF Named, WholeKey
<1>3. ASSUME Next1.f = "second"
      PROVE  /\ Len(stack) = 1 /\ Named
             /\ WholeKey(Next1.o) \in DOMAIN gscan
             /\ \/ \E m \in DOMAIN Todo : Todo[m] = At(Next1.o, "whole")
                \/ Entered(grains, WholeKey(Next1.o), Next1.o)
  <2>1. Len(stack) = 1
    BY <1>3, TodoFacts, TodoOfTwo DEF SInv, DuePointer
  <2>2. 1 \in DOMAIN Todo /\ Todo[1] = Next1 /\ stack # <<>>
    BY <2>1, TodoFacts, TodoOfOne DEF SInv, DuePointer
  <2>. QED
    BY <1>3, <2>1, <2>2 DEF SInv, SecondsNamed, Named, Here
<1>. QED
  BY <1>1, <1>2, <1>3 DEF WholeKey

LEMMA MapRefKeeps ==
  ASSUME IInv, SInv, IInv', EncodeMapRef
  PROVE  SInv'
<1> DEFINE e == maps[MapAt]
<1>1. /\ Due({"map"}) /\ MapKnown
      /\ maps' = [maps EXCEPT ![MapAt].ep = encEp]
      /\ Put(e.id, <<>>) /\ UNCHANGED <<grains, cells>>
  BY DEF EncodeMapRef, Repeat
<1>2. /\ MapAt \in DOMAIN maps /\ e.o = Next1.o /\ MapAt = heap[Next1.o].at
      /\ e.id \in Nat
  BY <1>1, MapIsKnown, GivenIds DEF MapAt
<1>3. DOMAIN maps' = DOMAIN maps /\ \A a \in DOMAIN maps :
        maps'[a].o = maps[a].o /\ maps'[a].id = maps[a].id
  <2>1. ASSUME NEW a \in DOMAIN maps
        PROVE  maps'[a].o = maps[a].o /\ maps'[a].id = maps[a].id
    <3>1. maps[a] \in [id : Nat, ep : 0..encEp, o : Nat]
      BY DEF IInv, MapEntries
    <3>2. maps'[a] = IF a = MapAt THEN [maps[a] EXCEPT !.ep = encEp] ELSE maps[a]
      BY <1>1
    <3>. QED
      BY <3>1, <3>2
  <2>. QED
    BY <1>1, <2>1
<1>4. ids' = ids /\ heap' = heap
  <2>1. ids' = ids \o <<>> /\ heap' = heap
    BY <1>1 DEF Put
  <2>. QED
    BY <2>1, ConcatEmptySeq DEF IInv, TypeOK
<1>5. EntriesStay
  BY <1>1, <1>3 DEF EntriesStay
<1>6. Exact'
  BY <1>1, <1>3, <1>4 DEF SInv, Exact
<1> HIDE DEF e
<1>7. ASSUME NEW tk, tk = Token(e.id)
      PROVE  FoundAgain(tk)'
  <2>1. tk.f = "map" /\ tk.o = Next1.o /\ tk.id = e.id
    BY <1>1, <1>7 DEF Token, Due
  <2>. QED
    BY <1>2, <1>3, <1>4, <2>1 DEF FoundAgain, EntryOf, Entered, e
<1>8. <<>> \in Seq(Records)
  BY EmptySeq
<1>. QED
  BY <1>1, <1>2, <1>5, <1>6, <1>7, <1>8, PutKeeps

(* A pointer again. *)
LEMMA RepeatKeeps ==
  ASSUME IInv, SInv, IInv', DuePointer, NEW id \in Nat,
         Repeat(id), UNCHANGED maps, \A tk : tk = Token(id) => FoundAgain(tk)
  PROVE  SInv'
<1>1. Put(id, <<>>) /\ UNCHANGED <<grains, cells>> /\ Due({"whole", "first", "second"})
  BY DEF Repeat, DuePointer
<1>2. ids' = ids /\ heap' = heap
  <2>1. ids' = ids \o <<>> /\ heap' = heap
    BY <1>1 DEF Put
  <2>. QED
    BY <2>1, ConcatEmptySeq DEF IInv, TypeOK
<1>3. EntriesStay
  BY <1>1 DEF EntriesStay
<1>4. Exact'
  BY <1>1, <1>2 DEF SInv, Exact
<1>5. ASSUME NEW tk, tk = Token(id)
      PROVE  FoundAgain(tk)'
  BY <1>1, <1>2, <1>5 DEF FoundAgain, EntryOf, Entered, WholeKey
<1>6. <<>> \in Seq(Records)
  BY EmptySeq
<1>. QED
  BY <1>1, <1>3, <1>4, <1>5, <1>6, PutKeeps

LEMMA CellRefKeeps ==
  ASSUME IInv, SInv, IInv', EncodeCellRef
  PROVE  SInv'
<1>1. /\ DuePointer /\ Named /\ Holds(cells, Here)
      /\ Repeat(cells[Here].id) /\ UNCHANGED maps
  BY DEF EncodeCellRef
<1>2. Next1.f = "second" /\ Here = <<heap[Next1.o].at, 1>>
  BY <1>1, SecondFacts
<1>3. cells[Here].o = Next1.o /\ cells[Here].id \in Nat
  <2>1. Here = <<Here[1], 1>>
    BY <1>2
  <2>. QED
    BY <1>1, <2>1, PartIsKnown DEF DuePointer, IInv
<1>4. OfStruct(Here, cells[Here])
  BY <1>1 DEF SInv, CellsRooted, Holds
<1>5. ASSUME NEW tk, tk = Token(cells[Here].id)
      PROVE  FoundAgain(tk)
  <2>1. tk.f = "second" /\ tk.o = Next1.o /\ tk.id = cells[Here].id
    BY <1>2, <1>5 DEF Token
  <2>2. Here[1] = heap[Next1.o].at
    BY <1>2
  <2>3. EntryOf(grains, <<heap[Next1.o].at, 0>>, cells[Here], ids[cells[Here].id + 1].root)
    BY <1>4, <2>2 DEF OfStruct
  <2>4. Here \in DOMAIN cells
    BY <1>1 DEF Holds
  <2>. QED
    BY <1>2, <1>3, <2>1, <2>3, <2>4 DEF FoundAgain, EntryOf, Entered, WholeKey
<1>. QED
  BY <1>1, <1>3, <1>5, RepeatKeeps

LEMMA RefKeeps ==
  ASSUME IInv, SInv, IInv', EncodeRef
  PROVE  SInv'
<1>1. /\ DuePointer /\ Holds(grains, Here) /\ Repeat(grains[Here].id) /\ UNCHANGED maps
  BY DEF EncodeRef
<1>2. Next1.f \in {"whole", "first"} /\ Here = WholeKey(Next1.o)
  <2>1. Here[2] = 0
    BY <1>1 DEF SInv, Exact, Holds
  <2>2. Next1.f # "second"
    <3>1. <<heap[Next1.o].at, 1>>[2] = 1
      OBVIOUS
    <3>. QED
      BY <1>1, <2>1, <3>1, SecondFacts
  <2>. QED
    BY <1>1, <2>2, SecondFacts DEF DuePointer, Due
<1>3. grains[Here].o = Next1.o /\ grains[Here].id \in Nat
  <2>1. Here = <<Here[1], 0>>
    BY <1>2 DEF WholeKey
  <2>. QED
    BY <1>1, <2>1, PartIsKnown DEF DuePointer, IInv
<1>4. ASSUME NEW tk, tk = Token(grains[Here].id)
      PROVE  FoundAgain(tk)
  <2>1. tk.f \in {"whole", "first"} /\ tk.o = Next1.o /\ tk.id = grains[Here].id
    BY <1>2, <1>4 DEF Token
  <2>. QED
    BY <1>1, <1>2, <1>3, <2>1 DEF FoundAgain, EntryOf, Entered, Holds
<1>. QED
  BY <1>1, <1>3, <1>4, RepeatKeeps

(* The record of a new id: begun, and of the grain its entry has.          *)
LEMMA NewRecordKept ==
  ASSUME IInv, SInv, NEW r \in Records, ids' = ids \o <<r>>, r.begun
  PROVE  /\ \A n \in DOMAIN ids' : ids'[n].begun
         /\ ids'[NextID + 1] = r
         /\ \A i \in Nat : i < Len(ids) => ids'[i + 1] = ids[i + 1]
<1>1. <<r>> \in Seq(Records) /\ DOMAIN <<r>> = {1} /\ <<r>>[1] = r
  OBVIOUS
<1>2. /\ \A i \in Nat : i < Len(ids) => ids'[i + 1] = ids[i + 1]
      /\ ids'[Len(ids) + 1] = r
      /\ \A i \in DOMAIN ids' : (i \in DOMAIN ids /\ ids'[i] = ids[i]) \/ ids'[i] = r
  BY <1>1, IdsStay
<1>3. \A n \in DOMAIN ids : ids[n].begun
  BY DEF SInv, Exact
<1>. QED
  BY <1>2, <1>3 DEF NextID

LEMMA MapKeeps ==
  ASSUME IInv, SInv, IInv', EncodeMap
  PROVE  SInv'
<1> DEFINE entry == [id |-> NextID, ep |-> encEp, o |-> Next1.o]
           m == With(maps, MapAt, entry)
           r == Record(Next1.o, "map")
<1>1. /\ Due({"map"}) /\ ~MapKnown /\ Put(NextID, <<r>>)
      /\ noteInternInsert(1, grains, m) /\ UNCHANGED cells
  BY DEF EncodeMap
<1>2. /\ DOMAIN m = DOMAIN maps \cup {MapAt} /\ m[MapAt] = entry
      /\ \A a \in DOMAIN maps : a # MapAt => m[a] = maps[a]
  BY DEF With
<1>3. entry.id = NextID /\ entry.o = Next1.o
  OBVIOUS
<1>4. r.grain = "map" /\ r.begun
  BY DEF Record
<1> HIDE DEF entry, m
<1>5. /\ \A k \in DOMAIN grains' : k \in DOMAIN grains /\ grains'[k] = grains[k]
      /\ \A a \in DOMAIN maps' : a \in DOMAIN m /\ maps'[a] = m[a]
      /\ \A k \in DOMAIN grains : Live(grains[k].o) => k \in DOMAIN grains'
      /\ \A a \in DOMAIN m : Live(m[a].o) => a \in DOMAIN maps'
  BY <1>1, SweepFacts
<1>6. Next1.o \in DOMAIN heap /\ Live(Next1.o) /\ NextID \in Nat /\ r \in Records
  <2>1. Next1 \in Positions /\ Next1.f = "map"
    BY <1>1, DueFacts DEF IInv
  <2>2. NextID \in Nat
    BY DEF NextID, IInv, TypeOK
  <2>. QED
    BY <1>1, <2>1, <2>2, DueFacts DEF IInv, Record, Records, Positions
<1>7. ids' = ids \o <<r>> /\ heap' = heap
  BY <1>1 DEF Put
<1> HIDE DEF r
<1>8. /\ \A n \in DOMAIN ids' : ids'[n].begun
      /\ ids'[NextID + 1] = r
      /\ \A i \in Nat : i < Len(ids) => ids'[i + 1] = ids[i + 1]
  BY <1>4, <1>6, <1>7, NewRecordKept
<1>9. EntriesStay
  <2>1. MapAt \in DOMAIN maps => ~Live(maps[MapAt].o)
    BY <1>1 DEF MapKnown, Alive
  <2>. QED
    BY <1>1, <1>2, <1>5, <2>1 DEF EntriesStay
<1>10. Exact'
  <2>1. \A k \in DOMAIN grains' :
          k[2] = 0 /\ ids'[grains'[k].id + 1].grain = grains'[k].grain
    BY <1>5, <1>8, GivenIds DEF SInv, Exact
  <2>2. \A a \in DOMAIN maps' : ids'[maps'[a].id + 1].grain = "map"
    BY <1>2, <1>3, <1>4, <1>5, <1>8, GivenIds DEF SInv, Exact
  <2>3. \A k \in DOMAIN cells' : ids'[cells'[k].id + 1].grain = "cell"
    BY <1>1, <1>8, GivenIds DEF SInv, Exact
  <2>. QED
    BY <1>8, <2>1, <2>2, <2>3 DEF Exact
<1>11. ASSUME NEW tk, tk = Token(NextID)
       PROVE  FoundAgain(tk)'
  <2>1. tk.f = "map" /\ tk.o = Next1.o /\ tk.id = NextID
    BY <1>1, <1>11 DEF Token, Due
  <2>2. MapAt \in DOMAIN maps' /\ maps'[MapAt] = entry
    BY <1>2, <1>3, <1>5, <1>6
  <2>. QED
    BY <1>3, <1>7, <2>1, <2>2 DEF FoundAgain, EntryOf, Entered, MapAt
<1>12. <<r>> \in Seq(Records)
  BY <1>6
<1>. QED
  BY <1>1, <1>5, <1>6, <1>9, <1>10, <1>11, <1>12, PutKeeps

(* No pointer to the struct is left where its first field gets a record.   *)
LEMMA FieldIsParted ==
  ASSUME IInv, SInv, DuePointer, Next1.f # "second", CanonicalGrain = "field"
  PROVE  /\ Next1.f = "first" /\ Len(stack) = 1
         /\ \A j \in DOMAIN Todo : Todo[j] # At(Next1.o, "whole")
<1>1. Due({"whole", "first", "second"})
  BY DEF DuePointer
<1>2. Next1.f = "first"
  <2>1. Grain(Next1) # "struct"
    BY DEF CanonicalGrain
  <2>. QED
    BY <1>1, <2>1 DEF Grain, Due
<1>3. Len(stack) = 1
  BY <1>1, <1>2, TodoFacts, TodoOfTwo DEF SInv
<1>4. 1 \in DOMAIN Todo /\ Todo[1] = Next1 /\ stack # <<>>
  BY <1>1, <1>3, TodoFacts, TodoOfOne DEF SInv
<1>5. \A m \in DOMAIN Todo : Todo[m].f \notin {"map", "coder"} =>
        Key(Todo[m]) \in DOMAIN gscan /\ Grain(Todo[m]) \in gscan[Key(Todo[m])]
  BY <1>2, <1>4 DEF SInv, ScanStands, Interior
<1>6. ASSUME NEW j \in DOMAIN Todo, Todo[j] = At(Next1.o, "whole")
      PROVE  FALSE
  <2>1. Key(Todo[j]) = Here /\ Grain(Todo[j]) = "struct" /\ Todo[j].f = "whole"
    BY <1>2, <1>6 DEF At, Key, Grain, Here
  <2>2. Here \in DOMAIN gscan /\ "struct" \in gscan[Here]
    BY <1>5, <2>1
  <2>. QED
    BY <2>2 DEF CanonicalGrain
<1>. QED
  BY <1>2, <1>3, <1>6

LEMMA RecordKeeps ==
  ASSUME IInv, SInv, IInv', EncodeRecord
  PROVE  SInv'
<1> DEFINE entry == [id |-> NextID, grain |-> CanonicalGrain, o |-> Next1.o]
           g == With(grains, Here, entry)
           r == Record(Next1.o, CanonicalGrain)
<1>1. /\ DuePointer /\ Due({"whole", "first", "second"}) /\ ~Named /\ ~Holds(grains, Here)
      /\ Put(NextID, <<r>>) /\ noteInternInsert(1, g, maps) /\ UNCHANGED cells
  BY DEF EncodeRecord, DuePointer
<1>2. /\ DOMAIN g = DOMAIN grains \cup {Here} /\ g[Here] = entry
      /\ \A k \in DOMAIN grains : k # Here => g[k] = grains[k]
  BY DEF With
<1>3. entry.id = NextID /\ entry.o = Next1.o /\ entry.grain = CanonicalGrain
  OBVIOUS
<1>4. r.grain = CanonicalGrain /\ r.begun
  BY DEF Record
<1> HIDE DEF entry, g
<1>5. /\ \A k \in DOMAIN grains' : k \in DOMAIN g /\ grains'[k] = g[k]
      /\ \A a \in DOMAIN maps' : a \in DOMAIN maps /\ maps'[a] = maps[a]
      /\ \A k \in DOMAIN g : Live(g[k].o) => k \in DOMAIN grains'
      /\ \A a \in DOMAIN maps : Live(maps[a].o) => a \in DOMAIN maps'
  BY <1>1, SweepFacts
<1>6. Next1.o \in DOMAIN heap /\ Live(Next1.o) /\ NextID \in Nat /\ r \in Records
  <2>1. Next1 \in Positions /\ Next1.f \in {"whole", "first", "second"}
    BY <1>1, DueFacts DEF IInv
  <2>2. NextID \in Nat
    BY DEF NextID, IInv, TypeOK
  <2>3. CanonicalGrain \in {"struct", "field"}
    BY DEF CanonicalGrain
  <2>. QED
    BY <1>1, <2>1, <2>2, <2>3, DueFacts DEF IInv, Record, Records, Positions
<1>7. ids' = ids \o <<r>> /\ heap' = heap /\ stack' = Advanced
  BY <1>1 DEF Put
<1> HIDE DEF r
<1>8. /\ \A n \in DOMAIN ids' : ids'[n].begun
      /\ ids'[NextID + 1] = r
      /\ \A i \in Nat : i < Len(ids) => ids'[i + 1] = ids[i + 1]
  BY <1>4, <1>6, <1>7, NewRecordKept
<1>9. Next1.f \in {"whole", "first"} /\ Here = WholeKey(Next1.o)
  BY <1>1, SecondFacts DEF Due
<1>10. EntriesStay
  BY <1>1, <1>2, <1>5 DEF EntriesStay, Holds
<1>11. Exact'
  <2>1. ASSUME NEW k \in DOMAIN grains'
        PROVE  k[2] = 0 /\ ids'[grains'[k].id + 1].grain = grains'[k].grain
    <3>1. CASE k = Here
      <4>1. k[2] = 0
        BY <1>9, <3>1 DEF WholeKey
      <4>. QED
        BY <1>2, <1>3, <1>4, <1>5, <1>8, <3>1, <4>1
    <3>2. CASE k # Here
      BY <1>2, <1>5, <1>8, <3>2, GivenIds DEF SInv, Exact
    <3>. QED
      BY <3>1, <3>2
  <2>2. \A a \in DOMAIN maps' : ids'[maps'[a].id + 1].grain = "map"
    BY <1>5, <1>8, GivenIds DEF SInv, Exact
  <2>3. \A k \in DOMAIN cells' : ids'[cells'[k].id + 1].grain = "cell"
    BY <1>1, <1>8, GivenIds DEF SInv, Exact
  <2>. QED
    BY <1>8, <2>1, <2>2, <2>3 DEF Exact
<1>12. ASSUME NEW tk, tk = Token(NextID)
       PROVE  FoundAgain(tk)'
  <2>1. tk.f \in {"whole", "first"} /\ tk.o = Next1.o /\ tk.id = NextID
    BY <1>9, <1>12 DEF Token
  <2>2. Here \in DOMAIN grains' /\ grains'[Here] = entry
    BY <1>2, <1>3, <1>5, <1>6
  <2>. QED
    BY <1>3, <1>7, <1>9, <2>1, <2>2 DEF FoundAgain, EntryOf, Entered, WholeKey
<1>13. ASSUME NEW k \in DOMAIN grains', grains'[k].grain = "field"
       PROVE  \/ k \in DOMAIN grains /\ grains'[k] = grains[k]
              \/ /\ grains'[k].o = Next1.o
                 /\ \A o, tk : o = Next1.o /\ tk = Token(NextID) => Parted(o, tk)'
  <2>1. CASE k # Here
    BY <1>2, <1>5, <2>1
  <2>2. CASE k = Here
    <3>1. grains'[k] = entry /\ CanonicalGrain = "field"
      BY <1>2, <1>3, <1>5, <1>13, <2>2
    <3>2. /\ Next1.f = "first" /\ Len(stack) = 1
          /\ \A j \in DOMAIN Todo : Todo[j] # At(Next1.o, "whole")
      BY <1>1, <1>9, <3>1, FieldIsParted
    <3>3. ASSUME NEW n \in DOMAIN Advanced, NEW j \in DOMAIN Advanced[n].todo
          PROVE  Advanced[n].todo[j] # At(Next1.o, "whole")
      <4>1. n = 1
        BY <1>1, <3>2, TodoFacts DEF SInv
      <4>2. PICK x \in DOMAIN stack[1].todo : Advanced[1].todo[j] = stack[1].todo[x]
        BY <1>1, <3>2, <4>1, TodoFacts, AdvanceFacts DEF SInv, IInv
      <4>. QED
        BY <3>2, <4>1, <4>2 DEF Todo
    <3>4. ASSUME NEW o, NEW tk, o = Next1.o, tk = Token(NextID)
          PROVE  Parted(o, tk)'
      <4>1. tk.o = o /\ tk.f = "first" /\ tk.id = NextID
        BY <3>2, <3>4 DEF Token
      <4>2. ids'[tk.id + 1].grain = "field"
        BY <1>4, <1>8, <3>1, <4>1
      <4>3. \A n \in DOMAIN stack' : \A j \in DOMAIN stack'[n].todo :
              stack'[n].todo[j] # At(o, "whole")
        BY <1>7, <3>3, <3>4
      <4>. QED
        BY <4>1, <4>2, <4>3 DEF Parted, At
    <3>. QED
      BY <1>3, <3>1, <3>4
  <2>. QED
    BY <2>1, <2>2
<1>14. <<r>> \in Seq(Records)
  BY <1>6
<1>. QED
  BY <1>1, <1>6, <1>10, <1>11, <1>12, <1>13, <1>14, PutKeeps

LEMMA PathRefKeeps ==
  ASSUME IInv, SInv, IInv', EncodePathRef
  PROVE  SInv'
<1> DEFINE root == grains[Base].id
           r == Cell(root)
           entry == [id |-> NextID, grain |-> "field", o |-> Next1.o]
<1>1. /\ DuePointer /\ Due({"whole", "first", "second"}) /\ Named /\ ~Holds(cells, Here)
      /\ Holds(grains, Base) \/ Base \notin DOMAIN gscan
  BY DEF EncodePathRef, PathDue, DuePointer
<1>2. /\ Next1.f = "second" /\ Here = <<heap[Next1.o].at, 1>>
      /\ Base = WholeKey(Next1.o) /\ Holds(grains, Base)
  BY <1>1, SecondFacts
<1>3. /\ Put(NextID, <<r>>) /\ cells' = With(cells, Here, entry)
      /\ noteInternInsert(1, grains, maps)
  BY <1>2 DEF EncodePathRef
<1>4. /\ DOMAIN cells' = DOMAIN cells \cup {Here} /\ cells'[Here] = entry
      /\ \A k \in DOMAIN cells : k # Here => cells'[k] = cells[k]
  BY <1>3 DEF With
<1>5. entry.id = NextID /\ entry.o = Next1.o
  OBVIOUS
<1>6. r.grain = "cell" /\ r.begun /\ r.root = root
  BY DEF Cell
<1> HIDE DEF entry
<1>7. /\ \A k \in DOMAIN grains' : k \in DOMAIN grains /\ grains'[k] = grains[k]
      /\ \A a \in DOMAIN maps' : a \in DOMAIN maps /\ maps'[a] = maps[a]
      /\ \A k \in DOMAIN grains : Live(grains[k].o) => k \in DOMAIN grains'
      /\ \A a \in DOMAIN maps : Live(maps[a].o) => a \in DOMAIN maps'
  BY <1>3, SweepFacts
<1>8. /\ Next1.o \in DOMAIN heap /\ Live(Next1.o) /\ NextID \in Nat /\ r \in Records
      /\ grains[Base].o = Next1.o
  <2>1. Next1 \in Positions
    BY <1>1, DueFacts DEF IInv
  <2>2. NextID \in Nat
    BY DEF NextID, IInv, TypeOK
  <2>3. grains[Base].o = Next1.o /\ root \in Nat
    <3>1. Base = <<Here[1], 0>>
      BY DEF Base
    <3>. QED
      BY <1>1, <1>2, <3>1, PartIsKnown DEF IInv
  <2>. QED
    BY <1>1, <1>2, <2>1, <2>2, <2>3, DueFacts DEF IInv, Cell, Records, Positions
<1>9. ids' = ids \o <<r>> /\ heap' = heap
  BY <1>3 DEF Put
<1> HIDE DEF r
<1>10. /\ \A n \in DOMAIN ids' : ids'[n].begun
       /\ ids'[NextID + 1] = r
       /\ \A i \in Nat : i < Len(ids) => ids'[i + 1] = ids[i + 1]
  BY <1>6, <1>8, <1>9, NewRecordKept
<1>11. EntriesStay
  BY <1>1, <1>4, <1>7 DEF EntriesStay, Holds
<1>12. Exact'
  <2>1. \A k \in DOMAIN grains' :
          k[2] = 0 /\ ids'[grains'[k].id + 1].grain = grains'[k].grain
    BY <1>7, <1>10, GivenIds DEF SInv, Exact
  <2>2. \A a \in DOMAIN maps' : ids'[maps'[a].id + 1].grain = "map"
    BY <1>7, <1>10, GivenIds DEF SInv, Exact
  <2>3. \A k \in DOMAIN cells' : ids'[cells'[k].id + 1].grain = "cell"
    BY <1>4, <1>5, <1>6, <1>10, GivenIds DEF SInv, Exact
  <2>. QED
    BY <1>10, <2>1, <2>2, <2>3 DEF Exact
<1>13. /\ Base \in DOMAIN grains' /\ grains'[Base] = grains[Base]
       /\ grains[Base].o = Next1.o /\ grains[Base].id = root
  BY <1>2, <1>7, <1>8 DEF Holds
<1>14. ASSUME NEW tk, tk = Token(NextID)
       PROVE  FoundAgain(tk)'
  <2>1. tk.f = "second" /\ tk.o = Next1.o /\ tk.id = NextID
    BY <1>2, <1>14 DEF Token
  <2>2. EntryOf(cells, <<heap[tk.o].at, 1>>, tk, tk.id)'
    BY <1>2, <1>4, <1>5, <1>9, <2>1 DEF EntryOf, Entered
  <2>3. ids'[tk.id + 1].root = root /\ WholeKey(tk.o)' = Base
    BY <1>2, <1>6, <1>9, <1>10, <2>1 DEF WholeKey
  <2>4. EntryOf(grains, WholeKey(tk.o), tk, ids[tk.id + 1].root)'
    BY <1>13, <2>1, <2>3 DEF EntryOf, Entered
  <2>. QED
    BY <2>1, <2>2, <2>4 DEF FoundAgain
<1>15. ASSUME NEW k \in DOMAIN cells'
       PROVE  \/ k \in DOMAIN cells /\ cells'[k] = cells[k]
              \/ \A e : e = cells'[k] => OfStruct(k, e)'
  <2>1. CASE k # Here
    BY <1>4, <2>1
  <2>2. CASE k = Here
    <3>1. <<k[1], 0>> = Base
      BY <2>2 DEF Base
    <3>. QED
      BY <1>4, <1>5, <1>6, <1>10, <1>13, <2>2, <3>1 DEF OfStruct, EntryOf, Entered
  <2>. QED
    BY <2>1, <2>2
<1>16. <<r>> \in Seq(Records)
  BY <1>8
<1>. QED
  BY <1>1, <1>3, <1>7, <1>8, <1>11, <1>12, <1>14, <1>15, <1>16, PutKeeps

-----------------------------------------------------------------------------
(* The steps that write nothing.                                           *)

(* No object changes its place, and none comes back to life.               *)
HeapStays ==
  \A o \in DOMAIN heap :
    /\ o \in DOMAIN heap' /\ heap'[o].at = heap[o].at /\ heap'[o].sort = heap[o].sort
    /\ heap'[o].live => heap[o].live

LEMMA RowsInHeap ==
  ASSUME IInv, NEW i \in DOMAIN stack, NEW j \in DOMAIN stack[i].todo,
         stack[i].todo[j].f # "coder"
  PROVE  stack[i].todo[j].o \in DOMAIN heap
  BY DEF IInv, Rows, Kept, Memory

LEMMA TokensQuiet ==
  ASSUME IInv, SInv, HeapStays, UNCHANGED <<maps, grains, cells, out, ids>>
  PROVE  TokensSorted' /\ Exact' /\ Found' /\ CellsRooted' /\ SharingKept'
<1>1. TokensSorted'
  BY DEF SInv, TokensSorted, OfSort, HeapStays
<1>2. Exact'
  BY DEF SInv, Exact
<1>3. Found'
  <2>1. ASSUME NEW i \in DOMAIN out, heap'[out[i].o].live
        PROVE  \A tk : tk = out[i] => FoundAgain(tk)'
    <3>1. out[i].o \in DOMAIN heap
      BY DEF SInv, TokensSorted
    <3>2. FoundAgain(out[i]) /\ heap'[out[i].o].at = heap[out[i].o].at
      BY <2>1, <3>1 DEF SInv, Found, HeapStays, Live
    <3>3. ASSUME NEW tk, tk = out[i]
          PROVE  FoundAgain(tk)'
      BY <3>2, <3>3 DEF FoundAgain, EntryOf, Entered, WholeKey
    <3>. QED
      BY <3>3
  <2>2. ASSUME NEW i \in DOMAIN out', Live(out[i].o)'
        PROVE  FoundAgain(out[i])'
    <3>1. \A tk : tk = out'[i] => FoundAgain(tk)'
      BY <2>1, <2>2 DEF Live
    <3>. QED
      BY <3>1 DEF FoundAgain, EntryOf, Entered, WholeKey
  <2>. QED
    BY <2>2 DEF Found
<1>4. CellsRooted'
  BY GivenIds DEF SInv, CellsRooted, OfStruct, EntryOf, Entered, HeapStays, Live
<1>5. SharingKept'
  BY DEF SInv, SharingKept, Storage, Overlap
<1>. QED
  BY <1>1, <1>2, <1>3, <1>4, <1>5

LEMMA FieldsQuiet ==
  ASSUME IInv, SInv, HeapStays, UNCHANGED <<grains, out, ids>>,
         \A i \in DOMAIN out : \A n \in DOMAIN stack' : stack'[n].call = out[i].call =>
           /\ n \in DOMAIN stack /\ stack'[n].call = stack[n].call
           /\ \A j \in DOMAIN stack'[n].todo :
                \E m \in DOMAIN stack[n].todo : stack'[n].todo[j] = stack[n].todo[m]
  PROVE  ByFirstField'
<1>1. ASSUME NEW k \in DOMAIN grains, heap'[grains[k].o].live, grains[k].grain = "field"
      PROVE  \E i \in DOMAIN out : \A o, tk : o = grains[k].o /\ tk = out[i] => Parted(o, tk)'
  <2>1. Live(grains[k].o)
    BY <1>1, GivenIds DEF HeapStays, Live
  <2>2. PICK i \in DOMAIN out : Parted(grains[k].o, out[i])
    BY <1>1, <2>1 DEF SInv, ByFirstField
  <2>3. ASSUME NEW o, NEW tk, o = grains[k].o, tk = out[i]
        PROVE  Parted(o, tk)'
    <3>1. Parted(o, tk) /\ ids'[tk.id + 1] = ids[tk.id + 1]
      BY <2>2, <2>3
    <3>2. \A n \in DOMAIN stack' : stack'[n].call = tk.call =>
            /\ n \in DOMAIN stack /\ stack'[n].call = stack[n].call
            /\ \A j \in DOMAIN stack'[n].todo :
                 \E m \in DOMAIN stack[n].todo : stack'[n].todo[j] = stack[n].todo[m]
      BY <2>3
    <3>. QED
      BY <3>1, <3>2, PartedStays
  <2>. QED
    BY <2>3
<1>. QED
  BY <1>1 DEF ByFirstField, Live, Parted, At

(* A step that leaves the value alone as well. *)
LEMMA QuietKeeps ==
  ASSUME IInv, SInv, HeapStays, RefusedForCause',
         UNCHANGED <<maps, grains, cells, out, ids, stack, gscan, names, encEp>>
  PROVE  SInv'
<1>1. Nested' /\ Calls'
  BY DEF SInv, Nested, Calls, Todo
<1>2. RowsSorted'
  <2>1. ASSUME NEW i \in DOMAIN stack, NEW j \in DOMAIN stack[i].todo,
               stack[i].todo[j].f # "coder"
        PROVE  stack[i].todo[j].f = "map" <=> heap'[stack[i].todo[j].o].sort = "map"
    <3>1. stack[i].todo[j].o \in DOMAIN heap
      BY <2>1, RowsInHeap
    <3>. QED
      BY <2>1, <3>1 DEF SInv, RowsSorted, OfSort, HeapStays
  <2>. QED
    BY <2>1 DEF RowsSorted, OfSort
<1>3. ScanStands' /\ SecondsNamed'
  <2>1. ASSUME stack # <<>>, NEW j \in DOMAIN Todo, Todo[j].f # "coder"
        PROVE  /\ heap'[Todo[j].o].at = heap[Todo[j].o].at
    <3>1. 1 \in DOMAIN stack
      BY <2>1 DEF IInv, TypeOK
    <3>2. Todo[j].o \in DOMAIN heap
      BY <2>1, <3>1, RowsInHeap DEF Todo
    <3>. QED
      BY <3>2 DEF HeapStays
  <2>2. Todo' = Todo
    BY DEF Todo
  <2>3. ScanStands'
    BY <2>1, <2>2 DEF SInv, ScanStands, Interior, Key, Grain
  <2>4. SecondsNamed'
    BY <2>1, <2>2 DEF SInv, SecondsNamed, Key, WholeKey, Entered, At
  <2>. QED
    BY <2>3, <2>4
<1>4. ByFirstField'
  <2>1. \A n \in DOMAIN stack' :
          /\ n \in DOMAIN stack /\ stack'[n].call = stack[n].call
          /\ \A j \in DOMAIN stack'[n].todo :
               \E m \in DOMAIN stack[n].todo : stack'[n].todo[j] = stack[n].todo[m]
    OBVIOUS
  <2>. QED
    BY <2>1, FieldsQuiet
<1>5. TokensSorted' /\ Exact' /\ Found' /\ CellsRooted' /\ SharingKept'
  BY TokensQuiet
<1>. QED
  BY <1>1, <1>2, <1>3, <1>4, <1>5 DEF SInv

LEMMA CollectKeeps ==
  ASSUME IInv, SInv, Collect
  PROVE  SInv'
<1>1. PICK o \in DOMAIN heap \ Kept : heap' = [heap EXCEPT ![o].live = FALSE]
  BY DEF Collect
<1>2. UNCHANGED <<maps, grains, cells, out, ids, stack, gscan, names, encEp, refused>>
  BY DEF Collect, tables, scans
<1>3. HeapStays
  <2>1. heap \in Seq(Objects) /\ heap[o] \in Objects
    BY <1>1, ElementOfSeq DEF IInv, TypeOK
  <2>. QED
    BY <1>1, <2>1 DEF HeapStays, Objects
<1>4. RefusedForCause'
  BY <1>2 DEF SInv, RefusedForCause, Next1, Running, At
<1>. QED
  BY <1>2, <1>3, <1>4, QuietKeeps

LEMMA AllocateKeeps ==
  ASSUME IInv, SInv, Allocate
  PROVE  SInv'
<1>1. PICK a \in FreeAddrs, sort \in {"map", "struct"} :
        heap' = Append(heap, Object(sort, a))
  BY DEF Allocate
<1>2. UNCHANGED <<maps, grains, cells, out, ids, stack, gscan, names, encEp, refused>>
  BY DEF Allocate, tables, scans
<1>3. HeapStays
  BY <1>1, <1>2, NewObject DEF HeapStays
<1>4. RefusedForCause'
  BY <1>2 DEF SInv, RefusedForCause, Next1, Running, At
<1>. QED
  BY <1>2, <1>3, <1>4, QuietKeeps

LEMMA RestKeeps ==
  ASSUME IInv, SInv, Release \/ UNCHANGED vars
  PROVE  SInv'
<1>1. /\ UNCHANGED <<maps, grains, cells, out, ids, stack, gscan, names, encEp, refused>>
      /\ heap' = heap
  BY DEF Release, vars, tables, scans
<1>2. HeapStays
  BY <1>1 DEF HeapStays
<1>3. RefusedForCause'
  BY <1>1 DEF SInv, RefusedForCause, Next1, Running, At
<1>. QED
  BY <1>1, <1>2, <1>3, QuietKeeps

(* A refusal has its cause. *)
LEMMA CoarserKeeps ==
  ASSUME IInv, SInv, EncodeCoarser
  PROVE  SInv'
<1>1. /\ DuePointer /\ Due({"whole", "first", "second"}) /\ ~Named /\ Holds(grains, Here)
      /\ ~Compatible(grains[Here].grain, Grain(Next1)) /\ Refuse("coarsening")
  BY DEF EncodeCoarser, DuePointer
<1>2. /\ UNCHANGED <<heap, maps, grains, cells, out, ids, stack, gscan, names, encEp>>
      /\ refused' = "coarsening"
  BY <1>1 DEF Refuse, tables, scans
<1>3. Next1.f # "second" /\ Here = WholeKey(Next1.o)
  BY <1>1, SecondFacts
<1>4. grains[Here].o = Next1.o /\ Live(grains[Here].o) /\ Here \in DOMAIN grains
  <2>1. Here = <<Here[1], 0>>
    BY <1>3 DEF WholeKey
  <2>. QED
    BY <1>1, <2>1, PartIsKnown DEF IInv, Holds
<1>5. grains[Here].grain = "field" /\ Grain(Next1) = "struct"
  <2>1. grains[Here].grain \in {"struct", "field"}
    BY <1>4 DEF IInv, IsPartTable
  <2>. QED
    BY <1>1, <2>1 DEF Compatible, Grain
<1>6. Next1 = At(Next1.o, "whole")
  <2>1. Next1.f = "whole"
    BY <1>5 DEF Grain
  <2>. QED
    BY <1>1, <2>1, DueOfSort DEF SInv
<1>7. PICK i \in DOMAIN out : Parted(Next1.o, out[i])
  BY <1>4, <1>5 DEF SInv, ByFirstField
<1>8. out[i].call # Running.call
  <2> DEFINE n == Len(stack)
             l == Len(stack[n].todo)
  <2>1. /\ n \in Nat \ {0} /\ DOMAIN stack = 1..n /\ Running = stack[n]
        /\ l \in Nat \ {0} /\ DOMAIN stack[n].todo = 1..l
        /\ stack[n].todo[1] = Next1
    BY <1>1, AdvanceTodos DEF IInv
  <2> HIDE DEF n, l
  <2>2. n \in DOMAIN stack /\ 1 \in DOMAIN stack[n].todo
    BY <2>1
  <2>. QED
    BY <1>6, <1>7, <2>1, <2>2 DEF Parted
<1>9. RefusedForCause'
  <2>1. /\ out[i].o = Next1.o /\ out[i].call # Running.call
        /\ out[i].f = "first" /\ ids[out[i].id + 1].grain = "field"
    BY <1>7, <1>8 DEF Parted
  <2>2. Next1' = Next1 /\ Running' = Running
    BY <1>2 DEF Next1, Running
  <2>3. "coarsening" # "path_root"
    OBVIOUS
  <2>. QED
    BY <1>2, <2>1, <2>2, <2>3 DEF RefusedForCause
<1>10. HeapStays
  BY <1>2 DEF HeapStays
<1>. QED
  BY <1>2, <1>9, <1>10, QuietKeeps

LEMMA PathEarlyKeeps ==
  ASSUME IInv, SInv, EncodePathEarly
  PROVE  SInv'
<1>1. /\ DuePointer /\ Due({"whole", "first", "second"}) /\ Named
      /\ ~Holds(grains, Base) /\ Refuse("path_root")
  BY DEF EncodePathEarly, PathDue, DuePointer
<1>2. /\ UNCHANGED <<heap, maps, grains, cells, out, ids, stack, gscan, names, encEp>>
      /\ refused' = "path_root"
  BY <1>1 DEF Refuse, tables, scans
<1>3. /\ Len(stack) = 1
      /\ \/ \E m \in DOMAIN Todo : Todo[m] = At(Next1.o, "whole")
         \/ Entered(grains, Base, Next1.o)
  BY <1>1, SecondFacts
<1>4. Live(Next1.o)
  BY <1>1, DueFacts, DueOfSort DEF IInv, SInv
<1>5. Running = stack[1]
  BY <1>1, <1>3, TodoOfOne DEF SInv
<1>6. \E m \in DOMAIN Running.todo : Running.todo[m] = At(Next1.o, "whole")
  BY <1>1, <1>3, <1>4, <1>5 DEF Entered, Holds, Todo
<1>7. RefusedForCause'
  <2>1. Next1' = Next1 /\ Running' = Running
    BY <1>2 DEF Next1, Running
  <2>2. "coarsening" # "path_root"
    OBVIOUS
  <2>3. \A o : o = Next1.o => At(o, "whole")' = At(o, "whole")
    BY DEF At
  <2>. QED
    BY <1>2, <1>6, <2>1, <2>2, <2>3 DEF RefusedForCause, At
<1>8. HeapStays
  BY <1>2 DEF HeapStays
<1>. QED
  BY <1>2, <1>7, <1>8, QuietKeeps

-----------------------------------------------------------------------------
(* Encodes begin and end.                                                  *)

LEMMA HeldSort ==
  ASSUME NEW o, NEW p \in PositionsOf(o)
  PROVE  OfSort(p) /\ p.o = o /\ p.f # "coder"
  BY DEF PositionsOf, At, OfSort

(* What a scan notes. *)
LEMMA ScanFacts ==
  ASSUME NEW row, NEW known, Scan(row, known)
  PROVE  /\ \A p \in Pointers(row) : Key(p) \in DOMAIN gscan' /\ Grain(p) \in gscan'[Key(p)]
         /\ \A k \in names' : k[2] = 1
         /\ \A p, q \in Pointers(row) :
              p.f = "second" /\ q.f = "whole" /\ q.o = p.o => Key(p) \in names'
<1> DEFINE ps == Pointers(row)
<1>1. /\ gscan' = [k \in {Key(p) : p \in ps} |-> {Grain(p) : p \in {q \in ps : Key(q) = k}}]
      /\ structs' = known \cup {heap[p.o].at : p \in {q \in ps : q.f = "whole"}}
      /\ names' = {k \in DOMAIN gscan' : k[2] = 1 /\ k[1] \in structs'}
  BY DEF Scan
<1> HIDE DEF ps
<1>2. \A p \in ps : Key(p) \in DOMAIN gscan' /\ Grain(p) \in gscan'[Key(p)]
  BY <1>1
<1>3. ASSUME NEW p \in ps, NEW q \in ps, p.f = "second", q.f = "whole", q.o = p.o
      PROVE  Key(p) \in names'
  <2>1. Key(p) = <<heap[p.o].at, 1>>
    BY <1>3 DEF Key
  <2>2. Key(p)[1] = heap[p.o].at /\ Key(p)[2] = 1
    BY <2>1
  <2>3. heap[p.o].at \in structs'
    BY <1>1, <1>3
  <2>. QED
    BY <1>1, <1>2, <2>2, <2>3
<1>. QED
  BY <1>1, <1>2, <1>3 DEF ps

LEMMA EncodeKeeps ==
  ASSUME IInv, SInv, Encode, Shapes = {}
  PROVE  SInv'
<1>1. PICK n \in 1..MaxPositions :
        \E row \in [1..n -> (UNION {PositionsOf(o) : o \in held}) \cup {CoderHere}] :
          /\ Admitted(row) /\ Scan(row, {})
          /\ stack' = <<Frame(<<encEp + 1, 0>>, row, {row[i].o : i \in 1..n} \ {0})>>
  BY DEF Encode
<1> DEFINE own == UNION {PositionsOf(o) : o \in held}
<1>2. PICK row \in [1..n -> own \cup {CoderHere}] :
        /\ Admitted(row) /\ Scan(row, {})
        /\ stack' = <<Frame(<<encEp + 1, 0>>, row, {row[i].o : i \in 1..n} \ {0})>>
  BY <1>1
<1> HIDE DEF own
<1>3. /\ stack = <<>> /\ encEp' = encEp + 1 /\ encEp \in Nat
      /\ UNCHANGED <<heap, maps, grains, cells, out, ids, refused>> /\ refused = "none"
  BY DEF Encode, tables, IInv, TypeOK
<1>4. /\ DOMAIN stack' = {1} /\ Len(stack') = 1 /\ stack' # <<>>
      /\ stack'[1].call = <<encEp + 1, 0>> /\ stack'[1].todo = row /\ Todo' = row
  BY <1>2 DEF Frame, Todo
<1>5. DOMAIN row = 1..n /\ n \in Nat
  BY TablesAssumption DEF TablesAssumption
<1>6. ASSUME NEW j \in DOMAIN row
      PROVE  /\ row[j].f # "coder" => OfSort(row[j])
             /\ row[j].f = "coder" => row[j] = CoderHere
  <2>1. row[j] \in own \/ row[j] = CoderHere
    BY <1>2
  <2>2. CASE row[j] = CoderHere
    BY <2>2 DEF CoderHere, At
  <2>3. CASE row[j] \in own
    <3>1. PICK o \in held : row[j] \in PositionsOf(o)
      BY <2>3 DEF own
    <3>. QED
      BY <3>1, HeldSort
  <2>. QED
    BY <2>1, <2>2, <2>3
<1>7. /\ \A i, j \in DOMAIN row : i < j /\ row[i] = CoderHere => ~Interior(row[j])
      /\ \A p \in Pointers(row) : p.f = "second" => At(p.o, "whole") \in Pointers(row)
  BY <1>2 DEF Admitted
<1>8. /\ \A p \in Pointers(row) : Key(p) \in DOMAIN gscan' /\ Grain(p) \in gscan'[Key(p)]
      /\ \A k \in names' : k[2] = 1
      /\ \A p, q \in Pointers(row) :
           p.f = "second" /\ q.f = "whole" /\ q.o = p.o => Key(p) \in names'
  BY <1>2, ScanFacts
<1>9. /\ \A j \in DOMAIN row : row[j].f \notin {"map", "coder"} => row[j] \in Pointers(row)
      /\ \A p \in Pointers(row) : \E j \in DOMAIN row : row[j] = p
  BY DEF Pointers
<1>10. Nested'
  BY <1>4 DEF Nested
<1>11. RowsSorted'
  BY <1>3, <1>4, <1>6 DEF RowsSorted, OfSort
<1>12. ScanStands'
  <2>1. ASSUME NEW j \in DOMAIN row, Interior(row[j]), NEW m \in DOMAIN row, m < j
        PROVE  row[m].f # "coder"
    BY <1>6, <1>7, <2>1
  <2>2. \A m \in DOMAIN row : row[m].f \notin {"map", "coder"} =>
          Key(row[m]) \in DOMAIN gscan' /\ Grain(row[m]) \in gscan'[Key(row[m])]
    BY <1>8, <1>9
  <2>. QED
    BY <1>3, <1>4, <2>1, <2>2 DEF ScanStands, Interior, Key, Grain
<1>13. SecondsNamed'
  <2>1. ASSUME NEW j \in DOMAIN row, row[j].f = "second"
        PROVE  /\ Key(row[j]) \in names' /\ WholeKey(row[j].o) \in DOMAIN gscan'
               /\ \E m \in DOMAIN row : row[m] = At(row[j].o, "whole")
    <3> DEFINE q == At(row[j].o, "whole")
    <3>1. row[j] \in Pointers(row) /\ q \in Pointers(row)
      BY <1>7, <1>9, <2>1
    <3>2. q.f = "whole" /\ q.o = row[j].o /\ Key(q) = WholeKey(row[j].o)
      BY DEF At, Key, WholeKey
    <3> HIDE DEF q
    <3>3. Key(row[j]) \in names' /\ Key(q) \in DOMAIN gscan'
      BY <1>8, <2>1, <3>1, <3>2
    <3>. QED
      BY <1>9, <3>1, <3>2, <3>3 DEF q
  <2>. QED
    BY <1>3, <1>4, <1>8, <2>1 DEF SecondsNamed, Key, WholeKey, At
<1>14. \A i \in DOMAIN out : out[i].call[1] \in Nat /\ out[i].call[1] <= encEp
  <2>1. \A i \in DOMAIN out : out[i] \in Tokens
    BY DEF IInv, TypeOK
  <2>. QED
    BY <2>1 DEF Tokens, SInv, Calls
<1>15. Calls'
  <2>1. \A i \in DOMAIN out : out[i].call[1] <= encEp + 1 /\ out[i].call[1] # encEp + 1
    BY <1>3, <1>14
  <2>. QED
    BY <1>3, <1>4, <2>1 DEF Calls
<1>16. HeapStays
  BY <1>3 DEF HeapStays
<1>17. ByFirstField'
  <2>1. ASSUME NEW i \in DOMAIN out
        PROVE  stack'[1].call # out[i].call
    <3>1. <<encEp + 1, 0>>[1] = encEp + 1
      OBVIOUS
    <3>. QED
      BY <1>3, <1>4, <1>14, <3>1
  <2>. QED
    BY <1>3, <1>4, <1>16, <2>1, FieldsQuiet
<1>18. TokensSorted' /\ Exact' /\ Found' /\ CellsRooted' /\ SharingKept'
  BY <1>3, <1>16, TokensQuiet
<1>19. RefusedForCause'
  BY <1>3 DEF RefusedForCause
<1>. QED
  BY <1>10, <1>11, <1>12, <1>13, <1>15, <1>17, <1>18, <1>19 DEF SInv

(* A coder is not called before the last interior pointer is written.      *)
LEMMA CoderKeeps ==
  ASSUME IInv, SInv, Due({"coder"}), HeapStays,
         UNCHANGED <<maps, grains, cells, encEp, out, ids, refused>>,
         NEW p \in Positions, NEW pins \in SUBSET Nat,
         stack' = Append(Advanced, Frame(Call, <<p>>, pins)),
         p.f \in {"map", "whole"}, p.f = "map" <=> heap'[p.o].sort = "map",
         \A k \in names' : k[2] = 1
  PROVE  SInv'
<1> DEFINE fr == Frame(Call, <<p>>, pins)
<1>1. Next1.f = "coder" /\ stack # <<>> /\ refused = "none"
  BY DEF Due
<1>2. Len(stack) = 1
  BY <1>1, TodoFacts, TodoOfTwo DEF SInv
<1>3. PICK l \in Nat : l = Len(Todo) /\ l # 0
  BY <1>2, TodoOfOne DEF SInv
<1>4. /\ DOMAIN Todo = 1..l /\ Todo[1] = Next1 /\ Running = stack[1]
      /\ Len(Advanced[1].todo) = l - 1 /\ DOMAIN Advanced[1].todo = 1..(l - 1)
      /\ \A j \in 1..(l - 1) : j + 1 \in DOMAIN Todo /\ Advanced[1].todo[j] = Todo[j + 1]
      /\ Advanced[1].call = stack[1].call
      /\ Len(Advanced) = 1
  BY <1>2, <1>3, TodoFacts, TodoOfOne DEF SInv
<1>5. \A j \in DOMAIN Todo : ~Interior(Todo[j])
  <2>1. ASSUME NEW j \in DOMAIN Todo, Interior(Todo[j])
        PROVE  FALSE
    <3>1. \A m \in DOMAIN Todo : m < j => Todo[m].f # "coder"
      BY <1>1, <2>1 DEF SInv, ScanStands
    <3>2. j # 1
      BY <1>1, <1>4, <2>1 DEF Interior
    <3>3. 1 \in DOMAIN Todo /\ 1 < j
      BY <1>3, <1>4, <3>2
    <3>. QED
      BY <1>1, <1>4, <3>1, <3>3
  <2>. QED
    BY <2>1
<1>6. Call \in Nat \X Nat /\ Call = <<encEp, l>>
  BY <1>3, <1>4 DEF Call, Todo, IInv, TypeOK
<1>7. /\ fr \in Frames /\ fr.todo = <<p>> /\ fr.call = <<encEp, l>>
  <2> DEFINE row == <<p>>
             call == Call
  <2>1. row \in Seq(Positions) /\ call \in Nat \X Nat
    BY <1>6
  <2>2. fr = [call |-> call, todo |-> row, pins |-> pins]
    BY DEF Frame
  <2> HIDE DEF row, call, fr
  <2>3. fr \in Frames /\ fr.todo = row /\ fr.call = call
    BY <2>1, <2>2 DEF Frames
  <2>. QED
    BY <1>6, <2>3 DEF row, call
<1>8. stack' = Append(Advanced, fr)
  OBVIOUS
<1> HIDE DEF fr
<1>9. /\ DOMAIN stack' = {1, 2} /\ Len(stack') = 2 /\ stack' # <<>>
      /\ stack'[1] = Advanced[1] /\ stack'[2] = fr
  <2>1. Advanced \in Seq(Frames)
    BY AdvanceFacts DEF IInv
  <2>2. /\ stack' \in Seq(Frames) /\ Len(stack') = 2 /\ DOMAIN stack' = 1..2
        /\ stack'[1] = Advanced[1] /\ stack'[2] = fr
    <3>1. /\ stack' \in Seq(Frames) /\ Len(stack') = Len(Advanced) + 1
          /\ \A i \in 1..Len(Advanced) : stack'[i] = Advanced[i]
          /\ stack'[Len(Advanced) + 1] = fr
      BY <1>7, <1>8, <2>1, AppendProperties
    <3>2. 1 \in 1..Len(Advanced) /\ Len(Advanced) + 1 = 2
      BY <1>4
    <3>3. DOMAIN stack' = 1..Len(stack')
      BY <3>1, LenProperties
    <3>. QED
      BY <3>1, <3>2, <3>3
  <2>3. stack' # <<>>
    BY <2>2, EmptySeq
  <2>. QED
    BY <2>2, <2>3
<1>10. Todo' = Advanced[1].todo
  BY <1>9 DEF Todo
<1>11. \A j \in DOMAIN Todo' : \E m \in DOMAIN Todo : Todo'[j] = Todo[m]
  BY <1>4, <1>10
<1>12. \A j \in DOMAIN Todo' : ~Interior(Todo'[j])
  BY <1>5, <1>11
<1>13. Nested'
  BY <1>7, <1>9 DEF Nested
<1>14. RowsSorted'
  <2>1. ASSUME NEW j \in DOMAIN Advanced[1].todo, Advanced[1].todo[j].f # "coder"
        PROVE  Advanced[1].todo[j].f = "map" <=> heap'[Advanced[1].todo[j].o].sort = "map"
    <3>1. PICK m \in DOMAIN stack[1].todo : Advanced[1].todo[j] = stack[1].todo[m]
      BY <1>10, <1>11 DEF Todo
    <3>2. 1 \in DOMAIN stack
      BY <1>2, TodoFacts DEF SInv
    <3>3. stack[1].todo[m].o \in DOMAIN heap
      BY <2>1, <3>1, <3>2, RowsInHeap
    <3>4. OfSort(stack[1].todo[m])
      BY <2>1, <3>1, <3>2 DEF SInv, RowsSorted
    <3>. QED
      BY <3>1, <3>3, <3>4 DEF HeapStays, OfSort
  <2>. QED
    BY <1>7, <1>9, <2>1 DEF RowsSorted, OfSort
<1>15. ScanStands' /\ SecondsNamed'
  BY <1>12 DEF ScanStands, SecondsNamed, Interior
<1>16. ASSUME NEW i \in DOMAIN out
       PROVE  /\ out[i].call[1] <= encEp /\ out[i].call[2] \in Nat
              /\ out[i].call[1] = encEp => out[i].call[2] = 0 \/ out[i].call[2] > l
  <2>1. out[i] \in Tokens
    BY DEF IInv, TypeOK
  <2>. QED
    BY <1>1, <1>3, <2>1 DEF Tokens, SInv, Calls
<1>17. Calls'
  <2>1. /\ stack'[1].call = <<encEp, 0>> /\ stack'[2].call[1] = encEp
        /\ stack'[2].call[2] = l
    BY <1>1, <1>4, <1>7, <1>9 DEF SInv, Calls
  <2>2. Len(Todo') = l - 1
    BY <1>4, <1>10
  <2>3. \A i \in DOMAIN out :
          out[i].call[1] = encEp => out[i].call[2] = 0 \/ out[i].call[2] > l - 1
    BY <1>16
  <2>4. l > l - 1
    BY <1>3
  <2>. QED
    BY <1>16, <2>1, <2>2, <2>3, <2>4 DEF Calls
<1>18. ByFirstField'
  <2>1. ASSUME NEW i \in DOMAIN out, NEW n \in DOMAIN stack', stack'[n].call = out[i].call
        PROVE  /\ n \in DOMAIN stack /\ stack'[n].call = stack[n].call
               /\ \A j \in DOMAIN stack'[n].todo :
                    \E m \in DOMAIN stack[n].todo : stack'[n].todo[j] = stack[n].todo[m]
    <3>1. n # 2
      <4>1. n = 2 => out[i].call[1] = encEp /\ out[i].call[2] = l
        BY <1>7, <1>9, <2>1
      <4>. QED
        BY <1>3, <1>16, <4>1
    <3>2. n = 1 /\ 1 \in DOMAIN stack
      BY <1>2, <1>9, <3>1, TodoFacts DEF SInv
    <3>. QED
      BY <1>4, <1>9, <1>10, <1>11, <3>2 DEF Todo
  <2>. QED
    BY <2>1, FieldsQuiet
<1>19. TokensSorted' /\ Exact' /\ Found' /\ CellsRooted' /\ SharingKept'
  BY TokensQuiet
<1>20. RefusedForCause'
  BY <1>1 DEF RefusedForCause
<1>. QED
  BY <1>13, <1>14, <1>15, <1>17, <1>18, <1>19, <1>20 DEF SInv

LEMMA CoderEncodeKeeps ==
  ASSUME IInv, SInv, CoderEncode, Shapes = {}
  PROVE  SInv'
<1>1. /\ Due({"coder"})
      /\ UNCHANGED <<maps, grains, cells, encEp, out, ids, refused>>
  BY DEF CoderEncode, tables
<1>2. CASE /\ names' = {}
           /\ \E a \in FreeAddrs :
                LET o == Len(heap) + 1
                IN  /\ heap' = Append(heap, Object("struct", a))
                    /\ stack' = Append(Advanced, Frame(Call, <<At(o, "whole")>>, {o}))
  <2>1. PICK a \in FreeAddrs :
          /\ heap' = Append(heap, Object("struct", a))
          /\ stack' = Append(Advanced,
                        Frame(Call, <<At(Len(heap) + 1, "whole")>>, {Len(heap) + 1}))
    BY <1>2
  <2>2. /\ DOMAIN heap' = DOMAIN heap \cup {Len(heap) + 1}
        /\ Len(heap) + 1 \in Nat \ {0}
        /\ \A o \in DOMAIN heap : heap'[o] = heap[o]
    BY <1>1, <2>1, NewObject
  <2>3. heap'[Len(heap) + 1].sort = "struct"
    <3> DEFINE new == Object("struct", a)
    <3>1. heap \in Seq(Objects) /\ new.sort = "struct"
      BY DEF IInv, TypeOK, Object
    <3> HIDE DEF new
    <3>2. heap' = Append(heap, new)
      BY <2>1 DEF new
    <3>. QED
      BY <3>1, <3>2, AppendProperties
  <2> DEFINE p == At(Len(heap) + 1, "whole")
  <2>4. /\ p \in Positions /\ {Len(heap) + 1} \in SUBSET Nat
        /\ p.f = "whole" /\ p.o = Len(heap) + 1
    BY <2>2 DEF At, Positions, Fields
  <2>5. stack' = Append(Advanced, Frame(Call, <<p>>, {Len(heap) + 1}))
    BY <2>1
  <2> HIDE DEF p
  <2>6. HeapStays
    BY <2>2 DEF HeapStays
  <2>. QED
    BY <1>1, <1>2, <2>3, <2>4, <2>5, <2>6, CoderKeeps
<1>3. CASE \E o \in held, p \in UNION {PositionsOf(x) : x \in held} :
             /\ p.o = o /\ ~Interior(p) /\ UNCHANGED heap /\ Scan(<<p>>, structs)
             /\ stack' = Append(Advanced, Frame(Call, <<p>>, {o}))
  <2>1. PICK o \in held, p \in UNION {PositionsOf(x) : x \in held} :
          /\ p.o = o /\ ~Interior(p) /\ UNCHANGED heap /\ Scan(<<p>>, structs)
          /\ stack' = Append(Advanced, Frame(Call, <<p>>, {o}))
    BY <1>3
  <2>2. PICK x \in held : p \in PositionsOf(x)
    BY <2>1
  <2>3. p \in Positions /\ p.f # "coder" /\ OfSort(p) /\ p.o = o
    BY <2>1, <2>2, HeldPosition, HeldSort
  <2>4. p.f \in {"map", "whole"}
    BY <2>1, <2>3 DEF Positions, Fields, Interior
  <2>5. \A k \in names' : k[2] = 1
    BY <2>1, ScanFacts
  <2>6. {o} \in SUBSET Nat
    BY HeldPosition, <2>1, <2>2, HeldSort
  <2>7. HeapStays /\ (p.f = "map" <=> heap'[p.o].sort = "map")
    BY <2>1, <2>3 DEF HeapStays, OfSort
  <2>. QED
    BY <1>1, <2>1, <2>3, <2>4, <2>5, <2>6, <2>7, CoderKeeps
<1>. QED
  BY <1>2, <1>3 DEF CoderEncode

LEMMA EncodeEndsKeeps ==
  ASSUME IInv, SInv, EncodeEnds
  PROVE  SInv'
<1> DEFINE n == Len(stack) - 1
<1>1. /\ stack # <<>> /\ stack' = SubSeq(stack, 1, n) /\ refused = "none"
      /\ UNCHANGED <<heap, maps, grains, cells, gscan, names, encEp, out, ids, refused>>
  BY DEF EncodeEnds, tables, scans
<1>2. /\ stack \in Seq(Frames) /\ DOMAIN stack = 1..Len(stack) /\ n \in Nat
      /\ Len(stack) \in Nat /\ Len(stack) <= 2
  BY <1>1 DEF IInv, TypeOK, SInv, Nested
<1>3. /\ Len(stack') = n /\ DOMAIN stack' = 1..n /\ 1..n \subseteq DOMAIN stack
      /\ \A i \in 1..n : stack'[i] = stack[i]
  <2>1. \A i \in 1..n : stack[i] \in Frames
    BY <1>2, ElementOfSeq
  <2>2. /\ SubSeq(stack, 1, n) \in Seq(Frames)
        /\ Len(SubSeq(stack, 1, n)) = IF 1 <= n THEN n - 1 + 1 ELSE 0
        /\ \A i \in 1..(n - 1 + 1) : SubSeq(stack, 1, n)[i] = stack[1 + i - 1]
    BY <1>2, <2>1, SubSeqProperties
  <2>3. Len(stack') = n
    BY <1>1, <1>2, <2>2
  <2>. QED
    BY <1>1, <1>2, <2>2, <2>3, LenProperties
<1>4. n = 0 \/ n = 1
  BY <1>2
<1>5. n = 0 => stack' = <<>>
  BY <1>1, <1>2, <1>3, EmptySeq
<1>6. n = 1 => /\ Len(stack) = 2 /\ stack'[1] = stack[1] /\ Todo' = Todo /\ stack' # <<>>
               /\ \A j \in DOMAIN Todo : ~Interior(Todo[j])
  <2>1. n = 1 => Len(stack) = 2
    BY <1>2
  <2>2. n = 1 => \A j \in DOMAIN Todo : ~Interior(Todo[j])
    <3>1. ScanStands /\ stack # <<>>
      BY <1>1 DEF SInv
    <3>2. Len(stack) = 2 => \A j \in DOMAIN Todo : ~Interior(Todo[j])
      BY <3>1 DEF ScanStands
    <3>. QED
      BY <2>1, <3>2
  <2> HIDE DEF n
  <2>3. n = 1 => stack'[1] = stack[1] /\ stack' # <<>>
    <3>1. n = 1 => 1 \in 1..n
      OBVIOUS
    <3>2. n = 1 => stack' # <<>>
      BY <1>3, EmptySeq
    <3>. QED
      BY <1>3, <3>1, <3>2
  <2>. QED
    BY <2>1, <2>2, <2>3 DEF Todo
<1> HIDE DEF n
<1>7. Nested' /\ RowsSorted'
  <2>1. ASSUME NEW i \in DOMAIN stack'
        PROVE  i \in DOMAIN stack /\ stack'[i] = stack[i] /\ ~(i > 1)
    BY <1>3, <1>4
  <2>2. Nested'
    BY <1>3, <1>4, <2>1 DEF Nested
  <2>3. RowsSorted'
    <3>1. ASSUME NEW i \in DOMAIN stack', NEW j \in DOMAIN stack'[i].todo,
                 stack'[i].todo[j].f # "coder"
          PROVE  OfSort(stack'[i].todo[j])
      <4>1. i \in DOMAIN stack /\ stack'[i] = stack[i]
        BY <2>1
      <4>. QED
        BY <3>1, <4>1 DEF SInv, RowsSorted
    <3>. QED
      BY <1>1, <3>1 DEF RowsSorted, OfSort
  <2>. QED
    BY <2>2, <2>3
<1>8. ScanStands' /\ SecondsNamed'
  <2>1. CASE n = 0
    BY <1>1, <1>5, <2>1 DEF SInv, ScanStands, SecondsNamed
  <2>2. CASE n = 1
    <3>1. \A j \in DOMAIN Todo' : ~Interior(Todo'[j])
      BY <1>6, <2>2
    <3>. QED
      BY <1>1, <3>1 DEF SInv, ScanStands, SecondsNamed, Interior
  <2>. QED
    BY <1>4, <2>1, <2>2
<1>9. Calls'
  <2>1. CASE n = 0
    BY <1>1, <1>3, <1>5, <2>1 DEF SInv, Calls
  <2>2. CASE n = 1
    BY <1>1, <1>3, <1>6, <2>2 DEF SInv, Calls
  <2>. QED
    BY <1>4, <2>1, <2>2
<1>10. HeapStays
  BY <1>1 DEF HeapStays
<1>11. ByFirstField'
  <2>1. \A i \in DOMAIN stack' :
          /\ i \in DOMAIN stack /\ stack'[i].call = stack[i].call
          /\ \A j \in DOMAIN stack'[i].todo :
               \E m \in DOMAIN stack[i].todo : stack'[i].todo[j] = stack[i].todo[m]
    BY <1>3
  <2>. QED
    BY <1>1, <1>10, <2>1, FieldsQuiet
<1>12. TokensSorted' /\ Exact' /\ Found' /\ CellsRooted' /\ SharingKept'
  BY <1>1, <1>10, TokensQuiet
<1>13. RefusedForCause'
  BY <1>1 DEF RefusedForCause
<1>. QED
  BY <1>7, <1>8, <1>9, <1>11, <1>12, <1>13 DEF SInv

LEMMA SharingInit ==
  ASSUME Init
  PROVE  SInv
<1>1. /\ stack = <<>> /\ out = <<>> /\ ids = <<>> /\ names = {} /\ refused = "none"
      /\ DOMAIN maps = {} /\ DOMAIN grains = {} /\ DOMAIN cells = {}
      /\ DOMAIN <<>> = {} /\ Len(<<>>) = 0
  BY DEF Init
<1>. QED
  BY <1>1 DEF SInv, Nested, RowsSorted, TokensSorted, ScanStands, SecondsNamed, Calls,
     Exact, Found, CellsRooted, ByFirstField, SharingKept, RefusedForCause

LEMMA SharingKeeps ==
  ASSUME IInv, SInv, [Next]_vars, Shapes = {}
  PROVE  SInv'
<1>0. IInv'
  BY InvStep
<1>1. CASE Collect
  BY <1>1, CollectKeeps
<1>2. CASE Allocate
  BY <1>2, AllocateKeeps
<1>3. CASE Release \/ UNCHANGED vars
  BY <1>3, RestKeeps
<1>4. CASE Encode
  BY <1>4, EncodeKeeps
<1>5. CASE CoderEncode
  BY <1>5, CoderEncodeKeeps
<1>6. CASE EncodeEnds
  BY <1>6, EncodeEndsKeeps
<1>7. CASE EncodeMapRef
  BY <1>0, <1>7, MapRefKeeps
<1>8. CASE EncodeMap
  BY <1>0, <1>8, MapKeeps
<1>9. CASE EncodeCellRef
  BY <1>0, <1>9, CellRefKeeps
<1>10. CASE EncodeRef
  BY <1>0, <1>10, RefKeeps
<1>11. CASE EncodeCoarser
  BY <1>11, CoarserKeeps
<1>12. CASE EncodeRecord
  BY <1>0, <1>12, RecordKeeps
<1>13. CASE EncodePathRef
  BY <1>0, <1>13, PathRefKeeps
<1>14. CASE EncodePathEarly
  BY <1>14, PathEarlyKeeps
<1>. QED
  BY <1>1, <1>2, <1>3, <1>4, <1>5, <1>6, <1>7, <1>8, <1>9, <1>10, <1>11, <1>12,
     <1>13, <1>14 DEF Next

-----------------------------------------------------------------------------
(* The theorems.                                                           *)

(* Whatever the objects, addresses and collections: where no coder encodes *)
(* a map that only it keeps, what a value leads to is told apart in the    *)
(* decoded value exactly as in the program, and no entry of a collected    *)
(* object answers for another one at its address (encodeMap,               *)
(* encodePointer, encodePathRef, alive).                                   *)
THEOREM ObjectsApart ==
  ASSUME "temp_map" \notin Shapes
  PROVE  Spec => []NeverMerged
<1>1. Init => IInv
  BY InvInit
<1>2. IInv /\ [Next]_vars => IInv'
  BY InvStep
<1>3. IInv => NeverMerged
  BY StorageIsOwn
<1>. QED
  BY <1>1, <1>2, <1>3, PTL DEF Spec

(* Under the same premise: every id is the id of the object it was given   *)
(* to, and every token carries an id of its own object, so that a record   *)
(* and its path cells have one object (internMap, encodePointer,           *)
(* encodePathRef).                                                         *)
THEOREM TokensTruthful ==
  ASSUME "temp_map" \notin Shapes
  PROVE  Spec => [](TypeOK /\ Memory /\ Roots /\ Truthful)
<1>1. Init => IInv
  BY InvInit
<1>2. IInv /\ [Next]_vars => IInv'
  BY InvStep
<1>3. IInv => TypeOK /\ Memory /\ Roots /\ Truthful
  BY DEF IInv
<1>. QED
  BY <1>1, <1>2, <1>3, PTL DEF Spec

(* A sweep evicts dead entries only, and an insert takes the place of dead *)
(* ones only, whatever the samples and for every Shapes                    *)
(* (noteInternInsert, sweepDeadInterns).                                   *)
THEOREM SweepsNeutral == Spec => SweepNeutral
<1>1. Init => MapsAreRecords
  BY RecordsInit
<1>2. MapsAreRecords /\ [Next]_vars => MapsAreRecords' /\ LiveEntriesStay
  BY SweepStep
<1>. QED
  BY <1>1, <1>2, PTL DEF Spec, SweepNeutral

(* For values of none of the Shapes - no map a coder makes for itself, no  *)
(* pointer to a second field without its struct in the same value, no      *)
(* interior pointer behind or in a coder's part: positions of one          *)
(* object lead into one decoded object, at the part that was meant, and    *)
(* every token names a record that was written, however the value, its     *)
(* Encodes, collections and sweeps go (encodeMap, encodePointer,           *)
(* encodePathRef).  The last two shapes are real and the code loses their  *)
(* sharing; of the first it may merge two maps (NeverMerged).              *)
THEOREM SharingHeld ==
  ASSUME Shapes = {}
  PROVE  Spec => []SharingKept
<1>1. Init => IInv /\ SInv
  BY InvInit, SharingInit
<1>2. IInv /\ SInv /\ [Next]_vars => IInv' /\ SInv'
  BY InvStep, SharingKeeps
<1>3. SInv => SharingKept
  BY DEF SInv
<1>. QED
  BY <1>1, <1>2, <1>3, PTL DEF Spec

(* For values of none of those three Shapes, and of them only: a refusal   *)
(* is one of a struct that another Encode wrote by its first field, or of  *)
(* a second field before its struct (canonicalGrain, encodePathRef).       *)
THEOREM RefusalsJustified ==
  ASSUME Shapes = {}
  PROVE  Spec => []RefusedForCause
<1>1. Init => IInv /\ SInv
  BY InvInit, SharingInit
<1>2. IInv /\ SInv /\ [Next]_vars => IInv' /\ SInv'
  BY InvStep, SharingKeeps
<1>3. SInv => RefusedForCause
  BY DEF SInv
<1>. QED
  BY <1>1, <1>2, <1>3, PTL DEF Spec
=============================================================================
