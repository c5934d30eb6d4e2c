--------------------------- MODULE PointerTables ---------------------------
(***************************************************************************)
(* The identity tables of an encoder (codec_encode.go): which map and      *)
(* which pointer target has been written already, known by address, under  *)
(* a garbage collector that frees what the program dropped and gives its   *)
(* address to something else.  The tables live as long as the stream and   *)
(* hold weak handles; the names of interior pointers are found anew by a   *)
(* scan of every value.                                                    *)
(*                                                                         *)
(* Objects are maps and structs of two fields; a pointer leads to a whole  *)
(* struct, to its first field, at the same address, or to its second one.  *)
(* A value is a row of positions, some of them encoded by a coder that     *)
(* calls Encode again.  What an object holds is left out: InternSpace has  *)
(* the bodies and the Reader's side.                                       *)
(***************************************************************************)
EXTENDS Integers, FiniteSets, Sequences, TLC

CONSTANTS
  Addrs,        \* addresses of objects
  SweepEvery,   \* inserts between two liveness samples (sweepProbeEvery)
  SweepSample,  \* entries of a table in a sample (half of sweepProbeSample)
  SweepMax,     \* inserts that allow a sweep without a sample (sweepMaxInserts)
  MaxObjects,   \* bound: objects of a run
  MaxEncodes,   \* bound: top-level values
  MaxPositions, \* bound: positions of a value
  Shapes        \* what else values and coders may hold, see Admitted

ASSUME TablesAssumption ==
  /\ SweepEvery \in Nat \ {0} /\ SweepSample \in Nat /\ SweepMax \in Nat
  /\ MaxObjects \in Nat /\ MaxEncodes \in Nat /\ MaxPositions \in Nat
  /\ Shapes \subseteq {"temp_map", "after_coder", "loose_field"}

VARIABLES
  heap,     \* the objects, collected ones included: sort, address, alive
  held,     \* the objects the program refers to
  maps,     \* address |-> id, epoch and weak handle of a map written
  grains,   \* address and offset |-> id, grain and handle of a record
  cells,    \* the same of the cells of path references (pathCells)
  gscan,    \* address and offset |-> grains of this value's pointers there
  structs,  \* addresses of the structs scanned in this value (slotIdx)
  names,    \* addresses with an interior name (inames)
  encEp,    \* top-level Encodes begun
  inserts,  \* since the last sweep
  stack,    \* the running Encodes: what is left to write, what they keep alive
  out,      \* the tokens of pointer and map positions
  ids,      \* what every id was given to
  refused   \* the error a value was refused with, or "none"

tables == <<maps, grains, cells, inserts>>
scans == <<gscan, structs, names>>
vars == <<heap, held, tables, scans, encEp, stack, out, ids, refused>>
----------------------------------------------------------------------------
(* Memory *)
Live(o) == heap[o].live

Kept == held \cup UNION {stack[i].pins : i \in DOMAIN stack}

FreeAddrs == Addrs \ {heap[o].at : o \in {x \in DOMAIN heap : Live(x)}}

Object(sort, a) == [sort |-> sort, at |-> a, live |-> TRUE]

(* A weak handle does not keep its object: collection clears it.           *)
Collect ==
  /\ \E o \in DOMAIN heap \ Kept :
       Live(o) /\ heap' = [heap EXCEPT ![o].live = FALSE]
  /\ UNCHANGED <<held, tables, scans, encEp, stack, out, ids, refused>>

Allocate ==
  /\ stack = <<>> /\ Len(heap) < MaxObjects
  /\ \E a \in FreeAddrs, sort \in {"map", "struct"} : heap' = Append(heap, Object(sort, a))
  /\ held' = held \cup {Len(heap) + 1}
  /\ UNCHANGED <<tables, scans, encEp, stack, out, ids, refused>>

Release ==
  /\ stack = <<>>
  /\ \E o \in held : held' = held \ {o}
  /\ UNCHANGED <<heap, tables, scans, encEp, stack, out, ids, refused>>
----------------------------------------------------------------------------
(* Positions *)
At(o, f) == [o |-> o, f |-> f]
CoderHere == At(0, "coder")

PositionsOf(o) ==
  IF heap[o].sort = "map" THEN {At(o, "map")}
  ELSE {At(o, f) : f \in {"whole", "first", "second"}}

Interior(p) == p.f \in {"first", "second"}

Key(p) == <<heap[p.o].at, IF p.f = "second" THEN 1 ELSE 0>>
Grain(p) == IF p.f = "whole" THEN "struct" ELSE "field"

Pointers(row) == {row[i] : i \in {j \in DOMAIN row : row[j].f \notin {"map", "coder"}}}

(***************************************************************************)
(* Values outside of Shapes are left out:                                  *)
(*   after_coder  an interior pointer of a value behind a coder's part of  *)
(*                it, or in one                                            *)
(*   loose_field  a pointer to a second field without its struct           *)
(*   temp_map     a map a coder makes for itself                           *)
(***************************************************************************)
Admitted(row) ==
  /\ "after_coder" \in Shapes \/
       \A i, j \in DOMAIN row : i < j /\ row[i] = CoderHere => ~Interior(row[j])
  /\ "loose_field" \in Shapes \/
       \A p \in Pointers(row) : p.f = "second" => At(p.o, "whole") \in Pointers(row)
----------------------------------------------------------------------------
(***************************************************************************)
(* The scans of a value: grainScan, noteStructSlots, buildInteriorNames.   *)
(* known are structs scanned before and not forgotten.                     *)
(***************************************************************************)
Scan(row, known) ==
  LET ps == Pointers(row)
  IN  /\ gscan' = [k \in {Key(p) : p \in ps} |-> {Grain(p) : p \in {q \in ps : Key(q) = k}}]
      /\ structs' = known \cup {heap[p.o].at : p \in {q \in ps : q.f = "whole"}}
      /\ names' = {k \in DOMAIN gscan' : k[2] = 1 /\ k[1] \in structs'}

Frame(call, row, pins) == [call |-> call, todo |-> row, pins |-> pins]

(* Encode, encodeRoot *)
Encode ==
  /\ stack = <<>> /\ refused = "none" /\ encEp < MaxEncodes
  /\ \E n \in 1..MaxPositions :
       \E row \in [1..n -> (UNION {PositionsOf(o) : o \in held}) \cup {CoderHere}] :
         /\ Admitted(row)
         /\ Scan(row, {})
         /\ stack' = <<Frame(<<encEp + 1, 0>>, row, {row[i].o : i \in 1..n} \ {0})>>
  /\ encEp' = encEp + 1
  /\ UNCHANGED <<heap, held, tables, out, ids, refused>>

Running == stack[Len(stack)]
Next1 == Head(Running.todo)
Due(f) ==
  stack # <<>> /\ refused = "none" /\ Running.todo # <<>> /\ Next1.f \in f

(* A nested Encode is told by how much of the value is left. *)
Call == <<encEp, Len(Running.todo)>>

Advanced == [stack EXCEPT ![Len(stack)].todo = Tail(@)]

(* A coder calls Encode with something of its own or of the program's:     *)
(* encodeSub, which forgets the names of the value around it.              *)
CoderEncode ==
  /\ Due({"coder"})
  /\ \/ /\ Len(heap) < MaxObjects
        /\ \E a \in FreeAddrs, sort \in {"struct"} \cup
             (IF "temp_map" \in Shapes THEN {"map"} ELSE {}) :
             LET o == Len(heap) + 1
                 row == <<At(o, IF sort = "map" THEN "map" ELSE "whole")>>
             IN  /\ heap' = Append(heap, Object(sort, a))
                 /\ gscan' = IF sort = "map" THEN [k \in {} |-> {}]
                             ELSE (<<a, 0>> :> {"struct"})
                 /\ structs' = structs \cup (IF sort = "map" THEN {} ELSE {a})
                 /\ stack' = Append(Advanced, Frame(Call, row, {o}))
        /\ names' = {}
     \/ \E o \in held, p \in UNION {PositionsOf(x) : x \in held} :
          /\ p.o = o /\ ("after_coder" \in Shapes \/ ~Interior(p))
          /\ Scan(<<p>>, structs)
          /\ stack' = Append(Advanced, Frame(Call, <<p>>, {o}))
          /\ UNCHANGED heap
  /\ UNCHANGED <<held, tables, encEp, out, ids, refused>>

EncodeEnds ==
  /\ stack # <<>> /\ refused = "none" /\ Running.todo = <<>>
  /\ stack' = SubSeq(stack, 1, Len(stack) - 1)
  /\ UNCHANGED <<heap, held, tables, scans, encEp, out, ids, refused>>
----------------------------------------------------------------------------
(* Ids and tokens *)
NextID == Len(ids)

Record(o, grain) == [o |-> o, grain |-> grain, root |-> NextID, begun |-> TRUE]

Token(id) == [call |-> Running.call, o |-> Next1.o, f |-> Next1.f, id |-> id]

Put(id, records) ==
  /\ out' = Append(out, Token(id))
  /\ ids' = ids \o records
  /\ stack' = Advanced
  /\ UNCHANGED <<heap, held, scans, encEp, refused>>

Repeat(id) == Put(id, <<>>) /\ UNCHANGED <<grains, cells, inserts>>

Refuse(class) ==
  /\ refused' = class
  /\ UNCHANGED <<heap, held, tables, scans, encEp, stack, out, ids>>

With(t, k, e) == [x \in DOMAIN t \cup {k} |-> IF x = k THEN e ELSE t[x]]
----------------------------------------------------------------------------
(* Sweeps *)
Dead(t) == {k \in DOMAIN t : ~Live(t[k].o)}

Sampled(t) ==
  IF Cardinality(DOMAIN t) < SweepSample THEN Cardinality(DOMAIN t) ELSE SweepSample

(* The dead entries a sample may hold: a Go map is ranged from anywhere.   *)
DeadSampled(t) ==
  {n \in 0..Sampled(t) :
     /\ n =< Cardinality(Dead(t))
     /\ Sampled(t) - n =< Cardinality(DOMAIN t \ Dead(t))}

DeadMajority(g, m) ==
  {2 * (x + y) > Sampled(g) + Sampled(m) : x \in DeadSampled(g), y \in DeadSampled(m)}

(* The possible answers of noteInternInsert after the n-th insert. *)
Sweeps(n, g, m) ==
  IF n % SweepEvery # 0 THEN {FALSE}
  ELSE IF n >= SweepMax /\ n >= Cardinality(DOMAIN g) + Cardinality(DOMAIN m)
       THEN {TRUE}
       ELSE DeadMajority(g, m)

(* (mutant: everything goes) *)
SweptWhole(t) == [k \in {} |-> t[k]]

Swept(t) == [k \in DOMAIN t \ Dead(t) |-> t[k]]

(* noteInternInsert after each of n inserts that made the tables g and m.  *)
(* A sweep after the i-th one starts the count anew.                       *)
noteInternInsert(n, g, m) ==
  \E i \in 0..n :
    /\ IF i = 0 THEN \A j \in 1..n : FALSE \in Sweeps(inserts + j, g, m)
       ELSE TRUE \in Sweeps(inserts + i, g, m)
    /\ grains' = IF i = 0 THEN g ELSE Swept(g)
    /\ maps' = IF i = 0 THEN m ELSE Swept(m)
    /\ inserts' = IF i = 0 THEN inserts + n ELSE n - i
----------------------------------------------------------------------------
(* Maps *)
(* (mutant: an address once written stays known) *)
AliveForever(e) == TRUE

(* (mutant: an entry serves the Encode that made it only) *)
AliveThisEncode(e) == e.ep = encEp

(* alive: one look at the handle per Encode. *)
Alive(e) == e.ep = encEp \/ Live(e.o)

MapAt == heap[Next1.o].at
MapKnown == MapAt \in DOMAIN maps /\ Alive(maps[MapAt])

(* encodeMap, a map written before. *)
EncodeMapRef ==
  /\ Due({"map"}) /\ MapKnown
  /\ maps' = [maps EXCEPT ![MapAt].ep = encEp]
  /\ Repeat(maps[MapAt].id)

(* encodeMap, internMap *)
EncodeMap ==
  /\ Due({"map"}) /\ ~MapKnown
  /\ Put(NextID, <<Record(Next1.o, "map")>>)
  /\ noteInternInsert(1, grains,
       With(maps, MapAt, [id |-> NextID, ep |-> encEp, o |-> Next1.o]))
  /\ UNCHANGED cells
----------------------------------------------------------------------------
(* Pointers *)
Here == Key(Next1)
Base == <<Here[1], 0>>

Holds(t, k) == k \in DOMAIN t /\ Live(t[k].o)

DuePointer == Due({"whole", "first", "second"})
Named == Here \in names

(* grainCompatible *)
Compatible(grain, elem) == grain = "struct" \/ grain = elem

(* (mutant: the grain of the position itself) *)
CanonicalGrainHere == Grain(Next1)

(* canonicalGrain, of what the scan saw at the address. *)
CanonicalGrain ==
  IF "struct" \in (IF Here \in DOMAIN gscan THEN gscan[Here] ELSE {}) \cup {Grain(Next1)}
  THEN "struct" ELSE "field"

(* encodePointer, the cell of a path written before. *)
EncodeCellRef ==
  /\ DuePointer /\ Named /\ Holds(cells, Here)
  /\ Repeat(cells[Here].id) /\ UNCHANGED maps

(* encodePointer, a record written before. *)
EncodeRef ==
  /\ DuePointer /\ Holds(grains, Here)
  /\ IF Named THEN ~Holds(cells, Here) ELSE Compatible(grains[Here].grain, Grain(Next1))
  /\ Repeat(grains[Here].id) /\ UNCHANGED maps

EncodeCoarser ==
  /\ DuePointer /\ ~Named /\ Holds(grains, Here)
  /\ ~Compatible(grains[Here].grain, Grain(Next1))
  /\ Refuse("coarsening")

(* encodePointer, a record of its own. *)
EncodeRecord ==
  /\ DuePointer /\ ~Named /\ ~Holds(grains, Here)
  /\ Put(NextID, <<Record(Next1.o, CanonicalGrain)>>)
  /\ noteInternInsert(1,
       With(grains, Here, [id |-> NextID, grain |-> CanonicalGrain, o |-> Next1.o]), maps)
  /\ UNCHANGED cells

PathDue == DuePointer /\ Named /\ ~Holds(cells, Here) /\ ~Holds(grains, Here)

Cell(root) == [o |-> Next1.o, grain |-> "cell", root |-> root, begun |-> TRUE]
Forced(o) == [o |-> o, grain |-> "struct", root |-> NextID, begun |-> FALSE]

(* encodePathRef: from the record of the struct, or, where the scan did    *)
(* not see a pointer to the struct, from an id taken for it in advance     *)
(* (record forcing).                                                       *)
EncodePathRef ==
  /\ PathDue
  /\ Holds(grains, Base) \/ Base \notin DOMAIN gscan
  /\ LET forced == ~Holds(grains, Base)
         root == IF forced THEN NextID ELSE grains[Base].id
         cell == IF forced THEN NextID + 1 ELSE NextID
         entry == [id |-> NextID, grain |-> "struct", o |-> Next1.o]
     IN  /\ Put(cell, IF forced THEN <<Forced(Next1.o), Cell(root)>> ELSE <<Cell(root)>>)
         /\ cells' = With(cells, Here, [id |-> cell, grain |-> "field", o |-> Next1.o])
         /\ IF forced THEN noteInternInsert(2, With(grains, Base, entry), maps)
            ELSE noteInternInsert(1, grains, maps)

EncodePathEarly ==
  /\ PathDue /\ ~Holds(grains, Base) /\ Base \in DOMAIN gscan
  /\ Refuse("path_root")
----------------------------------------------------------------------------
Init ==
  /\ heap = <<>> /\ held = {}
  /\ maps = [a \in {} |-> 0] /\ grains = [k \in {} |-> 0] /\ cells = [k \in {} |-> 0]
  /\ gscan = [k \in {} |-> {}] /\ structs = {} /\ names = {}
  /\ encEp = 0 /\ inserts = 0 /\ stack = <<>> /\ out = <<>> /\ ids = <<>>
  /\ refused = "none"

Next ==
  \/ Collect \/ Allocate \/ Release
  \/ Encode \/ CoderEncode \/ EncodeEnds
  \/ EncodeMapRef \/ EncodeMap
  \/ EncodeCellRef \/ EncodeRef \/ EncodeCoarser \/ EncodeRecord
  \/ EncodePathRef \/ EncodePathEarly

Spec == Init /\ [][Next]_vars
----------------------------------------------------------------------------
(* Where the decoder finds what a token names: the record and the part.    *)
Storage(tk) ==
  LET e == ids[tk.id + 1]
  IN  CASE e.grain = "cell" -> <<e.root, "second">>
        [] e.grain = "struct" /\ tk.f # "first" -> <<tk.id, "whole">>
        [] OTHER -> <<tk.id, tk.f>>

Overlap(p, q) == p.o = q.o /\ (p.f = q.f \/ "whole" \in {p.f, q.f})

(* Positions of different objects never meet in the decoded value,         *)
(* whatever was collected, moved into a freed address or swept meanwhile:  *)
(* no address in a table is taken for the object that had it before        *)
(* (encodeMap, encodePointer, encodePathRef, alive; README.md, "Pointer    *)
(* identity", "Map identity").                                             *)
NeverMerged ==
  \A i, j \in DOMAIN out :
    out[i].o # out[j].o => Storage(out[i])[1] # Storage(out[j])[1]

(* Two positions of a stream that lead into one object lead into one       *)
(* decoded object, at the part that was meant, and no token names a record *)
(* that was never written: collections and sweeps between two Encodes      *)
(* break nothing apart (encodeMap, encodePointer, encodePathRef).          *)
SharingKept ==
  \A i \in DOMAIN out :
    LET s == Storage(out[i])
    IN  /\ ids[s[1] + 1].begun /\ s[2] = out[i].f
        /\ \A j \in DOMAIN out :
             Overlap(out[i], out[j]) => s[1] = Storage(out[j])[1]

(* A sweep evicts dead entries only: whatever is alive is found under the  *)
(* id it had, so the moment of a sweep never shows in the output           *)
(* (noteInternInsert, sweepDeadInterns, codec_encode.go:124).              *)
LiveEntriesStay ==
  /\ \A k \in DOMAIN grains :
       Live(grains[k].o) => k \in DOMAIN grains' /\ grains'[k].id = grains[k].id
  /\ \A k \in DOMAIN maps :
       Live(maps[k].o) => k \in DOMAIN maps' /\ maps'[k].id = maps[k].id

SweepNeutral == [][LiveEntriesStay]_vars

(* A value is refused for what it holds only: a struct that another Encode *)
(* wrote by its first field, or a second field that comes before its       *)
(* struct (canonicalGrain, encodePathRef; codec_canonical_test.go:204).    *)
RefusedForCause ==
  /\ refused = "coarsening" =>
       \E i \in DOMAIN out :
         /\ out[i].o = Next1.o /\ out[i].call # Running.call
         /\ out[i].f = "first" /\ ids[out[i].id + 1].grain = "field"
  /\ refused = "path_root" =>
       \E i \in DOMAIN Running.todo : Running.todo[i] = At(Next1.o, "whole")
=============================================================================
