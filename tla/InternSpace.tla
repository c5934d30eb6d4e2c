---------------------------- MODULE InternSpace ----------------------------
(***************************************************************************)
(* The intern space of a stream, on both sides of the wire.  The Writer    *)
(* gives an id to every string, descriptor, backing, map and pointer       *)
(* target it writes first, and names it by a REF or a VIEW afterwards.  No *)
(* id travels with its record: the Reader counts along, through the values *)
(* it materializes (decodeBody) and through the fields its target lacks    *)
(* (skipValue).                                                            *)
(*                                                                         *)
(* A value is made up while it is written, one position at a time: which   *)
(* record a pointer, map or slice position repeats, and what a fresh one   *)
(* holds, is free.  Numbers, lengths and budgets are left out; the tokens  *)
(* are WireForms's subject, the identity tables PointerTables's.           *)
(***************************************************************************)
EXTENDS InternTable, Sequences

CONSTANTS
  Descs,      \* the type descriptors of the program
  Kind, Name, \* of a descriptor
  Fields,     \* names of a struct descriptor's fields
  Kids,       \* the type-refs of a descriptor, in order
  Texts,      \* values of string positions
  Roots,      \* descriptors of top-level values
  Dyn,        \* dynamic types interface positions may hold
  Drops,      \* sets of <<struct name, field>> a target may lack
  MaxValues,  \* bound: top-level values of a stream
  MaxRecords, \* bound: maps, backings and pointer targets of a stream
  Gaps        \* shapes of values the Reader loses count at, see MayWrite

Kinds == {"struct", "ptr", "map", "slice", "iface", "string"}

ASSUME DescAssumption ==
  /\ IsFiniteSet(Descs)
  /\ \A d \in Descs :
       /\ Kind[d] \in Kinds /\ Name[d] \in DOMAIN Hash
       /\ Fields[d] \in Seq(DOMAIN Hash) /\ Kids[d] \in Seq(Descs)
       /\ Len(Fields[d]) = IF Kind[d] = "struct" THEN Len(Kids[d]) ELSE 0
       /\ Kind[d] \in {"ptr", "slice"} => Len(Kids[d]) = 1
       /\ Kind[d] = "map" => Len(Kids[d]) = 2
  /\ Texts \subseteq DOMAIN Hash /\ Roots \cup Dyn \subseteq Descs
  /\ MaxValues \in Nat /\ MaxRecords \in Nat
  /\ Gaps \subseteq {"nil_chain", "skipped_nil", "skipped_ref", "skipped_path"}

VARIABLES
  strs,     \* Writer: the string table
  claims,   \* Writer: descriptor name |-> the claimed id and descriptor
  wtab,     \* what the Writer means by each id: sort and content
  todo,     \* Writer: the positions still to write, next first
  values,   \* top-level values begun
  refused,  \* the Writer met a descriptor name bound to another structure
  wire,     \* the tokens written
  drop,     \* the fields the Reader's target lacks
  rtab,     \* Reader: the entry of each id
  expect,   \* Reader: the positions still to read, next first
  pos,      \* Reader: tokens consumed
  narrowed, \* Reader: the value at hand had a field its target lacks
  err       \* Reader: the class of the error that ended it, or "none"

wvars == <<strs, claims, wtab, todo, values, refused, wire>>
rvars == <<rtab, expect, pos, narrowed, err>>
vars == <<wvars, rvars, drop>>
----------------------------------------------------------------------------
(***************************************************************************)
(* Descriptor identity.  descEq walks both graphs and takes a pair it is   *)
(* already comparing for equal; it answers FALSE as soon as one pair that  *)
(* can be reached differs in itself.                                       *)
(***************************************************************************)
Same(a, b) ==
  /\ Kind[a] = Kind[b] /\ Name[a] = Name[b]
  /\ Fields[a] = Fields[b] /\ Len(Kids[a]) = Len(Kids[b])

PairsUnder(p) ==
  IF Same(p[1], p[2])
  THEN {<<Kids[p[1]][i], Kids[p[2]][i]>> : i \in DOMAIN Kids[p[1]]} ELSE {}

(* The pairs met on the way: a round that meets no new pair is the last.   *)
Met(a, b) ==
  LET f[met \in SUBSET (Descs \X Descs)] ==
        LET more == met \cup UNION {PairsUnder(p) : p \in met}
        IN  IF more = met THEN met ELSE f[more]
  IN  f[{<<a, b>>}]

(* (mutant: the name and the kind tell) *)
DescEqualByName(a, b) == Kind[a] = Kind[b] /\ Name[a] = Name[b]

DescEqual(a, b) == a = b \/ \A p \in Met(a, b) : p[1] = p[2] \/ Same(p[1], p[2])
----------------------------------------------------------------------------
(* Positions and tokens *)
DescAt(d, then)   == [k |-> "desc", d |-> d, then |-> then]
StrAt(s)          == [k |-> "str", s |-> s]
Body(d)           == [k |-> "body", d |-> d, held |-> FALSE]
Held(d)           == [k |-> "body", d |-> d, held |-> TRUE]
Open(d)           == [k |-> "open", d |-> d]
ViewOf(id)        == [k |-> "view", id |-> id]

Lit(t, x)         == [t |-> t, x |-> x]
Ref(id, sort, of) == [t |-> "ref", x |-> id, sort |-> sort, of |-> of]
View(id, d)       == [t |-> "view", x |-> id, sort |-> "array", of |-> d]

Entry(sort, of)   == [sort |-> sort, of |-> of]

NextID == Len(wtab)

Records == Cardinality({i \in DOMAIN wtab : wtab[i].sort \notin {"str", "desc"}})

Room == Records < MaxRecords

(* The ids of the records of a sort and type. *)
IdsOf(sort, d) == {i - 1 : i \in {j \in DOMAIN wtab : wtab[j] = Entry(sort, d)}}

(***************************************************************************)
(* Shapes the Reader is known to lose count at, by name; a position writes *)
(* one only where Gaps holds the name.                                     *)
(*   nil_chain     a pointer to a nil pointer: the record has an id, its   *)
(*                 body is the nil token a nil position has.               *)
(*   skipped_nil   in a value that may be skipped, a pointer to a nil      *)
(*                 interface, map or slice.                                *)
(*   skipped_ref   there, a pointer to a string or map written before.     *)
(*   skipped_path  there, a pointer to a field of an open record.          *)
(***************************************************************************)
MayWrite(gap) == gap \in Gaps \/ (gap # "nil_chain" /\ drop = {})

(***************************************************************************)
(* The Writer.  Put writes tokens, registers records and goes on with      *)
(* more positions before the ones it had.                                  *)
(***************************************************************************)
Put(tokens, records, more) ==
  /\ wire' = wire \o tokens
  /\ wtab' = wtab \o records
  /\ todo' = more \o Tail(todo)
  /\ UNCHANGED <<values, refused, drop, rvars>>

Tables == <<strs, claims>>

PutString(s) ==
  LET hit == Get(strs, s)
  IN  /\ IF hit # 0
         THEN /\ Put(<<Ref(hit - 1, "str", s)>>, <<>>, <<>>)
              /\ UNCHANGED strs
         ELSE /\ Put(<<Lit("str", s)>>, <<Entry("str", s)>>, <<>>)
              /\ strs' = Set(strs, s, NextID)
      /\ UNCHANGED claims

WriteString == todo # <<>> /\ Head(todo).k = "str" /\ PutString(Head(todo).s)

(* What follows a descriptor in its place. *)
After(d, then) == IF then = "open" THEN <<Open(d), Held(d)>>
                  ELSE IF then = "body" THEN <<Body(d)>> ELSE <<>>

(* The type-refs of a descriptor, each field's behind its name. *)
Children(d) ==
  IF Kind[d] = "struct"
  THEN [q \in 1..2 * Len(Kids[d]) |->
         IF q % 2 = 1 THEN StrAt(Fields[d][(q + 1) \div 2])
         ELSE DescAt(Kids[d][q \div 2], "kid")]
  ELSE [i \in 1..Len(Kids[d]) |-> DescAt(Kids[d][i], "kid")]

WriteDesc ==
  /\ todo # <<>> /\ Head(todo).k = "desc"
  /\ LET d == Head(todo).d
         more == After(d, Head(todo).then)
     IN  IF Name[d] \notin DOMAIN claims
         THEN /\ Put(<<[t |-> "desc", x |-> Kind[d], n |-> Len(Kids[d])]>>,
                     <<Entry("desc", d)>>,
                     <<StrAt(Name[d])>> \o Children(d) \o more)
              /\ claims' = [n \in DOMAIN claims \cup {Name[d]} |->
                              IF n = Name[d] THEN [id |-> NextID, d |-> d] ELSE claims[n]]
              /\ UNCHANGED strs
         ELSE LET c == claims[Name[d]]
              IN  IF DescEqual(c.d, d)
                  THEN /\ Put(<<Ref(c.id, "desc", d)>>, <<>>, more)
                       /\ UNCHANGED Tables
                  ELSE /\ refused' = TRUE /\ todo' = <<>>
                       /\ UNCHANGED <<Tables, wtab, values, wire, drop, rvars>>

(* ReserveID of a record whose grain tag is written. *)
WriteOpen ==
  /\ todo # <<>> /\ Head(todo).k = "open"
  /\ Put(<<>>, <<Entry("value", Head(todo).d)>>, <<>>)
  /\ UNCHANGED Tables

(* A body position of a kind. *)
At(kind) == todo # <<>> /\ Head(todo).k = "body" /\ Kind[Head(todo).d] = kind

D == Head(todo).d

WriteStringBody ==
  /\ At("string")
  /\ \E s \in Texts :
       /\ Head(todo).held /\ Get(strs, s) # 0 => MayWrite("skipped_ref")
       /\ PutString(s)

WriteStruct ==
  /\ At("struct")
  /\ Put(<<Lit("struct", 0)>>, <<>>, [i \in DOMAIN Kids[D] |-> Body(Kids[D][i])])
  /\ UNCHANGED Tables

(* A nil of the kinds with a selector of their own; not what a held        *)
(* pointer position is already known to be.                                *)
WriteNil ==
  /\ \E kind \in {"ptr", "map", "slice", "iface"} : At(kind)
  /\ ~Head(todo).held
  /\ Put(<<Lit("nil", Kind[D])>>, <<>>, <<>>)
  /\ UNCHANGED Tables

WriteMap ==
  /\ At("map")
  /\ \/ /\ Head(todo).held => MayWrite("skipped_ref")
        /\ \E id \in IdsOf("map", D) : Put(<<Ref(id, "map", D)>>, <<>>, <<>>)
     \/ \E n \in 0..1 :
          Room /\ Put(<<Lit("map", n)>>, <<Entry("map", D)>>,
                      IF n = 0 THEN <<>> ELSE <<Body(Kids[D][1]), Body(Kids[D][2])>>)
  /\ UNCHANGED Tables

WriteSlice ==
  /\ At("slice")
  /\ \/ \E id \in IdsOf("array", D) : Put(<<View(id, D)>>, <<>>, <<>>)
     \/ \E n \in 0..1 :
          Room /\ Put(<<Lit("array", n)>>, <<Entry("array", D)>>,
                      [i \in 1..n |-> Body(Kids[D][1])] \o <<ViewOf(NextID)>>)
  /\ UNCHANGED Tables

WriteView ==
  /\ todo # <<>> /\ Head(todo).k = "view"
  /\ Put(<<View(Head(todo).id, wtab[Head(todo).id + 1].of)>>, <<>>, <<>>)
  /\ UNCHANGED Tables

WriteIface ==
  /\ At("iface")
  /\ \E d \in Dyn : Put(<<>>, <<>>, <<DescAt(d, "body")>>)
  /\ UNCHANGED Tables

(* encodePointer: a repeat of an open record. *)
WriteRepeat ==
  /\ At("ptr")
  /\ \E id \in IdsOf("value", Kids[D][1]) :
       Put(<<Ref(id, "value", Kids[D][1])>>, <<>>, <<>>)
  /\ UNCHANGED Tables

(* A fresh record.  Its id is taken right before its body; a pointer grain *)
(* with a body of its own is written first, as a tag.                      *)
WriteRecord ==
  /\ At("ptr") /\ Room
  /\ LET e == Kids[D][1]
     IN  IF Kind[e] = "ptr" THEN Put(<<>>, <<>>, <<DescAt(e, "open")>>)
         ELSE Put(<<>>, <<Entry("value", e)>>, <<Held(e)>>)
  /\ UNCHANGED Tables

(* The same with a nil body. *)
WriteNilRecord ==
  /\ At("ptr") /\ Room
  /\ LET e == Kids[D][1]
     IN  /\ Kind[e] \in {"ptr", "map", "slice", "iface"}
         /\ MayWrite(IF Kind[e] = "ptr" THEN "nil_chain" ELSE "skipped_nil")
         /\ Put(<<Lit("nil", Kind[e])>>, <<Entry("value", e)>>, <<>>)
  /\ UNCHANGED Tables

(* encodePathRef: a pointer to a field of an open record, in a cell of its *)
(* own.  The first field is the record's, by elision.                      *)
WritePath ==
  /\ At("ptr") /\ Room /\ MayWrite("skipped_path")
  /\ \E i \in DOMAIN wtab :
       /\ wtab[i].sort = "value" /\ Kind[wtab[i].of] = "struct"
       /\ \E f \in 2..Len(Kids[wtab[i].of]) :
            LET s == Fields[wtab[i].of][f]
            IN  /\ Kids[wtab[i].of][f] = Kids[D][1]
                /\ Put(<<Ref(i - 1, "value", wtab[i].of),
                         [t |-> "path", x |-> Get(strs, s) - 1, of |-> s]>>,
                       <<Entry("value", Kids[D][1])>>, <<>>)
  /\ UNCHANGED Tables

(* encodeRoot *)
WriteValue ==
  /\ todo = <<>> /\ values < MaxValues /\ ~refused
  /\ values' = values + 1
  /\ \E d \in Roots : todo' = <<DescAt(d, "body")>>
  /\ UNCHANGED <<Tables, wtab, refused, wire, drop, rvars>>
----------------------------------------------------------------------------
(***************************************************************************)
(* The Reader, on a stream that is complete.  Its positions name           *)
(* descriptors by their ids; skip marks what its target lacks.             *)
(***************************************************************************)
RDesc(kid, then, skip) == [k |-> "desc", kid |-> kid, then |-> then, skip |-> skip]
RStr(of, part)         == [k |-> "str", of |-> of, part |-> part]
RBody(id, skip)        == [k |-> "body", d |-> id, skip |-> skip]
ROpen(id, skip)        == [k |-> "open", d |-> id, skip |-> skip]
RView                  == [k |-> "view"]

Desc(kind) ==
  [sort |-> "desc", kind |-> kind, name |-> "", fields |-> <<>>, kids |-> <<>>]
Str(s)              == [sort |-> "str", s |-> s]
Rec(sort, id, live) == [sort |-> sort, of |-> id, live |-> live]

Reading == todo = <<>> /\ values = MaxValues /\ ~refused /\ err = "none"

Tok == wire[pos + 1]

More == pos < Len(wire)

Class == IF More THEN Tok.t ELSE "end"

IsPath == pos + 1 < Len(wire) /\ wire[pos + 2].t = "path"

(* The entry a REF or VIEW at the cursor names. *)
Known == Tok.x < Len(rtab)
Named == rtab[Tok.x + 1]

KindOf(id) == rtab[id + 1].kind
KidOf(id, i) == rtab[id + 1].kids[i]

Step(tokens, tab, more) ==
  /\ pos' = pos + tokens
  /\ rtab' = tab
  /\ expect' = more \o Tail(expect)
  /\ narrowed' = (narrowed \/ (Head(expect).k = "body" /\ Head(expect).skip))
  /\ UNCHANGED <<err, wvars, drop>>

Fail(class) == err' = class /\ UNCHANGED <<rtab, expect, pos, narrowed, wvars, drop>>

(* A kept position names a record that was never materialized.             *)
ErrEvolutionRef == Fail(IF narrowed THEN "evolution" ELSE "bad_ref")

(* chargeDescNode and the rest of readDescLit's children. *)
RChildren(id, kind, n, skip) ==
  <<RStr(id, "name")>>
  \o (IF kind = "struct"
      THEN [q \in 1..2 * n |-> IF q % 2 = 1 THEN RStr(id, "field") ELSE RDesc(id, "kid", skip)]
      ELSE [i \in 1..n |-> RDesc(id, "kid", skip)])

RAfter(id, then, skip) ==
  IF then = "open" THEN <<ROpen(id, skip), RBody(id, skip)>>
  ELSE IF then = "body" THEN <<RBody(id, skip)>> ELSE <<>>

(* A descriptor read for a kid position goes to its parent. *)
Adopt(tab, it, id) ==
  IF it.then = "kid" THEN [tab EXCEPT ![it.kid + 1].kids = Append(@, id)] ELSE tab

ReadDesc ==
  /\ Reading /\ expect # <<>> /\ Head(expect).k = "desc"
  /\ LET it == Head(expect)
         id == Len(rtab)
     IN  CASE Class = "desc" ->
                Step(1, Adopt(Append(rtab, Desc(Tok.x)), it, id),
                     RChildren(id, Tok.x, Tok.n, it.skip)
                     \o RAfter(id, it.then, it.skip))
           [] Class = "ref" ->
                IF Known /\ Named.sort = "desc"
                THEN Step(1, Adopt(rtab, it, Tok.x), RAfter(Tok.x, it.then, it.skip))
                ELSE Fail("bad_ref")
           [] OTHER -> Fail("malformed")

(* A name goes to the descriptor of: its own, or that of its next field.   *)
Label(tab, it, s) ==
  LET e == tab[it.of + 1]
  IN  [tab EXCEPT ![it.of + 1] =
         IF it.part = "name" THEN [e EXCEPT !.name = s]
         ELSE [e EXCEPT !.fields = Append(@, s)]]

ReadName ==
  /\ Reading /\ expect # <<>> /\ Head(expect).k = "str"
  /\ LET it == Head(expect)
     IN  CASE Class = "str" -> Step(1, Label(Append(rtab, Str(Tok.x)), it, Tok.x), <<>>)
           [] Class = "ref" -> IF Known /\ Named.sort = "str"
                               THEN Step(1, Label(rtab, it, Named.s), <<>>)
                               ELSE Fail("bad_ref")
           [] OTHER -> Fail("malformed")

ReadOpen ==
  /\ Reading /\ expect # <<>> /\ Head(expect).k = "open"
  /\ Step(0, Append(rtab, Rec("value", Head(expect).d, ~Head(expect).skip)), <<>>)

RAt(kind) ==
  Reading /\ expect # <<>> /\ Head(expect).k = "body" /\ KindOf(Head(expect).d) = kind

RD == Head(expect).d
Skip == Head(expect).skip

(* ReadStringBudgeted; a skipped REF is taken whatever it names. *)
ReadString ==
  /\ RAt("string")
  /\ CASE Class = "str" -> Step(1, Append(rtab, Str(Tok.x)), <<>>)
       [] Class = "ref" -> IF Known /\ (Skip \/ Named.sort = "str")
                           THEN Step(1, rtab, <<>>) ELSE Fail("bad_ref")
       [] OTHER -> Fail("malformed")

ReadStruct ==
  /\ RAt("struct")
  /\ IF Class = "struct"
     THEN Step(1, rtab,
               [i \in DOMAIN rtab[RD + 1].kids |->
                 RBody(KidOf(RD, i),
                       Skip \/ <<rtab[RD + 1].name, rtab[RD + 1].fields[i]>> \in drop)])
     ELSE Fail("malformed")

ReadMap ==
  /\ RAt("map")
  /\ CASE Class = "nil" -> IF Skip \/ Tok.x = "map" THEN Step(1, rtab, <<>>)
                           ELSE Fail("malformed")
       [] Class = "ref" ->
            IF ~Known \/ Named.sort # "map" THEN Fail("bad_ref")
            ELSE IF Skip \/ (Named.live /\ Named.of = RD) THEN Step(1, rtab, <<>>)
            ELSE IF Named.live THEN Fail("bad_ref") ELSE ErrEvolutionRef
       [] Class = "map" ->
            Step(1, Append(rtab, Rec("map", RD, ~Skip)),
                 IF Tok.x = 0 THEN <<>>
                 ELSE <<RBody(KidOf(RD, 1), Skip), RBody(KidOf(RD, 2), Skip)>>)
       [] OTHER -> Fail("malformed")

ReadSlice ==
  /\ RAt("slice")
  /\ CASE Class = "nil" -> IF Skip \/ Tok.x = "slice" THEN Step(1, rtab, <<>>)
                           ELSE Fail("malformed")
       [] Class = "view" ->
            IF ~Known \/ Named.sort # "array" THEN Fail("bad_ref")
            ELSE IF Skip \/ (Named.live /\ Named.of = RD) THEN Step(1, rtab, <<>>)
            ELSE IF Named.live THEN Fail("bad_ref") ELSE ErrEvolutionRef
       [] Class = "array" ->
            Step(1, Append(rtab, Rec("array", RD, ~Skip)),
                 [i \in 1..Tok.x |-> RBody(KidOf(RD, 1), Skip)] \o <<RView>>)
       [] OTHER -> Fail("malformed")

ReadView ==
  /\ Reading /\ expect # <<>> /\ Head(expect).k = "view"
  /\ IF Class = "view" /\ Known /\ Named.sort = "array"
     THEN Step(1, rtab, <<>>) ELSE Fail("bad_ref")

ReadIface ==
  /\ RAt("iface")
  /\ IF Class = "nil"
     THEN IF Skip \/ Tok.x = "iface" THEN Step(1, rtab, <<>>) ELSE Fail("malformed")
     ELSE Step(0, rtab, <<RDesc(0, "body", Skip)>>)

(* (mutant: a skipped record takes no id) *)
ElidedUncounted ==
  Step(0, IF Skip THEN rtab ELSE Append(rtab, Rec("value", KidOf(RD, 1), ~Skip)),
       <<RBody(KidOf(RD, 1), Skip)>>)

(* The elided opening: the cell is registered, its body comes next. *)
Elided ==
  Step(0, Append(rtab, Rec("value", KidOf(RD, 1), ~Skip)), <<RBody(KidOf(RD, 1), Skip)>>)

IfaceElem == KindOf(KidOf(RD, 1)) = "iface"

(* decodePathRef: the path of the record's field, in a cell of its own. *)
ReadPath ==
  IF ~Known \/ Named.sort # "value" THEN Fail("bad_path")
  ELSE IF ~Named.live THEN ErrEvolutionRef
  ELSE LET n == wire[pos + 2].x
       IN  IF n < Len(rtab) /\ rtab[n + 1].sort = "str"
              /\ \E i \in DOMAIN rtab[Named.of + 1].fields :
                   rtab[Named.of + 1].fields[i] = rtab[n + 1].s
           THEN Step(2, Append(rtab, Rec("value", KidOf(RD, 1), TRUE)), <<>>)
           ELSE Fail("bad_path")

(* decodePointer *)
ReadPointer ==
  /\ RAt("ptr") /\ ~Skip
  /\ CASE Class = "nil" -> IF Tok.x = "ptr" THEN Step(1, rtab, <<>>) ELSE Elided
       [] Class = "ref" ->
            IF IsPath THEN ReadPath
            ELSE IF ~Known THEN Fail("bad_ref")
            ELSE IF Named.sort = "desc" /\ ~IfaceElem
                 THEN Step(0, rtab, <<RDesc(0, "open", FALSE)>>)
            ELSE IF Named.sort = "value" /\ ~Named.live THEN ErrEvolutionRef
            ELSE IF Named.sort = "value" /\ Named.of = KidOf(RD, 1)
                 THEN Step(1, rtab, <<>>)
            ELSE Elided
       [] Class = "desc" -> IF IfaceElem THEN Elided
                            ELSE Step(0, rtab, <<RDesc(0, "open", FALSE)>>)
       [] OTHER -> Elided

(* skipValue at a pointer. *)
SkipPointer ==
  /\ RAt("ptr") /\ Skip
  /\ CASE Class = "nil" -> Step(1, rtab, <<>>)
       [] Class = "ref" ->
            IF ~Known THEN Fail("bad_ref")
            ELSE IF Named.sort = "desc"
                 THEN Step(1, Append(rtab, Rec("value", Tok.x, FALSE)),
                           <<RBody(Tok.x, TRUE)>>)
            ELSE Step(1, rtab, <<>>)
       [] Class = "desc" -> IF IfaceElem THEN Elided
                            ELSE Step(0, rtab, <<RDesc(0, "open", TRUE)>>)
       [] OTHER -> Elided

(* The next top-level value, or the end. *)
ReadValue ==
  /\ Reading /\ expect = <<>> /\ More
  /\ expect' = <<RDesc(0, "body", FALSE)>>
  /\ narrowed' = FALSE
  /\ UNCHANGED <<rtab, pos, err, wvars, drop>>
----------------------------------------------------------------------------
Init ==
  /\ strs = EmptyTable /\ claims = [n \in {} |-> 0] /\ wtab = <<>>
  /\ todo = <<>> /\ values = 0 /\ refused = FALSE /\ wire = <<>>
  /\ drop \in Drops
  /\ rtab = <<>> /\ expect = <<>> /\ pos = 0 /\ narrowed = FALSE /\ err = "none"

Writes ==
  \/ WriteValue \/ WriteDesc \/ WriteString \/ WriteOpen \/ WriteStringBody
  \/ WriteStruct \/ WriteNil \/ WriteMap \/ WriteSlice \/ WriteView
  \/ WriteIface \/ WriteRepeat \/ WriteRecord \/ WriteNilRecord \/ WritePath

Reads ==
  \/ ReadValue \/ ReadDesc \/ ReadName \/ ReadOpen \/ ReadString \/ ReadStruct
  \/ ReadMap \/ ReadSlice \/ ReadView \/ ReadIface \/ ReadPointer \/ SkipPointer

Next == Writes \/ Reads

Spec == Init /\ [][Next]_vars
----------------------------------------------------------------------------
(***************************************************************************)
(* Properties                                                              *)
(***************************************************************************)
(* The Reader's entry is what the Writer meant by its token; one it        *)
(* skipped is a placeholder without a type.                                *)
Means(e, tk) ==
  /\ e.sort = tk.sort
  /\ CASE e.sort = "str"  -> e.s = tk.of
       [] e.sort = "desc" -> e.kind = Kind[tk.of] /\ e.name \in {"", Name[tk.of]}
       [] OTHER           -> e.live => rtab[e.of + 1].name = Name[tk.of]

(* Every REF and VIEW the Reader has taken, in a value it keeps or in one  *)
(* it skips, resolves to the record the Writer meant: both sides count     *)
(* strings, descriptors, backings, maps and pointer targets alike          *)
(* (allocID, allocEntry and the mirror in skipValue).                      *)
RefsResolve ==
  \A i \in 1..pos :
    wire[i].t \in {"ref", "view"} =>
      wire[i].x < Len(rtab) /\ Means(rtab[wire[i].x + 1], wire[i])

Describes(e, d) ==
  /\ e.sort = "desc" /\ e.kind = Kind[d] /\ e.name = Name[d]
  /\ e.fields = Fields[d]
  /\ [j \in DOMAIN e.kids |-> rtab[e.kids[j] + 1].name]
     = [j \in DOMAIN Kids[d] |-> Name[Kids[d][j]]]

(* The descriptors the Reader built are the Writer's - kind, name, fields  *)
(* and the types they refer to, cycles and shared parts included - and     *)
(* every position that names one by its id has its structure: no value is  *)
(* read by the descriptor of another type of the same name (writeDescOf,   *)
(* descEq, readDescLit).                                                   *)
DescsRebuilt ==
  expect = <<>> =>
    /\ \A i \in DOMAIN rtab :
         rtab[i].sort = "desc" => Describes(rtab[i], wtab[i].of)
    /\ \A i \in 1..pos :
         wire[i].t = "ref" /\ wire[i].sort = "desc" =>
           Describes(rtab[wire[i].x + 1], wire[i].of)

(* The token at the cursor names a record the target left out.             *)
LeftOut ==
  /\ drop # {} /\ Class \in {"ref", "view"} /\ Known
  /\ Named.sort \notin {"str", "desc"} /\ ~Named.live

(* A stream the Writer completed is read back to its end, every record of  *)
(* it registered.  The one error is the refusal of a record the target     *)
(* left out, at the token that names it: of the narrowing class once the   *)
(* same value had a field skipped, bad_ref before that, as when the record *)
(* was skipped in an earlier value (README.md, "Graph round-trip";         *)
(* errEvolutionRef, codecStreamDecoder.Decode).                            *)
ReadsBack ==
  /\ err # "none" => LeftOut /\ err = IF narrowed THEN "evolution" ELSE "bad_ref"
  /\ Reading /\ expect = <<>> /\ ~More => Len(rtab) = Len(wtab)
=============================================================================
