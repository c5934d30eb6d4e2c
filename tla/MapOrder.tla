------------------------------ MODULE MapOrder ------------------------------
(***************************************************************************)
(* The order in which encodeMap writes the pairs of a map, and what        *)
(* decodeMap says of the keys it finds.  Go hands out the pairs of a map   *)
(* in any order; the Encoder sorts them by rank cells, which stand for the *)
(* bytes of the key's skeleton without rendering them, then by the bytes   *)
(* of the value, then by the addresses of the key's pointers.  The Decoder *)
(* renders skeletons to tell duplicates.                                   *)
(*                                                                         *)
(* A key is a tree whose pointers name objects of `heap`; a placement      *)
(* gives them addresses.  A word has two bytes (eight in the code), so     *)
(* arguments have the inline form and two widths.  The bytes of a value    *)
(* are a number, BadValue is a value whose sub-marshal fails.              *)
(***************************************************************************)
EXTENDS Integers, FiniteSets, SequencesExt

CONSTANTS
  Types,      \* type -> [kind, name, args, labels, parts]
  KeyTypes,   \* the types of keys that maps are built of
  Keys,       \* key type -> its values
  Heap,       \* object -> value
  Values,     \* bytes of map values
  BadValue,
  NaNs,       \* bits of the floats that are no numbers
  Placements, \* the ways objects may get addresses: object -> address
  MaxPairs

Objects == DOMAIN Heap
NoObject == 0

ASSUME KeysAssumption ==
  /\ KeyTypes \subseteq DOMAIN Types /\ DOMAIN Keys = KeyTypes
  /\ Objects \subseteq Nat \ {NoObject} /\ IsFiniteSet(Objects)
  /\ \A p \in Placements : DOMAIN p = Objects /\ IsInjective(p)
  /\ Values \subseteq Nat /\ BadValue \in Values /\ MaxPairs \in Nat

VARIABLES
  type,     \* the type of the map's keys
  pairs,    \* key -> value, the map
  stable,   \* MarshalStable
  order,    \* the keys as they were written
  result    \* of Encode, then of Decode

vars == <<type, pairs, stable, order, result>>

-----------------------------------------------------------------------------
(* What the types of keys say.                                             *)

RECURSIVE Within(_, _)
Within(T, seen) ==
  IF T \in seen THEN seen
  ELSE FoldLeft(LAMBDA s, t : Within(t, s), seen \cup {T}, Types[T].parts)

kindsOf(T) == {Types[t].kind : t \in Within(T, {})}

(* (mutant: pointers within are not looked for) *)
keyTypeHasPointerDirect(T) == Types[T].kind \in {"ptr", "bigint", "iface"}

keyTypeHasPointer(T) == kindsOf(T) \cap {"ptr", "bigint", "iface"} # {}

planHasInterface(T) == "iface" \in kindsOf(T)

stableKeyWalk(T) ==
  kindsOf(T) \cap {"ptr", "bigint", "iface", "f32", "f64", "c64", "c128"} = {}

-----------------------------------------------------------------------------
(* Bytes, arguments and the comparison of sequences.                       *)

BE(n, w) == [i \in 1 .. w |-> (n \div 256 ^ (w - i)) % 256]

argForm(n) == IF n < 12 THEN n ELSE IF n < 256 THEN 12 ELSE 13

argBytes(n) == IF n < 12 THEN <<>> ELSE IF n < 256 THEN BE(n, 1) ELSE BE(n, 2)

Cat(ss) == FoldLeft(LAMBDA s, t : s \o t, <<>>, ss)

(* -1, 0 or 1; a prefix comes first. *)
Compare(s, t) ==
  LET common == {i \in 1 .. Len(s) : i <= Len(t)}
      differ == {i \in common : s[i] # t[i]}
  IN  IF differ # {}
      THEN LET i == Min(differ) IN IF s[i] < t[i] THEN -1 ELSE 1
      ELSE IF Len(s) < Len(t) THEN -1 ELSE IF Len(s) > Len(t) THEN 1 ELSE 0

zigzag(n) == IF n >= 0 THEN 2 * n ELSE -2 * n - 1

(* The images no word holds take the extended form.                        *)
Wide(u) == u >= 65536

bigBytes(u) == BE(u, CHOOSE w \in 1 .. 4 :
                       u < 256 ^ w /\ (w = 1 \/ u >= 256 ^ (w - 1)))

(* The elision predicate: a negative zero is not zero bits.                *)
RECURSIVE isBitZero(_)
isBitZero(v) ==
  CASE v.kind \in {"bool", "int", "uint"} -> v.n = 0
    [] v.kind \in {"f32", "f64"} -> v.bits = 0
    [] v.kind \in {"c64", "c128"} -> v.re = 0 /\ v.im = 0
    [] v.kind = "string" -> v.s = <<>>
    [] v.kind = "bigint" -> v.obj = NoObject \/ Heap[v.obj].n = 0
    [] v.kind = "ptr" -> v.obj = NoObject
    [] v.kind = "iface" -> v.nil
    [] OTHER -> \A i \in DOMAIN v.elems : isBitZero(v.elems[i])

densePrefix(elems) ==
  Max({0} \cup {i \in DOMAIN elems : ~isBitZero(elems[i])})

NaN(v) == \/ v.kind \in {"f32", "f64"} /\ v.bits \in NaNs[v.kind]
          \/ v.kind \in {"c64", "c128"} /\ {v.re, v.im} \cap NaNs[v.kind] # {}

(* Bits of the two zeros. *)
Half(kind) == IF kind \in {"f32", "c64"} THEN 1 ELSE 2
Zeros(kind) == {0, 128 * 256 ^ (Half(kind) - 1)}
-----------------------------------------------------------------------------
(* The rank walker.  `track` is set for keys with interfaces only: no      *)
(* other key renders a token that depends on what was interned before.     *)

resetKey(track) ==
  [cells |-> <<>>, track |-> track, strs |-> <<>>, claims |-> <<>>, next |-> 0,
   seen |-> {}, zero |-> FALSE, err |-> FALSE]

(* (mutant: the one-byte argument leaves no cell) *)
rankTokenArgLate(class, n) ==
  <<16 * class + argForm(n)>> \o (IF argForm(n) > 12 THEN <<n>> ELSE <<>>)

rankTokenArg(class, n) ==
  <<16 * class + argForm(n)>> \o (IF argForm(n) >= 12 THEN <<n>> ELSE <<>>)

rankBareArg(n) == rankTokenArg(0, n)

rankPacked(b) ==
  [i \in 1 .. (Len(b) + 1) \div 2 |->
     256 * b[2 * i - 1] + (IF 2 * i <= Len(b) THEN b[2 * i] ELSE 0)]

rankString(s) == rankTokenArg(6, Len(s)) \o rankPacked(s)

Cells(r, cells) == [r EXCEPT !.cells = @ \o cells]

rankBigint(obj) ==
  IF obj = NoObject THEN <<0>>
  ELSE LET u == zigzag(Heap[obj].n)
       IN  IF Wide(u)
           THEN <<16>> \o rankBareArg(Len(bigBytes(u))) \o rankPacked(bigBytes(u))
           ELSE rankBareArg(u)

kindNo == [struct |-> 0, array |-> 2, ptr |-> 5, iface |-> 6, bool |-> 7,
           int |-> 8, uint |-> 9, f32 |-> 10, f64 |-> 10, c64 |-> 11,
           c128 |-> 11, string |-> 12, bigint |-> 15]

kindCells(t) == IF kindNo[t.kind] <= 11 THEN <<208 + kindNo[t.kind]>>
                ELSE <<220, kindNo[t.kind]>>

(* A descriptor rendered from an empty intern state, names met again       *)
(* collapsed.                                                              *)
RECURSIVE signatureFrom(_, _)
signatureFrom(d, T) ==
  LET t == Types[T]
      part(x, i) ==
        signatureFrom(IF t.labels = <<>> THEN x
                      ELSE [x EXCEPT !.out = @ \o rankString(t.labels[i])],
                      t.parts[i])
      opened == [out |-> d.out \o kindCells(t) \o rankString(t.name)
                         \o Cat([i \in DOMAIN t.args |-> rankBareArg(t.args[i])]),
                 claimed |-> d.claimed \cup {t.name}]
  IN  IF t.name \in d.claimed THEN [d EXCEPT !.out = Append(@, 192)]
      ELSE FoldLeftDomain(part, opened, t.parts)

descSignature(T) == signatureFrom([out |-> <<>>, claimed |-> {}], T).out

rankDescName(r, s) ==
  IF s \in DOMAIN r.strs THEN Cells(r, rankTokenArg(12, r.strs[s]))
  ELSE [Cells(r, rankString(s)) EXCEPT !.strs = (s :> r.next) @@ @, !.next = @ + 1]

RECURSIVE rankDesc(_, _)
rankDesc(r, T) ==
  LET t == Types[T]
      claimed == [r EXCEPT !.next = @ + 1,
                           !.claims = (t.name :> [id |-> r.next,
                                                  sig |-> descSignature(T)]) @@ @]
      opened == Cells(rankDescName(Cells(claimed, kindCells(t)), t.name),
                      Cat([i \in DOMAIN t.args |-> rankBareArg(t.args[i])]))
      part(x, i) == rankDesc(IF t.labels = <<>> THEN x ELSE rankDescName(x, t.labels[i]),
                             t.parts[i])
  IN  IF r.err THEN r
      ELSE IF t.name \notin DOMAIN r.claims THEN FoldLeftDomain(part, opened, t.parts)
      ELSE IF r.claims[t.name].sig # descSignature(T) THEN [r EXCEPT !.err = TRUE]
      ELSE Cells(r, rankTokenArg(12, r.claims[t.name].id))

(* (mutant: a negative zero is no zero) *)
zeroKeyPositive(v) ==
  \/ v.kind \in {"f32", "f64"} /\ v.bits = 0
  \/ v.kind \in {"c64", "c128"} /\ 0 \in {v.re, v.im}

zeroKey(v) == \/ v.kind \in {"f32", "f64"} /\ v.bits \in Zeros(v.kind)
              \/ v.kind \in {"c64", "c128"} /\ {v.re, v.im} \cap Zeros(v.kind) # {}

RECURSIVE walk(_, _)
walk(r, v) ==
  IF r.err \/ NaN(v) THEN [r EXCEPT !.err = TRUE] ELSE
  CASE v.kind = "bool" -> Cells(r, <<16 + v.n>>)
    [] v.kind = "int" -> Cells(r, rankTokenArg(2, zigzag(v.n)))
    [] v.kind = "uint" -> Cells(r, rankTokenArg(3, v.n))
    [] v.kind \in {"f32", "f64"} ->
         [Cells(r, <<IF v.kind = "f32" THEN 64 ELSE 65, v.bits>>)
            EXCEPT !.zero = @ \/ zeroKey(v)]
    [] v.kind = "c64" ->
         [Cells(r, <<80, 256 * v.re + v.im>>) EXCEPT !.zero = @ \/ zeroKey(v)]
    [] v.kind = "c128" ->
         [Cells(r, <<81, v.re, v.im>>) EXCEPT !.zero = @ \/ zeroKey(v)]
    [] v.kind = "string" ->
         Cells(IF r.track THEN [r EXCEPT !.strs = (v.s :> r.next) @@ @, !.next = @ + 1]
               ELSE r, rankString(v.s))
    [] v.kind = "bigint" -> Cells(r, rankBigint(v.obj))
    [] v.kind = "ptr" ->
         IF v.obj = NoObject \/ v.obj \in r.seen THEN Cells(r, <<0>>)
         ELSE walk([r EXCEPT !.seen = @ \cup {v.obj}], Heap[v.obj])
    [] v.kind = "iface" ->
         IF v.nil THEN Cells(r, <<3>>) ELSE walk(rankDesc(r, v.type), v.val)
    [] v.kind = "array" ->
         FoldLeft(walk,
                  Cells(IF r.track THEN [r EXCEPT !.next = @ + 1] ELSE r,
                        rankTokenArg(8, Len(v.elems))
                          \o rankBareArg(densePrefix(v.elems))),
                  SubSeq(v.elems, 1, densePrefix(v.elems)))
    [] v.kind = "struct" -> FoldLeft(walk, Cells(r, <<176>>), v.elems)
    [] OTHER -> [r EXCEPT !.err = TRUE]

RankOf == [T \in KeyTypes |-> [k \in Keys[T] |-> walk(resetKey(planHasInterface(T)), k)]]

Rank(k) == RankOf[type][k]

-----------------------------------------------------------------------------
(* The skeleton: the bytes a fresh Writer renders for the key.             *)

freshWriter == [buf |-> <<>>, strs |-> <<>>, descs |-> <<>>, next |-> 0,
                seen |-> {}, err |-> FALSE]

Put(w, bytes) == [w EXCEPT !.buf = @ \o bytes]

tokenArg(class, n) == <<16 * class + argForm(n)>> \o argBytes(n)

WriteStringLit(w, s) ==
  [Put(w, tokenArg(6, Len(s)) \o s) EXCEPT !.strs = (s :> w.next) @@ @,
                                           !.next = @ + 1]

WriteString(w, s) == IF s \in DOMAIN w.strs THEN Put(w, tokenArg(12, w.strs[s]))
                     ELSE WriteStringLit(w, s)

WriteBigint(w, obj) ==
  LET u == zigzag(Heap[obj].n)
  IN  IF obj = NoObject THEN Put(w, <<0>>)
      ELSE Put(w, IF Wide(u) THEN <<16>> \o tokenArg(0, Len(bigBytes(u))) \o bigBytes(u)
                  ELSE tokenArg(0, u))

RECURSIVE descEq(_, _, _)
descEq(T, U, seen) ==
  \/ T = U \/ <<T, U>> \in seen
  \/ LET t == Types[T]
         u == Types[U]
     IN  /\ kindNo[t.kind] = kindNo[u.kind] /\ t.name = u.name
         /\ t.args = u.args /\ t.labels = u.labels
         /\ Len(t.parts) = Len(u.parts)
         /\ \A i \in DOMAIN t.parts :
               descEq(t.parts[i], u.parts[i], seen \cup {<<T, U>>})

RECURSIVE WriteDesc(_, _)
WriteDesc(w, T) ==
  LET t == Types[T]
      claimed == [w EXCEPT !.next = @ + 1,
                           !.descs = (t.name :> [id |-> w.next, d |-> T]) @@ @]
      opened == Put(WriteString(Put(claimed, kindCells(t)), t.name),
                    Cat([i \in DOMAIN t.args |-> tokenArg(0, t.args[i])]))
      part(x, i) == WriteDesc(IF t.labels = <<>> THEN x ELSE WriteString(x, t.labels[i]),
                              t.parts[i])
  IN  IF w.err THEN w
      ELSE IF t.name \notin DOMAIN w.descs THEN FoldLeftDomain(part, opened, t.parts)
      ELSE IF ~descEq(w.descs[t.name].d, T, {}) THEN [w EXCEPT !.err = TRUE]
      ELSE Put(w, tokenArg(12, w.descs[t.name].id))

RECURSIVE render(_, _)
render(w, v) ==
  IF w.err \/ NaN(v) THEN [w EXCEPT !.err = TRUE] ELSE
  CASE v.kind = "bool" -> Put(w, <<16 + v.n>>)
    [] v.kind = "int" -> Put(w, tokenArg(2, zigzag(v.n)))
    [] v.kind = "uint" -> Put(w, tokenArg(3, v.n))
    [] v.kind = "f32" -> Put(w, <<64>> \o BE(v.bits, 1))
    [] v.kind = "f64" -> Put(w, <<65>> \o BE(v.bits, 2))
    [] v.kind = "c64" -> Put(w, <<80>> \o BE(v.re, 1) \o BE(v.im, 1))
    [] v.kind = "c128" -> Put(w, <<81>> \o BE(v.re, 2) \o BE(v.im, 2))
    [] v.kind = "string" -> WriteStringLit(w, v.s)
    [] v.kind = "bigint" -> WriteBigint(w, v.obj)
    [] v.kind = "ptr" ->
         IF v.obj = NoObject \/ v.obj \in w.seen THEN Put(w, <<0>>)
         ELSE render([w EXCEPT !.seen = @ \cup {v.obj}], Heap[v.obj])
    [] v.kind = "iface" ->
         IF v.nil THEN Put(w, <<3>>) ELSE render(WriteDesc(w, v.type), v.val)
    [] v.kind = "array" ->
         FoldLeft(render,
                  Put([w EXCEPT !.next = @ + 1],
                      tokenArg(8, Len(v.elems)) \o tokenArg(0, densePrefix(v.elems))),
                  SubSeq(v.elems, 1, densePrefix(v.elems)))
    [] v.kind = "struct" -> FoldLeft(render, Put(w, <<176>>), v.elems)
    [] OTHER -> [w EXCEPT !.err = TRUE]

SkeletonOf == [T \in KeyTypes |-> [k \in Keys[T] |-> render(freshWriter, k)]]

Skeleton(k) == SkeletonOf[type][k]

-----------------------------------------------------------------------------
(* What Go takes for one key, and which maps there are.                    *)

RECURSIVE sameKey(_, _)
sameKey(k, l) ==
  \/ k = l
  \/ k.kind = l.kind /\ k.kind \in {"f32", "f64"} /\ {k.bits, l.bits} \subseteq Zeros(k.kind)
  \/ /\ k.kind = l.kind /\ k.kind \in {"c64", "c128"}
     /\ k.re = l.re \/ {k.re, l.re} \subseteq Zeros(k.kind)
     /\ k.im = l.im \/ {k.im, l.im} \subseteq Zeros(k.kind)
  \/ /\ k.kind = l.kind /\ k.kind \in {"array", "struct"}
     /\ \A i \in DOMAIN k.elems : sameKey(k.elems[i], l.elems[i])
  \/ /\ k.kind = l.kind /\ k.kind = "iface" /\ ~k.nil /\ ~l.nil
     /\ k.type = l.type /\ sameKey(k.val, l.val)

Maps == UNION {[S -> Values] : S \in {s \in UNION {kSubset(n, Keys[type]) : n \in 0 .. MaxPairs} :
                                      \A k, l \in s : k # l => ~sameKey(k, l)}}

Init ==
  /\ type \in KeyTypes
  /\ pairs \in Maps
  /\ stable \in BOOLEAN
  /\ order = <<>>
  /\ result = "none"

-----------------------------------------------------------------------------
(* The comparison of two pairs.                                            *)

(* The addresses met in a walk of the key; one met again is not expanded.  *)
RECURSIVE keyPtrSeqFrom(_, _, _)
keyPtrSeqFrom(p, s, v) ==
  LET next(x, y) == keyPtrSeqFrom(p, x, y)
  IN  CASE v.kind \in {"ptr", "bigint"} /\ v.obj = NoObject -> [s EXCEPT !.seq = Append(@, 0)]
        [] v.kind \in {"ptr", "bigint"} /\ v.obj # NoObject ->
             LET met == [s EXCEPT !.seq = Append(@, p[v.obj]), !.seen = @ \cup {v.obj}]
             IN  IF v.obj \in s.seen THEN met ELSE next(met, Heap[v.obj])
        [] v.kind = "iface" -> IF v.nil THEN s ELSE next(s, v.val)
        [] v.kind \in {"array", "struct"} -> FoldLeft(next, s, v.elems)
        [] OTHER -> s

keyPtrSeq(p, k) == keyPtrSeqFrom(p, [seq |-> <<>>, seen |-> {}], k).seq

(* Two pairs that are neither before the other compare as greater both     *)
(* ways.                                                                   *)
Before(p, k, l) ==
  LET byRank  == Compare(Rank(k).cells, Rank(l).cells)
      byValue == Compare(<<pairs[k]>>, <<pairs[l]>>)
  IN  \/ byRank < 0
      \/ byRank = 0 /\ byValue < 0
      \/ byRank = 0 /\ byValue = 0 /\ Compare(keyPtrSeq(p, k), keyPtrSeq(p, l)) < 0

(* What slices.SortFunc may return at a placement p.                       *)
Sorted(p) ==
  LET before == {kl \in (DOMAIN pairs) \X (DOMAIN pairs) : Before(p, kl[1], kl[2])}
  IN  {o \in SetToSeqs(DOMAIN pairs) :
         \A i, j \in DOMAIN o : i < j => <<o[j], o[i]>> \notin before}

cmpLenPrefix(s, t) == Compare(<<argForm(Len(s)), Len(s)>> \o s, <<argForm(Len(t)), Len(t)>> \o t)

typedSorted ==
  {o \in SetToSeqs(DOMAIN pairs) :
     \A i, j \in DOMAIN o : i < j => cmpLenPrefix(o[i].s, o[j].s) < 0}

-----------------------------------------------------------------------------
(* encodeMap.                                                              *)

Answer(r, o) == result' = r /\ order' = o /\ UNCHANGED <<type, pairs, stable>>

keyRefused == \E k \in DOMAIN pairs : Rank(k).err

(* The values whose bytes the sort asks for: those of pairs of one rank.   *)
tieFailed ==
  \E k, l \in DOMAIN pairs :
    k # l /\ Rank(k).cells = Rank(l).cells /\ pairs[k] = BadValue

(* The first neighbours that only their addresses tell apart, and the      *)
(* first key with a zero float.                                            *)
tiesAt(o) == {j \in 1 .. Len(o) - 1 : pairs[o[j]] = pairs[o[j + 1]]
                                      /\ Rank(o[j]).cells = Rank(o[j + 1]).cells}
zerosAt(o) == {j \in DOMAIN o : Rank(o[j]).zero}

guardClass(o) ==
  IF stableKeyWalk(type) \/ tiesAt(o) \cup zerosAt(o) = {} THEN "none"
  ELSE IF Min(tiesAt(o) \cup zerosAt(o)) \in zerosAt(o) THEN "unstable_zero_float_key"
  ELSE "unstable_tie_break"

encodeMap ==
  /\ result = "none"
  /\ \/ keyRefused /\ Answer("unsupported_kind", <<>>)
     \/ ~keyRefused /\ tieFailed /\ Answer("value_failed", <<>>)
     \/ /\ ~keyRefused /\ ~tieFailed
        /\ \E o \in UNION {Sorted(p) : p \in Placements} :
             \/ stable /\ guardClass(o) # "none" /\ Answer(guardClass(o), <<>>)
             \/ /\ stable => guardClass(o) = "none"
                /\ Answer(IF BadValue \in Range(pairs) THEN "value_failed" ELSE "written", o)

(* encodeStringMap and encodeBytesMap: no ranks, no guard.                 *)
encodeStringMap ==
  /\ result = "none"
  /\ Types[type].kind = "string"
  /\ \E o \in typedSorted :
       Answer(IF BadValue \in Range(pairs) THEN "value_failed" ELSE "written", o)

-----------------------------------------------------------------------------
(* decodeMap: the i-th key as it comes out of its bytes, and the two       *)
(* checks.  A big integer comes back as an object of its own, a zero one   *)
(* as nil.                                                                 *)

RECURSIVE decoded(_, _)
decoded(i, v) ==
  CASE v.kind = "bigint" ->
         [v EXCEPT !.obj = IF v.obj = NoObject \/ Heap[v.obj].n = 0 THEN NoObject ELSE i]
    [] v.kind \in {"array", "struct"} ->
         [v EXCEPT !.elems = [j \in DOMAIN v.elems |-> decoded(i, v.elems[j])]]
    [] v.kind = "iface" -> IF v.nil THEN v ELSE [v EXCEPT !.val = decoded(i, v.val)]
    [] OTHER -> v

Collapse(o) == \E i, j \in DOMAIN o : i # j /\ sameKey(decoded(i, o[i]), decoded(j, o[j]))

Duplicate(o) ==
  /\ ~keyTypeHasPointer(type)
  /\ \E i, j \in DOMAIN o : i # j /\ Skeleton(o[i]).buf = Skeleton(o[j]).buf

decodeMap ==
  /\ result = "written"
  /\ Answer(IF Duplicate(order) THEN "duplicate_key"
            ELSE IF Collapse(order) THEN "malformed_op" ELSE "decoded", order)

Next == encodeMap \/ encodeStringMap \/ decodeMap

Spec == Init /\ [][Next]_vars

-----------------------------------------------------------------------------
(* Properties                                                              *)

(* The rank cells, which the Encoder sorts by, refuse the keys the render  *)
(* of the skeleton refuses and order the others as their bytes do, ties    *)
(* included; so does the comparison of the typed map paths (rankWalker,    *)
(* rankLess, cmpLenPrefix against skeletonKeyBytes).                       *)
RanksMirror ==
  \A k, l \in DOMAIN pairs :
    /\ Rank(k).err = Skeleton(k).err
    /\ ~Rank(k).err /\ ~Rank(l).err =>
         Compare(Rank(k).cells, Rank(l).cells)
           = Compare(Skeleton(k).buf, Skeleton(l).buf)
    /\ Types[type].kind = "string" =>
         cmpLenPrefix(k.s, l.s) = Compare(Skeleton(k).buf, Skeleton(l).buf)

(* A zero float, and one behind the dense prefix of an array of the key.   *)
RECURSIVE ZeroWithin(_)
ZeroWithin(v) ==
  CASE v.kind \in {"array", "struct"} -> \E i \in DOMAIN v.elems : ZeroWithin(v.elems[i])
    [] v.kind = "iface" -> ~v.nil /\ ZeroWithin(v.val)
    [] OTHER -> zeroKey(v)

RECURSIVE ZeroElided(_)
ZeroElided(v) ==
  CASE v.kind = "array" -> \/ \E i \in DOMAIN v.elems :
                                i > densePrefix(v.elems) /\ ZeroWithin(v.elems[i])
                           \/ \E i \in DOMAIN v.elems : ZeroElided(v.elems[i])
    [] v.kind = "struct" -> \E i \in DOMAIN v.elems : ZeroElided(v.elems[i])
    [] v.kind = "iface" -> ~v.nil /\ ZeroElided(v.val)
    [] OTHER -> FALSE

(* The order of a written map is the only one its pairs can be written in, *)
(* whatever order Go hands them out in.  In stable mode it is that of any  *)
(* other placement of the objects too, and a key Go takes for the same,    *)
(* with the other sign of a zero, has the same skeleton, a zero in an      *)
(* elided tail excepted (encodeMap, keyPtrSeq, the stable guard).          *)
OrderDecided ==
  result \in {"written", "decoded"} =>
    /\ \A p \in Placements : Cardinality(Sorted(p)) = 1
    /\ \E p \in Placements : Sorted(p) = {order}
    /\ stable => /\ \A p \in Placements : Sorted(p) = {order}
                 /\ \A i \in DOMAIN order, k \in Keys[type] :
                      sameKey(k, order[i]) /\ ~ZeroElided(order[i]) =>
                        Skeleton(k).buf = Skeleton(order[i]).buf

(* Keys that only the Decoder cannot tell apart: nil and zero big integers *)
(* have one spelling.                                                      *)
Coincide(k, l) ==
  /\ "bigint" \in kindsOf(type)
  /\ Skeleton(k).buf = Skeleton(l).buf

(* A map the Encoder wrote is never refused for its keys: no two of them   *)
(* have one skeleton where that means a duplicate, and they do not         *)
(* collapse into one in Go's map, zero big integers excepted (decodeMap).  *)
OwnKeysTaken ==
  /\ result # "duplicate_key"
  /\ result = "malformed_op" =>
       \E i, j \in DOMAIN order : i # j /\ Coincide(order[i], order[j])

=============================================================================
