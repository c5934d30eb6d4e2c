---------------------------- MODULE DecodeBudgets ----------------------------
(***************************************************************************)
(* What a codecDecoder charges a value: depth, nodes, map pairs, backing   *)
(* lengths, and one counter of bytes for the input read and the memory     *)
(* derived from it.  A value is charged along three legs, each a Decoder   *)
(* of its own over the same stream:                                        *)
(*   kept     materialized, by batches of elements and flat structs        *)
(*   plain    materialized, by one decodeBody frame for each part          *)
(*   skipped  the target lacks the field, skipValue walks over it          *)
(*                                                                         *)
(* A value is the tree of its tokens: a kind, the bytes and lengths its    *)
(* tokens state, and its parts.  An argument takes one byte.  A word has   *)
(* the values 0 .. Word - 1 (2^64 in the code), an int half of them.       *)
(***************************************************************************)
EXTENDS Integers, SequencesExt, FiniteSetsExt

CONSTANTS
  Streams,     \* sequences of values
  Limits,      \* records [depth, nodes, bytes, pairs, len] of positive ints
  Descs,       \* dynamic type -> [nodes, deep, bytes] of its descriptor
  Word

ASSUME LimitsAssumption ==
  /\ Word \in Nat
  /\ \A l \in Limits : \A f \in DOMAIN l : l[f] \in 1 .. Word \div 2 - 1

MaxInt == Word \div 2 - 1
Legs == {"kept", "plain", "skipped"}

VARIABLES
  limits,   \* SetLimits, before the first value
  stream,
  decoders, \* leg -> its reader and the codecDecoder of its last value
  value,    \* the last value
  before,   \* the Decoders before it
  count     \* values decoded

vars == <<limits, stream, decoders, value, before, count>>

-----------------------------------------------------------------------------
(* A codecDecoder: the reader's position, descriptors and their count, the *)
(* counters of the value, and why it failed.  `real` is the memory it made *)
(* and `bulk` the longest run of bytes it asked the reader for.            *)
Fresh ==
  [pos |-> 0, known |-> {}, descNodes |-> 0, start |-> 0,
   depth |-> 0, nodes |-> 0, alloc |-> 0, real |-> 0, bulk |-> 0, why |-> "ok"]

newBudgetDecoder(d) ==
  [d EXCEPT !.start = d.pos, !.depth = 0, !.nodes = 0, !.alloc = 0,
            !.real = 0, !.bulk = 0]

Fail(d, why) == [d EXCEPT !.why = why]
Then(d, Step(_)) == IF d.why = "ok" THEN Step(d) ELSE d
Each(parts, d, Step(_, _)) ==
  FoldLeft(LAMBDA e, v : IF e.why = "ok" THEN Step(v, e) ELSE e, d, parts)

Took(d, n) == [d EXCEPT !.pos = @ + n]
readN(d, n) == [Took(d, n) EXCEPT !.bulk = Max({@, n})]

used(d) == d.pos - d.start + d.alloc
checkBytes(d) == IF used(d) > limits.bytes THEN Fail(d, "bytes") ELSE d
remainingBytes(d) == Max({0, limits.bytes - used(d)})

(* (mutant: a product beyond the word is not noticed) *)
chargeAllocWrapped(d, l, es) ==
  LET n == (l * es) % Word
  IN  IF used(d) > limits.bytes \/ n > limits.bytes - used(d) THEN Fail(d, "bytes")
      ELSE [d EXCEPT !.alloc = @ + n, !.real = @ + l * es]

chargeAlloc(d, l, es) ==
  LET n == (l * es) % Word
  IN  IF \/ es # 0 /\ n \div es # l
         \/ used(d) > limits.bytes
         \/ n > limits.bytes - used(d)
      THEN Fail(d, "bytes")
      ELSE [d EXCEPT !.alloc = @ + n, !.real = @ + l * es]

Nodes(d, n) ==
  IF d.nodes + n > limits.nodes THEN Fail(d, "nodes") ELSE [d EXCEPT !.nodes = @ + n]

chargeValueBody(d) ==
  IF d.depth + 1 > limits.depth THEN Fail(d, "depth")
  ELSE Then(Nodes([d EXCEPT !.depth = @ + 1], 1), checkBytes)

Left(d, depth) == [d EXCEPT !.depth = depth]

-----------------------------------------------------------------------------
(* Tokens of the wire layer.                                               *)

(* A literal interned before travels as a REF; a new one is charged        *)
(* against counts of the Reader, not of the value.                         *)
ReadDesc(d, type) ==
  IF type \in d.known THEN Took(d, 1)
  ELSE IF Descs[type].deep > limits.depth THEN Fail(d, "desc_depth")
  ELSE IF d.descNodes + Descs[type].nodes > limits.nodes THEN Fail(d, "desc_nodes")
  ELSE [Took(d, Descs[type].bytes) EXCEPT
          !.known = @ \cup {type}, !.descNodes = @ + Descs[type].nodes]

(* The length of a string that travels as a REF.                           *)
REF == -1

(* readStringLit and readExtArg: the stated length is looked at first.     *)
Gated(d, n, rem) == IF n > rem THEN Fail(d, "bytes") ELSE readN(d, n)

ReadStringBudgeted(d, v, rem) ==
  IF v.n = REF THEN Took(d, 1) ELSE Gated(Took(d, 1), v.n, rem)

ReadString(d, v) == ReadStringBudgeted(d, v, Word)

ReadBigint(d, v, rem) ==
  IF v.n = 0 THEN Took(d, 1)
  ELSE LET e == Took(d, 2) IN Gated(e, v.n, rem)

(* ReadBlobHeader and ReadArrayHeader with checkBudget, then checkLen.     *)
ReadHeader(d, L) ==
  IF L > limits.len THEN Fail(Took(d, 2), "length")
  ELSE IF L > MaxInt THEN Fail(Took(d, 2), "nodes")
  ELSE Took(d, 2)

-----------------------------------------------------------------------------
(* Shapes that choose the path.                                            *)

RECURSIVE Hops(_)
Hops(v) == IF v.k = "named" THEN 1 + Hops(v.parts[1]) ELSE 0
RECURSIVE derefNamed(_)
derefNamed(v) == IF v.k = "named" THEN derefNamed(v.parts[1]) ELSE v

allPrim(v) == \A f \in ToSet(v.parts) : f.k \in {"int", "bool", "string"}

(* A pointer to an interface whose dynamic type travels as a literal.      *)
OpensLiteral(v, d) ==
  LET x == v.parts[1] IN x.k = "iface" /\ x.type \notin d.known
OpensRef(v, d) ==
  LET x == v.parts[1] IN x.k = "iface" /\ x.type \in d.known

-----------------------------------------------------------------------------
(* Materializing.                                                          *)

RECURSIVE decodeBody(_, _, _)

elemBudget(d, hops) == Then(Nodes(d, hops + 1), checkBytes)

decodePrimElems(parts, hops, d) ==
  IF d.depth + 1 + hops > limits.depth THEN Fail(d, "depth")
  ELSE Each(parts, d,
            LAMBDA v, e : Then(elemBudget(e, hops), LAMBDA b : Took(b, derefNamed(v).n)))

decodeElemFrame(leg, v, d) ==
  Then(FoldLeft(LAMBDA e, h : Then(Nodes(e, 1), checkBytes), d, [h \in 1 .. Hops(v) |-> h]),
       LAMBDA e : decodeBody(leg, derefNamed(v), e))

(* (mutant: a batch charges the elements, not what names them) *)
decodeElemsUnnamed(leg, parts, d) ==
  IF parts = <<>> THEN d
  ELSE IF leg = "plain" THEN Each(parts, d, LAMBDA v, e : decodeBody(leg, v, e))
  ELSE IF derefNamed(parts[1]).k = "int" THEN decodePrimElems(parts, 0, d)
  ELSE Each(parts, d, LAMBDA v, e : decodeElemFrame(leg, v, e))

decodeElems(leg, parts, d) ==
  IF parts = <<>> THEN d
  ELSE IF leg = "plain" THEN Each(parts, d, LAMBDA v, e : decodeBody(leg, v, e))
  ELSE IF derefNamed(parts[1]).k = "int" THEN decodePrimElems(parts, Hops(parts[1]), d)
  ELSE Each(parts, d, LAMBDA v, e : decodeElemFrame(leg, v, e))

decodeFlatStruct(parts, d) ==
  Each(parts, d, LAMBDA f, e :
    IF e.depth + 1 > limits.depth THEN Fail(e, "depth")
    ELSE Then(elemBudget(e, 0), LAMBDA b :
           CASE f.k = "int"    -> Took(b, f.n)
             [] f.k = "bool"   -> Took(b, 1)
             [] f.k = "string" -> Then(ReadString(b, f), checkBytes)))

decodeStruct(leg, v, d) ==
  LET e == Took(d, 1)
  IN  IF leg = "kept" /\ allPrim(v) THEN decodeFlatStruct(v.parts, e)
      ELSE Each(v.parts, e, LAMBDA f, b : decodeBody(leg, f, b))

decodeBlob(v, d) ==
  LET Made(e)   == chargeAlloc(e, v.L, 1)
      Filled(e) == checkBytes(readN(e, v.n))
  IN  Then(Then(Then(ReadHeader(d, v.L), Made), Filled), LAMBDA e : Took(e, 1))

decodeSlice(leg, v, d) ==
  LET Made(e)   == chargeAlloc(e, v.L, v.es)
      Filled(e) == decodeElems(leg, v.parts, e)
  IN  Then(Then(Then(ReadHeader(d, v.L), Made), Filled), LAMBDA e : Took(e, 1))

decodeArray(leg, v, d) ==
  Then(ReadHeader(d, v.L), LAMBDA e : decodeElems(leg, v.parts, e))

PairsStated(v, d) == IF v.L > limits.pairs THEN Fail(d, "pairs") ELSE d

(* `L` pairs are stated; the stream may end before they do.                *)
PairsRead(v, d) == IF 2 * v.L > Len(v.parts) THEN Fail(d, "truncated") ELSE d

decodeMap(leg, v, d) ==
  LET Made(e)   == chargeAlloc(e, v.L, v.es)
      Filled(e) == Each(v.parts, e, LAMBDA x, b : decodeBody(leg, x, b))
  IN  Then(Then(Then(PairsStated(v, Took(d, 1)), Made), Filled),
           LAMBDA e : PairsRead(v, e))

decodePointer(leg, v, d) ==
  IF OpensLiteral(v, d)
  THEN Then(ReadDesc(d, v.parts[1].type), LAMBDA e : decodeBody(leg, v.parts[1].parts[1], e))
  ELSE decodeBody(leg, v.parts[1], d)

resolveIface(leg, v, d) ==
  Then(ReadDesc(d, v.type), LAMBDA e : decodeBody(leg, v.parts[1], e))

(* A coder's values are decoded by the codecDecoder it is called from.     *)
decodeSub(leg, v, d) == decodeBody(leg, v, Took(d, 1))

coderBody(leg, v, d) ==
  CASE v.k = "coder"  -> Each(v.parts, d, LAMBDA x, e : decodeSub(leg, x, e))
    [] v.k = "time"   -> Then(ReadString(Took(d, 3), v), checkBytes)
    [] v.k = "binary" ->
         LET Read(e) == checkBytes(readN(e, v.n))
             Made(e) == chargeAlloc(e, v.L, 1)
         IN  Then(Then(ReadHeader(d, v.L), Read), Made)

decodeCoderInto(leg, v, d) ==
  Then(Then(elemBudget(d, 0), LAMBDA e : coderBody(leg, v, e)), checkBytes)

Content(leg, v, d) ==
  CASE v.k = "named"  -> decodeBody(leg, v.parts[1], d)
    [] v.k = "int"    -> Took(d, v.n)
    [] v.k \in {"bool", "repeat"} -> Took(d, 1)
    [] v.k = "string" -> Then(ReadStringBudgeted(d, v, remainingBytes(d)), checkBytes)
    [] v.k = "big"    -> Then(ReadBigint(d, v, remainingBytes(d)), checkBytes)
    [] v.k = "blob"   -> decodeBlob(v, d)
    [] v.k = "slice"  -> decodeSlice(leg, v, d)
    [] v.k = "array"  -> decodeArray(leg, v, d)
    [] v.k = "map"    -> decodeMap(leg, v, d)
    [] v.k = "struct" -> decodeStruct(leg, v, d)
    [] v.k = "ptr"    -> decodePointer(leg, v, d)
    [] v.k = "iface"  -> resolveIface(leg, v, d)
    [] v.k \in {"coder", "time", "binary"} -> decodeCoderInto(leg, v, d)

decodeBody(leg, v, d) ==
  Left(Then(chargeValueBody(d), LAMBDA e : Content(leg, v, e)), d.depth)

-----------------------------------------------------------------------------
(* Skipping.                                                               *)

RECURSIVE skipValue(_, _)

skipStringToken(v, d) ==
  IF v.n = REF THEN Took(d, 1)
  ELSE Then(ReadStringBudgeted(d, v, remainingBytes(d)), checkBytes)

skipBlob(v, d) ==
  Then(ReadHeader(d, v.L), LAMBDA e : checkBytes(Took(readN(e, v.n), 1)))

(* (mutant: the view behind the elements is left) *)
skipElemsOnly(v, d, view) ==
  LET Walk(e) == Each(v.parts, e, LAMBDA x, b : skipValue(x, b))
  IN  Then(Then(ReadHeader(d, v.L), Walk), checkBytes)

skipElems(v, d, view) ==
  LET Walk(e) == Each(v.parts, e, LAMBDA x, b : skipValue(x, b))
  IN  Then(Then(ReadHeader(d, v.L), Walk), LAMBDA e : checkBytes(Took(e, view)))

(* The tag is a REF: the body it names follows; a literal is left to the   *)
(* interface behind the pointer.                                           *)
skipPointer(v, d) ==
  IF OpensRef(v, d) THEN skipValue(v.parts[1].parts[1], Took(d, 1))
  ELSE skipValue(v.parts[1], d)

SkipContent(v, d) ==
  CASE v.k = "named"  -> skipValue(v.parts[1], d)
    [] v.k = "int"    -> Took(d, v.n)
    [] v.k \in {"bool", "repeat"} -> Took(d, 1)
    [] v.k = "string" -> skipStringToken(v, d)
    [] v.k = "big"    -> Then(ReadBigint(d, v, remainingBytes(d)), checkBytes)
    [] v.k = "blob"   -> skipBlob(v, d)
    [] v.k = "slice"  -> skipElems(v, d, 1)
    [] v.k = "array"  -> skipElems(v, d, 0)
    [] v.k = "map"    ->
         LET Walk(e) == Each(v.parts, e, LAMBDA x, b : skipValue(x, b))
             Read(e) == Then(PairsRead(v, e), checkBytes)
         IN  Then(Then(PairsStated(v, Took(d, 1)), Walk), Read)
    [] v.k = "struct" ->
         Then(Each(v.parts, Took(d, 1), LAMBDA x, b : skipValue(x, b)), checkBytes)
    [] v.k = "ptr"    -> skipPointer(v, d)
    [] v.k = "iface"  -> Then(ReadDesc(d, v.type), LAMBDA e : skipValue(v.parts[1], e))
    [] v.k = "time"   -> skipStringToken(v, Took(d, 3))
    [] v.k \in {"coder", "binary"} -> Fail(d, "unknown_name")

skipValue(v, d) ==
  Left(Then(chargeValueBody(d), LAMBDA e : SkipContent(v, e)), d.depth)

-----------------------------------------------------------------------------
(* The root is a struct with the value as its only field.                  *)
Root(v) == [k |-> "struct", parts |-> <<v>>]

(* (mutant: the counters of the last value are kept) *)
DecodeOn(leg, v, d) ==
  LET e == IF d.nodes = 0 THEN newBudgetDecoder(Took(d, 1)) ELSE Took(d, 1)
      Field(r) == Then(chargeValueBody(r), LAMBDA b : skipValue(v, Took(b, 1)))
  IN  IF leg = "skipped" THEN Left(Field(e), 0) ELSE decodeBody(leg, Root(v), e)

(* codecStreamDecoder.Decode: the descriptor of the root, then the value.  *)
Decode(leg, v, d) ==
  LET e == newBudgetDecoder(Took(d, 1))
      Field(r) == Then(chargeValueBody(r), LAMBDA b : skipValue(v, Took(b, 1)))
  IN  IF leg = "skipped" THEN Left(Field(e), 0) ELSE decodeBody(leg, Root(v), e)

NoValue == [k |-> "none"]

Init ==
  /\ limits \in Limits /\ stream \in Streams
  /\ decoders = [leg \in Legs |-> Fresh] /\ before = decoders
  /\ value = NoValue /\ count = 0

DecodeNext ==
  /\ count < Len(stream)
  /\ value' = stream[count + 1]
  /\ decoders' = [leg \in Legs |->
       Then(decoders[leg], LAMBDA d : Decode(leg, value', d))]
  /\ before' = decoders /\ count' = count + 1
  /\ UNCHANGED <<limits, stream>>

Next == DecodeNext

Spec == Init /\ [][Next]_vars
----------------------------------------------------------------------------
(* Properties                                                              *)

Leaf(v) == "parts" \notin DOMAIN v

RECURSIVE Within(_)
Within(v) == {v} \cup (IF Leaf(v) THEN {} ELSE UNION {Within(x) : x \in ToSet(v.parts)})

(* Places of the value that a program can see: not the frames of names,    *)
(* nor of an interface that a pointer opens.                               *)
RECURSIVE Places(_)
Places(v) ==
  LET own  == IF v.k = "named" THEN 0 ELSE 1
      next == IF v.k = "ptr" /\ v.parts[1].k = "iface" THEN v.parts[1].parts ELSE v.parts
  IN  IF Leaf(v) THEN own ELSE FoldLeft(LAMBDA n, x : n + Places(x), own, next)

RECURSIVE Nesting(_)
Nesting(v) ==
  LET own  == IF v.k = "named" THEN 0 ELSE 1
      next == IF v.k = "ptr" /\ v.parts[1].k = "iface" THEN v.parts[1].parts ELSE v.parts
  IN  IF Leaf(v) \/ next = <<>> THEN own
      ELSE own + Max({Nesting(x) : x \in ToSet(next)})

(* Strings that are read whatever their length is: flat structs, adapters. *)
ReadUngated(v) ==
  \E x \in Within(v) :
    \/ x.k = "time"
    \/ x.k = "struct" /\ allPrim(x) /\ \E f \in ToSet(x.parts) : f.k = "string"

(* chargeAlloc before every make: the memory derived from a value never    *)
(* exceeds MaxBytes, in a value that fails neither; nothing is read as a   *)
(* block that the limits do not cover.  A value that is accepted is no     *)
(* deeper and has no more places than the limits, whatever path it took;   *)
(* the tokens that follow its last check of bytes are one scalar and a     *)
(* view for each open slice.                                               *)
BudgetsHeld ==
  \A leg \in Legs :
    LET d == decoders[leg] r == Root(value) IN
    value # NoValue =>
      /\ d.real =< limits.bytes
      /\ ~ReadUngated(r) => d.bulk =< Max({limits.bytes, limits.len})
      /\ d.why = "ok" =>
           /\ leg # "skipped" => Places(r) =< limits.nodes /\ Nesting(r) =< limits.depth
           /\ d.pos - d.start + d.real =< limits.bytes + 3 + Nesting(r)

(* Lists of elements that are named and are no numbers: decodeElemFrame    *)
(* charges the names' nodes and not their depth.                           *)
FramesNamed(v) ==
  \E x \in Within(v) :
    /\ x.k \in {"slice", "array"} /\ x.parts # <<>>
    /\ x.parts[1].k = "named" /\ derefNamed(x.parts[1]).k # "int"

Accepted(leg) == decoders[leg].why = "ok"

(* Batches and flat structs charge what a frame for each part charges: the *)
(* same values are accepted, at the same cost; a list of named elements    *)
(* that are no numbers may be accepted at a smaller depth.                 *)
PathsAgree ==
  value # NoValue =>
    /\ Accepted("plain") => Accepted("kept")
    /\ Accepted("kept") /\ Accepted("plain") => decoders["kept"] = decoders["plain"]
    /\ Accepted("kept") /\ ~Accepted("plain") =>
         \/ before["plain"].why # "ok"
         \/ FramesNamed(value) /\ decoders["plain"].why = "depth"

(* Evolution: a value that is accepted is accepted by a target that lacks  *)
(* the field too, and skipValue ends where decodeBody ends, with the same  *)
(* descriptors read; only a coder's frame costs less.  Exempt are coders   *)
(* that cannot be skipped, FramesNamed, pointers to interfaces (one frame  *)
(* more or less), and values whose last tokens are past MaxBytes.          *)
PointsToIface(v) == \E x \in Within(v) : x.k = "ptr" /\ x.parts[1].k = "iface"
Coded(v) == \E x \in Within(v) : x.k \in {"coder", "binary"}

SkipAccepts ==
  LET d == decoders["kept"] s == decoders["skipped"] IN
  /\ /\ value # NoValue /\ before["skipped"].why = "ok" /\ d.why = "ok"
     /\ ~Coded(value) /\ ~FramesNamed(value) /\ ~PointsToIface(value)
     /\ used(d) =< limits.bytes
     => s.why = "ok"
  /\ d.why = "ok" /\ s.why = "ok" =>
       /\ s.pos = d.pos /\ s.known = d.known /\ s.descNodes = d.descNodes
       /\ s.alloc = 0
       /\ ~PointsToIface(value) => s.nodes =< d.nodes

(* The counters open at the value's start: a value is accepted and charged *)
(* as it would be at the start of a stream whose descriptors are known.    *)
(* The nodes of descriptors are not counted by value, see the README.      *)
ValueScope ==
  \A leg \in Legs :
    LET d     == decoders[leg]
        alone == Decode(leg, value, [Fresh EXCEPT !.known = before[leg].known])
    IN  value # NoValue /\ before[leg].why = "ok" /\ d.why # "desc_nodes" =>
          /\ d.why = alone.why
          /\ d.pos - d.start = alone.pos - alone.start
          /\ d.nodes = alone.nodes /\ d.alloc = alone.alloc /\ d.depth = alone.depth
=============================================================================
