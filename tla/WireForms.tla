----------------------------- MODULE WireForms -----------------------------
(***************************************************************************)
(* The spelling of numbers, slice views and blobs on the wire, and its     *)
(* reading.  A number is an argument: a selector and a payload of no, 1,   *)
(* 2, 4 or 8 bytes; a payload is kept here as the number its bytes spell.  *)
(* Every step writes one item and reads it back, or reads a token that no  *)
(* Writer may have written.                                                *)
(***************************************************************************)
EXTENDS Integers, Sequences, FiniteSetsExt

CONSTANTS
  argInlineMax,    \* 11: the largest number a selector carries itself
  B1, B2, B4, B8,  \* 2^8, 2^16, 2^32, 2^64
  extArgMinLen,    \* 9: the bytes of the least number behind 2^64 - 1
  Bad,             \* the result of a refused token
  Nil,             \* the nil *big.Int
  Numbers,         \* the numbers written, unsigned,
  Signed,          \*   signed
  BigNumbers,      \*   and of any size
  Payloads,        \* payloads of the tokens that are only read
  Lengths,         \* lengths, offsets and capacities of views
  Bodies,          \* what blobs hold, as sequences of bytes
  MaxExt           \* the reader's limit for the length of an ext argument

Word  == 0 .. B8 - 1
Int64 == - (B8 \div 2) .. B8 \div 2 - 1

ASSUME WidthAssumption ==
  /\ argInlineMax \in Nat /\ B1 \in Nat /\ B2 \in Nat /\ B4 \in Nat /\ B8 \in Nat
  /\ argInlineMax < B1 - 1 /\ B1 < B2 /\ B2 < B4 /\ B4 < B8 /\ B8 % 2 = 0
ASSUME InputAssumption ==
  /\ Bad \notin Int /\ Nil \notin Int /\ Bad # Nil
  /\ Numbers \subseteq Word /\ Signed \subseteq Int64 /\ Lengths \subseteq Word
  /\ Payloads \subseteq Nat /\ Bodies \subseteq Seq(0 .. B1 - 1)

VARIABLES
  kind,    \* what the last step did
  input,   \* what it wrote
  token,   \* the token on the wire
  result   \* what the Reader made of it

vars == <<kind, input, token, result>>

---------------------------------------------------------------------------
(* Arguments.                                                              *)
argU8  == argInlineMax + 1
argU16 == argInlineMax + 2
argU32 == argInlineMax + 3
argU64 == argInlineMax + 4
argExt == argInlineMax + 5

argFormLoose(n) ==
  IF n <= argInlineMax THEN n ELSE IF n <= B1 THEN argU8
  ELSE IF n < B2 THEN argU16 ELSE IF n < B4 THEN argU32 ELSE argU64

argForm(n) ==
  IF n <= argInlineMax THEN n ELSE IF n < B1 THEN argU8
  ELSE IF n < B2 THEN argU16 ELSE IF n < B4 THEN argU32 ELSE argU64

(* argWidth: how many payloads a form has.                                 *)
argWidth(form) ==
  IF form = argU8 THEN B1 ELSE IF form = argU16 THEN B2
  ELSE IF form = argU32 THEN B4 ELSE IF form = argU64 THEN B8 ELSE 1

(* The payload is the low bytes of n.                                      *)
writeArg(n) == [form |-> argForm(n), payload |-> n % argWidth(argForm(n))]

(* The least number that needs the form.                                   *)
LeastAny(form) == IF form = argU8 THEN argInlineMax + 1 ELSE 0
Least(form) ==
  IF form = argU8 THEN argInlineMax + 1 ELSE IF form = argU16 THEN B1
  ELSE IF form = argU32 THEN B2 ELSE B4

argPayload(a) ==
  IF a.form <= argInlineMax THEN a.form
  ELSE IF a.form <= argU64 /\ a.payload >= Least(a.form) THEN a.payload
  ELSE Bad

(* A token stands before another one in the order of its bytes.            *)
Before(a, b) ==
  \/ a.form < b.form
  \/ a.form = b.form /\ a.payload < b.payload

(* uint64(n<<1) ^ uint64(n>>63), and back.                                 *)
zigzag(n) ==
  IF n < 0 THEN B8 - 1 - ((2 * n) % B8) ELSE (2 * n) % B8

unzigzag(u) ==
  IF u % 2 = 1 THEN - (u \div 2) - 1 ELSE u \div 2

ReadInt(a) == IF argPayload(a) = Bad THEN Bad ELSE unzigzag(argPayload(a))

---------------------------------------------------------------------------
(* Big integers: the zigzag image as an argument, or behind the last word  *)
(* in the ext form with the length of its bytes; nil is written as 0.      *)
zigzagBig(n)   == IF n < 0 THEN 2 * (-n) - 1 ELSE 2 * n
unzigzagBig(u) == IF u % 2 = 1 THEN - (u \div 2) - 1 ELSE u \div 2

(* How many numbers k bytes spell.                                         *)
Power[k \in Nat] == IF k = 0 THEN 1 ELSE B1 * Power[k - 1]

ByteLen(u) == Min({k \in 1 .. MaxExt : u < Power[k]})

(* The limit of the reader is a word, and no number that is written has    *)
(* more bytes than it allows.                                              *)
ASSUME BigAssumption ==
  /\ extArgMinLen \in Nat \ {0} /\ Power[extArgMinLen - 1] = B8 /\ MaxExt \in Word
  /\ \A v \in BigNumbers : v \in Int /\ zigzagBig(v) < Power[MaxExt]

Small(n) == [form |-> writeArg(n).form, payload |-> writeArg(n).payload, len |-> writeArg(0)]

WriteBigint(v) ==
  LET u == zigzagBig(IF v = Nil THEN 0 ELSE v)
  IN  IF u < B8 THEN Small(u)
      ELSE [form |-> argExt, payload |-> u, len |-> writeArg(ByteLen(u))]

readExtArg(t) ==
  LET n == argPayload(t.len)
  IN  IF n = Bad \/ n < extArgMinLen \/ n > MaxExt \/ t.payload < Power[n - 1] THEN Bad
      ELSE t.payload

ReadBigint(t) ==
  IF t.form = 0 THEN Nil
  ELSE IF t.form # argExt THEN ReadInt(t)
  ELSE IF readExtArg(t) = Bad THEN Bad ELSE unzigzagBig(readExtArg(t))

---------------------------------------------------------------------------
(* Views of a record of L elements, in the three forms.                    *)
WriteViewFull           == [form |-> 0, off |-> 0, len |-> 0, cap |-> 0]
WriteView(off, len)     == [form |-> 1, off |-> off, len |-> len, cap |-> 0]
WriteView3(off, len, c) == [form |-> 2, off |-> off, len |-> len, cap |-> c]

(* writeView of the encoder, and the way of encodeFreshSlice and           *)
(* encodeFreshBlob, whose record is the slice's own array.                 *)
ViewOf(v, L) ==
  IF v.off = 0 /\ v.len = v.cap /\ v.len = L THEN WriteViewFull
  ELSE IF v.cap = v.len THEN WriteView(v.off, v.len)
  ELSE WriteView3(v.off, v.len, v.cap)

FreshView(len, L) == IF len = L THEN WriteViewFull ELSE WriteView3(0, len, L)

Sum64(a, b) == (a + b) % B8

validateViewNoLen(v, L) ==
  /\ Sum64(v.off, v.cap) >= v.off
  /\ Sum64(v.off, v.len) <= Sum64(v.off, v.cap)
  /\ Sum64(v.off, v.cap) <= L

validateView(v, L) ==
  /\ Sum64(v.off, v.len) >= v.off
  /\ Sum64(v.off, v.cap) >= v.off
  /\ Sum64(v.off, v.len) <= Sum64(v.off, v.cap)
  /\ Sum64(v.off, v.cap) <= L

ViewRead(t, L) ==
  [off |-> IF t.form = 0 THEN 0 ELSE t.off,
   len |-> IF t.form = 0 THEN L ELSE t.len,
   cap |-> IF t.form = 0 THEN L ELSE IF t.form = 1 THEN t.len ELSE t.cap]

ReadView(t, L) ==
  LET v == ViewRead(t, L)
  IN  IF \/ ~validateView(v, L)
         \/ (t.form = 1 /\ v.off = 0 /\ v.len = L)
         \/ (t.form = 2 /\ v.cap = v.len)
      THEN Bad ELSE v

---------------------------------------------------------------------------
(* Blobs: the header has the length and the dense prefix, and the bytes of *)
(* the prefix follow.                                                      *)
denseBytes(b) == Max({0} \cup {i \in DOMAIN b : b[i] # 0})

WriteBlob(b) == [L |-> Len(b), E |-> denseBytes(b), bytes |-> SubSeq(b, 1, denseBytes(b))]

(* The body of a BinaryMarshaler: all of its bytes follow.                 *)
WriteBinary(b) == [L |-> Len(b), E |-> denseBytes(b), bytes |-> b]

(* What the Reader takes: the value, and the bytes it left behind.         *)
ReadBlob(t) ==
  [value |-> [i \in 1 .. t.L |-> IF i <= t.E THEN t.bytes[i] ELSE 0],
   left  |-> SubSeq(t.bytes, t.E + 1, Len(t.bytes))]

---------------------------------------------------------------------------
Init == kind = "none" /\ input = 0 /\ token = writeArg(0) /\ result = 0

Step(k, i, t, r) == kind' = k /\ input' = i /\ token' = t /\ result' = r

Views == [off : Lengths, len : Lengths, cap : Lengths]

Args == [form : 0 .. argExt, payload : Payloads]

WriteUint   == \E n \in Numbers : Step("uint", n, writeArg(n), argPayload(writeArg(n)))
WriteInt    == \E n \in Signed :
  Step("int", n, writeArg(zigzag(n)), ReadInt(writeArg(zigzag(n))))
PutBigint   == \E v \in BigNumbers \cup {Nil} :
  Step("bigint", v, WriteBigint(v), ReadBigint(WriteBigint(v)))
PutView     == \E v \in Views, L \in Lengths :
  /\ v.len <= v.cap /\ v.off + v.cap <= L
  /\ Step("view", [v |-> v, L |-> L], ViewOf(v, L), ReadView(ViewOf(v, L), L))
PutFreshView == \E n \in Lengths, L \in Lengths :
  /\ n <= L
  /\ Step("view", [v |-> [off |-> 0, len |-> n, cap |-> L], L |-> L],
          FreshView(n, L), ReadView(FreshView(n, L), L))
PutBlob     == \E b \in Bodies : Step("blob", b, WriteBlob(b), ReadBlob(WriteBlob(b)))
PutBinary   == \E b \in Bodies : Step("binary", b, WriteBinary(b), ReadBlob(WriteBinary(b)))

GetArg == \E a \in Args :
  a.payload < argWidth(a.form) /\ Step("getarg", 0, a, argPayload(a))
GetBigint == \E a \in Args, l \in Args :
  /\ l.payload < argWidth(l.form)
  /\ IF a.form = argExt THEN argPayload(l) \in Int => a.payload < Power[Min({argPayload(l), MaxExt})]
     ELSE a.payload < argWidth(a.form) /\ l = writeArg(0)
  /\ LET t == [form |-> a.form, payload |-> a.payload, len |-> l]
     IN  Step("getbigint", 0, t, ReadBigint(t))
GetView == \E t \in [form : 0 .. 2, off : Lengths, len : Lengths, cap : Lengths], L \in Lengths :
  /\ (t.form = 0 => t.off = 0 /\ t.len = 0) /\ (t.form < 2 => t.cap = 0)
  /\ Step("getview", L, t, ReadView(t, L))

Next ==
  \/ WriteUint \/ WriteInt \/ PutBigint \/ PutView \/ PutFreshView \/ PutBlob \/ PutBinary
  \/ GetArg \/ GetBigint \/ GetView

Spec == Init /\ [][Next]_vars

---------------------------------------------------------------------------
(* What is written is read as what it was: every number of 64 bits and     *)
(* every larger one (a nil *big.Int and 0 are one value), every view of    *)
(* the record the reader has, in whichever way the encoder chose its form, *)
(* and every blob, to its last byte.  The body of a BinaryMarshaler is a   *)
(* blob written whole: one that ends in zero bytes leaves them behind.     *)
WordsBack == kind \in {"uint", "int"} => result = input
BigsBack  == kind = "bigint" => result = IF input = 0 THEN Nil ELSE input
ViewsBack == kind = "view" => result = input.v
BlobsBack ==
  kind = "blob" \/ (kind = "binary" /\ denseBytes(input) = Len(input)) =>
    result.value = input /\ result.left = <<>>

RoundTrip == WordsBack /\ BigsBack /\ ViewsBack /\ BlobsBack

(* A value has one spelling: of all tokens the Reader takes only the one   *)
(* the Writer would have written.                                          *)
OneArg    == kind = "getarg" /\ result # Bad => token = writeArg(result)
OneBigint == kind = "getbigint" /\ result # Bad => token = WriteBigint(result)
OneView   == kind = "getview" /\ result # Bad => token = ViewOf(result, input)

OneSpelling == OneArg /\ OneBigint /\ OneView

(* A view that is taken lies in its record, however its sums overflow.     *)
ViewInside ==
  kind = "getview" /\ result # Bad =>
    /\ result.len <= result.cap
    /\ result.off + result.cap <= input

(* Arguments stand in the order of their numbers when their bytes are      *)
(* compared, which the canonical order of map keys counts on.              *)
ArgOrdered ==
  [][kind = "uint" /\ kind' = "uint" => (input < input' <=> Before(token, token'))]_vars
=============================================================================
