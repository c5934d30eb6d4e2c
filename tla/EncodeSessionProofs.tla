------------------------- MODULE EncodeSessionProofs -------------------------
(***************************************************************************)
(* What TLAPS proves of EncodeSession, for every set of coders and every   *)
(* budgets: the types, that the Encoder knows its running coders, that the *)
(* byte budget is held against the stream, that only whole values reach    *)
(* the writer, and that errors stick.                                      *)
(***************************************************************************)
EXTENDS EncodeSession, SequenceTheorems, FiniteSetTheorems, TLAPS

(* The stack: frames, the first of them an Encode, every other Encode      *)
(* called by a coder, and no type's coder twice.                           *)
KindAt(s, k) == {i \in DOMAIN s : s[i].k = k}
Count(s, k)  == Cardinality(KindAt(s, k))
Types(s)     == {s[i].t : i \in KindAt(s, "coder")}

Shape(s) ==
  /\ s \in Seq(Frames)
  /\ s # <<>> => s[1].k = "enc"
  /\ \A i \in 2 .. Len(s) : s[i].k = "enc" => s[i - 1].k = "coder"
  /\ \A i, j \in KindAt(s, "coder") : s[i].t = s[j].t => i = j

Shaped == Shape(stack)

(* Every counter is what the stack says; a body whose bytes are not all    *)
(* there is on the stack or was left behind, unless an error broke the     *)
(* stream.                                                                 *)
Counted ==
  /\ inCoder = Count(stack, "coder") /\ activeCodrs = Types(stack)
  /\ depth = Count(stack, "body") + leaked
  /\ missing >= Count(stack, "body") + leaked
  /\ broken = NoError => missing = Count(stack, "body") + leaked

(* While an Encode runs, the stream encoder and the facade have the same   *)
(* error.                                                                  *)
Layered == stack # <<>> => err = broken

(* The counters behind bytesOut never run apart; nothing is written before *)
(* the header.                                                             *)
Bytes ==
  /\ streamStart <= flushed + buf
  /\ ~started => /\ flushed = 0 /\ buf = 0 /\ sink = 0 /\ streamStart = 0
                 /\ stack = <<>>
  /\ err = NoError /\ started => flushed + HeaderLen = sink + streamStart

IInv == TypeOK /\ Shaped /\ Counted /\ Layered /\ Bytes

-----------------------------------------------------------------------------
(* Frames and stacks.                                                      *)

LEMMA FrameFacts ==
  /\ \A f \in Frames : f.k \in {"enc", "body", "coder"} /\ (f.k = "coder" => f.t \in CoderTypes)
  /\ \A f \in Frames, a \in Stages :
       LET g == [f EXCEPT !.at = a] IN g \in Frames /\ g.k = f.k /\ g.t = f.t /\ g.at = a
  /\ \A a \in Stages : EncFrame(a) \in Frames /\ EncFrame(a).k = "enc"
  /\ BodyFrame \in Frames /\ BodyFrame.k = "body"
  /\ \A t \in CoderTypes :
       CoderFrame(t) \in Frames /\ CoderFrame(t).k = "coder" /\ CoderFrame(t).t = t
<1>1. \A f \in Frames : f.k \in {"enc", "body", "coder"} /\ (f.k = "coder" => f.t \in CoderTypes)
  BY DEF Frames, Enc, Body, Coder
<1>2. ASSUME NEW f \in Frames, NEW a \in Stages
      PROVE  LET g == [f EXCEPT !.at = a] IN g \in Frames /\ g.k = f.k /\ g.t = f.t /\ g.at = a
  <2>1. CASE f \in Enc
    BY <2>1 DEF Frames, Enc
  <2>2. CASE f \in Body
    BY <2>2 DEF Frames, Body
  <2>3. CASE f \in Coder
    BY <2>3 DEF Frames, Coder
  <2>. QED
    BY <2>1, <2>2, <2>3 DEF Frames
<1>3. \A a \in Stages : EncFrame(a) \in Frames /\ EncFrame(a).k = "enc"
  BY DEF EncFrame, Frames, Enc
<1>4. BodyFrame \in Frames /\ BodyFrame.k = "body"
  BY DEF BodyFrame, Frames, Body, Stages
<1>5. \A t \in CoderTypes :
        CoderFrame(t) \in Frames /\ CoderFrame(t).k = "coder" /\ CoderFrame(t).t = t
  BY DEF CoderFrame, Frames, Coder, Stages
<1>. QED
  BY <1>1, <1>2, <1>3, <1>4, <1>5

LEMMA CountFacts ==
  ASSUME NEW s \in Seq(Frames), NEW k
  PROVE  /\ Len(s) \in Nat /\ DOMAIN s = 1 .. Len(s)
         /\ KindAt(s, k) \subseteq 1 .. Len(s)
         /\ IsFiniteSet(KindAt(s, k)) /\ Count(s, k) \in Nat
<1>1. Len(s) \in Nat /\ DOMAIN s = 1 .. Len(s)
  OBVIOUS
<1>2. KindAt(s, k) \in SUBSET (1 .. Len(s))
  BY <1>1 DEF KindAt
<1>3. IsFiniteSet(1 .. Len(s))
  BY <1>1, FS_Interval
<1>4. IsFiniteSet(KindAt(s, k))
  BY <1>2, <1>3, FS_Subset
<1>. QED
  BY <1>1, <1>2, <1>4, FS_CardinalityType DEF Count

(* Pushing a frame.                                                        *)
LEMMA PushFacts ==
  ASSUME NEW s \in Seq(Frames), NEW f \in Frames
  PROVE  /\ Append(s, f) \in Seq(Frames) /\ Append(s, f) # <<>>
         /\ Len(Append(s, f)) = Len(s) + 1
         /\ \A i \in 1 .. Len(s) : Append(s, f)[i] = s[i]
         /\ Append(s, f)[Len(s) + 1] = f
         /\ \A k : KindAt(Append(s, f), k) =
                     KindAt(s, k) \cup (IF f.k = k THEN {Len(s) + 1} ELSE {})
         /\ \A k : Count(Append(s, f), k) = Count(s, k) + (IF f.k = k THEN 1 ELSE 0)
<1>. DEFINE t == Append(s, f)
            n == Len(s)
<1>1. /\ t \in Seq(Frames) /\ t # <<>> /\ Len(t) = n + 1 /\ n \in Nat
      /\ \A i \in 1 .. n : t[i] = s[i]
      /\ t[n + 1] = f
  BY AppendProperties
<1>2. DOMAIN t = 1 .. n + 1 /\ DOMAIN s = 1 .. n
  BY <1>1, CountFacts
<1>. HIDE DEF t
<1>3. ASSUME NEW k
      PROVE  /\ KindAt(t, k) = KindAt(s, k) \cup (IF f.k = k THEN {n + 1} ELSE {})
             /\ Count(t, k) = Count(s, k) + (IF f.k = k THEN 1 ELSE 0)
  <2>1. KindAt(t, k) = KindAt(s, k) \cup (IF f.k = k THEN {n + 1} ELSE {})
    BY <1>1, <1>2 DEF KindAt
  <2>2. IsFiniteSet(KindAt(s, k)) /\ n + 1 \notin KindAt(s, k) /\ Count(s, k) \in Nat
    BY <1>1, CountFacts
  <2>3. CASE f.k = k
    BY <2>1, <2>2, <2>3, FS_AddElement DEF Count
  <2>4. CASE f.k # k
    BY <2>1, <2>2, <2>4 DEF Count
  <2>. QED
    BY <2>1, <2>3, <2>4
<1>. QED
  BY <1>1, <1>3 DEF t

(* Changing the stage of the innermost frame.                              *)
LEMMA MarkFacts ==
  ASSUME NEW s \in Seq(Frames), s # <<>>, NEW a \in Stages
  PROVE  LET t == [s EXCEPT ![Len(s)].at = a]
         IN  /\ t \in Seq(Frames) /\ Len(t) = Len(s)
             /\ \A i \in 1 .. Len(s) : t[i].k = s[i].k /\ t[i].t = s[i].t
             /\ \A k : KindAt(t, k) = KindAt(s, k)
<1>. DEFINE n == Len(s)
            g == [s[n] EXCEPT !.at = a]
            t == [s EXCEPT ![n] = g]
<1>1. n \in Nat /\ n >= 1 /\ DOMAIN s = 1 .. n
  BY EmptySeq, CountFacts
<1>2. s[n] \in Frames
  BY <1>1, ElementOfSeq
<1>3. g \in Frames /\ g.k = s[n].k /\ g.t = s[n].t
  BY <1>2, FrameFacts
<1>. HIDE DEF g
<1>4. t \in Seq(Frames) /\ Len(t) = n /\ \A i \in 1 .. n : t[i] = IF i = n THEN g ELSE s[i]
  BY <1>1, <1>3, ExceptSeq
<1>5. DOMAIN t = 1 .. n
  BY <1>4, CountFacts
<1>. HIDE DEF t
<1>6. \A i \in 1 .. n : t[i].k = s[i].k /\ t[i].t = s[i].t
  BY <1>3, <1>4
<1>7. \A k : KindAt(t, k) = KindAt(s, k)
  BY <1>1, <1>5, <1>6 DEF KindAt
<1>. QED
  BY <1>4, <1>6, <1>7 DEF t, g

(* Cutting the stack down to its first n frames.                           *)
LEMMA CutFacts ==
  ASSUME NEW s, Shape(s), NEW n \in 0 .. Len(s)
  PROVE  LET t == SubSeq(s, 1, n)
         IN  /\ Shape(t) /\ Len(t) = n
             /\ \A i \in 1 .. n : t[i] = s[i]
             /\ \A k : Count(t, k) =
                         Count(s, k) - Cardinality({j \in KindAt(s, k) : j >= n + 1})
             /\ Types(t) = Types(s) \ {s[j].t : j \in {i \in KindAt(s, "coder") : i >= n + 1}}
<1>. DEFINE t == SubSeq(s, 1, n)
<1>1. s \in Seq(Frames) /\ n \in Nat /\ Len(s) \in Nat /\ n <= Len(s) /\ DOMAIN s = 1 .. Len(s)
  BY CountFacts DEF Shape
<1>2. t \in Seq(Frames) /\ Len(t) = n /\ \A i \in 1 .. n : t[i] = s[i]
  <2>1. \A i \in 1 .. n : s[i] \in Frames
    BY <1>1, ElementOfSeq
  <2>2. /\ t \in Seq(Frames)
        /\ Len(t) = IF 1 <= n THEN n - 1 + 1 ELSE 0
        /\ \A i \in 1 .. n - 1 + 1 : t[i] = s[1 + i - 1]
    BY <1>1, <2>1, SubSeqProperties
  <2>. HIDE DEF t
  <2>. QED
    BY <1>1, <2>2
<1>3. DOMAIN t = 1 .. n
  BY <1>2, CountFacts
<1>. HIDE DEF t
<1>4. \A k : KindAt(t, k) = KindAt(s, k) \ {j \in KindAt(s, k) : j >= n + 1}
  BY <1>1, <1>2, <1>3 DEF KindAt
<1>5. ASSUME NEW k
      PROVE  Count(t, k) = Count(s, k) - Cardinality({j \in KindAt(s, k) : j >= n + 1})
  <2>. DEFINE S == KindAt(s, k)
              U == {j \in S : j >= n + 1}
              T == KindAt(t, k)
  <2>1. IsFiniteSet(S) /\ IsFiniteSet(T) /\ IsFiniteSet(U)
    BY <1>1, <1>2, CountFacts, FS_Subset
  <2>2. T \cup U = S /\ T \cap U = {}
    BY <1>4
  <2>3. Cardinality(T) \in Nat /\ Cardinality(U) \in Nat
    BY <2>1, FS_CardinalityType
  <2>4. Cardinality(T \cup U) = Cardinality(T) + Cardinality(U) - Cardinality(T \cap U)
    BY <2>1, FS_Union
  <2>5. Cardinality(S) = Cardinality(T) + Cardinality(U) - 0
    BY <2>2, <2>4, FS_EmptySet
  <2>. QED
    BY <2>3, <2>5 DEF Count
<1>6. Types(t) = Types(s) \ {s[j].t : j \in {i \in KindAt(s, "coder") : i >= n + 1}}
  BY <1>1, <1>2, <1>3, <1>4 DEF Types, Shape, KindAt
<1>7. Shape(t)
  <2>1. t # <<>> => t[1].k = "enc"
    BY <1>1, <1>2, EmptySeq DEF Shape
  <2>2. \A i \in 2 .. n : t[i].k = "enc" => t[i - 1].k = "coder"
    BY <1>1, <1>2 DEF Shape
  <2>3. \A i, j \in KindAt(t, "coder") : t[i].t = t[j].t => i = j
    BY <1>1, <1>2, <1>3, <1>4 DEF Shape, KindAt
  <2>. QED
    BY <1>2, <2>1, <2>2, <2>3 DEF Shape
<1>. QED
  BY <1>2, <1>5, <1>6, <1>7 DEF t

LEMMA PushShape ==
  ASSUME NEW s, Shape(s), NEW f \in Frames,
         s = <<>> => f.k = "enc",
         s # <<>> /\ f.k = "enc" => s[Len(s)].k = "coder",
         f.k = "coder" => f.t \notin Types(s)
  PROVE  /\ Shape(Append(s, f)) /\ Append(s, f) # <<>>
         /\ \A k : Count(Append(s, f), k) = Count(s, k) + (IF f.k = k THEN 1 ELSE 0)
         /\ Types(Append(s, f)) = Types(s) \cup (IF f.k = "coder" THEN {f.t} ELSE {})
<1>. DEFINE t == Append(s, f)
            n == Len(s)
<1>1. /\ t \in Seq(Frames) /\ t # <<>> /\ Len(t) = n + 1 /\ n \in Nat
      /\ \A i \in 1 .. n : t[i] = s[i]
      /\ t[n + 1] = f
      /\ \A k : KindAt(t, k) = KindAt(s, k) \cup (IF f.k = k THEN {n + 1} ELSE {})
      /\ \A k : Count(t, k) = Count(s, k) + (IF f.k = k THEN 1 ELSE 0)
      /\ \A k : KindAt(s, k) \subseteq 1 .. n
  BY PushFacts, CountFacts DEF Shape
<1>. HIDE DEF t
<1>2. Types(t) = Types(s) \cup (IF f.k = "coder" THEN {f.t} ELSE {})
  BY <1>1 DEF Types
<1>3. t[1].k = "enc"
  <2>1. CASE s = <<>>
    BY <1>1, <2>1
  <2>2. CASE s # <<>>
    <3>1. n >= 1
      BY <2>2, EmptySeq DEF Shape
    <3>. QED
      BY <1>1, <2>2, <3>1 DEF Shape
  <2>. QED
    BY <2>1, <2>2
<1>4. ASSUME NEW i \in 2 .. n + 1, t[i].k = "enc"
      PROVE  t[i - 1].k = "coder"
  <2>1. CASE i <= n
    BY <1>1, <1>4, <2>1 DEF Shape
  <2>2. CASE i = n + 1
    <3>1. n >= 1 /\ s # <<>> /\ t[n] = s[n]
      BY <1>1, <2>2, EmptySeq
    <3>. QED
      BY <1>1, <1>4, <2>2, <3>1
  <2>. QED
    BY <1>1, <2>1, <2>2
<1>5. ASSUME NEW i \in KindAt(t, "coder"), NEW j \in KindAt(t, "coder"), t[i].t = t[j].t
      PROVE  i = j
  BY <1>1, <1>5 DEF Shape, Types
<1>. QED
  BY <1>1, <1>2, <1>3, <1>4, <1>5 DEF Shape, t

LEMMA MarkShape ==
  ASSUME NEW s, Shape(s), s # <<>>, NEW a \in Stages
  PROVE  LET t == [s EXCEPT ![Len(s)].at = a]
         IN  /\ Shape(t) /\ t # <<>> /\ t[Len(t)].k = s[Len(s)].k
             /\ \A k : Count(t, k) = Count(s, k)
             /\ Types(t) = Types(s)
<1>. DEFINE t == [s EXCEPT ![Len(s)].at = a]
            n == Len(s)
<1>1. /\ t \in Seq(Frames) /\ Len(t) = n /\ n \in Nat /\ n >= 1
      /\ \A i \in 1 .. n : t[i].k = s[i].k /\ t[i].t = s[i].t
      /\ \A k : KindAt(t, k) = KindAt(s, k)
      /\ \A k : KindAt(s, k) \subseteq 1 .. n
  BY MarkFacts, CountFacts, EmptySeq DEF Shape
<1>. HIDE DEF t
<1>2. \A k : Count(t, k) = Count(s, k)
  BY <1>1 DEF Count
<1>3. Types(t) = Types(s)
  BY <1>1 DEF Types
<1>4. t # <<>>
  BY <1>1, EmptySeq
<1>5. Shape(t)
  BY <1>1 DEF Shape
<1>6. t[Len(t)].k = s[n].k
  BY <1>1
<1>. QED
  BY <1>2, <1>3, <1>4, <1>5, <1>6 DEF t

LEMMA PopShape ==
  ASSUME NEW s, Shape(s), s # <<>>
  PROVE  LET t == SubSeq(s, 1, Len(s) - 1)
             f == s[Len(s)]
         IN  /\ Shape(t) /\ f \in Frames
             /\ Len(t) = Len(s) - 1
             /\ \A k : Count(t, k) = Count(s, k) - (IF f.k = k THEN 1 ELSE 0)
             /\ Types(t) = Types(s) \ (IF f.k = "coder" THEN {f.t} ELSE {})
<1>. DEFINE n == Len(s)
            f == s[n]
            t == SubSeq(s, 1, n - 1)
            Gone(k) == {j \in KindAt(s, k) : j >= n - 1 + 1}
<1>1. n \in Nat /\ n >= 1 /\ DOMAIN s = 1 .. n /\ f \in Frames
  BY EmptySeq, CountFacts, ElementOfSeq DEF Shape
<1>2. \A k : Gone(k) = IF f.k = k THEN {n} ELSE {}
  BY <1>1 DEF KindAt
<1>3. \A k : Cardinality(Gone(k)) = IF f.k = k THEN 1 ELSE 0
  BY <1>2, FS_EmptySet, FS_Singleton
<1>4. n - 1 \in 0 .. Len(s)
  BY <1>1
<1>5. /\ Shape(t) /\ Len(t) = n - 1
      /\ \A k : Count(t, k) = Count(s, k) - Cardinality(Gone(k))
      /\ Types(t) = Types(s) \ {s[j].t : j \in Gone("coder")}
  BY <1>4, CutFacts
<1>. HIDE DEF t, Gone
<1>6. {s[j].t : j \in Gone("coder")} = IF f.k = "coder" THEN {f.t} ELSE {}
  BY <1>2
<1>. QED
  BY <1>1, <1>3, <1>5, <1>6 DEF t

-----------------------------------------------------------------------------
(* The invariant.                                                          *)

LEMMA ErrorFacts ==
  /\ Breaks \subseteq Errors /\ {"io", "io_of_broken", "panic"} \subseteq Errors
  /\ NoError \notin Errors
  BY DEF Errors, Breaks, NoError

LEMMA TopFacts ==
  ASSUME Shaped, stack # <<>>
  PROVE  /\ Len(stack) \in Nat /\ Len(stack) >= 1 /\ DOMAIN stack = 1 .. Len(stack)
         /\ Top \in Frames /\ Top = stack[Len(stack)]
         /\ 1 \in At("enc")
<1>1. stack \in Seq(Frames) /\ stack[1].k = "enc"
  BY DEF Shaped, Shape
<1>2. Len(stack) \in Nat /\ Len(stack) >= 1 /\ DOMAIN stack = 1 .. Len(stack)
  BY <1>1, EmptySeq, CountFacts
<1>. QED
  BY <1>1, <1>2, ElementOfSeq DEF Top, At

(* An Encode that flushes is the only thing on the stack.                  *)
LEMMA FlushingAlone ==
  ASSUME Shaped, Counted, Flushing
  PROVE  /\ Pop = <<>> /\ At("body") = {}
         /\ Count(stack, "body") = 0 /\ Count(stack, "coder") = 0
<1>1. stack # <<>> /\ Top.k = "enc" /\ inCoder = 0
  BY DEF Flushing, EncodeDone, In
<1>2. Len(stack) \in Nat /\ Len(stack) >= 1 /\ DOMAIN stack = 1 .. Len(stack)
  BY <1>1, TopFacts
<1>3. KindAt(stack, "coder") = {}
  BY <1>1, CountFacts, FS_EmptySet DEF Counted, Count, Shaped, Shape
<1>4. Len(stack) = 1
  <2>1. ASSUME Len(stack) >= 2 PROVE FALSE
    <3>1. stack[Len(stack) - 1].k = "coder"
      BY <1>1, <1>2, <2>1 DEF Shaped, Shape, Top
    <3>. QED
      BY <1>2, <1>3, <2>1, <3>1 DEF KindAt
  <2>. QED
    BY <1>2, <2>1
<1>5. KindAt(stack, "body") = {}
  BY <1>1, <1>2, <1>4 DEF KindAt, Top
<1>6. Pop = <<>>
  BY <1>4, SubSeqEmpty DEF Pop
<1>. QED
  BY <1>3, <1>5, <1>6, FS_EmptySet DEF Count, KindAt, At

(* The empty stack.                                                        *)
LEMMA EmptyFacts ==
  /\ Shape(<<>>) /\ \A k : KindAt(<<>>, k) = {} /\ Count(<<>>, k) = 0
  /\ Types(<<>>) = {}
<1>1. <<>> \in Seq(Frames) /\ Len(<<>>) = 0
  BY EmptySeq
<1>2. DOMAIN <<>> = {}
  BY <1>1
<1>3. \A k : KindAt(<<>>, k) = {}
  BY <1>2 DEF KindAt
<1>. QED
  BY <1>1, <1>3, FS_EmptySet DEF Shape, Count, Types

LEMMA InitIInv == Init => IInv
<1>. SUFFICES ASSUME Init PROVE IInv
  OBVIOUS
<1>1. TypeOK
  <2>1. stack \in Seq(Frames)
    BY EmptySeq DEF Init
  <2>. QED
    BY <2>1 DEF Init, TypeOK, Results
<1>2. Shaped /\ Counted /\ Layered /\ Bytes
  BY EmptyFacts DEF Init, Shaped, Counted, Layered, Bytes
<1>. QED
  BY <1>1, <1>2 DEF IInv

(* Steps that leave the stack and what is counted by it alone.             *)
LEMMA QuietStep ==
  ASSUME IInv, EncodeRefused \/ SetLimits \/ UNCHANGED vars
  PROVE  IInv'
<1>1. CASE EncodeRefused
  <2>1. UNCHANGED <<err, nilW, broken, buf, missing, flushed, streamStart, started, sink, depth,
                    nodes, lim, inCoder, activeCodrs, stack, first, leaked>>
    BY <1>1 DEF EncodeRefused, facade, output, budget, coders
  <2>2. ret' \in Results
    BY <1>1 DEF EncodeRefused, IInv, TypeOK, Results
  <2>. QED
    BY <2>1, <2>2 DEF IInv, TypeOK, Shaped, Counted, Layered, Bytes
<1>2. CASE SetLimits
  BY <1>2 DEF SetLimits, facade, output, coders, history,
              IInv, TypeOK, Shaped, Counted, Layered, Bytes
<1>3. CASE UNCHANGED vars
  BY <1>3 DEF vars, facade, output, budget, coders, history,
              IInv, TypeOK, Shaped, Counted, Layered, Bytes
<1>. QED
  BY <1>1, <1>2, <1>3

(* An Encode that begins: nothing is on the stack, or a coder.             *)
LEMMA OpenedFacts ==
  ASSUME IInv, UserCode, err = NoError, NEW n \in Nat, Opened(n)
  PROVE  /\ buf' \in Nat /\ streamStart' \in Nat /\ started' = TRUE
         /\ streamStart' <= flushed + buf'
         /\ flushed + HeaderLen = sink + streamStart'
<1>1. CASE started
  <2>1. UNCHANGED <<started, streamStart>> /\ buf' = buf + n
    BY <1>1 DEF Opened, Write
  <2>. QED
    BY <1>1, <2>1 DEF IInv, TypeOK, Bytes, HeaderLen
<1>2. CASE ~started
  <2>1. stack = <<>> /\ flushed = 0 /\ buf = 0 /\ sink = 0 /\ started \in BOOLEAN
    BY <1>2 DEF IInv, Bytes, TypeOK
  <2>2. inCoder = 0
    BY <2>1, EmptyFacts DEF IInv, Counted
  <2>. QED
    BY <1>2, <2>1, <2>2 DEF Opened, HeaderLen
<1>. QED
  BY <1>1, <1>2 DEF IInv, TypeOK

LEMMA BeginStep ==
  ASSUME IInv, Encode \/ EncodeNil
  PROVE  IInv'
<1>1. PICK n \in Nat, a \in Stages :
        /\ Opened(n) /\ stack' = Append(stack, EncFrame(a))
        /\ UserCode /\ err = NoError /\ broken = NoError
        /\ UNCHANGED <<facade, broken, missing, flushed, sink, budget, coders, history>>
  <2>1. CASE Encode
    BY <2>1 DEF Encode, Admitted, Stages
  <2>2. CASE EncodeNil
    BY <2>2 DEF EncodeNil, Admitted, Stages
  <2>. QED
    BY <2>1, <2>2
<1>2. /\ buf' \in Nat /\ streamStart' \in Nat /\ started' = TRUE
      /\ streamStart' <= flushed + buf'
      /\ flushed + HeaderLen = sink + streamStart'
  BY <1>1, OpenedFacts
<1>3. EncFrame(a) \in Frames /\ EncFrame(a).k = "enc"
  BY FrameFacts
<1>4. stack # <<>> => stack[Len(stack)].k = "coder"
  BY <1>1 DEF UserCode, Top
<1>5. /\ Shape(stack') /\ stack' # <<>>
      /\ \A k : Count(stack', k) = Count(stack, k) + (IF "enc" = k THEN 1 ELSE 0)
      /\ Types(stack') = Types(stack)
  <2>. DEFINE f == EncFrame(a)
  <2>1. /\ f \in Frames /\ (stack = <<>> => f.k = "enc")
        /\ (stack # <<>> /\ f.k = "enc" => stack[Len(stack)].k = "coder")
        /\ (f.k = "coder" => f.t \notin Types(stack))
        /\ f.k = "enc" /\ f.k # "coder" /\ Shape(stack)
    BY <1>3, <1>4 DEF IInv, Shaped
  <2>. HIDE DEF f
  <2>2. /\ Shape(Append(stack, f)) /\ Append(stack, f) # <<>>
        /\ \A k : Count(Append(stack, f), k) = Count(stack, k) + (IF f.k = k THEN 1 ELSE 0)
        /\ Types(Append(stack, f)) = Types(stack) \cup (IF f.k = "coder" THEN {f.t} ELSE {})
    BY <2>1, PushShape
  <2>3. stack' = Append(stack, f)
    BY <1>1 DEF f
  <2>. QED
    BY <2>1, <2>2, <2>3
<1>6. Count(stack', "body") = Count(stack, "body") /\ Count(stack', "coder") = Count(stack, "coder")
  <2>1. Count(stack, "body") \in Nat /\ Count(stack, "coder") \in Nat
    BY CountFacts DEF IInv, Shaped, Shape
  <2>. QED
    BY <1>5, <2>1
<1>7. UNCHANGED <<err, nilW, broken, missing, flushed, sink, depth, nodes, lim, inCoder, activeCodrs,
                  ret, first, leaked>>
  BY <1>1 DEF facade, budget, coders, history
<1>8. TypeOK'
  BY <1>2, <1>5, <1>7 DEF IInv, TypeOK, Shape
<1>9. Shaped' /\ Counted' /\ Layered'
  BY <1>1, <1>5, <1>6, <1>7 DEF IInv, Shaped, Counted, Layered
<1>10. Bytes'
  BY <1>1, <1>2, <1>7 DEF Bytes
<1>. QED
  BY <1>8, <1>9, <1>10 DEF IInv

LEMMA EncodeFailsStep ==
  ASSUME IInv, EncodeFails
  PROVE  IInv'
<1>1. PICK e \in Breaks : FailTo(Len(stack) + 1, e)
  BY DEF EncodeFails, Breaks
<1>2. /\ buf' \in Nat /\ streamStart' \in Nat /\ started' = TRUE
      /\ streamStart' <= flushed + buf'
  BY OpenedFacts DEF EncodeFails, Admitted
<1>3. stack' = stack
  <2>1. stack \in Seq(Frames) /\ Len(stack) \in Nat
    BY CountFacts DEF IInv, Shaped, Shape
  <2>2. SubSeq(stack, 1, Len(stack)) = stack
    BY <2>1, SubSeqFull
  <2>. QED
    BY <1>1, <2>1, <2>2 DEF FailTo
<1>4. broken' = e /\ err' = e /\ ret' = e /\ first' \in {first, e} /\ e \in Errors /\ e # NoError
  BY <1>1, ErrorFacts DEF FailTo, Note
<1>5. UNCHANGED <<nilW, missing, flushed, sink, depth, nodes, lim, inCoder, activeCodrs, leaked>>
  BY DEF EncodeFails, budget, coders
<1>6. TypeOK'
  BY <1>2, <1>3, <1>4, <1>5 DEF IInv, TypeOK, Results
<1>7. Shaped' /\ Counted' /\ Layered' /\ Bytes'
  BY <1>2, <1>3, <1>4, <1>5 DEF IInv, Shaped, Counted, Layered, Bytes
<1>. QED
  BY <1>6, <1>7 DEF IInv

(* The body of a frame's value: the frame is marked, the body pushed.      *)
LEMMA BodyStep ==
  ASSUME IInv, encodeBody
  PROVE  IInv'
<1>. DEFINE s == [stack EXCEPT ![Len(stack)].at = Inside]
<1>1. stack # <<>> /\ Inside \in Stages
  BY DEF encodeBody, BodyDue, In, Inside, Stages
<1>2. Shape(s) /\ s # <<>> /\ (\A k : Count(s, k) = Count(stack, k)) /\ Types(s) = Types(stack)
  BY <1>1, MarkShape DEF IInv, Shaped
<1>. HIDE DEF s
<1>3. BodyFrame \in Frames /\ BodyFrame.k = "body"
  BY FrameFacts
<1>4. /\ Shape(Append(s, BodyFrame)) /\ Append(s, BodyFrame) # <<>>
      /\ \A k : Count(Append(s, BodyFrame), k) = Count(s, k) + (IF "body" = k THEN 1 ELSE 0)
      /\ Types(Append(s, BodyFrame)) = Types(s)
  BY <1>2, <1>3, PushShape
<1>5. stack' = Append(s, BodyFrame)
  BY DEF encodeBody, s
<1>6. /\ Count(stack, "body") \in Nat /\ Count(stack, "coder") \in Nat
      /\ Count(stack', "body") = Count(stack, "body") + 1
      /\ Count(stack', "coder") = Count(stack, "coder")
  <2>1. Count(stack, "body") \in Nat /\ Count(stack, "coder") \in Nat
    BY CountFacts DEF IInv, Shaped, Shape
  <2>. QED
    BY <1>2, <1>4, <1>5, <2>1
<1>7. /\ UNCHANGED <<err, nilW, broken, flushed, streamStart, started, sink, lim, inCoder, activeCodrs,
                     ret, first, leaked>>
      /\ nodes' = nodes + 1 /\ depth' = depth + 1 /\ buf' = buf + 1 /\ missing' = missing + 1
  BY DEF encodeBody, facade, coders, history, Write
<1>8. TypeOK'
  BY <1>4, <1>5, <1>7 DEF IInv, TypeOK, Shape
<1>9. Shaped' /\ Counted'
  <2>. DEFINE n == Count(stack, "body")
              m == Count(stack', "body")
  <2>1. /\ n \in Nat /\ leaked \in Nat /\ missing \in Nat /\ m = n + 1
        /\ depth = n + leaked /\ missing >= n + leaked
        /\ broken = NoError => missing = n + leaked
    BY <1>6 DEF IInv, TypeOK, Counted
  <2>. HIDE DEF n, m
  <2>2. /\ depth' = m + leaked' /\ missing' >= m + leaked'
        /\ broken' = NoError => missing' = m + leaked'
    BY <1>7, <2>1
  <2>3. inCoder' = Count(stack', "coder") /\ activeCodrs' = Types(stack')
    BY <1>2, <1>4, <1>5, <1>6, <1>7 DEF IInv, Counted
  <2>. QED
    BY <1>4, <1>5, <2>2, <2>3 DEF Shaped, Counted, m
<1>10. Layered' /\ Bytes'
  <2>1. started /\ err = broken
    BY <1>1 DEF IInv, Bytes, Layered
  <2>2. flushed \in Nat /\ buf \in Nat /\ streamStart \in Nat
    BY DEF IInv, TypeOK
  <2>3. streamStart <= flushed + (buf + 1)
    BY <2>2 DEF IInv, Bytes
  <2>. QED
    BY <1>7, <2>1, <2>3 DEF IInv, Layered, Bytes
<1>. QED
  BY <1>8, <1>9, <1>10 DEF IInv

LEMMA CoderStep ==
  ASSUME IInv, NEW t \in CoderTypes, CoderEncode(t)
  PROVE  IInv'
<1>. DEFINE s == [stack EXCEPT ![Len(stack)].at = "done"]
<1>1. stack # <<>> /\ "done" \in Stages
  BY DEF CoderEncode, CoderDue, In, Stages
<1>2. Shape(s) /\ s # <<>> /\ (\A k : Count(s, k) = Count(stack, k)) /\ Types(s) = Types(stack)
  BY <1>1, MarkShape DEF IInv, Shaped
<1>. HIDE DEF s
<1>3. CoderFrame(t) \in Frames /\ CoderFrame(t).k = "coder" /\ CoderFrame(t).t = t
  BY FrameFacts
<1>4. t \notin Types(s)
  BY <1>2 DEF CoderEncode, IInv, Counted
<1>5. /\ Shape(Append(s, CoderFrame(t))) /\ Append(s, CoderFrame(t)) # <<>>
      /\ \A k : Count(Append(s, CoderFrame(t)), k) = Count(s, k) + (IF "coder" = k THEN 1 ELSE 0)
      /\ Types(Append(s, CoderFrame(t))) = Types(s) \cup {t}
  BY <1>2, <1>3, <1>4, PushShape
<1>6. stack' = Append(s, CoderFrame(t))
  BY DEF CoderEncode, s
<1>7. /\ Count(stack, "body") \in Nat /\ Count(stack, "coder") \in Nat
      /\ Count(stack', "body") = Count(stack, "body")
      /\ Count(stack', "coder") = Count(stack, "coder") + 1
  <2>1. Count(stack, "body") \in Nat /\ Count(stack, "coder") \in Nat
    BY CountFacts DEF IInv, Shaped, Shape
  <2>. QED
    BY <1>2, <1>5, <1>6, <2>1
<1>8. /\ UNCHANGED <<err, nilW, broken, buf, missing, flushed, streamStart, started, sink, depth,
                     nodes, lim, ret, first, leaked>>
      /\ inCoder' = inCoder + 1 /\ activeCodrs' = activeCodrs \cup {t}
  BY DEF CoderEncode, facade, output, budget, history
<1>9. TypeOK'
  BY <1>5, <1>6, <1>8 DEF IInv, TypeOK, Shape
<1>10. Shaped' /\ Counted'
  BY <1>2, <1>5, <1>6, <1>7, <1>8 DEF IInv, TypeOK, Shaped, Counted
<1>11. Layered' /\ Bytes'
  BY <1>1, <1>8 DEF IInv, Layered, Bytes
<1>. QED
  BY <1>9, <1>10, <1>11 DEF IInv

(* Returns without an error: one frame is popped.                          *)
LEMMA PopStep ==
  ASSUME IInv, encodeBodyEnd \/ CoderReturns
  PROVE  IInv'
<1>. DEFINE f == stack[Len(stack)]
            isBody == IF f.k = "body" THEN 1 ELSE 0
            isCoder == IF f.k = "coder" THEN 1 ELSE 0
<1>1. stack # <<>> /\ stack' = Pop /\ Top = f
  BY DEF encodeBodyEnd, CoderReturns, In, Top
<1>2. /\ Shape(stack') /\ f \in Frames
      /\ \A k : Count(stack', k) = Count(stack, k) - (IF f.k = k THEN 1 ELSE 0)
      /\ Types(stack') = Types(stack) \ (IF f.k = "coder" THEN {f.t} ELSE {})
  BY <1>1, PopShape DEF IInv, Shaped, Pop
<1>3. /\ Count(stack, "body") \in Nat /\ Count(stack, "coder") \in Nat
      /\ Count(stack', "body") \in Nat /\ Count(stack', "coder") \in Nat
      /\ Count(stack', "body") = Count(stack, "body") - isBody
      /\ Count(stack', "coder") = Count(stack, "coder") - isCoder
  BY <1>2, CountFacts DEF IInv, Shaped, Shape
<1>4. /\ UNCHANGED <<err, nilW, broken, buf, flushed, streamStart, started, sink, nodes, lim, ret,
                     first, leaked>>
      /\ depth' = depth - isBody /\ missing' = missing - isBody
      /\ inCoder' = inCoder - isCoder
      /\ activeCodrs' = activeCodrs \ (IF f.k = "coder" THEN {f.t} ELSE {})
  <2>1. CASE encodeBodyEnd
    <3>1. f.k = "body"
      BY <1>1, <2>1 DEF encodeBodyEnd, In
    <3>. QED
      BY <2>1, <3>1 DEF encodeBodyEnd, facade, coders, history, IInv, TypeOK
  <2>2. CASE CoderReturns
    <3>1. f.k = "coder"
      BY <1>1, <2>2 DEF CoderReturns, In
    <3>. QED
      BY <1>1, <2>2, <3>1 DEF CoderReturns, facade, output, budget, history, IInv, TypeOK
  <2>. QED
    BY <2>1, <2>2
<1>. HIDE DEF f
<1>5. isBody \in {0, 1} /\ isCoder \in {0, 1}
  OBVIOUS
<1>. HIDE DEF isBody, isCoder
<1>6. /\ depth' = Count(stack', "body") + leaked' /\ inCoder' = Count(stack', "coder")
      /\ missing' >= Count(stack', "body") + leaked'
      /\ broken' = NoError => missing' = Count(stack', "body") + leaked'
      /\ depth' \in Nat /\ inCoder' \in Nat /\ missing' \in Nat
  <2>. DEFINE n == Count(stack, "body")
              m == Count(stack', "body")
              c == Count(stack, "coder")
              d == Count(stack', "coder")
  <2>1. /\ n \in Nat /\ m \in Nat /\ c \in Nat /\ d \in Nat
        /\ leaked \in Nat /\ missing \in Nat /\ m = n - isBody /\ d = c - isCoder
        /\ depth = n + leaked /\ missing >= n + leaked /\ inCoder = c
        /\ broken = NoError => missing = n + leaked
    BY <1>3 DEF IInv, TypeOK, Counted
  <2>. HIDE DEF n, m, c, d
  <2>2. depth' = m + leaked' /\ inCoder' = d
    BY <1>4, <1>5, <2>1
  <2>3. missing' >= m + leaked' /\ (broken' = NoError => missing' = m + leaked')
    BY <1>4, <1>5, <2>1
  <2>4. depth' \in Nat /\ inCoder' \in Nat /\ missing' \in Nat
    BY <1>4, <1>5, <2>1, <2>2, <2>3
  <2>. QED
    BY <2>2, <2>3, <2>4 DEF m, d
<1>7. Counted' /\ Shaped'
  BY <1>2, <1>4, <1>6 DEF IInv, Counted, Shaped
<1>8. TypeOK'
  BY <1>2, <1>4, <1>6 DEF IInv, TypeOK, Shape
<1>9. Layered' /\ Bytes'
  BY <1>1, <1>4 DEF IInv, Layered, Bytes
<1>. QED
  BY <1>7, <1>8, <1>9 DEF IInv

(* The end of an Encode: a nested one, or the outermost with its flush.    *)
LEMMA ReturnStep ==
  ASSUME IInv, EncodeReturns
  PROVE  IInv'
<1>1. stack # <<>> /\ stack' = Pop /\ Top = stack[Len(stack)] /\ Top.k = "enc"
  BY DEF EncodeReturns, EncodeDone, In, Top
<1>2. /\ Shape(stack')
      /\ \A k : Count(stack', k) = Count(stack, k) - (IF Top.k = k THEN 1 ELSE 0)
      /\ Types(stack') = Types(stack) \ (IF Top.k = "coder" THEN {Top.t} ELSE {})
  BY <1>1, PopShape DEF IInv, Shaped, Pop
<1>3. /\ Count(stack', "body") = Count(stack, "body") /\ Count(stack', "coder") = Count(stack, "coder")
      /\ Types(stack') = Types(stack)
  <2>1. Count(stack, "body") \in Nat /\ Count(stack, "coder") \in Nat
    BY CountFacts DEF IInv, Shaped, Shape
  <2>. QED
    BY <1>1, <1>2, <2>1
<1>4. /\ UNCHANGED <<err, nilW, broken, buf, missing, flushed, streamStart, started, sink, depth,
                     nodes, lim, inCoder, activeCodrs, first, leaked>>
      /\ ret' = NoError
  BY DEF EncodeReturns, facade, output, budget, coders
<1>5. TypeOK'
  BY <1>2, <1>4 DEF IInv, TypeOK, Shape, Results
<1>6. Shaped' /\ Counted' /\ Layered' /\ Bytes'
  BY <1>1, <1>2, <1>3, <1>4 DEF IInv, Shaped, Counted, Layered, Bytes
<1>. QED
  BY <1>5, <1>6 DEF IInv

LEMMA FlushStep ==
  ASSUME IInv, FlushTo \/ FlushBroken \/ FlushFails \/ FlushPanics
  PROVE  IInv'
<1>1. Flushing
  BY DEF FlushTo, FlushBroken, FlushFails, FlushPanics
<1>2. /\ stack' = <<>> /\ Count(stack, "body") = 0 /\ Count(stack, "coder") = 0
      /\ inCoder = 0 /\ activeCodrs = {}
  <2>1. /\ Pop = <<>> /\ Count(stack, "body") = 0 /\ Count(stack, "coder") = 0
    BY <1>1, FlushingAlone DEF IInv
  <2>2. KindAt(stack, "coder") = {}
    BY <2>1, CountFacts, FS_EmptySet DEF Count, IInv, Shaped, Shape
  <2>3. Types(stack) = {}
    BY <2>2 DEF Types
  <2>. QED
    BY <2>1, <2>3 DEF FlushTo, FlushBroken, FlushFails, FlushPanics, IInv, Counted
<1>3. started /\ err = broken
  BY <1>1 DEF Flushing, EncodeDone, In, IInv, Bytes, Layered
<1>4. Shaped'
  BY <1>2, EmptyFacts DEF Shaped
<1>5. UNCHANGED <<nilW, broken, missing, started, depth, nodes, lim, inCoder, activeCodrs, leaked>>
  BY DEF FlushTo, FlushBroken, FlushFails, FlushPanics, facade, output, budget, coders
<1>6. Counted'
  BY <1>2, <1>5, EmptyFacts DEF IInv, Counted
<1>7. /\ streamStart <= flushed + buf /\ flushed \in Nat /\ buf \in Nat /\ sink \in Nat
      /\ streamStart \in Nat
      /\ err = NoError => flushed + HeaderLen = sink + streamStart
  BY <1>3 DEF IInv, TypeOK, Bytes
<1>8. /\ flushed' \in Nat /\ buf' \in Nat /\ sink' \in Nat /\ streamStart' \in Nat
      /\ streamStart' <= flushed' + buf'
      /\ err' = NoError => flushed' + HeaderLen = sink' + streamStart'
  <2>1. CASE FlushTo
    <3>1. flushed' = flushed + buf - streamStart /\ streamStart' = 0 /\ sink' = sink + buf /\ buf' = 0
          /\ err' = err
      BY <2>1 DEF FlushTo, bytesOut, facade
    <3>. QED
      BY <1>7, <3>1 DEF HeaderLen
  <2>2. CASE FlushBroken
    BY <1>7, <2>2, ErrorFacts DEF FlushBroken, output, NoError
  <2>3. CASE FlushFails \/ FlushPanics
    <3>1. /\ flushed' = flushed + buf - streamStart /\ streamStart' = 0
          /\ \E n \in 0 .. buf : sink' = sink + n
          /\ buf' = buf /\ err' # NoError
      BY <2>3, ErrorFacts DEF FlushFails, FlushPanics, bytesOut, NoError
    <3>. QED
      BY <1>7, <3>1
  <2>. QED
    BY <2>1, <2>2, <2>3
<1>9. /\ err' \in Errors \cup {NoError} /\ ret' \in Results
      /\ first' \in Errors \cup {NoError} /\ stack' \in Seq(Frames)
  <2>1. err' \in Errors \cup {NoError} /\ ret' \in Results
    BY ErrorFacts DEF FlushTo, FlushBroken, FlushFails, FlushPanics, facade, Results, IInv, TypeOK
  <2>2. first' \in {first, "io", "panic", "io_of_broken"}
    BY DEF FlushTo, FlushBroken, FlushFails, FlushPanics, Note
  <2>. QED
    BY <1>2, <2>1, <2>2, ErrorFacts, EmptySeq DEF IInv, TypeOK
<1>10. TypeOK'
  BY <1>5, <1>8, <1>9 DEF IInv, TypeOK
<1>11. Layered' /\ Bytes'
  BY <1>2, <1>3, <1>5, <1>8 DEF Layered, Bytes
<1>. QED
  BY <1>4, <1>6, <1>10, <1>11 DEF IInv

(* What a return with an error or a panic leaves of the stack.             *)
LEMMA FromFacts ==
  ASSUME Shaped, NEW i \in At("enc")
  PROVE  LET t == SubSeq(stack, 1, i - 1)
         IN  /\ Shape(t) /\ i \in 1 .. Len(stack) /\ stack # <<>> /\ Len(stack) \in Nat
             /\ \A k : /\ Count(t, k) = Count(stack, k) - Cardinality(From(i, k))
                       /\ Count(t, k) \in Nat /\ Count(stack, k) \in Nat
                       /\ Cardinality(From(i, k)) \in Nat
             /\ Types(t) = Types(stack) \ {stack[j].t : j \in From(i, "coder")}
             /\ (i = 1 => t = <<>>)
<1>. DEFINE t == SubSeq(stack, 1, i - 1)
<1>1. stack \in Seq(Frames) /\ Len(stack) \in Nat /\ i \in 1 .. Len(stack)
  BY CountFacts DEF Shaped, Shape, At, KindAt
<1>2. i - 1 \in 0 .. Len(stack) /\ i - 1 + 1 = i
  BY <1>1
<1>3. \A k : {j \in KindAt(stack, k) : j >= i - 1 + 1} = From(i, k)
  BY <1>2 DEF From, At, KindAt
<1>4. /\ Shape(t)
      /\ \A k : Count(t, k) = Count(stack, k) - Cardinality({j \in KindAt(stack, k) : j >= i - 1 + 1})
      /\ Types(t) = Types(stack) \ {stack[j].t : j \in {l \in KindAt(stack, "coder") : l >= i - 1 + 1}}
  BY <1>2, CutFacts DEF Shaped
<1>5. stack # <<>>
  BY <1>1, EmptySeq
<1>6. i = 1 => t = <<>>
  BY SubSeqEmpty
<1>. HIDE DEF t
<1>7. \A k : Count(t, k) \in Nat /\ Count(stack, k) \in Nat
  BY <1>1, <1>4, CountFacts DEF Shape
<1>8. \A k : Cardinality(From(i, k)) \in Nat
  <2>. TAKE k
  <2>1. IsFiniteSet(KindAt(stack, k)) /\ From(i, k) \subseteq KindAt(stack, k)
    BY <1>1, CountFacts DEF From, At, KindAt
  <2>. QED
    BY <2>1, FS_Subset, FS_CardinalityType
<1>. QED
  BY <1>1, <1>3, <1>4, <1>5, <1>6, <1>7, <1>8 DEF t

(* An Encode fails, with all that runs inside it.                          *)
LEMMA FailStep ==
  ASSUME IInv, NEW e \in Breaks, Fail(e, depth), buf' = buf, nodes' \in Nat
  PROVE  IInv'
<1>1. PICK i \in At("enc") :
        /\ FailTo(i, e)
        /\ depth' = depth - Cardinality(From(i, "body"))
        /\ inCoder' = inCoder - Cardinality(From(i, "coder"))
        /\ activeCodrs' = activeCodrs \ {stack[j].t : j \in From(i, "coder")}
  BY DEF Fail, Callers
<1>2. /\ broken' = e /\ err' = e /\ ret' = e /\ first' \in {first, e}
      /\ stack' = SubSeq(stack, 1, i - 1)
      /\ e \in Errors /\ e # NoError
  BY <1>1, ErrorFacts DEF FailTo, Note
<1>3. UNCHANGED <<nilW, missing, flushed, streamStart, started, sink, lim, leaked>>
  BY DEF Fail
<1>4. /\ Shape(stack') /\ stack # <<>>
      /\ \A k : /\ Count(stack', k) = Count(stack, k) - Cardinality(From(i, k))
                /\ Count(stack', k) \in Nat /\ Count(stack, k) \in Nat
                /\ Cardinality(From(i, k)) \in Nat
      /\ Types(stack') = Types(stack) \ {stack[j].t : j \in From(i, "coder")}
  BY <1>2, FromFacts DEF IInv
<1>5. /\ depth' = Count(stack', "body") + leaked' /\ inCoder' = Count(stack', "coder")
      /\ missing' >= Count(stack', "body") + leaked'
      /\ depth' \in Nat /\ inCoder' \in Nat
  <2>. DEFINE n == Count(stack, "body")
              m == Count(stack', "body")
              c == Count(stack, "coder")
              d == Count(stack', "coder")
              x == Cardinality(From(i, "body"))
              y == Cardinality(From(i, "coder"))
  <2>1. /\ n \in Nat /\ m \in Nat /\ c \in Nat /\ d \in Nat /\ x \in Nat /\ y \in Nat
        /\ m = n - x /\ d = c - y
        /\ leaked \in Nat /\ missing \in Nat
        /\ depth = n + leaked /\ missing >= n + leaked /\ inCoder = c
    BY <1>4 DEF IInv, TypeOK, Counted
  <2>2. depth' = depth - x /\ inCoder' = inCoder - y /\ leaked' = leaked /\ missing' = missing
    BY <1>1, <1>3
  <2>. HIDE DEF n, m, c, d, x, y
  <2>3. depth' = m + leaked' /\ inCoder' = d /\ missing' >= m + leaked' /\ depth' \in Nat /\ inCoder' \in Nat
    BY <2>1, <2>2
  <2>. QED
    BY <2>3 DEF m, d
<1>6. activeCodrs' = Types(stack') /\ activeCodrs' \subseteq CoderTypes
  BY <1>1, <1>4 DEF IInv, TypeOK, Counted
<1>7. TypeOK'
  BY <1>2, <1>3, <1>4, <1>5, <1>6 DEF IInv, TypeOK, Shape, Results
<1>8. Shaped' /\ Counted' /\ Layered'
  BY <1>2, <1>4, <1>5, <1>6 DEF Shaped, Counted, Layered
<1>9. started
  BY <1>4 DEF IInv, Bytes
<1>10. Bytes'
  BY <1>2, <1>3, <1>9 DEF IInv, Bytes
<1>. QED
  BY <1>7, <1>8, <1>10 DEF IInv

LEMMA FailSteps ==
  ASSUME IInv,
         \/ encodeBodyOverBudget \/ encodeBodyFails \/ CoderFails
         \/ \E t \in CoderTypes : CoderRecursion(t)
  PROVE  IInv'
<1>1. nodes \in Nat
  BY DEF IInv, TypeOK
<1>2. PICK e \in Breaks : Fail(e, depth) /\ buf' = buf /\ nodes' \in {nodes, nodes + 1}
  BY DEF encodeBodyOverBudget, encodeBodyFails, CoderFails, CoderRecursion, Breaks
<1>. QED
  BY <1>1, <1>2, FailStep

(* A panic on its way out, down to the call of frame i.                    *)
LEMMA UnwoundFacts ==
  ASSUME IInv, NEW i \in At("enc"), Unwound(i),
         UNCHANGED <<nilW, broken, output, budget>>
  PROVE  /\ Shaped' /\ Counted' /\ (i = 1 => stack' = <<>>)
         /\ stack' \in Seq(Frames) /\ stack # <<>>
         /\ inCoder' \in Nat /\ leaked' \in Nat /\ activeCodrs' \subseteq CoderTypes
<1>1. /\ leaked' = leaked + Cardinality(From(i, "body"))
      /\ stack' = SubSeq(stack, 1, i - 1)
      /\ inCoder' = inCoder - Cardinality(From(i, "coder"))
      /\ activeCodrs' = activeCodrs \ {stack[j].t : j \in From(i, "coder")}
      /\ depth' = depth /\ missing' = missing /\ broken' = broken
  BY DEF Unwound, output, budget
<1>2. /\ Shape(stack') /\ stack # <<>> /\ (i = 1 => stack' = <<>>)
      /\ \A k : /\ Count(stack', k) = Count(stack, k) - Cardinality(From(i, k))
                /\ Count(stack', k) \in Nat /\ Count(stack, k) \in Nat
                /\ Cardinality(From(i, k)) \in Nat
      /\ Types(stack') = Types(stack) \ {stack[j].t : j \in From(i, "coder")}
  BY <1>1, FromFacts DEF IInv
<1>3. /\ depth' = Count(stack', "body") + leaked' /\ inCoder' = Count(stack', "coder")
      /\ missing' >= Count(stack', "body") + leaked'
      /\ broken' = NoError => missing' = Count(stack', "body") + leaked'
      /\ leaked' \in Nat /\ inCoder' \in Nat
  <2>. DEFINE n == Count(stack, "body")
              m == Count(stack', "body")
              c == Count(stack, "coder")
              d == Count(stack', "coder")
              x == Cardinality(From(i, "body"))
              y == Cardinality(From(i, "coder"))
  <2>1. /\ n \in Nat /\ m \in Nat /\ c \in Nat /\ d \in Nat /\ x \in Nat /\ y \in Nat
        /\ m = n - x /\ d = c - y
        /\ leaked \in Nat /\ missing \in Nat
        /\ depth = n + leaked /\ missing >= n + leaked /\ inCoder = c
        /\ broken = NoError => missing = n + leaked
    BY <1>2 DEF IInv, TypeOK, Counted
  <2>2. leaked' = leaked + x /\ inCoder' = inCoder - y
    BY <1>1
  <2>. HIDE DEF n, m, c, d, x, y
  <2>3. m + leaked' = n + leaked /\ leaked' \in Nat /\ inCoder' = d
    BY <2>1, <2>2
  <2>4. depth' = m + leaked' /\ missing' >= m + leaked' /\ (broken' = NoError => missing' = m + leaked')
    BY <1>1, <2>1, <2>3
  <2>. QED
    BY <2>1, <2>3, <2>4 DEF m, d
<1>4. activeCodrs' = Types(stack') /\ activeCodrs' \subseteq CoderTypes
  BY <1>1, <1>2 DEF IInv, TypeOK, Counted
<1>. QED
  BY <1>2, <1>3, <1>4 DEF Shaped, Counted, Shape

LEMMA PanicStep ==
  ASSUME IInv, EncodePanics \/ CoderRecovers
  PROVE  IInv'
<1>1. CASE EncodePanics
  <2>1. /\ Unwound(1) /\ UNCHANGED <<nilW, broken, output, budget>>
        /\ err' = "panic" /\ ret' = "panic" /\ first' \in {first, "panic"} /\ stack # <<>>
    BY <1>1 DEF EncodePanics, Note
  <2>2. 1 \in At("enc")
    BY <2>1, TopFacts DEF IInv
  <2>3. /\ Shaped' /\ Counted' /\ stack' = <<>> /\ stack' \in Seq(Frames)
        /\ inCoder' \in Nat /\ leaked' \in Nat /\ activeCodrs' \subseteq CoderTypes
    BY <2>1, <2>2, UnwoundFacts
  <2>4. TypeOK'
    BY <2>1, <2>3, ErrorFacts DEF IInv, TypeOK, Results, output, budget
  <2>5. Layered' /\ Bytes'
    BY <2>1, <2>3, ErrorFacts DEF IInv, Layered, Bytes, output
  <2>. QED
    BY <2>3, <2>4, <2>5 DEF IInv
<1>2. CASE CoderRecovers
  <2>1. PICK i \in At("enc") : Unwound(i)
    BY <1>2 DEF CoderRecovers
  <2>2. ret' = "panic" /\ UNCHANGED <<err, nilW, broken, output, budget, first>>
    BY <1>2 DEF CoderRecovers, facade
  <2>3. /\ Shaped' /\ Counted' /\ stack' \in Seq(Frames) /\ stack # <<>>
        /\ inCoder' \in Nat /\ leaked' \in Nat /\ activeCodrs' \subseteq CoderTypes
    BY <2>1, <2>2, UnwoundFacts
  <2>4. TypeOK'
    BY <2>2, <2>3, ErrorFacts DEF IInv, TypeOK, Results, output, budget
  <2>5. Layered' /\ Bytes'
    BY <2>2, <2>3 DEF IInv, Layered, Bytes, output
  <2>. QED
    BY <2>3, <2>4, <2>5 DEF IInv
<1>. QED
  BY <1>1, <1>2

LEMMA NextIInv == IInv /\ [Next]_vars => IInv'
<1>. SUFFICES ASSUME IInv, [Next]_vars PROVE IInv'
  OBVIOUS
<1>1. CASE EncodeRefused \/ SetLimits \/ UNCHANGED vars
  BY <1>1, QuietStep
<1>2. CASE Encode \/ EncodeNil
  BY <1>2, BeginStep
<1>3. CASE EncodeFails
  BY <1>3, EncodeFailsStep
<1>4. CASE encodeBody
  BY <1>4, BodyStep
<1>5. CASE encodeBodyEnd \/ CoderReturns
  BY <1>5, PopStep
<1>6. CASE \E t \in CoderTypes : CoderEncode(t)
  BY <1>6, CoderStep
<1>7. CASE \/ encodeBodyOverBudget \/ encodeBodyFails \/ CoderFails
           \/ \E t \in CoderTypes : CoderRecursion(t)
  BY <1>7, FailSteps
<1>8. CASE EncodePanics \/ CoderRecovers
  BY <1>8, PanicStep
<1>9. CASE EncodeReturns
  BY <1>9, ReturnStep
<1>10. CASE FlushTo \/ FlushBroken \/ FlushFails \/ FlushPanics
  BY <1>10, FlushStep
<1>. QED
  BY <1>1, <1>2, <1>3, <1>4, <1>5, <1>6, <1>7, <1>8, <1>9, <1>10 DEF Next

LEMMA Invariance == Spec => []IInv
  BY InitIInv, NextIInv, PTL DEF Spec

-----------------------------------------------------------------------------
(* What follows.                                                           *)

(* Types, for every set of coders and every budgets.                       *)
THEOREM TypeCorrectness == Spec => []TypeOK
<1>1. IInv => TypeOK
  BY DEF IInv
<1>. QED
  BY Invariance, <1>1, PTL

(* The Encoder knows its running coders after every way out of one.        *)
THEOREM CoderCounting == Spec => []CodersExact
<1>1. IInv => CodersExact
  BY DEF IInv, Counted, Shaped, Shape, CodersExact, At, KindAt, Count, Types
<1>. QED
  BY Invariance, <1>1, PTL

(* The byte budget counts what the stream consists of.                     *)
THEOREM ByteCounting == Spec => []BytesExact
<1>1. IInv => BytesExact
  <2>. SUFFICES ASSUME IInv, err = NoError, started
                PROVE  bytesOut + HeaderLen = sink + buf
    BY DEF BytesExact
  <2>1. /\ flushed \in Nat /\ buf \in Nat /\ sink \in Nat /\ streamStart \in Nat
        /\ flushed + HeaderLen = sink + streamStart
    BY DEF IInv, TypeOK, Bytes
  <2>. QED
    BY <2>1 DEF bytesOut, HeaderLen
<1>. QED
  BY Invariance, <1>1, PTL

LEMMA SentAtFlush ==
  ASSUME IInv, [Next]_vars, sink' # sink
  PROVE  /\ FlushTo \/ FlushFails \/ FlushPanics
         /\ Flushing /\ broken = NoError /\ stack # <<>>
<1>1. FlushTo \/ FlushFails \/ FlushPanics
  BY DEF Next, vars, output, EncodeRefused, Encode, EncodeNil, EncodeFails, encodeBody,
         encodeBodyOverBudget, encodeBodyEnd, encodeBodyFails, CoderEncode, CoderRecursion,
         CoderReturns, CoderFails, EncodePanics, CoderRecovers, EncodeReturns, FlushBroken,
         SetLimits, Fail
<1>2. Flushing /\ broken = NoError
  BY <1>1 DEF FlushTo, FlushFails, FlushPanics
<1>. QED
  BY <1>1, <1>2 DEF Flushing, EncodeDone, In

(* The writer gets bytes only when no value is half written and none that  *)
(* failed or panicked halfway lies in the buffer.  After a coder recovered *)
(* the panic of an Encode it nested (leaked # 0) nothing is said: the code *)
(* sends the torn value then (Encoder.Encode, Encoder.flushTo).            *)
THEOREM Wholeness == Spec => WholeValuesSent
<1>1. ASSUME IInv, [Next]_vars
      PROVE  sink' # sink /\ leaked = 0 => missing = 0 /\ At("body") = {}
  <2>. SUFFICES ASSUME sink' # sink, leaked = 0 PROVE missing = 0 /\ At("body") = {}
    OBVIOUS
  <2>1. Flushing /\ broken = NoError
    BY <1>1, SentAtFlush
  <2>2. At("body") = {} /\ Count(stack, "body") = 0
    BY <1>1, <2>1, FlushingAlone DEF IInv
  <2>. QED
    BY <1>1, <2>1, <2>2 DEF IInv, Counted
<1>2. IInv /\ [Next]_vars => [sink' # sink /\ leaked = 0 => missing = 0 /\ At("body") = {}]_vars
  BY <1>1
<1>. QED
  BY Invariance, <1>2, PTL DEF Spec, WholeValuesSent

(* Errors stick, and keep every byte from the writer.                      *)
THEOREM Stickiness == Spec => StickyError
<1>. DEFINE Sticks == err # NoError =>
                        /\ sink' = sink
                        /\ stack = <<>> => err' = err /\ ret' = err
<1>1. ASSUME IInv, Next PROVE Sticks
  <2>. SUFFICES ASSUME err # NoError
                PROVE  sink' = sink /\ (stack = <<>> => err' = err /\ ret' = err)
    OBVIOUS
  <2>1. sink' = sink
    BY <1>1, SentAtFlush DEF IInv, Layered
  <2>2. ASSUME stack = <<>> PROVE err' = err /\ ret' = err
    <3>1. At("enc") = {}
      BY <2>2, EmptyFacts DEF At, KindAt
    <3>2. EncodeRefused
      BY <1>1, <2>2, <3>1 DEF Next, Encode, EncodeNil, EncodeFails, Admitted, encodeBody, BodyDue, In,
         encodeBodyOverBudget, encodeBodyEnd, encodeBodyFails, CoderEncode, CoderDue, CoderRecursion,
         CoderReturns, CoderFails, EncodePanics, CoderRecovers, EncodeReturns, EncodeDone, FlushTo,
         Flushing, FlushBroken, FlushFails, FlushPanics, SetLimits
    <3>. QED
      BY <3>2 DEF EncodeRefused, facade
  <2>. QED
    BY <2>1, <2>2
<1>2. IInv /\ [Next]_vars => [Sticks]_vars
  BY <1>1
<1>. QED
  BY Invariance, <1>2, PTL DEF Spec, StickyError
=============================================================================
