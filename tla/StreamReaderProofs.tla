------------------------- MODULE StreamReaderProofs -------------------------
(***************************************************************************)
(* What StreamReader promises for every input, every thresholds that are   *)
(* in proportion (ReaderAssumption) and every way the source cuts and ends *)
(* the stream.                                                             *)
(***************************************************************************)
EXTENDS StreamReader, TLAPS

(* Where a call stands.  Only a large read uses the serving buffer, and it *)
(* has emptied the window; a fill that goes on has seen no fault.          *)
CallShape ==
  /\ op.kind # "idle" => ~failed
  /\ op.kind # "readDirect" => olen = 0
  /\ op.kind = "readDirect" =>
       /\ blen = 0 /\ spare = 0
       /\ op.want = Pending /\ ~AtToken
  /\ op.kind \in FillOps /\ ~op.err => ~faultErr \/ Avail >= op.want

(* What a call asks fill for: a body, or a bounded lookahead. *)
WantShape ==
  /\ op.kind = "readN" => op.want = Pending /\ ~AtToken
                          /\ (op.want <= LargeRead \/ op.want <= Avail)
  /\ op.kind \in {"byteAt", "AtEOF", "PeekRef1", "PeekDesc1"} => op.want = 1
  /\ op.kind = "PeekRef2" => op.want >= 1 /\ op.want <= 1 + MaxArg
  /\ op.kind = "PeekDesc2" => op.want = 2
  /\ op.kind = "PeekDesc3" => op.want <= 3
  /\ op.kind = "PeekDesc4" => op.want <= 3 + MaxArg
  /\ op.kind = "PeekDesc5" => op.want <= PeekMax
  /\ op.kind \in {"PeekDesc4", "PeekDesc5"} => op.name \in Offsets

(* The unread part of the window and its free space: between two calls no  *)
(* more than a lookahead and a pull, inside a body read no more than that  *)
(* body and a pull.                                                        *)
RoomShape ==
  ~failed => Avail + spare <= FillChunk + (IF op.kind = "readN" THEN Larger(op.want, PeekMax)
                                                                ELSE PeekMax)

IInv ==
  /\ TypeOK
  /\ WindowExact
  /\ CallShape
  /\ WantShape
  /\ RoomShape
  /\ DirectNeverOverreads

LEMMA InputFacts ==
  ASSUME NEW o \in Offsets
  PROVE  /\ Input[o].width \in Nat /\ Input[o].width <= MaxArg
         /\ Input[o].len \in Nat
  BY InputAssumption DEF InputAssumption, Byte

LEMMA ConstantFacts ==
  /\ InLen \in Nat /\ LargeRead \in Nat /\ FillChunk \in Nat /\ FillChunk > 0
  /\ DirectInit \in Nat /\ DirectInit > 0 /\ DirectMaxGrow \in Nat /\ DirectMaxGrow > 0
  /\ MaxArg \in Nat /\ PeekNameCap \in Nat /\ PeekMax \in Nat
  /\ PeekMax = 3 + MaxArg + PeekNameCap
  /\ PeekMax + FillChunk + DirectInit <= LargeRead
  BY InputAssumption, ReaderAssumption DEF InputAssumption, ReaderAssumption, PeekMax

LEMMA InitIInv == Init => IInv
<1>. SUFFICES ASSUME Init PROVE IInv
  OBVIOUS
<1>. USE InputAssumption, ReaderAssumption DEF InputAssumption, ReaderAssumption
<1>. USE DEF Init
<1>1. op.kind = "idle" /\ op.want = 0 /\ op.err = FALSE
  BY DEF Idle, Call
<1>2. op \in [kind : CallKinds, want : Nat, err : BOOLEAN, nx : Nat, name : Nat, n : Nat]
  BY DEF Idle, Call, CallKinds
<1>3. /\ blen = 0 /\ olen = 0 /\ pos = 0 /\ spare = 0 /\ base = 0 /\ fed = 0
      /\ taken = 0 /\ ocap = 0
  OBVIOUS
<1>4. buf \in Slice(blen) /\ out \in Slice(olen)
  <2>1. NoBytes \in Slice(0)
    BY DEF Slice, NoBytes, Span
  <2>. QED
    BY <2>1, <1>3
<1>5. res.ok \in BOOLEAN /\ hint.ok \in BOOLEAN
  BY DEF Answer
<1>6. TypeOK
  <2>1. eof \in BOOLEAN /\ faultErr \in BOOLEAN /\ failed \in BOOLEAN
    BY Zenon
  <2>2. mark \in Nat \cup {NoMark}
    OBVIOUS
  <2>3. /\ fed \in 0..InLen /\ blen \in Nat /\ spare \in Nat /\ pos \in 0..blen /\ base \in Nat
        /\ pendStart \in Nat /\ pendLen \in Nat /\ peekID \in Nat
        /\ olen \in Nat /\ ocap \in Nat /\ olen <= ocap
        /\ taken \in Nat /\ due \in Nat /\ body \in Nat
    OBVIOUS
  <2>. QED
    BY <1>2, <1>4, <1>5, <2>1, <2>2, <2>3, Zenon DEF TypeOK
<1>7. WindowExact
  BY <1>1, <1>3 DEF WindowExact
<1>8. CallShape /\ WantShape /\ DirectNeverOverreads
  BY <1>1 DEF CallShape, WantShape, DirectNeverOverreads, FillOps
<1>9. RoomShape
  <2>1. PeekMax \in Nat /\ FillChunk \in Nat
    BY DEF PeekMax
  <2>. QED
    BY <1>1, <1>3, <2>1 DEF RoomShape, Avail
<1>. QED
  BY <1>6, <1>7, <1>8, <1>9 DEF IInv

OpType == [kind : CallKinds, want : Nat, err : BOOLEAN, nx : Nat, name : Nat, n : Nat]

(* A step that leaves the source, the window, the serving buffer and what  *)
(* the caller has alone preserves the invariant if it leaves the calls in  *)
(* shape: the steps that start a call of the window, carry it from one     *)
(* fill to the next, and answer a lookahead.                               *)
LEMMA SameWindow ==
  ASSUME IInv,
         UNCHANGED <<source, window, direct, caller>>,
         op.kind \notin {"readN", "readDirect"},
         ~failed,
         op' \in OpType, op'.kind # "readDirect",
         res'.ok \in BOOLEAN, hint'.ok \in BOOLEAN,
         pendStart' \in Nat, pendLen' \in Nat, peekID' \in Nat,
         op'.kind \in FillOps /\ ~op'.err => ~faultErr \/ Avail >= op'.want,
         WantShape'
  PROVE  IInv'
<1>. USE InputAssumption, ReaderAssumption DEF InputAssumption, ReaderAssumption
<1>. USE DEF source, window, direct, caller
<1>1. TypeOK'
  BY DEF IInv, TypeOK, OpType, Slice
<1>2. WindowExact'
  BY DEF IInv, WindowExact, CallShape
<1>3. CallShape'
  BY DEF IInv, CallShape, Avail
<1>4. DirectNeverOverreads'
  BY DEF DirectNeverOverreads
<1>5. RoomShape'
  <2>1. Avail' = Avail /\ spare' = spare /\ Avail \in Int /\ spare \in Int
    BY DEF Avail, IInv, TypeOK
  <2>2. Avail + spare <= FillChunk + PeekMax
    BY DEF IInv, RoomShape
  <2>3. op'.want \in Nat /\ PeekMax \in Nat
    BY DEF OpType, PeekMax
  <2>. QED
    BY <2>1, <2>2, <2>3 DEF RoomShape, Larger
<1>. QED
  BY <1>1, <1>2, <1>3, <1>4, <1>5 DEF IInv

(* A call that is begun with the window short of want bytes. *)
LEMMA Begun ==
  ASSUME IInv, NEW kind \in FillOps, NEW want \in Nat, Begin(kind, want)
  PROVE  /\ op' \in OpType /\ op'.kind = kind /\ op'.want = want
         /\ ~op'.err => ~faultErr \/ Avail >= want
<1>1. Avail \in Int /\ faultErr \in BOOLEAN
  BY DEF IInv, TypeOK, Avail
<1>. QED
  BY <1>1 DEF Begin, Call, OpType, CallKinds

LEMMA byteAtIInv == IInv /\ byteAt => IInv'
<1>. SUFFICES ASSUME IInv, byteAt PROVE IInv'
  OBVIOUS
<1>1. /\ op' \in OpType /\ op'.kind = "byteAt" /\ op'.want = 1
      /\ ~op'.err => ~faultErr \/ Avail >= 1
  BY Begun DEF byteAt, FillOps
<1>2. WantShape'
  BY <1>1 DEF WantShape
<1>. QED
  BY <1>1, <1>2, SameWindow DEF byteAt, Ready, IInv, TypeOK, track, FillOps

LEMMA PeekRefIInv == IInv /\ PeekRef => IInv'
<1>. SUFFICES ASSUME IInv, PeekRef PROVE IInv'
  OBVIOUS
<1>1. /\ op' \in OpType /\ op'.kind = "PeekRef1" /\ op'.want = 1
      /\ ~op'.err => ~faultErr \/ Avail >= 1
  BY Begun DEF PeekRef, FillOps
<1>2. WantShape'
  BY <1>1 DEF WantShape
<1>. QED
  BY <1>1, <1>2, SameWindow DEF PeekRef, Ready, IInv, TypeOK, track, FillOps

LEMMA PeekDescIInv == IInv /\ PeekDesc => IInv'
<1>. SUFFICES ASSUME IInv, PeekDesc PROVE IInv'
  OBVIOUS
<1>1. /\ op' \in OpType /\ op'.kind = "PeekDesc1" /\ op'.want = 1
      /\ ~op'.err => ~faultErr \/ Avail >= 1
  BY Begun DEF PeekDesc, FillOps
<1>2. WantShape'
  BY <1>1 DEF WantShape
<1>. QED
  BY <1>1, <1>2, SameWindow DEF PeekDesc, Ready, IInv, TypeOK, track, FillOps

(* An answered lookahead. *)
LEMMA LookIInv ==
  ASSUME IInv, op.kind \notin {"readN", "readDirect"}, ~failed,
         NEW call, NEW ok \in BOOLEAN, NEW why, NEW bytes,
         Look(call, ok, why, bytes),
         pendStart' \in Nat, pendLen' \in Nat, peekID' \in Nat
  PROVE  IInv'
<1>1. op' \in OpType /\ op'.kind = "idle"
  BY DEF Look, Idle, Call, OpType, CallKinds
<1>2. res'.ok \in BOOLEAN
  BY DEF Look, Answer
<1>3. WantShape'
  BY <1>1 DEF WantShape
<1>. QED
  BY <1>1, <1>2, <1>3, SameWindow DEF Look, IInv, TypeOK, FillOps

LEMMA HintIInv ==
  ASSUME IInv, op.kind \notin {"readN", "readDirect"}, ~failed,
         NEW call, NEW ok \in BOOLEAN, NEW bytes,
         Hint(call, ok, bytes)
  PROVE  IInv'
<1>1. op' \in OpType /\ op'.kind = "idle"
  BY DEF Hint, Idle, Call, OpType, CallKinds
<1>2. hint'.ok \in BOOLEAN
  BY DEF Hint, Seen
<1>3. WantShape'
  BY <1>1 DEF WantShape
<1>. QED
  BY <1>1, <1>2, <1>3, SameWindow DEF Hint, IInv, TypeOK, track, FillOps

LEMMA AtEOFIInv == IInv /\ AtEOF => IInv'
<1>. SUFFICES ASSUME IInv, AtEOF PROVE IInv'
  OBVIOUS
<1>1. op.kind = "idle" /\ ~failed
  BY DEF AtEOF, Ready
<1>2. CASE eof
  <2>1. Look("AtEOF", Avail = 0, "none", NoBytes) /\ UNCHANGED track
    BY <1>2 DEF AtEOF
  <2>. QED
    BY <1>1, <2>1, LookIInv DEF track, IInv, TypeOK
<1>3. CASE ~eof
  <2>1. /\ op' \in OpType /\ op'.kind = "AtEOF" /\ op'.want = 1
        /\ ~op'.err => ~faultErr \/ Avail >= 1
    BY <1>3, Begun DEF AtEOF, FillOps
  <2>2. WantShape'
    BY <2>1 DEF WantShape
  <2>. QED
    BY <1>1, <1>3, <2>1, <2>2, SameWindow DEF AtEOF, IInv, TypeOK, track, FillOps
<1>. QED
  BY <1>2, <1>3

(* A window that holds an unread byte holds the one at the cursor. *)
LEMMA AtPos ==
  ASSUME IInv, NEW i \in 0..(blen - 1)
  PROVE  buf[i] \in Offsets /\ buf[i] = base + i
<1>. USE InputAssumption DEF InputAssumption
<1>1. buf[i] = base + i /\ base + blen = fed /\ fed <= InLen /\ base \in Nat /\ blen \in Nat
  BY DEF IInv, WindowExact, TypeOK
<1>. QED
  BY <1>1 DEF Offsets

LEMMA Facts ==
  ASSUME IInv
  PROVE  faultErr \in BOOLEAN /\ op.nx \in Nat /\ op.name \in Nat /\ op.want \in Nat
  BY DEF IInv, TypeOK

LEMMA Kinds ==
  /\ "PeekRef2" \in CallKinds /\ "PeekDesc2" \in CallKinds /\ "PeekDesc3" \in CallKinds
  /\ "PeekDesc4" \in CallKinds /\ "PeekDesc5" \in CallKinds
  BY DEF CallKinds, FillOps

LEMMA PeekRefFirstIInv == IInv /\ PeekRefFirst => IInv'
<1>. SUFFICES ASSUME IInv, PeekRefFirst PROVE IInv'
  OBVIOUS
<1>1. op.kind = "PeekRef1" /\ op.kind \notin {"readN", "readDirect"} /\ ~failed
  BY DEF PeekRefFirst, Filled, IInv, CallShape
<1>2. CASE op.err
  BY <1>1, <1>2, LookIInv DEF PeekRefFirst, track, IInv, TypeOK
<1>3. CASE ~op.err /\ (Avail < 1 \/ Input[buf[pos]].class # "ref")
  BY <1>1, <1>3, LookIInv DEF PeekRefFirst, track, IInv, TypeOK
<1>4. CASE ~op.err /\ ~(Avail < 1 \/ Input[buf[pos]].class # "ref") /\ pendLen # 0
  BY <1>1, <1>4, LookIInv DEF PeekRefFirst, track, IInv, TypeOK
<1>5. CASE ~op.err /\ ~(Avail < 1 \/ Input[buf[pos]].class # "ref") /\ ~(pendLen # 0)
  <2>1. pos \in 0..(blen - 1)
    BY <1>5 DEF Avail, IInv, TypeOK
  <2>2. buf[pos] \in Offsets
    BY <2>1, AtPos
  <2>3. RefExtent(buf[pos]) \in Nat /\ RefExtent(buf[pos]) >= 1
        /\ RefExtent(buf[pos]) <= 1 + MaxArg
    BY <2>2, InputFacts, InputAssumption DEF RefExtent, InputAssumption
  <2>4. /\ op' = Refill("PeekRef2", RefExtent(buf[pos]), 0, 0, 0)
        /\ UNCHANGED <<source, window, track, direct, res, hint, caller>>
    BY <1>5 DEF PeekRefFirst, PeekRefWant
  <2>5. op' \in OpType /\ op'.kind = "PeekRef2" /\ op'.want = RefExtent(buf[pos])
        /\ op'.err = faultErr
    BY <2>3, <2>4, Facts, Kinds DEF Refill, OpType
  <2>6. WantShape'
    BY <2>3, <2>5 DEF WantShape
  <2>. QED
    BY <1>1, <2>4, <2>5, <2>6, SameWindow DEF IInv, TypeOK, track
<1>. QED
  BY <1>2, <1>3, <1>4, <1>5

LEMMA PeekRefEndIInv == IInv /\ PeekRefEnd => IInv'
<1>. SUFFICES ASSUME IInv, PeekRefEnd PROVE IInv'
  OBVIOUS
<1>1. op.kind = "PeekRef2" /\ op.kind \notin {"readN", "readDirect"} /\ ~failed
  BY DEF PeekRefEnd, Filled, IInv, CallShape
<1>2. CASE op.err
  BY <1>1, <1>2, LookIInv DEF PeekRefEnd, track, IInv, TypeOK
<1>3. CASE ~op.err /\ Avail < op.want
  BY <1>1, <1>3, LookIInv DEF PeekRefEnd, track, IInv, TypeOK
<1>4. CASE ~op.err /\ ~(Avail < op.want)
  <2>1. /\ Look("PeekRef", TRUE, "none", Span(buf[pos], 1))
        /\ pendStart' = pos /\ pendLen' = op.want /\ peekID' = buf[pos]
    BY <1>4 DEF PeekRefEnd
  <2>2. op.want \in Nat /\ pos \in Nat /\ blen \in Nat /\ pos <= blen
    BY DEF IInv, TypeOK
  <2>3. buf[pos] \in Nat
    <3>1. CASE op.want >= 1
      <4>1. pos \in 0..(blen - 1)
        BY <1>4, <2>2, <3>1 DEF Avail
      <4>. QED
        BY <4>1, AtPos, InputAssumption DEF Offsets, InputAssumption
    <3>2. CASE op.want = 0
      BY <3>2, <1>1 DEF IInv, WantShape
    <3>. QED
      BY <2>2, <3>1, <3>2
  <2>. QED
    BY <1>1, <2>1, <2>2, <2>3, LookIInv
<1>. QED
  BY <1>2, <1>3, <1>4

LEMMA AtEOFEndIInv == IInv /\ AtEOFEnd => IInv'
<1>. SUFFICES ASSUME IInv, AtEOFEnd PROVE IInv'
  OBVIOUS
<1>1. op.kind = "AtEOF" /\ op.kind \notin {"readN", "readDirect"} /\ ~failed
  BY DEF AtEOFEnd, Filled, IInv, CallShape
<1>. QED
  BY <1>1, LookIInv DEF AtEOFEnd, track, IInv, TypeOK

(* PeekDesc goes from one fill to the next. *)
LEMMA DescStepIInv ==
  ASSUME IInv, op.kind \notin {"readN", "readDirect"}, ~failed,
         NEW next \in OpType, DescStep(next),
         next.kind \in FillOps, next.err = faultErr, WantShape'
  PROVE  IInv'
<1>1. op' = next /\ UNCHANGED <<source, window, track, direct, res, hint, caller>>
  BY DEF DescStep
<1>2. next.kind # "readDirect"
  BY DEF FillOps
<1>. QED
  BY <1>1, <1>2, SameWindow DEF IInv, TypeOK, track

LEMMA NoDescIInv ==
  ASSUME IInv, op.kind \notin {"readN", "readDirect"}, ~failed, NoDesc
  PROVE  IInv'
  BY HintIInv DEF NoDesc

LEMMA PeekDescKindIInv == IInv /\ PeekDescKind => IInv'
<1>. SUFFICES ASSUME IInv, PeekDescKind PROVE IInv'
  OBVIOUS
<1>1. op.kind = "PeekDesc1" /\ op.kind \notin {"readN", "readDirect"} /\ ~failed
  BY DEF PeekDescKind, Filled, IInv, CallShape
<1>2. CASE NoDesc
  BY <1>1, <1>2, NoDescIInv
<1>3. CASE DescStep(Refill("PeekDesc3", 2, pos + 1, 0, 0))
  <2>. DEFINE next == Refill("PeekDesc3", 2, pos + 1, 0, 0)
  <2>1. next \in OpType /\ next.kind = "PeekDesc3" /\ next.want = 2 /\ next.err = faultErr
    <3>1. pos + 1 \in Nat
      BY DEF IInv, TypeOK
    <3>. QED
      BY <3>1, Facts, Kinds DEF Refill, OpType
  <2>2. op' = next
    BY <1>3 DEF DescStep
  <2>3. WantShape'
    BY <2>1, <2>2 DEF WantShape
  <2>. QED
    BY <1>1, <1>3, <2>1, <2>3, DescStepIInv DEF FillOps
<1>4. CASE DescStep(Refill("PeekDesc2", 2, 0, 0, 0))
  <2>. DEFINE next == Refill("PeekDesc2", 2, 0, 0, 0)
  <2>1. next \in OpType /\ next.kind = "PeekDesc2" /\ next.want = 2 /\ next.err = faultErr
    BY Facts, Kinds DEF Refill, OpType
  <2>2. op' = next
    BY <1>4 DEF DescStep
  <2>3. WantShape'
    BY <2>1, <2>2 DEF WantShape
  <2>. QED
    BY <1>1, <1>4, <2>1, <2>3, DescStepIInv DEF FillOps
<1>. QED
  BY <1>2, <1>3, <1>4 DEF PeekDescKind

LEMMA PeekDescKind2IInv == IInv /\ PeekDescKind2 => IInv'
<1>. SUFFICES ASSUME IInv, PeekDescKind2 PROVE IInv'
  OBVIOUS
<1>1. op.kind = "PeekDesc2" /\ op.kind \notin {"readN", "readDirect"} /\ ~failed
  BY DEF PeekDescKind2, Filled, IInv, CallShape
<1>2. CASE NoDesc
  BY <1>1, <1>2, NoDescIInv
<1>3. CASE DescStep(Refill("PeekDesc3", op.want + 1, pos + op.want, 0, 0))
  <2>. DEFINE next == Refill("PeekDesc3", op.want + 1, pos + op.want, 0, 0)
  <2>1. op.want = 2
    BY <1>1 DEF IInv, WantShape
  <2>2. next \in OpType /\ next.kind = "PeekDesc3" /\ next.want = 3 /\ next.err = faultErr
    <3>1. pos + op.want \in Nat /\ op.want + 1 = 3
      BY <2>1 DEF IInv, TypeOK
    <3>. QED
      BY <3>1, Facts, Kinds DEF Refill, OpType
  <2>3. op' = next
    BY <1>3 DEF DescStep
  <2>4. WantShape'
    BY <2>2, <2>3 DEF WantShape
  <2>. QED
    BY <1>1, <1>3, <2>2, <2>4, DescStepIInv DEF FillOps
<1>. QED
  BY <1>2, <1>3 DEF PeekDescKind2

LEMMA PeekDescNameIInv == IInv /\ PeekDescName => IInv'
<1>. SUFFICES ASSUME IInv, PeekDescName PROVE IInv'
  OBVIOUS
<1>. USE InputAssumption DEF InputAssumption
<1>1. op.kind = "PeekDesc3" /\ op.kind \notin {"readN", "readDirect"} /\ ~failed
  BY DEF PeekDescName, Filled, IInv, CallShape
<1>2. CASE NoDesc
  BY <1>1, <1>2, NoDescIInv
<1>. DEFINE name == buf[op.nx]
<1>3. CASE ~(op.err \/ op.nx >= blen)
  <2>1. op.nx \in 0..(blen - 1) /\ op.want \in Nat /\ op.want <= 3
    BY <1>1, <1>3 DEF IInv, TypeOK, WantShape
  <2>2. name \in Offsets
    BY <2>1, AtPos
  <2>3. Input[name].width \in Nat /\ Input[name].width <= MaxArg /\ Input[name].len \in Nat
    BY <2>2, InputFacts
  <2>4. name \in Nat
    BY <2>2 DEF Offsets
  <2>. DEFINE arg == Refill("PeekDesc4", op.want + Input[name].width, op.nx, name, 0)
              inline == Refill("PeekDesc5", op.want + Input[name].len,
                               op.nx, name, Input[name].len)
  <2>5. CASE DescStep(arg)
    <3>1. arg \in OpType /\ arg.kind = "PeekDesc4" /\ arg.err = faultErr
          /\ arg.want = op.want + Input[name].width /\ arg.name = name
      <4>1. op.want + Input[name].width \in Nat
        BY <2>1, <2>3
      <4>. QED
        BY <2>4, <4>1, <2>1, Facts, Kinds DEF Refill, OpType
    <3>2. op' = arg
      BY <2>5 DEF DescStep
    <3>3. WantShape'
      BY <2>1, <2>2, <2>3, <3>1, <3>2 DEF WantShape
    <3>. QED
      BY <1>1, <2>5, <3>1, <3>3, DescStepIInv DEF FillOps
  <2>6. CASE DescStep(inline) /\ ~(Input[name].len > PeekNameCap)
    <3>1. inline \in OpType /\ inline.kind = "PeekDesc5" /\ inline.err = faultErr
          /\ inline.want = op.want + Input[name].len /\ inline.name = name
      <4>1. op.want + Input[name].len \in Nat
        BY <2>1, <2>3
      <4>. QED
        BY <2>3, <2>4, <4>1, <2>1, Facts, Kinds DEF Refill, OpType
    <3>2. op' = inline
      BY <2>6 DEF DescStep
    <3>3. WantShape'
      <4>1. inline.want <= PeekMax
        BY <2>1, <2>3, <2>6, <3>1 DEF PeekMax
      <4>. HIDE DEF inline
      <4>. QED
        BY <2>2, <3>1, <3>2, <4>1 DEF WantShape
    <3>. QED
      BY <1>1, <2>6, <3>1, <3>3, DescStepIInv DEF FillOps
  <2>. QED
    BY <1>2, <1>3, <2>5, <2>6 DEF PeekDescName
<1>. QED
  BY <1>2, <1>3 DEF PeekDescName

LEMMA PeekDescArgIInv == IInv /\ PeekDescArg => IInv'
<1>. SUFFICES ASSUME IInv, PeekDescArg PROVE IInv'
  OBVIOUS
<1>. USE InputAssumption DEF InputAssumption
<1>1. op.kind = "PeekDesc4" /\ op.kind \notin {"readN", "readDirect"} /\ ~failed
  BY DEF PeekDescArg, Filled, IInv, CallShape
<1>2. CASE NoDesc
  BY <1>1, <1>2, NoDescIInv
<1>3. ASSUME NEW n \in {Input[op.name].len} \cup 0..(PeekNameCap + 1),
             ~(n > PeekNameCap),
             DescStep(Refill("PeekDesc5", op.want + n, op.nx, op.name, n))
      PROVE  IInv'
  <2>1. op.name \in Offsets /\ op.want \in Nat /\ op.want <= 3 + MaxArg
    BY <1>1 DEF IInv, TypeOK, WantShape
  <2>2. n \in Nat
    BY <1>3, <2>1, InputFacts
  <2>. DEFINE next == Refill("PeekDesc5", op.want + n, op.nx, op.name, n)
  <2>3. next \in OpType /\ next.kind = "PeekDesc5" /\ next.err = faultErr
        /\ next.want = op.want + n /\ next.name = op.name
    <3>1. op.want + n \in Nat
      BY <2>1, <2>2
    <3>2. op.nx \in Nat /\ op.name \in Nat
      BY DEF IInv, TypeOK
    <3>. QED
      BY <2>2, <3>1, <2>1, <3>2, Facts, Kinds DEF Refill, OpType
  <2>4. op' = next
    BY <1>3 DEF DescStep
  <2>5. WantShape'
    BY <1>3, <2>1, <2>2, <2>3, <2>4 DEF WantShape, PeekMax
  <2>. QED
    BY <1>1, <1>3, <2>3, <2>5, DescStepIInv DEF FillOps
<1>. QED
  BY <1>2, <1>3 DEF PeekDescArg

LEMMA PeekDescEndIInv == IInv /\ PeekDescEnd => IInv'
<1>. SUFFICES ASSUME IInv, PeekDescEnd PROVE IInv'
  OBVIOUS
<1>1. op.kind = "PeekDesc5" /\ op.kind \notin {"readN", "readDirect"} /\ ~failed
  BY DEF PeekDescEnd, Filled, IInv, CallShape
<1>. QED
  BY <1>1, NoDescIInv, HintIInv DEF PeekDescEnd

LEMMA HintsIInv == IInv /\ (PeekByteAfterRef \/ AtEnd) => IInv'
<1>. SUFFICES ASSUME IInv, PeekByteAfterRef \/ AtEnd PROVE IInv'
  OBVIOUS
<1>1. op.kind = "idle" /\ ~failed
  BY DEF PeekByteAfterRef, AtEnd, Ready
<1>2. CASE PeekByteAfterRef
  BY <1>1, <1>2, HintIInv DEF PeekByteAfterRef
<1>3. CASE AtEnd
  BY <1>1, <1>3, HintIInv DEF AtEnd
<1>. QED
  BY <1>2, <1>3

(* A failed read changes nothing but the caller's mind. *)
LEMMA FailIInv ==
  ASSUME IInv, op.kind # "readDirect", NEW call, NEW why, Fail(call, why)
  PROVE  IInv'
<1>. USE InputAssumption, ReaderAssumption DEF InputAssumption, ReaderAssumption
<1>. USE DEF Fail, source, window, track, direct
<1>1. op' \in OpType /\ op'.kind = "idle" /\ failed' = TRUE /\ res'.ok = FALSE
  BY DEF Idle, Call, OpType, CallKinds, Answer
<1>2. failed' \in BOOLEAN /\ res'.ok \in BOOLEAN
  BY <1>1
<1>3. TypeOK'
  BY <1>1, <1>2 DEF IInv, TypeOK, OpType, Slice
<1>4. WindowExact'
  BY <1>1 DEF IInv, WindowExact
<1>5. CallShape' /\ WantShape' /\ DirectNeverOverreads' /\ RoomShape'
  BY <1>1 DEF IInv, CallShape, WantShape, DirectNeverOverreads, RoomShape, FillOps
<1>. QED
  BY <1>3, <1>4, <1>5 DEF IInv

(* A read that the window serves moves the read position and the caller's  *)
(* count over the same bytes.                                              *)
LEMMA DeliverIInv ==
  ASSUME IInv, op.kind \in {"byteAt", "readN"}, ~failed,
         NEW call, Deliver(call, op.want), Avail >= op.want,
         due' \in Nat, body' \in Nat
  PROVE  IInv'
<1>. USE InputAssumption, ReaderAssumption DEF InputAssumption, ReaderAssumption
<1>0. /\ pos' = pos + op.want /\ pendLen' = Released(pos + op.want)
      /\ taken' = taken + op.want /\ op' = Idle
      /\ UNCHANGED <<fed, buf, blen, spare, base, eof, faultErr, pendStart, peekID,
                     out, olen, ocap, hint, mark, failed>>
  BY DEF Deliver, source, direct
<1>1. op' \in OpType /\ op'.kind = "idle"
  BY <1>0 DEF Idle, Call, OpType, CallKinds
<1>2. res'.ok \in BOOLEAN
  <2>1. res' = Answer(call, TRUE, "none", [i \in 0..(op.want - 1) |-> buf[pos + i]])
    BY DEF Deliver
  <2>. QED
    BY <2>1 DEF Answer
<1>3. /\ op.want \in Nat /\ pos \in Nat /\ blen \in Nat /\ pos + op.want <= blen
      /\ pos' = pos + op.want /\ taken' = taken + op.want
  BY <1>0 DEF Avail, IInv, TypeOK
<1>4. pendLen' \in Nat
  BY <1>0 DEF Released, IInv, TypeOK
<1>5. TypeOK'
  <2>1. pos' \in 0..blen' /\ taken' \in Nat
    BY <1>0, <1>3 DEF IInv, TypeOK
  <2>. QED
    BY <1>0, <1>1, <1>2, <1>4, <2>1 DEF IInv, TypeOK, OpType
<1>6. WindowExact'
  BY <1>0, <1>1, <1>3 DEF IInv, WindowExact, TypeOK
<1>7. CallShape' /\ WantShape' /\ DirectNeverOverreads'
  BY <1>0, <1>1 DEF IInv, CallShape, WantShape, DirectNeverOverreads, FillOps
<1>8. RoomShape'
  <2>1. Avail + spare <= FillChunk + (IF op.kind = "readN" THEN Larger(op.want, PeekMax) ELSE PeekMax)
    BY DEF IInv, RoomShape
  <2>2. Avail' = Avail - op.want /\ spare' = spare /\ Avail \in Nat /\ spare \in Nat
    BY <1>0, <1>3 DEF Avail, IInv, TypeOK
  <2>3. PeekMax \in Nat /\ FillChunk \in Nat
    BY DEF PeekMax
  <2>4. Avail' + spare' <= FillChunk + PeekMax
    BY <1>3, <2>1, <2>2, <2>3 DEF Larger
  <2>. QED
    BY <1>0, <1>1, <2>4 DEF RoomShape
<1>. QED
  BY <1>5, <1>6, <1>7, <1>8 DEF IInv

LEMMA byteAtEndIInv == IInv /\ byteAtEnd => IInv'
<1>. SUFFICES ASSUME IInv, byteAtEnd PROVE IInv'
  OBVIOUS
<1>1. op.kind = "byteAt" /\ op.kind # "readDirect" /\ ~failed /\ op.want = 1
  BY DEF byteAtEnd, Filled, IInv, CallShape, WantShape
<1>2. CASE op.err
  BY <1>1, <1>2, FailIInv DEF byteAtEnd
<1>3. CASE ~op.err /\ Avail < 1
  BY <1>1, <1>3, FailIInv DEF byteAtEnd
<1>4. CASE ~op.err /\ ~(Avail < 1)
  <2>1. pos \in 0..(blen - 1) /\ Avail >= op.want
    BY <1>1, <1>4 DEF Avail, IInv, TypeOK
  <2>2. Input[buf[pos]].width \in Nat /\ Input[buf[pos]].len \in Nat
    BY <2>1, AtPos, InputFacts
  <2>3. Deliver("byteAt", op.want) /\ due' \in Nat /\ body' \in Nat
    BY <1>1, <1>4, <2>2 DEF byteAtEnd
  <2>. QED
    BY <1>1, <2>1, <2>3, DeliverIInv
<1>. QED
  BY <1>2, <1>3, <1>4

LEMMA readNEndIInv == IInv /\ readNEnd => IInv'
<1>. SUFFICES ASSUME IInv, readNEnd PROVE IInv'
  OBVIOUS
<1>1. op.kind = "readN" /\ op.kind # "readDirect" /\ ~failed
  BY DEF readNEnd, Filled, IInv, CallShape
<1>2. CASE op.err
  BY <1>1, <1>2, FailIInv DEF readNEnd
<1>3. CASE ~op.err /\ Avail < op.want
  BY <1>1, <1>3, FailIInv DEF readNEnd
<1>4. CASE ~op.err /\ ~(Avail < op.want)
  <2>1. Avail >= op.want
    BY <1>4 DEF Avail, IInv, TypeOK
  <2>2. Deliver("readN", op.want) /\ due' \in Nat /\ body' \in Nat
    BY <1>4 DEF readNEnd, IInv, TypeOK
  <2>. QED
    BY <1>1, <2>1, <2>2, DeliverIInv
<1>. QED
  BY <1>2, <1>3, <1>4

LEMMA readNIInv == IInv /\ readN => IInv'
<1>. SUFFICES ASSUME IInv, readN PROVE IInv'
  OBVIOUS
<1>. USE InputAssumption, ReaderAssumption DEF InputAssumption, ReaderAssumption
<1>1. Pending \in Nat
  BY DEF Pending, IInv, TypeOK
<1>2. /\ op' \in OpType /\ op'.kind = "readN" /\ op'.want = Pending
      /\ ~op'.err => ~faultErr \/ Avail >= Pending
  BY <1>1, Begun DEF readN, FillOps
<1>3. ~AtToken /\ (Pending <= LargeRead \/ Pending <= Avail)
  BY <1>1 DEF readN, Avail, IInv, TypeOK
<1>4. UNCHANGED <<due, body, blen, pos>>
  BY DEF readN, caller, window
<1>5. WantShape'
  BY <1>2, <1>3, <1>4 DEF WantShape, Pending, AtToken, Avail
<1>. QED
  BY <1>2, <1>5, SameWindow DEF readN, Ready, IInv, TypeOK, track, FillOps

(* What compact makes of the window: its unread part, in place. *)
LEMMA Compacted ==
  ASSUME IInv
  PROVE  /\ CompactBuf \in Slice(blen - pos)
         /\ \A i \in 0..(blen - pos - 1) : CompactBuf[i] = base + pos + i
         /\ CompactSpare \in Nat /\ CompactSpare <= spare
         /\ CompactPendStart \in Nat /\ CompactPendLen \in Nat
<1>1. /\ blen \in Nat /\ pos \in Nat /\ pos <= blen /\ base \in Nat /\ spare \in Nat
      /\ pendStart \in Nat /\ pendLen \in Nat
      /\ \A i \in 0..(blen - 1) : buf[i] = base + i
  BY DEF IInv, TypeOK, WindowExact
<1>2. ASSUME NEW i \in 0..(blen - pos - 1)
      PROVE  i + pos \in 0..(blen - 1) /\ buf[i + pos] = base + pos + i
  <2>1. i + pos \in 0..(blen - 1)
    BY <1>1
  <2>. QED
    BY <1>1, <2>1
<1>3. CompactBuf \in Slice(blen - pos)
  BY <1>1, <1>2 DEF CompactBuf, Slice
<1>4. \A i \in 0..(blen - pos - 1) : CompactBuf[i] = base + pos + i
  BY <1>2 DEF CompactBuf
<1>5. CompactSpare \in Nat /\ CompactSpare <= spare
  BY <1>1 DEF CompactSpare
<1>6. CompactPendStart \in Nat /\ CompactPendLen \in Nat
  BY <1>1 DEF CompactPendStart, CompactPendLen, Larger
<1>. QED
  BY <1>3, <1>4, <1>5, <1>6

LEMMA DiscardIInv == IInv /\ Discard => IInv'
<1>. SUFFICES ASSUME IInv, Discard PROVE IInv'
  OBVIOUS
<1>. USE InputAssumption, ReaderAssumption DEF InputAssumption, ReaderAssumption
<1>1. /\ op.kind = "idle" /\ ~failed
      /\ buf' = CompactBuf /\ blen' = blen - pos /\ spare' = CompactSpare
      /\ pos' = 0 /\ base' = base + pos
      /\ pendStart' = CompactPendStart /\ pendLen' = CompactPendLen
      /\ UNCHANGED <<fed, eof, faultErr, peekID, op, out, olen, ocap, res, hint,
                     taken, due, body, mark, failed>>
  BY DEF Discard, Ready, source, direct, caller
<1>2. blen \in Nat /\ pos \in Nat /\ pos <= blen /\ base \in Nat /\ spare \in Nat
  BY DEF IInv, TypeOK
<1>3. TypeOK'
  <2>1. pos' \in 0..blen' /\ base' \in Nat /\ blen' \in Nat
    BY <1>1, <1>2
  <2>2. buf' \in Slice(blen') /\ spare' \in Nat /\ pendStart' \in Nat /\ pendLen' \in Nat
    BY <1>1, Compacted
  <2>. QED
    BY <1>1, <2>1, <2>2 DEF IInv, TypeOK
<1>4. WindowExact'
  <2>1. \A i \in 0..(blen' - 1) : buf'[i] = base' + i
    BY <1>1, <1>2, Compacted
  <2>2. base' + blen' = fed' /\ base' + pos' = taken'
    BY <1>1, <1>2 DEF IInv, WindowExact, TypeOK
  <2>. QED
    BY <1>1, <2>1, <2>2 DEF WindowExact
<1>5. CallShape' /\ WantShape' /\ DirectNeverOverreads'
  BY <1>1 DEF IInv, CallShape, WantShape, DirectNeverOverreads, FillOps
<1>6. RoomShape'
  <2>1. Avail' = Avail /\ spare' <= spare /\ spare' \in Nat /\ Avail \in Int
    BY <1>1, <1>2, Compacted DEF Avail
  <2>2. Avail + spare <= FillChunk + PeekMax
    BY <1>1 DEF IInv, RoomShape
  <2>3. PeekMax \in Nat
    BY DEF PeekMax
  <2>. QED
    BY <1>1, <1>2, <2>1, <2>2, <2>3 DEF RoomShape
<1>. QED
  BY <1>3, <1>4, <1>5, <1>6 DEF IInv

LEMMA SnapshotIInv == IInv /\ (Pos \/ ByteRange) => IInv'
<1>. SUFFICES ASSUME IInv, Pos \/ ByteRange PROVE IInv'
  OBVIOUS
<1>1. /\ op.kind = "idle" /\ ~failed
      /\ mark' \in Nat \cup {NoMark} /\ failed' \in BOOLEAN /\ hint'.ok \in BOOLEAN
      /\ UNCHANGED <<source, window, track, op, direct, res, taken, due, body>>
  <2>1. CASE Pos
    BY <2>1 DEF Pos, Ready, IInv, TypeOK
  <2>2. CASE ByteRange
    <3>1. hint'.ok \in BOOLEAN
      BY <2>2 DEF ByteRange, Seen
    <3>2. failed' \in BOOLEAN
      BY <2>2 DEF ByteRange
    <3>. QED
      BY <2>2, <3>1, <3>2 DEF ByteRange, Ready
  <2>. QED
    BY <2>1, <2>2
<1>2. UNCHANGED <<fed, buf, blen, spare, pos, base, eof, faultErr, pendStart, pendLen,
                  peekID, op, out, olen, ocap, res, taken, due, body>>
  BY <1>1 DEF source, window, track, direct
<1>. HIDE DEF NoMark
<1>3. TypeOK'
  BY <1>1, <1>2 DEF IInv, TypeOK
<1>4. WindowExact'
  BY <1>1, <1>2 DEF IInv, WindowExact
<1>5. CallShape' /\ WantShape' /\ DirectNeverOverreads'
  BY <1>1, <1>2 DEF IInv, CallShape, WantShape, DirectNeverOverreads, FillOps
<1>6. RoomShape'
  BY <1>1, <1>2 DEF IInv, RoomShape, Avail
<1>. QED
  BY <1>3, <1>4, <1>5, <1>6 DEF IInv

LEMMA readDirectIInv == IInv /\ readDirect => IInv'
<1>. SUFFICES ASSUME IInv, readDirect PROVE IInv'
  OBVIOUS
<1>1. /\ op.kind = "idle" /\ ~failed /\ ~AtToken
      /\ Pending > Avail /\ Pending > LargeRead
      /\ out' = CompactBuf /\ olen' = Avail /\ ocap' = Avail + DirectInit
      /\ base' = base + pos + Avail
      /\ buf' = NoBytes /\ blen' = 0 /\ spare' = 0 /\ pos' = 0 /\ pendLen' = 0
      /\ op' = Call("readDirect", Pending, FALSE)
      /\ UNCHANGED <<fed, eof, faultErr, pendStart, peekID, res, hint,
                     taken, due, body, mark, failed>>
  BY DEF readDirect, Ready, source, caller
<1>2. /\ blen \in Nat /\ pos \in Nat /\ pos <= blen /\ base \in Nat /\ spare \in Nat
      /\ due \in Nat /\ body \in Nat /\ taken \in Nat
      /\ Pending \in Nat /\ Avail \in Nat /\ Avail = blen - pos
  BY DEF IInv, TypeOK, Pending, Avail
<1>3. op' \in OpType /\ op'.kind = "readDirect" /\ op'.want = Pending /\ op'.err = FALSE
  BY <1>1, <1>2 DEF Call, OpType, CallKinds
<1>4. Pending' = Pending /\ AtToken' = AtToken
  BY <1>1 DEF Pending, AtToken
<1>5. TypeOK'
  <2>1. NoBytes \in Slice(0)
    BY DEF NoBytes, Span, Slice
  <2>2. CompactBuf \in Slice(Avail)
    BY <1>2, Compacted
  <2>3. /\ buf' \in Slice(blen') /\ out' \in Slice(olen')
        /\ blen' \in Nat /\ spare' \in Nat /\ pos' \in 0..blen' /\ base' \in Nat /\ pendLen' \in Nat
        /\ olen' \in Nat /\ ocap' \in Nat /\ olen' <= ocap'
    BY <1>1, <1>2, <2>1, <2>2, ConstantFacts
  <2>. QED
    BY <1>1, <1>3, <2>3 DEF IInv, TypeOK, OpType
<1>6. WindowExact'
  <2>1. base + blen = fed /\ base + pos = taken
    BY <1>1, <1>2 DEF IInv, WindowExact
  <2>2. \A i \in 0..(olen' - 1) : out'[i] = taken' + i
    BY <1>1, <1>2, <2>1, Compacted
  <2>3. base' + blen' = fed' /\ base' + pos' = taken' + olen'
    BY <1>1, <1>2, <2>1
  <2>4. \A i \in 0..(blen' - 1) : buf'[i] = base' + i
    BY <1>1
  <2>. QED
    BY <1>3, <2>2, <2>3, <2>4 DEF WindowExact
<1>7. DirectNeverOverreads'
  <2>1. Avail + spare <= FillChunk + PeekMax
    BY <1>1 DEF IInv, RoomShape
  <2>2. ocap' = Avail + DirectInit /\ Pending > LargeRead
    BY <1>1
  <2>3. Avail + DirectInit <= Pending
    BY <1>2, <2>1, <2>2, ConstantFacts
  <2>. QED
    BY <1>3, <2>2, <2>3 DEF DirectNeverOverreads
<1>8. CallShape' /\ WantShape'
  BY <1>1, <1>3, <1>4 DEF CallShape, WantShape, FillOps
<1>9. RoomShape'
  <2>1. blen' = 0 /\ spare' = 0 /\ pos' = 0
    BY <1>1
  <2>2. Avail' + spare' = 0
    BY <2>1 DEF Avail
  <2>3. 0 <= FillChunk + PeekMax
    BY ConstantFacts
  <2>. QED
    BY <1>3, <2>2, <2>3 DEF RoomShape
<1>. QED
  BY <1>5, <1>6, <1>7, <1>8, <1>9 DEF IInv

LEMMA readDirectEndIInv == IInv /\ readDirectEnd => IInv'
<1>. SUFFICES ASSUME IInv, readDirectEnd PROVE IInv'
  OBVIOUS
<1>. USE InputAssumption, ReaderAssumption DEF InputAssumption, ReaderAssumption
<1>1. /\ op.kind = "readDirect" /\ op' = Idle
      /\ taken' = taken + olen /\ due' = 0
      /\ body' = IF due > 0 THEN body ELSE 0
      /\ out' = NoBytes /\ olen' = 0 /\ ocap' = 0
      /\ UNCHANGED <<fed, buf, blen, spare, pos, base, eof, faultErr,
                     pendStart, pendLen, peekID, hint, mark, failed>>
  BY DEF readDirectEnd, source, window, track
<1>2. op' \in OpType /\ op'.kind = "idle"
  BY <1>1 DEF Idle, Call, OpType, CallKinds
<1>3. res'.ok \in BOOLEAN
  <2>1. res' = Answer("readN", TRUE, "none", out)
    BY DEF readDirectEnd
  <2>. QED
    BY <2>1 DEF Answer
<1>4. ~failed /\ blen = 0 /\ spare = 0 /\ pos = 0
  BY <1>1 DEF IInv, CallShape, TypeOK
<1>5. TypeOK'
  <2>1. NoBytes \in Slice(0)
    BY DEF NoBytes, Span, Slice
  <2>2. taken' \in Nat /\ due' \in Nat /\ body' \in Nat /\ olen' \in Nat /\ ocap' \in Nat
        /\ olen' <= ocap'
    BY <1>1 DEF IInv, TypeOK
  <2>. QED
    BY <1>1, <1>2, <1>3, <2>1, <2>2 DEF IInv, TypeOK, OpType
<1>6. WindowExact'
  BY <1>1, <1>2, <1>4 DEF IInv, WindowExact, TypeOK
<1>7. CallShape' /\ WantShape' /\ DirectNeverOverreads'
  BY <1>1, <1>2, <1>4 DEF CallShape, WantShape, DirectNeverOverreads, FillOps
<1>8. RoomShape'
  <2>1. Avail' = 0 /\ spare' = 0 /\ PeekMax \in Nat
    BY <1>1, <1>4 DEF Avail, PeekMax
  <2>. QED
    BY <1>1, <1>2, <2>1 DEF RoomShape
<1>. QED
  BY <1>5, <1>6, <1>7, <1>8 DEF IInv

LEMMA readDirectReadIInv == IInv /\ readDirectRead => IInv'
<1>. SUFFICES ASSUME IInv, readDirectRead PROVE IInv'
  OBVIOUS
<1>. DEFINE Goes(nr) ==
       /\ out' = [i \in 0..(olen + nr - 1) |-> IF i < olen THEN out[i] ELSE fed + (i - olen)]
       /\ olen' = olen + nr
       /\ ocap' = DirectRoom
       /\ UNCHANGED <<res, failed, op>>
            Ends(says) == \/ says = "eof" /\ DirectFail("truncated")
                          \/ says = "fault" /\ DirectFail("fault")
<1>1. PICK nr \in 0..(InLen - fed), says \in {"more", "eof", "fault"} :
       /\ Reads(DirectRoom - olen, nr, says)
       /\ fed' = fed + nr
       /\ base' = base + nr
       /\ (says = "more" /\ Goes(nr)) \/ Ends(says)
  BY DEF readDirectRead
<1>a. fed' = fed + nr /\ base' = base + nr
  BY <1>1
<1>b. Reads(DirectRoom - olen, nr, says)
  BY <1>1
<1>c. Goes(nr) \/ DirectFail("truncated") \/ DirectFail("fault")
  BY <1>1
<1>. HIDE DEF Goes, Ends
<1>2. /\ op.kind = "readDirect" /\ olen < op.want
      /\ UNCHANGED <<buf, blen, spare, pos, eof, faultErr, pendStart, pendLen, peekID, hint,
                     taken, due, body, mark>>
  BY DEF readDirectRead, track
<1>3. /\ ~failed /\ blen = 0 /\ spare = 0 /\ pos = 0
      /\ op.want = Pending /\ ~AtToken /\ ocap <= op.want
      /\ base + blen = fed /\ base + pos = taken + olen
      /\ \A i \in 0..(olen - 1) : out[i] = taken + i
  BY <1>2 DEF IInv, CallShape, TypeOK, DirectNeverOverreads, WindowExact
<1>4. /\ fed \in 0..InLen /\ fed \in Nat /\ base \in Nat /\ taken \in Nat
      /\ olen \in Nat /\ ocap \in Nat /\ olen <= ocap /\ op.want \in Nat
      /\ blen \in Nat /\ pos \in Nat
  BY ConstantFacts DEF IInv, TypeOK
<1>d. nr \in Nat /\ fed + nr <= InLen
  BY <1>4, ConstantFacts
<1>5. fed' \in 0..InLen /\ base' \in Nat /\ base' + blen' = fed'
  BY <1>a, <1>2, <1>3, <1>4, <1>d, ConstantFacts
<1>6. CASE Goes(nr)
  <2>1. /\ out' = [i \in 0..(olen + nr - 1) |-> IF i < olen THEN out[i] ELSE fed + (i - olen)]
        /\ olen' = olen + nr /\ ocap' = DirectRoom /\ UNCHANGED <<res, failed, op>>
    BY <1>6, Zenon DEF Goes
  <2>2. /\ DirectRoom \in Nat /\ DirectRoom <= op.want /\ olen + nr <= DirectRoom
    BY <1>b, <1>2, <1>3, <1>4, <1>d, ConstantFacts DEF DirectRoom, Smaller, Reads
  <2>3. olen' \in Nat /\ ocap' \in Nat /\ olen' <= ocap' /\ ocap' <= op.want
    BY <1>4, <1>d, <2>1, <2>2
  <2>4. /\ out' \in Slice(olen')
        /\ \A i \in 0..(olen' - 1) : out'[i] = taken' + i
    <3>1. \A i \in 0..(olen + nr - 1) :
            (IF i < olen THEN out[i] ELSE fed + (i - olen)) = taken + i
      BY <1>3, <1>4, <1>d
    <3>2. /\ out' = [i \in 0..(olen + nr - 1) |-> IF i < olen THEN out[i] ELSE fed + (i - olen)]
          /\ olen' = olen + nr /\ taken' = taken
      BY <1>2, <2>1
    <3>3. out' = [i \in 0..(olen + nr - 1) |-> taken + i]
      BY <3>1, <3>2, Zenon
    <3>4. [i \in 0..(olen + nr - 1) |-> taken + i] \in [0..(olen + nr - 1) -> Nat]
      BY <1>4, <1>d
    <3>5. out' \in [0..(olen + nr - 1) -> Nat]
      BY <3>3, <3>4, Zenon
    <3>6. \A i \in 0..(olen + nr - 1) : out'[i] = taken + i
      BY <3>3, Zenon
    <3>7. PICK n \in Nat : n = olen + nr
      BY <1>4, <1>d
    <3>a. olen' = n
      BY <3>2, <3>7
    <3>b. 0..(n - 1) = 0..(olen + nr - 1)
      BY <1>4, <1>d, <3>7
    <3>c. out' \in Slice(n)
      BY <3>5, <3>b, Zenon DEF Slice
    <3>d. Slice(olen') = Slice(n) /\ 0..(olen' - 1) = 0..(n - 1)
      BY <3>a, Zenon
    <3>8. taken' = taken
      BY <3>2
    <3>. QED
      BY <3>6, <3>8, <3>b, <3>c, <3>d, Zenon
  <2>5. TypeOK'
    BY <1>2, <1>5, <2>1, <2>3, <2>4 DEF IInv, TypeOK
  <2>6. WindowExact'
    <3>1. base' + pos' = taken' + olen'
      BY <1>a, <1>2, <1>3, <1>4, <1>d, <2>1
    <3>2. op' = op /\ blen' = 0
      BY <1>2, <1>3, <2>1
    <3>3. \A i \in 0..(blen' - 1) : buf'[i] = base' + i
      BY <3>2
    <3>. QED
      BY <1>2, <1>5, <2>4, <3>1, <3>2, <3>3, Zenon DEF WindowExact
  <2>7. CallShape' /\ WantShape' /\ DirectNeverOverreads'
    <3>1. op' = op /\ failed' = failed /\ blen' = 0 /\ spare' = 0
      BY <1>2, <1>3, <2>1
    <3>2. Pending' = Pending /\ AtToken' = AtToken
      BY <1>2 DEF Pending, AtToken
    <3>. QED
      BY <1>2, <1>3, <2>3, <3>1, <3>2
      DEF CallShape, WantShape, DirectNeverOverreads, FillOps
  <2>8. RoomShape'
    BY <1>2, <2>1 DEF IInv, RoomShape, Avail
  <2>. QED
    BY <2>5, <2>6, <2>7, <2>8 DEF IInv
<1>7. CASE DirectFail("truncated") \/ DirectFail("fault")
  <2>1. PICK why : DirectFail(why)
    BY <1>7
  <2>2. failed' = TRUE /\ op' = Idle /\ out' = NoBytes /\ olen' = 0 /\ ocap' = 0
    BY <2>1 DEF DirectFail
  <2>3. res'.ok = FALSE
    <3>1. res' = Answer("readN", FALSE, why, NoBytes)
      BY <2>1, Zenon DEF DirectFail
    <3>. QED
      BY <3>1 DEF Answer
  <2>4. op' \in OpType /\ op'.kind = "idle"
    BY <2>2 DEF Idle, Call, OpType, CallKinds
  <2>5. failed' \in BOOLEAN /\ res'.ok \in BOOLEAN
    BY <2>2, <2>3
  <2>6. out' \in Slice(olen')
    BY <2>2 DEF NoBytes, Span, Slice
  <2>7. TypeOK'
    BY <1>2, <1>5, <2>2, <2>4, <2>5, <2>6 DEF IInv, TypeOK, OpType
  <2>8. WindowExact'
    <3>1. \A i \in 0..(blen' - 1) : buf'[i] = base' + i
      BY <1>2, <1>3
    <3>. QED
      BY <1>5, <2>2, <2>4, <3>1 DEF WindowExact
  <2>9. CallShape' /\ WantShape' /\ DirectNeverOverreads' /\ RoomShape'
    BY <2>2, <2>4 DEF CallShape, WantShape, DirectNeverOverreads, RoomShape, FillOps
  <2>. QED
    BY <2>7, <2>8, <2>9 DEF IInv
<1>. QED
  BY <1>c, <1>6, <1>7

LEMMA fillIInv == IInv /\ fill => IInv'
<1>. SUFFICES ASSUME IInv, fill PROVE IInv'
  OBVIOUS
<1>. DEFINE old   == IF LongPrefix THEN CompactBuf ELSE buf
            kept  == IF LongPrefix THEN blen - pos ELSE blen
            free  == IF LongPrefix THEN CompactSpare ELSE spare
            need  == Larger(op.want - Avail, FillChunk)
            room  == IF free < need THEN need ELSE free
            start == IF LongPrefix THEN base + pos ELSE base
<1>1. PICK nr \in 0..(InLen - fed), says \in {"more", "eof", "fault"} :
          /\ Reads(room, nr, says)
          /\ buf' = [i \in 0..(kept + nr - 1) |->
                       IF i < kept THEN old[i] ELSE fed + (i - kept)]
          /\ blen' = kept + nr
          /\ spare' = room - nr
          /\ pos' = IF LongPrefix THEN 0 ELSE pos
          /\ base' = start
          /\ pendStart' = IF LongPrefix THEN CompactPendStart ELSE pendStart
          /\ pendLen' = IF LongPrefix THEN CompactPendLen ELSE pendLen
          /\ fed' = fed + nr
          /\ eof' = (says = "eof")
          /\ faultErr' = (says = "fault")
          /\ op' = [op EXCEPT !.err = (says = "fault")]
  BY Zenon DEF fill
<1>a. /\ blen' = kept + nr /\ spare' = room - nr /\ fed' = fed + nr
      /\ pos' = IF LongPrefix THEN 0 ELSE pos
      /\ base' = start
  BY <1>1, Zenon
<1>b. /\ pendStart' = IF LongPrefix THEN CompactPendStart ELSE pendStart
      /\ pendLen' = IF LongPrefix THEN CompactPendLen ELSE pendLen
  BY <1>1, Zenon
<1>c. /\ eof' = (says = "eof")
      /\ faultErr' = (says = "fault")
      /\ op' = [op EXCEPT !.err = (says = "fault")]
  BY <1>1, Zenon
<1>d. buf' = [i \in 0..(kept + nr - 1) |-> IF i < kept THEN old[i] ELSE fed + (i - kept)]
  BY <1>1, Zenon
<1>e. Reads(room, nr, says)
  BY <1>1, Zenon
<1>f. fed \in 0..InLen /\ InLen \in Nat
  BY ConstantFacts DEF IInv, TypeOK
<1>g. fed \in Nat /\ nr \in Nat /\ fed + nr <= InLen /\ fed <= InLen
  BY <1>f
<1>2. /\ op.kind \in FillOps /\ op.kind # "readDirect" /\ op.kind # "idle" /\ ~op.err /\ Avail < op.want
      /\ UNCHANGED <<peekID, out, olen, ocap, res, hint, taken, due, body, mark, failed>>
  BY DEF fill, Filling, direct, caller, FillOps
<1>3. ~failed /\ olen = 0
  BY <1>2 DEF IInv, CallShape
<1>4. /\ blen \in Nat /\ pos \in Nat /\ pos <= blen /\ base \in Nat /\ spare \in Nat
      /\ fed \in Nat /\ fed <= InLen /\ nr \in Nat /\ fed + nr <= InLen
      /\ op.want \in Nat /\ Avail = blen - pos /\ taken \in Nat
      /\ FillChunk \in Nat /\ FillChunk > 0
  BY <1>g, ConstantFacts DEF IInv, TypeOK, Avail
<1>5. /\ base + blen = fed /\ base + pos = taken
      /\ \A i \in 0..(blen - 1) : buf[i] = base + i
  BY <1>2, <1>3, <1>4 DEF IInv, WindowExact
<1>6. kept \in Nat /\ free \in Nat /\ start \in Nat /\ free <= spare
  BY <1>4, Compacted
<1>7. old \in Slice(kept) /\ \A i \in 0..(kept - 1) : old[i] = start + i
  <2>1. CASE LongPrefix
    BY <2>1, Compacted
  <2>2. CASE ~LongPrefix
    BY <2>2, <1>5 DEF IInv, TypeOK
  <2>. QED
    BY <2>1, <2>2
<1>8. start + kept = fed /\ start + pos' = taken /\ pos' \in 0..kept /\ kept - pos' = Avail
  BY <1>a, <1>4, <1>5
<1>9. need \in Nat /\ room \in Nat /\ nr <= room /\ need >= 1
  <2>1. need \in Nat /\ need >= 1
    BY <1>2, <1>4 DEF Larger
  <2>2. room \in Nat
    BY <2>1, <1>6
  <2>. HIDE DEF room
  <2>3. nr <= room
    BY <1>e, <1>4, <1>f, <2>2 DEF Reads, Smaller
  <2>. QED
    BY <2>1, <2>2, <2>3
<1>. HIDE DEF old, kept, free, need, room, start
<1>10. op' \in OpType /\ op'.kind = op.kind /\ op'.want = op.want /\ op'.name = op.name
       /\ op'.err = (says = "fault")
  <2>1. (says = "fault") \in BOOLEAN
    BY Zenon
  <2>2. op \in OpType
    BY Zenon DEF IInv, TypeOK, OpType
  <2>. QED
    BY <1>c, <2>1, <2>2 DEF OpType
<1>11. /\ \A i \in 0..(blen' - 1) : buf'[i] = base' + i
       /\ buf' \in Slice(blen')
  <2>1. \A i \in 0..(kept + nr - 1) :
          (IF i < kept THEN old[i] ELSE fed + (i - kept)) = start + i
    BY <1>g, <1>6, <1>7, <1>8
  <2>3. buf' = [i \in 0..(kept + nr - 1) |-> start + i]
    BY <1>d, <2>1, Zenon
  <2>2. blen' = kept + nr /\ base' = start
    BY <1>a
  <2>4. [i \in 0..(kept + nr - 1) |-> start + i] \in [0..(kept + nr - 1) -> Nat]
    BY <1>g, <1>6
  <2>5. buf' \in [0..(kept + nr - 1) -> Nat]
    BY <2>3, <2>4, Zenon
  <2>6. \A i \in 0..(kept + nr - 1) : buf'[i] = start + i
    BY <2>3, Zenon
  <2>7. PICK n \in Nat : n = kept + nr
    BY <1>g, <1>6
  <2>a. blen' = n
    BY <1>a, <2>7
  <2>b. 0..(n - 1) = 0..(kept + nr - 1)
    BY <1>g, <1>6, <2>7
  <2>c. buf' \in Slice(n)
    BY <2>5, <2>b, Zenon DEF Slice
  <2>d. Slice(blen') = Slice(n) /\ 0..(blen' - 1) = 0..(n - 1)
    BY <2>a, Zenon
  <2>8. base' = start
    BY <1>a
  <2>. QED
    BY <2>6, <2>8, <2>b, <2>c, <2>d, Zenon
<1>12. TypeOK'
  <2>1. /\ fed' \in 0..InLen /\ blen' \in Nat /\ spare' \in Nat /\ pos' \in 0..blen' /\ base' \in Nat
    <3>1. fed' \in 0..InLen
      BY <1>a, <1>f, <1>g
    <3>2. blen' \in Nat /\ spare' \in Nat /\ base' \in Nat
      BY <1>a, <1>g, <1>6, <1>9
    <3>3. pos' \in 0..blen'
      <4>1. blen' = kept + nr
        BY <1>a
      <4>. QED
        BY <4>1, <1>g, <1>6, <1>8
    <3>. QED
      BY <3>1, <3>2, <3>3
  <2>2. eof' \in BOOLEAN /\ faultErr' \in BOOLEAN
    BY <1>c, Zenon
  <2>3. pendStart' \in Nat /\ pendLen' \in Nat
    BY <1>b, Compacted DEF IInv, TypeOK
  <2>. QED
    BY <1>2, <1>10, <1>11, <2>1, <2>2, <2>3 DEF IInv, TypeOK, OpType
<1>13. WindowExact'
  <2>1. base' + blen' = fed' /\ base' + pos' = taken'
    BY <1>a, <1>2, <1>4, <1>6, <1>8
  <2>2. op'.kind # "readDirect"
    BY <1>2, <1>10
  <2>3. base' + pos' = taken' + (IF op'.kind = "readDirect" THEN olen' ELSE 0)
    <3>1. taken' \in Int
      BY <1>2, <1>4
    <3>. QED
      BY <2>1, <2>2, <3>1
  <2>. QED
    BY <1>11, <2>1, <2>2, <2>3, Zenon DEF WindowExact
<1>14. Avail' = Avail + nr
  BY <1>a, <1>4, <1>6, <1>8 DEF Avail
<1>15. CallShape'
  <2>1. op'.kind \in FillOps /\ op'.kind # "readDirect" /\ ~failed' /\ olen' = 0
    BY <1>2, <1>3, <1>10
  <2>2. ~op'.err => ~faultErr'
    BY <1>c, <1>10
  <2>. QED
    BY <2>1, <2>2 DEF CallShape
<1>16. WantShape'
  <2>1. Pending' = Pending /\ AtToken' = AtToken
    BY <1>2 DEF Pending, AtToken
  <2>2. Avail' >= Avail /\ Avail \in Nat /\ Avail' \in Nat
    BY <1>4, <1>14
  <2>. QED
    BY <1>4, <1>10, <2>1, <2>2 DEF IInv, WantShape
<1>17. DirectNeverOverreads'
  BY <1>2, <1>10 DEF DirectNeverOverreads
<1>18. RoomShape'
  <2>. DEFINE bound == IF op.kind = "readN" THEN Larger(op.want, PeekMax) ELSE PeekMax
  <2>1. PeekMax \in Nat
    BY ConstantFacts
  <2>2. Avail + spare <= FillChunk + bound
    BY <1>3 DEF IInv, RoomShape
  <2>3. op.want <= bound
    <3>1. CASE op.kind = "readN"
      BY <3>1, <2>1, <1>4 DEF Larger
    <3>2. CASE op.kind # "readN"
      <4>1. op.want <= PeekMax
        <5>1. CASE op.kind \in {"byteAt", "AtEOF", "PeekRef1", "PeekDesc1"}
          BY <5>1, ConstantFacts DEF IInv, WantShape
        <5>2. CASE op.kind = "PeekRef2"
          BY <5>2, <1>4, ConstantFacts DEF IInv, WantShape
        <5>3. CASE op.kind = "PeekDesc2"
          BY <5>3, ConstantFacts DEF IInv, WantShape
        <5>4. CASE op.kind = "PeekDesc3"
          BY <5>4, <1>4, ConstantFacts DEF IInv, WantShape
        <5>5. CASE op.kind = "PeekDesc4"
          BY <5>5, <1>4, ConstantFacts DEF IInv, WantShape
        <5>6. CASE op.kind = "PeekDesc5"
          BY <5>6 DEF IInv, WantShape
        <5>. QED
          BY <1>2, <3>2, <5>1, <5>2, <5>3, <5>4, <5>5, <5>6 DEF FillOps
      <4>. QED
        BY <3>2, <4>1
    <3>. QED
      BY <3>1, <3>2
  <2>4. bound \in Nat
    BY <1>4, <2>1 DEF Larger
  <2>. HIDE DEF bound
  <2>5. Avail + room <= FillChunk + bound
    BY <1>2, <1>4, <1>6, <2>2, <2>3, <2>4 DEF room, need, Larger
  <2>6. Avail' + spare' = Avail + room
    BY <1>a, <1>4, <1>9, <1>14
  <2>. USE DEF bound
  <2>. QED
    BY <1>10, <2>5, <2>6 DEF RoomShape
<1>. QED
  BY <1>12, <1>13, <1>15, <1>16, <1>17, <1>18 DEF IInv

LEMMA StutterIInv == IInv /\ UNCHANGED vars => IInv'
  BY DEF vars, IInv, TypeOK, WindowExact, CallShape, WantShape, RoomShape,
         DirectNeverOverreads, Avail, Pending, AtToken

LEMMA NextIInv == IInv /\ [Next]_vars => IInv'
  BY byteAtIInv, byteAtEndIInv, readNIInv, readNEndIInv, readDirectIInv,
     readDirectReadIInv, readDirectEndIInv, PeekRefIInv, PeekRefFirstIInv,
     PeekRefEndIInv, AtEOFIInv, AtEOFEndIInv, HintsIInv, PeekDescIInv,
     PeekDescKindIInv, PeekDescKind2IInv, PeekDescNameIInv, PeekDescArgIInv,
     PeekDescEndIInv, DiscardIInv, SnapshotIInv, fillIInv, StutterIInv
  DEF Next, Start, Continue

(* Every reachable state of the reader satisfies the inductive invariant.  *)
THEOREM Invariance == Spec => []IInv
  BY InitIInv, NextIInv, PTL DEF Spec

(* The window, the position and the serving buffer have their types.       *)
THEOREM TypeCorrectness == Spec => []TypeOK
<1>1. IInv => TypeOK
  BY DEF IInv
<1>. QED
  BY <1>1, Invariance, PTL

(* Whatever the source does, the window is the input from base on and the  *)
(* next byte read is the next byte of the input (wire.go, fill, compact,   *)
(* readDirect).                                                            *)
THEOREM WindowCorrectness == Spec => []WindowExact
<1>1. IInv => WindowExact
  BY DEF IInv
<1>. QED
  BY <1>1, Invariance, PTL

(* A large read never takes bytes of the next record from the source, for  *)
(* every choice of thresholds that satisfies ReaderAssumption.             *)
THEOREM NoOverread == Spec => []DirectNeverOverreads
<1>1. IInv => DirectNeverOverreads
  BY DEF IInv
<1>. QED
  BY <1>1, Invariance, PTL

(* A step that pulls from the source through the window starts from a      *)
(* source that neither failed nor ended.                                   *)
LEMMA FillAsks == IInv /\ fill => ~faultErr /\ ~eof
<1>. SUFFICES ASSUME IInv, fill PROVE ~faultErr /\ ~eof
  OBVIOUS
<1>1. op.kind \in FillOps /\ ~op.err /\ ~eof /\ Avail < op.want
  BY Zenon DEF fill, Filling
<1>2. ~faultErr \/ Avail >= op.want
  BY <1>1, Zenon DEF IInv, CallShape
<1>3. Avail \in Int /\ op.want \in Int
  BY DEF IInv, TypeOK, Avail
<1>. QED
  BY <1>1, <1>2, <1>3

(* Only fill and readDirect's loop take bytes from the source.             *)
LEMMA OnlyPullsFeed ==
  Next => fed' = fed \/ fill \/ readDirectRead
  BY DEF Next, Start, Continue, source, byteAt, readN, readDirect, PeekRef, AtEOF,
         PeekByteAfterRef, AtEnd, PeekDesc, Discard, Pos, ByteRange, byteAtEnd, readNEnd,
         readDirectEnd, PeekRefFirst, PeekRefEnd, AtEOFEnd, PeekDescKind, PeekDescKind2,
         PeekDescName, PeekDescArg, PeekDescEnd, Fail, Deliver, Look, Hint, NoDesc, DescStep

(* The window never asks a source that failed or ended for more, whatever  *)
(* the calls in between (wire.go, fill: faultErr and eof).                 *)
THEOREM FaultSticks == Spec => WindowFaultSticks
<1>1. IInv /\ [Next]_vars
        => [(faultErr \/ eof) /\ op.kind # "readDirect" => fed' = fed]_vars
  <2>1. ASSUME IInv, Next, faultErr \/ eof, op.kind # "readDirect"
        PROVE  fed' = fed
    <3>1. ~fill
      BY <2>1, FillAsks
    <3>2. ~readDirectRead
      BY <2>1 DEF readDirectRead
    <3>. QED
      BY <2>1, <3>1, <3>2, OnlyPullsFeed
  <2>. QED
    BY <2>1
<1>. QED
  BY <1>1, Invariance, PTL DEF Spec, WindowFaultSticks

-----------------------------------------------------------------------------
(***************************************************************************)
(* That the stream-mode reader implements the buffer-mode reader, and that *)
(* its lookaheads, its waits and its memory are what the calls entitle it  *)
(* to.                                                                     *)
(***************************************************************************)

(* The armed track is the REF the caller stands at, or, once its header    *)
(* byte is read, what is left of it; a large read has dropped it.          *)
TrackShape ==
  /\ op.kind = "readDirect" => pendLen = 0
  /\ pendLen # 0 =>
       /\ pendStart <= pos /\ pendStart + pendLen <= blen
       /\ IF AtToken
            THEN /\ WholeRefAt(taken) /\ peekID = taken
                 /\ pendStart + pendLen = pos + RefExtent(taken)
            ELSE due > 0 /\ body = 0 /\ pendStart + pendLen = pos + due

(* The caller stands at a REF that the window holds in full.               *)
RefAhead == AtToken /\ WholeRefAt(taken) /\ Avail >= RefExtent(taken)

(* What was answered still holds where the caller stands.                  *)
AnswerShape ==
  /\ res.op \in {"byteAt", "readN"} /\ ~res.ok => failed
  /\ res.op = "PeekRef" /\ res.ok => RefAhead

(* A source that reported its end has handed out the whole input.          *)
EndShape == eof => fed = InLen

(* The index PeekDesc took of the name is the name's, or a compaction left *)
(* it stale, and then behind everything the compacted window can hold.     *)
NameFound == base + op.nx = NameAt(taken) \/ (pos = 0 /\ op.nx >= LargeRead)

NameKnown ==
  /\ NameFound
  /\ NameAt(taken) \in Offsets /\ op.name = NameAt(taken)
  /\ Input[op.name].class = "string"

(* What a call between two tokens knows of the token in front of it.       *)
LookShape ==
  /\ op.kind \in FillOps \ {"readN"} => AtToken
  /\ op.kind = "PeekRef2" =>
       taken \in Offsets /\ Input[taken].class = "ref" /\ op.want = RefExtent(taken)
  /\ op.kind \in {"PeekDesc2", "PeekDesc3", "PeekDesc4", "PeekDesc5"} =>
       taken \in Offsets /\ Input[taken].class = "desc" /\ Input[taken].width <= 1
  /\ op.kind = "PeekDesc2" => Input[taken].width = 1
  /\ op.kind = "PeekDesc3" => NameFound /\ taken + op.want = NameAt(taken) + 1
  /\ op.kind = "PeekDesc4" =>
       NameKnown /\ Input[op.name].width > 0 /\ taken + op.want = NameBody(taken)
  /\ op.kind = "PeekDesc5" =>
       /\ NameKnown
       /\ op.n = Input[op.name].len /\ op.n <= PeekNameCap
       /\ taken + op.want = DescEnd(taken)

RInv ==
  /\ TrackShape
  /\ AnswerShape
  /\ EndShape
  /\ LookShape
  /\ LookaheadSound

(* Where the reader stands: the bytes in the window from pos on are the    *)
(* input's bytes from the caller's cursor on.                              *)
LEMMA Standing ==
  ASSUME IInv, ~failed, op.kind # "readDirect"
  PROVE  /\ base + pos = taken /\ base + blen = fed /\ taken + Avail = fed
         /\ Avail \in Nat /\ Avail = blen - pos
         /\ taken \in Nat /\ fed \in Nat /\ fed <= InLen /\ InLen \in Nat
         /\ blen \in Nat /\ pos \in Nat /\ pos <= blen /\ base \in Nat
         /\ op.want \in Nat /\ due \in Nat /\ body \in Nat
         /\ \A i \in 0..(blen - 1) : buf[i] = base + i
<1>1. /\ blen \in Nat /\ pos \in Nat /\ pos <= blen /\ base \in Nat /\ taken \in Nat
      /\ fed \in 0..InLen /\ op.want \in Nat /\ due \in Nat /\ body \in Nat
  BY DEF IInv, TypeOK
<1>2. InLen \in Nat
  BY ConstantFacts
<1>3. /\ base + pos = taken /\ base + blen = fed
      /\ \A i \in 0..(blen - 1) : buf[i] = base + i
  BY <1>1 DEF IInv, WindowExact
<1>. QED
  BY <1>1, <1>2, <1>3 DEF Avail

(* If the window holds an unread byte, the byte at the read position is    *)
(* the one at the cursor.                                                  *)
LEMMA AtCursor ==
  ASSUME IInv, ~failed, op.kind # "readDirect", Avail >= 1
  PROVE  buf[pos] = taken /\ taken \in Offsets
<1>1. pos \in 0..(blen - 1) /\ base + pos = taken
  BY Standing
<1>. QED
  BY <1>1, AtPos

LEMMA InitRInv == Init => RInv
<1>. SUFFICES ASSUME Init PROVE RInv
  OBVIOUS
<1>1. /\ op.kind = "idle" /\ pendLen = 0 /\ eof = FALSE
      /\ res.op = "none" /\ hint.op = "none"
  BY DEF Init, Idle, Call, Answer
<1>. QED
  BY <1>1 DEF RInv, TrackShape, AnswerShape, EndShape, LookShape, LookaheadSound, FillOps

(* A step that leaves the source, the window, the track and the token the  *)
(* caller is in alone.                                                     *)
LEMMA Still ==
  ASSUME RInv, UNCHANGED <<fed, eof, blen, pos, pendStart, pendLen, peekID, taken, due, body>>,
         op'.kind # "readDirect"
  PROVE  TrackShape' /\ EndShape'
  BY DEF RInv, TrackShape, EndShape, AtToken

(* A step from one fill to the next, or into the first.                    *)
LEMMA OpOnly ==
  ASSUME RInv, UNCHANGED <<source, window, track, direct, res, hint, caller>>,
         op'.kind # "readDirect", LookShape'
  PROVE  RInv'
<1>1. TrackShape' /\ EndShape'
  BY Still DEF source, window, track, caller
<1>2. AnswerShape' /\ LookaheadSound'
  BY DEF RInv, AnswerShape, LookaheadSound, RefAhead, AtToken, Avail, window, caller
<1>. QED
  BY <1>1, <1>2 DEF RInv

LEMMA BeginsRInv ==
  ASSUME IInv, RInv, byteAt \/ readN \/ PeekRef \/ PeekDesc
  PROVE  RInv'
<1>1. /\ UNCHANGED <<source, window, track, direct, res, hint, caller>>
      /\ op'.kind = "readN" \/ (op'.kind \in {"byteAt", "PeekRef1", "PeekDesc1"} /\ AtToken)
  BY DEF byteAt, readN, PeekRef, PeekDesc, Begin, Call
<1>2. LookShape'
  BY <1>1 DEF LookShape, FillOps, caller, AtToken
<1>. QED
  BY <1>1, <1>2, OpOnly

(* A lookahead of the buffer-mode contract answers.                        *)
LEMMA LookRInv ==
  ASSUME RInv, ~failed, NEW call \in {"PeekRef", "AtEOF"},
         NEW ok \in BOOLEAN, NEW why, NEW bytes,
         Look(call, ok, why, bytes), UNCHANGED track,
         call = "PeekRef" /\ ok => RefAhead
  PROVE  RInv'
<1>1. /\ UNCHANGED <<source, window, hint, caller>> /\ op'.kind = "idle"
      /\ res'.op = call /\ res'.ok = ok
  BY DEF Look, Idle, Call, Answer
<1>2. TrackShape' /\ EndShape'
  BY <1>1, Still DEF source, window, track, caller
<1>3. taken' = taken /\ hint' = hint
  BY <1>1 DEF caller
<1>4. AnswerShape'
  <2>1. RefAhead' = RefAhead
    BY <1>1 DEF RefAhead, AtToken, Avail, window, caller
  <2>. QED
    BY <1>1, <2>1 DEF AnswerShape
<1>5. LookaheadSound'
  BY <1>3 DEF RInv, LookaheadSound
<1>6. LookShape'
  BY <1>1 DEF LookShape, FillOps
<1>. QED
  BY <1>2, <1>4, <1>5, <1>6 DEF RInv

(* One of the other lookaheads answers.                                    *)
LEMMA HintRInv ==
  ASSUME RInv, NEW call, NEW ok \in BOOLEAN, NEW bytes, Hint(call, ok, bytes),
         LookaheadSound'
  PROVE  RInv'
<1>1. UNCHANGED <<source, window, track, res, caller>> /\ op'.kind = "idle"
  BY DEF Hint, Idle, Call
<1>2. TrackShape' /\ EndShape'
  BY <1>1, Still DEF source, window, track, caller
<1>4. AnswerShape'
  BY <1>1 DEF RInv, AnswerShape, RefAhead, AtToken, Avail, window, caller
<1>6. LookShape'
  BY <1>1 DEF LookShape, FillOps
<1>. QED
  BY <1>2, <1>4, <1>6 DEF RInv

(* A "no" of PeekDesc claims nothing.                                      *)
LEMMA NoDescRInv == ASSUME RInv, NoDesc PROVE RInv'
<1>1. Hint("PeekDesc", FALSE, NoBytes) /\ hint'.op = "PeekDesc" /\ hint'.ok = FALSE
  BY DEF NoDesc, Hint, Seen
<1>2. LookaheadSound'
  BY <1>1 DEF LookaheadSound
<1>. QED
  BY <1>1, <1>2, HintRInv

LEMMA AtEOFRInv == ASSUME IInv, RInv, AtEOF PROVE RInv'
<1>1. ~failed /\ AtToken
  BY DEF AtEOF, Ready
<1>2. CASE eof
  <2>1. Look("AtEOF", Avail = 0, "none", NoBytes) /\ UNCHANGED track
    BY <1>2 DEF AtEOF
  <2>2. (Avail = 0) \in BOOLEAN
    BY Zenon
  <2>. QED
    BY <1>1, <2>1, <2>2, LookRInv
<1>3. CASE ~eof
  <2>1. /\ UNCHANGED <<source, window, track, direct, res, hint, caller>>
        /\ op'.kind = "AtEOF" /\ AtToken
    BY <1>1, <1>3 DEF AtEOF, Begin, Call
  <2>2. LookShape'
    BY <2>1 DEF LookShape, FillOps, caller, AtToken
  <2>. QED
    BY <2>1, <2>2, OpOnly
<1>. QED
  BY <1>2, <1>3

LEMMA AtEOFEndRInv == ASSUME IInv, RInv, AtEOFEnd PROVE RInv'
<1>1. op.kind = "AtEOF" /\ ~failed
  BY DEF AtEOFEnd, Filled, IInv, CallShape
<1>. DEFINE ok == ~op.err /\ Avail = 0
            why == IF op.err THEN "fault" ELSE "none"
<1>2. Look("AtEOF", ok, why, NoBytes) /\ UNCHANGED track
  BY DEF AtEOFEnd
<1>3. ok \in BOOLEAN
  BY Zenon
<1>. HIDE DEF ok, why
<1>. QED
  BY <1>1, <1>2, <1>3, LookRInv

LEMMA PeekRefFirstRInv == ASSUME IInv, RInv, PeekRefFirst PROVE RInv'
<1>1. op.kind = "PeekRef1" /\ ~failed /\ op.kind # "readDirect"
  BY DEF PeekRefFirst, Filled, IInv, CallShape
<1>2. AtToken
  BY <1>1 DEF RInv, LookShape, FillOps
<1>3. CASE op.err
  BY <1>1, <1>3, LookRInv DEF PeekRefFirst
<1>4. CASE ~op.err /\ (Avail < 1 \/ Input[buf[pos]].class # "ref")
  BY <1>1, <1>4, LookRInv DEF PeekRefFirst
<1>5. CASE ~op.err /\ ~(Avail < 1 \/ Input[buf[pos]].class # "ref") /\ pendLen # 0
  <2>1. WholeRefAt(taken)
    BY <1>2, <1>5 DEF RInv, TrackShape
  <2>3. RefAhead
    <3>1. pendStart + pendLen = pos + RefExtent(taken) /\ pendStart + pendLen <= blen
      BY <1>2, <1>5 DEF RInv, TrackShape
    <3>2. RefExtent(taken) \in Nat
      <4>1. taken < InLen
        BY <2>1 DEF WholeRefAt
      <4>2. taken \in Offsets
        BY <1>1, <4>1, Standing DEF Offsets
      <4>. QED
        BY <4>2, InputFacts DEF RefExtent
    <3>3. Avail >= RefExtent(taken)
      BY <1>1, <3>1, <3>2, Standing
    <3>. QED
      BY <1>2, <2>1, <3>3 DEF RefAhead
  <2>2. Look("PeekRef", TRUE, "none", Span(peekID, 1)) /\ UNCHANGED track
    BY <1>5 DEF PeekRefFirst
  <2>. QED
    BY <1>1, <2>2, <2>3, LookRInv
<1>6. CASE ~op.err /\ ~(Avail < 1 \/ Input[buf[pos]].class # "ref") /\ ~(pendLen # 0)
  <2>1. Avail >= 1
    BY <1>1, <1>6, Standing
  <2>2. buf[pos] = taken /\ taken \in Offsets
    BY <1>1, <2>1, AtCursor
  <2>3. /\ op' = Refill("PeekRef2", RefExtent(buf[pos]), 0, 0, 0)
        /\ UNCHANGED <<source, window, track, direct, res, hint, caller>>
    BY <1>6 DEF PeekRefFirst, PeekRefWant
  <2>4. op'.kind = "PeekRef2" /\ op'.want = RefExtent(taken) /\ Input[taken].class = "ref"
    BY <1>6, <2>2, <2>3 DEF Refill
  <2>5. UNCHANGED <<taken, due, body>>
    BY <2>3 DEF caller
  <2>6. LookShape'
    BY <1>2, <2>2, <2>4, <2>5 DEF LookShape, FillOps, AtToken
  <2>. QED
    BY <2>3, <2>4, <2>6, OpOnly
<1>. QED
  BY <1>3, <1>4, <1>5, <1>6

LEMMA PeekRefEndRInv == ASSUME IInv, RInv, PeekRefEnd PROVE RInv'
<1>1. op.kind = "PeekRef2" /\ ~failed /\ op.kind # "readDirect"
  BY DEF PeekRefEnd, Filled, IInv, CallShape
<1>2. AtToken
  BY <1>1 DEF RInv, LookShape, FillOps
<1>3. CASE op.err
  BY <1>1, <1>3, LookRInv DEF PeekRefEnd
<1>4. CASE ~op.err /\ Avail < op.want
  BY <1>1, <1>4, LookRInv DEF PeekRefEnd
<1>5. CASE ~op.err /\ ~(Avail < op.want)
  <2>1. /\ Look("PeekRef", TRUE, "none", Span(buf[pos], 1))
        /\ pendStart' = pos /\ pendLen' = op.want /\ peekID' = buf[pos]
    BY <1>5 DEF PeekRefEnd
  <2>2. taken \in Offsets /\ Input[taken].class = "ref" /\ op.want = RefExtent(taken)
    BY <1>1 DEF RInv, LookShape
  <2>3. op.want >= 1 /\ op.want \in Nat
    BY <1>1, Standing DEF IInv, WantShape
  <2>4. Avail >= 1 /\ Avail >= op.want
    BY <1>1, <1>5, <2>3, Standing
  <2>5. buf[pos] = taken
    BY <1>1, <2>4, AtCursor
  <2>6. WholeRefAt(taken)
    <3>1. taken + op.want <= InLen /\ taken < InLen
      BY <1>1, <2>3, <2>4, Standing
    <3>. QED
      BY <2>2, <3>1 DEF WholeRefAt
  <2>7. /\ UNCHANGED <<fed, eof, pos, hint, taken, due, body>>
        /\ blen' = blen /\ op'.kind = "idle" /\ res'.op = "PeekRef" /\ res'.ok = TRUE
    BY <2>1 DEF Look, source, window, caller, Idle, Call, Answer
  <2>8. TrackShape'
    <3>1. pos' = pos /\ pendStart' = pos /\ pendLen' = RefExtent(taken) /\ peekID' = taken
          /\ taken' = taken /\ blen' = blen /\ AtToken' /\ op'.kind = "idle"
      BY <1>2, <2>1, <2>2, <2>5, <2>7 DEF AtToken
    <3>2. pos \in Nat /\ pos + RefExtent(taken) <= blen
      BY <1>1, <2>2, <2>3, <2>4, Standing
    <3>. HIDE DEF WholeRefAt, RefExtent
    <3>. QED
      BY <2>6, <3>1, <3>2 DEF TrackShape
  <2>9. EndShape' /\ LookaheadSound'
    BY <2>7 DEF RInv, EndShape, LookaheadSound
  <2>10. AnswerShape'
    <3>1. RefAhead
      BY <1>2, <2>2, <2>4, <2>6 DEF RefAhead
    <3>2. RefAhead'
      BY <2>7, <3>1 DEF RefAhead, AtToken, Avail
    <3>. QED
      BY <2>7, <3>2 DEF AnswerShape
  <2>11. LookShape'
    BY <2>7 DEF LookShape, FillOps
  <2>. QED
    BY <2>8, <2>9, <2>10, <2>11 DEF RInv
<1>. QED
  BY <1>3, <1>4, <1>5

(* The lookaheads that never pull.                                         *)
LEMMA HintsRInv == ASSUME IInv, RInv, PeekByteAfterRef \/ AtEnd PROVE RInv'
<1>1. op.kind = "idle" /\ ~failed /\ AtToken /\ op.kind # "readDirect"
  BY DEF PeekByteAfterRef, AtEnd, Ready
<1>2. CASE PeekByteAfterRef /\ AfterRef >= blen
  <2>1. Hint("PeekByteAfterRef", FALSE, NoBytes) /\ hint'.op = "PeekByteAfterRef"
        /\ hint'.ok = FALSE
    BY <1>2 DEF PeekByteAfterRef, Hint, Seen
  <2>2. LookaheadSound'
    BY <2>1 DEF LookaheadSound
  <2>. QED
    BY <2>1, <2>2, HintRInv
<1>3. CASE PeekByteAfterRef /\ ~(AfterRef >= blen)
  <2>1. Hint("PeekByteAfterRef", TRUE, Span(buf[AfterRef], 1))
    BY <1>3 DEF PeekByteAfterRef
  <2>2. hint' = [op |-> "PeekByteAfterRef", ok |-> TRUE, at |-> taken,
                 bytes |-> Span(buf[AfterRef], 1)]
    BY <2>1 DEF Hint, Seen
  <2>3. WholeRefAt(taken) /\ Avail >= RefExtent(taken)
    BY <1>3 DEF PeekByteAfterRef, RInv, AnswerShape, RefAhead
  <2>4. buf[AfterRef] = taken + RefExtent(taken)
    <3>1. RefExtent(taken) \in Nat /\ RefExtent(taken) >= 1
      <4>1. taken \in Nat /\ taken < InLen /\ InLen \in Nat
        BY <1>1, <2>3, Standing DEF WholeRefAt
      <4>2. taken \in Offsets
        BY <4>1 DEF Offsets
      <4>. QED
        BY <4>2, InputFacts DEF RefExtent
    <3>2. Avail >= 1
      BY <1>1, <2>3, <3>1, Standing
    <3>3. buf[pos] = taken
      BY <1>1, <3>2, AtCursor
    <3>4. AfterRef = pos + RefExtent(taken)
      BY <3>3 DEF AfterRef
    <3>5. AfterRef \in 0..(blen - 1)
      BY <1>1, <1>3, <3>1, <3>4, Standing
    <3>. QED
      BY <1>1, <3>1, <3>4, <3>5, Standing
  <2>5. LookaheadSound'
    BY <2>2, <2>3, <2>4 DEF LookaheadSound
  <2>. QED
    BY <2>1, <2>5, HintRInv
<1>4. CASE AtEnd
  <2>. DEFINE ok == Avail = 0
  <2>1. Hint("AtEnd", ok, NoBytes) /\ ok \in BOOLEAN
    BY <1>4, Zenon DEF AtEnd
  <2>2. hint'.op = "AtEnd" /\ hint'.ok = ok /\ hint'.at = taken
    BY <2>1 DEF Hint, Seen
  <2>3. ~ok => taken < InLen
    BY <1>1, Standing
  <2>. HIDE DEF ok
  <2>4. LookaheadSound'
    BY <2>2, <2>3 DEF LookaheadSound
  <2>. QED
    BY <2>1, <2>4, HintRInv
<1>. QED
  BY <1>2, <1>3, <1>4

(* PeekDesc goes from one fill to the next: what it knows of the token in  *)
(* front of it is all there is to show.                                    *)
LEMMA DescStepRInv ==
  ASSUME RInv, NEW next, DescStep(next),
         next.kind \in {"PeekDesc2", "PeekDesc3", "PeekDesc4", "PeekDesc5"},
         LookShape'
  PROVE  RInv'
<1>1. op' = next /\ UNCHANGED <<source, window, track, direct, res, hint, caller>>
  BY DEF DescStep
<1>. QED
  BY <1>1, OpOnly

(* A window that begins at its read position, as every compaction leaves   *)
(* it, ends before an index that was taken beyond largeRead.               *)
LEMMA StaleIsOutside ==
  ASSUME IInv, ~failed, op.kind \notin {"idle", "readN", "readDirect"},
         pos = 0, NEW nx \in Nat, nx >= LargeRead
  PROVE  nx >= blen
<1>1. Avail + spare <= FillChunk + PeekMax /\ spare \in Nat
  BY DEF IInv, RoomShape, TypeOK
<1>2. Avail = blen /\ blen \in Nat
  BY Standing
<1>. QED
  BY <1>1, <1>2, ConstantFacts

(* An index inside the window leads to the name.                           *)
LEMMA FoundInside ==
  ASSUME IInv, ~failed, op.kind \notin {"idle", "readN", "readDirect"},
         NameFound, op.nx < blen
  PROVE  base + op.nx = NameAt(taken)
<1>1. op.nx \in Nat /\ blen \in Nat
  BY DEF IInv, TypeOK
<1>2. LargeRead \in Nat
  BY ConstantFacts
<1>3. CASE pos = 0 /\ op.nx >= LargeRead
  BY <1>1, <1>3, StaleIsOutside
<1>. QED
  BY <1>3 DEF NameFound

LEMMA PeekDescKindRInv == ASSUME IInv, RInv, PeekDescKind PROVE RInv'
<1>1. op.kind = "PeekDesc1" /\ ~failed /\ op.kind # "readDirect"
  BY DEF PeekDescKind, Filled, IInv, CallShape
<1>2. AtToken
  BY <1>1 DEF RInv, LookShape, FillOps
<1>3. CASE NoDesc
  BY <1>3, NoDescRInv
<1>4. CASE ~NoDesc
  <2>1. Avail >= 1 /\ Input[buf[pos]].class = "desc" /\ ~(Input[buf[pos]].width > 1)
    BY <1>1, <1>4, Standing DEF PeekDescKind
  <2>2. buf[pos] = taken /\ taken \in Offsets
    BY <1>1, <2>1, AtCursor
  <2>3. Input[taken].class = "desc" /\ Input[taken].width \in 0..1
    BY <2>1, <2>2, InputFacts
  <2>4. CASE Input[taken].width = 0
    <3>. DEFINE next == Refill("PeekDesc3", 2, pos + 1, 0, 0)
    <3>1. DescStep(next)
      BY <1>1, <1>4, <2>1, <2>2, <2>4 DEF PeekDescKind
    <3>2. next.kind = "PeekDesc3" /\ next.want = 2 /\ next.nx = pos + 1
      BY DEF Refill
    <3>. HIDE DEF next
    <3>3. op' = next /\ UNCHANGED <<pos, base, taken, due, body>>
      BY <3>1 DEF DescStep, window, caller
    <3>4. NameAt(taken) = taken + 1 /\ taken \in Nat /\ base + pos = taken
          /\ base \in Nat /\ pos \in Nat
      BY <1>1, <2>4, Standing DEF NameAt
    <3>5. base + (pos + 1) = NameAt(taken) /\ taken + 2 = NameAt(taken) + 1
      BY <3>4
    <3>6. NameAt(taken)' = NameAt(taken)
      BY <3>3 DEF NameAt
    <3>7. NameFound'
      BY <3>2, <3>3, <3>5, <3>6 DEF NameFound
    <3>8. LookShape'
      BY <1>2, <2>2, <2>3, <3>2, <3>3, <3>5, <3>6, <3>7 DEF LookShape, FillOps, AtToken
    <3>. QED
      BY <3>1, <3>2, <3>8, DescStepRInv
  <2>5. CASE Input[taken].width # 0
    <3>. DEFINE next == Refill("PeekDesc2", 2, 0, 0, 0)
    <3>1. DescStep(next)
      BY <1>1, <1>4, <2>1, <2>2, <2>5 DEF PeekDescKind
    <3>2. next.kind = "PeekDesc2" /\ next.want = 2
      BY DEF Refill
    <3>. HIDE DEF next
    <3>3. op' = next /\ UNCHANGED <<taken, due, body>>
      BY <3>1 DEF DescStep, caller
    <3>4. LookShape'
      BY <1>2, <2>2, <2>3, <2>5, <3>2, <3>3 DEF LookShape, FillOps, AtToken
    <3>. QED
      BY <3>1, <3>2, <3>4, DescStepRInv
  <2>. QED
    BY <2>4, <2>5
<1>. QED
  BY <1>3, <1>4

LEMMA PeekDescKind2RInv == ASSUME IInv, RInv, PeekDescKind2 PROVE RInv'
<1>1. op.kind = "PeekDesc2" /\ ~failed /\ op.kind # "readDirect"
  BY DEF PeekDescKind2, Filled, IInv, CallShape
<1>2. AtToken
  BY <1>1 DEF RInv, LookShape, FillOps
<1>3. CASE NoDesc
  BY <1>3, NoDescRInv
<1>4. CASE ~NoDesc
  <2>. DEFINE next == Refill("PeekDesc3", op.want + 1, pos + op.want, 0, 0)
  <2>1. DescStep(next)
    BY <1>4 DEF PeekDescKind2
  <2>2. op.want = 2
    BY <1>1 DEF IInv, WantShape
  <2>3. next.kind = "PeekDesc3" /\ next.want = 3 /\ next.nx = pos + 2
    BY <2>2 DEF Refill
  <2>. HIDE DEF next
  <2>4. op' = next /\ UNCHANGED <<pos, base, taken, due, body>>
    BY <2>1 DEF DescStep, window, caller
  <2>5. taken \in Offsets /\ Input[taken].class = "desc" /\ Input[taken].width = 1
    BY <1>1 DEF RInv, LookShape
  <2>6. /\ base \in Nat /\ pos \in Nat /\ base + pos = taken /\ NameAt(taken) = taken + 1 + 1
    BY <1>1, <2>5, Standing DEF NameAt
  <2>7. base + (pos + 2) = NameAt(taken) /\ taken + 3 = NameAt(taken) + 1
    BY <2>6
  <2>8. NameAt(taken)' = NameAt(taken)
    BY <2>4 DEF NameAt
  <2>9. NameFound'
    BY <2>3, <2>4, <2>7, <2>8 DEF NameFound
  <2>10. LookShape'
    BY <1>2, <2>3, <2>4, <2>5, <2>7, <2>8, <2>9 DEF LookShape, FillOps, AtToken
  <2>. QED
    BY <2>1, <2>3, <2>10, DescStepRInv
<1>. QED
  BY <1>3, <1>4

LEMMA PeekDescNameRInv == ASSUME IInv, RInv, PeekDescName PROVE RInv'
<1>1. op.kind = "PeekDesc3" /\ ~failed /\ op.kind \notin {"idle", "readN", "readDirect"}
  BY DEF PeekDescName, Filled, IInv, CallShape
<1>2. AtToken
  BY <1>1 DEF RInv, LookShape, FillOps
<1>3. CASE NoDesc
  BY <1>3, NoDescRInv
<1>4. CASE ~NoDesc
  <2>. DEFINE name == buf[op.nx]
              arg == Refill("PeekDesc4", op.want + Input[name].width, op.nx, name, 0)
              inline == Refill("PeekDesc5", op.want + Input[name].len,
                               op.nx, name, Input[name].len)
  <2>1. op.nx \in 0..(blen - 1)
    BY <1>4 DEF PeekDescName, IInv, TypeOK
  <2>2. base + op.nx = NameAt(taken)
    BY <1>1, <2>1, FoundInside, Standing DEF RInv, LookShape
  <2>3. name = NameAt(taken) /\ name \in Offsets
    BY <2>1, <2>2, AtPos
  <2>4. Input[name].class = "string"
    BY <1>4, <2>1, Standing DEF PeekDescName
  <2>5. /\ taken \in Offsets /\ Input[taken].class = "desc" /\ Input[taken].width <= 1
        /\ taken + op.want = NameAt(taken) + 1
    BY <1>1 DEF RInv, LookShape
  <2>6. /\ Input[name].width \in Nat /\ Input[name].len \in Nat
        /\ taken \in Nat /\ op.want \in Nat /\ name \in Nat
    BY <1>1, <2>3, InputFacts, Standing DEF Offsets
  <2>. HIDE DEF name
  <2>7. CASE Input[name].width > 0
    <3>1. DescStep(arg)
      BY <1>4, <2>1, <2>4, <2>7, Standing DEF PeekDescName, name
    <3>2. /\ arg.kind = "PeekDesc4" /\ arg.want = op.want + Input[name].width
          /\ arg.nx = op.nx /\ arg.name = name
      BY DEF Refill
    <3>. HIDE DEF arg
    <3>3. op' = arg /\ UNCHANGED <<pos, base, taken, due, body>>
      BY <3>1 DEF DescStep, window, caller
    <3>4. taken + arg.want = NameBody(taken)
      BY <2>3, <2>5, <2>6, <3>2 DEF NameBody
    <3>5. NameAt(taken)' = NameAt(taken) /\ NameBody(taken)' = NameBody(taken)
      BY <3>3 DEF NameAt, NameBody
    <3>6. NameKnown'
      BY <2>2, <2>3, <2>4, <3>2, <3>3, <3>5 DEF NameFound, NameKnown
    <3>7. LookShape'
      BY <1>2, <2>5, <2>7, <3>2, <3>3, <3>4, <3>5, <3>6 DEF LookShape, FillOps, AtToken
    <3>. QED
      BY <3>1, <3>2, <3>7, DescStepRInv
  <2>8. CASE ~(Input[name].width > 0)
    <3>1. DescStep(inline) /\ ~(Input[name].len > PeekNameCap)
      BY <1>4, <2>1, <2>4, <2>8, Standing DEF PeekDescName, name
    <3>2. /\ inline.kind = "PeekDesc5" /\ inline.want = op.want + Input[name].len
          /\ inline.nx = op.nx /\ inline.name = name /\ inline.n = Input[name].len
      BY DEF Refill
    <3>. HIDE DEF inline
    <3>3. op' = inline /\ UNCHANGED <<pos, base, taken, due, body>>
      BY <3>1 DEF DescStep, window, caller
    <3>4. taken + inline.want = DescEnd(taken)
      BY <2>3, <2>5, <2>6, <2>8, <3>2 DEF NameBody, DescEnd
    <3>5. NameAt(taken)' = NameAt(taken) /\ DescEnd(taken)' = DescEnd(taken)
      BY <3>3 DEF NameAt, NameBody, DescEnd
    <3>6. NameKnown'
      BY <2>2, <2>3, <2>4, <3>2, <3>3, <3>5 DEF NameFound, NameKnown
    <3>7. inline.n <= PeekNameCap
      BY <2>6, <3>1, <3>2, ConstantFacts
    <3>8. LookShape'
      BY <1>2, <2>5, <3>2, <3>3, <3>4, <3>5, <3>6, <3>7 DEF LookShape, FillOps, AtToken
    <3>. QED
      BY <3>1, <3>2, <3>8, DescStepRInv
  <2>. QED
    BY <2>7, <2>8
<1>. QED
  BY <1>3, <1>4

(* The length PeekDesc decodes is the one the name's header announces: an  *)
(* index that a compaction left stale is behind the window.                *)
LEMMA PeekDescArgRInv == ASSUME IInv, RInv, PeekDescArg PROVE RInv'
<1>1. op.kind = "PeekDesc4" /\ ~failed /\ op.kind \notin {"idle", "readN", "readDirect"}
  BY DEF PeekDescArg, Filled, IInv, CallShape
<1>2. AtToken
  BY <1>1 DEF RInv, LookShape, FillOps
<1>3. CASE NoDesc
  BY <1>3, NoDescRInv
<1>4. CASE ~NoDesc
  <2>1. /\ NameKnown /\ Input[op.name].width > 0 /\ taken + op.want = NameBody(taken)
        /\ taken \in Offsets /\ Input[taken].class = "desc" /\ Input[taken].width <= 1
    BY <1>1 DEF RInv, LookShape
  <2>2. op.name = NameAt(taken) /\ op.name \in Offsets /\ Input[op.name].class = "string"
    BY <2>1 DEF NameKnown
  <2>3. /\ Input[op.name].width \in Nat /\ Input[op.name].len \in Nat /\ op.name \in Nat
        /\ op.nx \in Nat /\ taken \in Nat /\ op.want \in Nat /\ blen \in Nat /\ base \in Nat
    BY <1>1, <2>2, InputFacts, Standing DEF IInv, TypeOK
  <2>4. ~(op.nx + 1 + Input[op.name].width > blen)
    BY <1>4 DEF PeekDescArg
  <2>5. op.nx < blen /\ op.nx + 1 \in 0..(blen - 1)
    BY <2>1, <2>3, <2>4
  <2>6. base + op.nx = NameAt(taken)
    BY <1>1, <2>1, <2>5, FoundInside DEF NameKnown
  <2>7. buf[op.nx + 1] = op.name + 1
    <3>1. buf[op.nx + 1] = base + (op.nx + 1)
      BY <2>5, AtPos
    <3>. QED
      BY <2>2, <2>3, <2>6, <3>1
  <2>. DEFINE n == Input[op.name].len
              next == Refill("PeekDesc5", op.want + n, op.nx, op.name, n)
  <2>8. DescStep(next) /\ ~(n > PeekNameCap)
    BY <1>4, <2>7 DEF PeekDescArg
  <2>9. /\ next.kind = "PeekDesc5" /\ next.want = op.want + n /\ next.nx = op.nx
        /\ next.name = op.name /\ next.n = n
    BY DEF Refill
  <2>. HIDE DEF next
  <2>10. op' = next /\ UNCHANGED <<pos, base, taken, due, body>>
    BY <2>8 DEF DescStep, window, caller
  <2>11. taken + next.want = DescEnd(taken)
    BY <2>1, <2>2, <2>3, <2>9 DEF DescEnd
  <2>12. NameAt(taken)' = NameAt(taken) /\ DescEnd(taken)' = DescEnd(taken)
    BY <2>10 DEF NameAt, NameBody, DescEnd
  <2>13. NameKnown'
    BY <2>2, <2>6, <2>9, <2>10, <2>12 DEF NameFound, NameKnown
  <2>14. next.n <= PeekNameCap
    BY <2>3, <2>8, <2>9, ConstantFacts
  <2>15. LookShape'
    BY <1>2, <2>1, <2>9, <2>10, <2>11, <2>12, <2>13, <2>14 DEF LookShape, FillOps, AtToken
  <2>. QED
    BY <2>8, <2>9, <2>15, DescStepRInv
<1>. QED
  BY <1>3, <1>4

LEMMA PeekDescEndRInv == ASSUME IInv, RInv, PeekDescEnd PROVE RInv'
<1>1. op.kind = "PeekDesc5" /\ ~failed /\ op.kind \notin {"idle", "readN", "readDirect"}
  BY DEF PeekDescEnd, Filled, IInv, CallShape
<1>2. CASE NoDesc
  BY <1>2, NoDescRInv
<1>3. CASE ~NoDesc
  <2>. DEFINE at == op.nx + 1 + Input[op.name].width
              name == [i \in 0..(op.n - 1) |-> buf[at + i]]
  <2>1. Hint("PeekDesc", TRUE, name) /\ ~(at + op.n > blen)
    BY <1>3 DEF PeekDescEnd
  <2>2. /\ NameKnown /\ op.n = Input[op.name].len /\ op.n <= PeekNameCap
        /\ taken \in Offsets /\ Input[taken].class = "desc" /\ Input[taken].width <= 1
    BY <1>1 DEF RInv, LookShape
  <2>3. op.name = NameAt(taken) /\ op.name \in Offsets /\ Input[op.name].class = "string"
    BY <2>2 DEF NameKnown
  <2>4. /\ Input[op.name].width \in Nat /\ op.n \in Nat /\ op.name \in Nat
        /\ op.nx \in Nat /\ taken \in Nat /\ blen \in Nat /\ base \in Nat
    BY <1>1, <2>2, <2>3, InputFacts, Standing DEF IInv, TypeOK
  <2>5. op.nx < blen /\ at \in Nat /\ at + op.n <= blen
    <3>1. ~(op.nx + 1 + Input[op.name].width + op.n > blen)
      BY <2>1
    <3>. QED
      BY <2>4, <3>1
  <2>6. base + op.nx = NameAt(taken)
    BY <1>1, <2>2, <2>5, FoundInside DEF NameKnown
  <2>7. base + at = NameBody(taken) /\ DescEnd(taken) - NameBody(taken) = op.n
        /\ NameBody(taken) \in Nat /\ DescEnd(taken) = NameBody(taken) + op.n
    BY <2>2, <2>3, <2>4, <2>6 DEF NameBody, DescEnd
  <2>8. \A i \in 0..(op.n - 1) : buf[at + i] = NameBody(taken) + i
    <3>1. ASSUME NEW i \in 0..(op.n - 1) PROVE buf[at + i] = NameBody(taken) + i
      <4>1. at + i \in 0..(blen - 1)
        <5>. HIDE DEF at
        <5>. QED
          BY <2>4, <2>5
      <4>2. buf[at + i] = base + (at + i)
        BY <4>1, AtPos
      <4>. QED
        BY <2>4, <2>7, <4>2
    <3>. QED
      BY <3>1
  <2>9. name = Span(NameBody(taken), DescEnd(taken) - NameBody(taken))
    <3>1. name = [i \in 0..(op.n - 1) |-> NameBody(taken) + i]
      BY <2>8
    <3>. QED
      BY <2>7, <3>1 DEF Span
  <2>10. WholeDescAt(taken)
    <3>1. DescEnd(taken) <= InLen
      <4>1. base + blen <= InLen /\ InLen \in Nat
        BY <1>1, Standing
      <4>2. DescEnd(taken) = base + at + op.n
        BY <2>4, <2>7
      <4>. HIDE DEF at
      <4>. QED
        BY <2>4, <2>5, <4>1, <4>2
    <3>2. taken < InLen /\ NameAt(taken) < InLen
      BY <2>2, <2>3, InputAssumption DEF Offsets, InputAssumption
    <3>. QED
      BY <2>2, <2>3, <3>1, <3>2 DEF WholeDescAt
  <2>. HIDE DEF name
  <2>11. hint'.op = "PeekDesc" /\ hint'.at = taken /\ hint'.bytes = name
    BY <2>1 DEF Hint, Seen
  <2>12. LookaheadSound'
    BY <2>9, <2>10, <2>11 DEF LookaheadSound
  <2>. QED
    BY <2>1, <2>12, HintRInv
<1>. QED
  BY <1>2, <1>3

LEMMA FailRInv ==
  ASSUME RInv, op.kind # "readDirect", NEW call \in {"byteAt", "readN"}, NEW why,
         Fail(call, why)
  PROVE  RInv'
<1>1. /\ UNCHANGED <<source, window, track, hint, taken, due, body>>
      /\ op'.kind = "idle" /\ failed' = TRUE /\ res'.op = call /\ res'.ok = FALSE
  BY DEF Fail, Idle, Call, Answer
<1>2. TrackShape' /\ EndShape'
  BY <1>1, Still DEF source, window, track
<1>3. AnswerShape' /\ LookShape'
  BY <1>1 DEF AnswerShape, LookShape, FillOps
<1>4. LookaheadSound'
  BY <1>1 DEF RInv, LookaheadSound
<1>. QED
  BY <1>2, <1>3, <1>4 DEF RInv

(* A read the window serves: the track is left behind with the last byte   *)
(* of its REF, and holds on to what is left of it before.                  *)
LEMMA DeliverRInv ==
  ASSUME RInv, NEW call \in {"byteAt", "readN"}, NEW n,
         Deliver(call, n),
         pendLen' # 0 =>
           /\ pendStart <= pos + n /\ pendStart + pendLen <= blen
           /\ due' > 0 /\ body' = 0 /\ pendStart + pendLen = pos + n + due'
  PROVE  RInv'
<1>. DEFINE bytes == [i \in 0..(n - 1) |-> buf[pos + i]]
<1>0. /\ pos' = pos + n /\ op' = Idle /\ res' = Answer(call, TRUE, "none", bytes)
      /\ pendLen' = Released(pos + n)
      /\ UNCHANGED <<fed, eof, blen, pendStart, peekID, hint>>
  BY DEF Deliver, source
<1>. HIDE DEF bytes
<1>1. op'.kind = "idle" /\ res'.op = call /\ res'.ok = TRUE
  BY <1>0 DEF Idle, Call, Answer
<1>2. pendLen' # 0 => pendLen' = pendLen
  BY <1>0 DEF Released
<1>3. TrackShape'
  <2>1. due' > 0 => ~AtToken'
    BY DEF AtToken
  <2>. QED
    BY <1>0, <1>1, <1>2, <2>1 DEF TrackShape
<1>4. AnswerShape' /\ LookShape'
  BY <1>1 DEF AnswerShape, LookShape, FillOps
<1>5. EndShape' /\ LookaheadSound'
  BY <1>0 DEF RInv, EndShape, LookaheadSound
<1>. QED
  BY <1>3, <1>4, <1>5 DEF RInv

LEMMA byteAtEndRInv == ASSUME IInv, RInv, byteAtEnd PROVE RInv'
<1>1. op.kind = "byteAt" /\ op.kind # "readDirect" /\ ~failed
  BY DEF byteAtEnd, Filled, IInv, CallShape
<1>2. AtToken
  BY <1>1 DEF RInv, LookShape, FillOps
<1>3. CASE op.err
  BY <1>1, <1>3, FailRInv DEF byteAtEnd
<1>4. CASE ~op.err /\ Avail < 1
  BY <1>1, <1>4, FailRInv DEF byteAtEnd
<1>5. CASE ~op.err /\ ~(Avail < 1)
  <2>1. Avail >= 1
    BY <1>1, <1>5, Standing
  <2>2. buf[pos] = taken /\ taken \in Offsets
    BY <1>1, <2>1, AtCursor
  <2>3. Deliver("byteAt", 1) /\ due' = Input[taken].width /\ body' = Input[taken].len
    BY <1>5, <2>2 DEF byteAtEnd
  <2>4. pendLen' = Released(pos + 1)
    BY <2>3 DEF Deliver
  <2>5. ASSUME pendLen' # 0
        PROVE  /\ pendStart <= pos + 1 /\ pendStart + pendLen <= blen
               /\ due' > 0 /\ body' = 0 /\ pendStart + pendLen = pos + 1 + due'
    <3>1. pendLen # 0 /\ ~(pos + 1 >= pendStart + pendLen)
      BY <2>4, <2>5 DEF Released, IInv, TypeOK
    <3>2. /\ pendStart <= pos /\ pendStart + pendLen <= blen
          /\ WholeRefAt(taken) /\ pendStart + pendLen = pos + RefExtent(taken)
      BY <1>2, <3>1 DEF RInv, TrackShape
    <3>3. Input[taken].len = 0 /\ Input[taken].width \in Nat
      BY <2>2, <3>2, InputFacts, InputAssumption DEF InputAssumption, WholeRefAt
    <3>4. pos \in Nat /\ pendStart \in Nat /\ pendLen \in Nat /\ blen \in Nat
      BY DEF IInv, TypeOK
    <3>5. RefExtent(taken) = 1 + Input[taken].width
      BY DEF RefExtent
    <3>. QED
      BY <2>3, <3>1, <3>2, <3>3, <3>4, <3>5
  <2>. QED
    BY <2>3, <2>5, DeliverRInv
<1>. QED
  BY <1>3, <1>4, <1>5

LEMMA readNEndRInv == ASSUME IInv, RInv, readNEnd PROVE RInv'
<1>1. op.kind = "readN" /\ op.kind # "readDirect" /\ ~failed
  BY DEF readNEnd, Filled, IInv, CallShape
<1>2. op.want = Pending /\ ~AtToken
  BY <1>1 DEF IInv, WantShape
<1>3. CASE op.err
  BY <1>1, <1>3, FailRInv DEF readNEnd
<1>4. CASE ~op.err /\ Avail < op.want
  BY <1>1, <1>4, FailRInv DEF readNEnd
<1>5. CASE ~op.err /\ ~(Avail < op.want)
  <2>1. Deliver("readN", op.want)
    BY <1>5 DEF readNEnd
  <2>2. pendLen' = Released(pos + op.want)
    BY <2>1 DEF Deliver
  <2>3. pendLen' = 0
    <3>1. CASE pendLen = 0
      BY <2>2, <3>1 DEF Released
    <3>2. CASE pendLen # 0
      <4>1. due > 0 /\ pendStart + pendLen = pos + due
        BY <1>2, <3>2 DEF RInv, TrackShape
      <4>2. op.want = due
        BY <1>2, <4>1 DEF Pending
      <4>3. pendLen > 0 /\ pos + op.want >= pendStart + pendLen
        BY <3>2, <4>1, <4>2 DEF IInv, TypeOK
      <4>. QED
        BY <2>2, <4>3 DEF Released
    <3>. QED
      BY <3>1, <3>2
  <2>. QED
    BY <2>1, <2>3, DeliverRInv
<1>. QED
  BY <1>3, <1>4, <1>5

LEMMA readDirectRInv == ASSUME IInv, RInv, readDirect PROVE RInv'
<1>1. /\ ~AtToken /\ pendLen' = 0
      /\ op' = Call("readDirect", Pending, FALSE)
      /\ UNCHANGED <<fed, eof, res, hint, taken, due, body, failed>>
  BY DEF readDirect, source, caller
<1>2. op'.kind = "readDirect"
  BY <1>1 DEF Call
<1>3. TrackShape' /\ LookShape'
  BY <1>1, <1>2 DEF TrackShape, LookShape, FillOps
<1>4. AnswerShape'
  BY <1>1 DEF RInv, AnswerShape, RefAhead
<1>5. EndShape' /\ LookaheadSound'
  BY <1>1 DEF RInv, EndShape, LookaheadSound
<1>. QED
  BY <1>3, <1>4, <1>5 DEF RInv

LEMMA readDirectReadRInv == ASSUME IInv, RInv, readDirectRead PROVE RInv'
<1>1. op.kind = "readDirect" /\ pendLen = 0 /\ ~AtToken
  BY DEF readDirectRead, RInv, TrackShape, IInv, CallShape
<1>2. UNCHANGED <<eof, pendStart, pendLen, peekID, hint, taken, due, body>>
  BY DEF readDirectRead, track
<1>3. EndShape'
  <2>1. PICK nr \in 0..(InLen - fed) : fed' = fed + nr
    BY Zenon DEF readDirectRead
  <2>2. fed \in 0..InLen /\ InLen \in Nat
    BY ConstantFacts DEF IInv, TypeOK
  <2>3. fed = InLen => fed' = InLen
    BY <2>1, <2>2
  <2>. QED
    BY <1>2, <2>3 DEF RInv, EndShape
<1>4. \/ UNCHANGED <<res, failed, op>>
      \/ /\ failed' = TRUE /\ op'.kind = "idle"
         /\ res'.op = "readN" /\ res'.ok = FALSE
  <2>1. \/ UNCHANGED <<res, failed, op>>
        \/ DirectFail("truncated") \/ DirectFail("fault")
    BY Zenon DEF readDirectRead
  <2>2. ASSUME NEW why, DirectFail(why)
        PROVE  /\ failed' = TRUE /\ op'.kind = "idle"
               /\ res'.op = "readN" /\ res'.ok = FALSE
    BY <2>2 DEF DirectFail, Idle, Call, Answer
  <2>. QED
    BY <2>1, <2>2
<1>5. TrackShape'
  BY <1>1, <1>2 DEF TrackShape
<1>6. AnswerShape'
  BY <1>1, <1>2, <1>4 DEF RInv, AnswerShape, RefAhead
<1>7. LookShape'
  BY <1>1, <1>4 DEF LookShape, FillOps
<1>8. LookaheadSound'
  BY <1>2 DEF RInv, LookaheadSound
<1>. QED
  BY <1>3, <1>5, <1>6, <1>7, <1>8 DEF RInv

LEMMA readDirectEndRInv == ASSUME IInv, RInv, readDirectEnd PROVE RInv'
<1>1. op.kind = "readDirect" /\ pendLen = 0
  BY DEF readDirectEnd, RInv, TrackShape
<1>2. /\ UNCHANGED <<fed, eof, pendLen, hint>> /\ op'.kind = "idle"
      /\ res'.op = "readN" /\ res'.ok = TRUE
  BY DEF readDirectEnd, source, window, track, Idle, Call, Answer
<1>3. TrackShape' /\ AnswerShape' /\ LookShape'
  BY <1>1, <1>2 DEF TrackShape, AnswerShape, LookShape, FillOps
<1>4. EndShape' /\ LookaheadSound'
  BY <1>2 DEF RInv, EndShape, LookaheadSound
<1>. QED
  BY <1>3, <1>4 DEF RInv

(* Compaction moves the track with the window: what is left of it ends     *)
(* where it did.                                                           *)
LEMMA CompactedTrack ==
  ASSUME IInv, RInv
  PROVE  CompactPendLen # 0 =>
           /\ pendLen # 0
           /\ CompactPendStart = 0
           /\ CompactPendStart + CompactPendLen + pos = pendStart + pendLen
<1>. SUFFICES ASSUME CompactPendLen # 0
              PROVE  /\ pendLen # 0 /\ CompactPendStart = 0
                     /\ CompactPendStart + CompactPendLen + pos = pendStart + pendLen
  OBVIOUS
<1>1. pendStart \in Nat /\ pendLen \in Nat /\ pos \in Nat
  BY DEF IInv, TypeOK
<1>2. pendLen # 0
  BY DEF CompactPendLen
<1>3. pendStart <= pos
  BY <1>2 DEF RInv, TrackShape
<1>4. CompactPendStart = 0 /\ CompactPendLen = Larger(pendStart + pendLen - pos, 0)
  BY <1>1, <1>2, <1>3 DEF CompactPendStart, CompactPendLen
<1>. QED
  BY <1>1, <1>2, <1>4 DEF Larger

LEMMA DiscardRInv == ASSUME IInv, RInv, Discard PROVE RInv'
<1>1. /\ op.kind = "idle" /\ ~failed /\ AtToken
      /\ blen' = blen - pos /\ pos' = 0
      /\ pendStart' = CompactPendStart /\ pendLen' = CompactPendLen
      /\ UNCHANGED <<fed, eof, peekID, op, res, hint, taken, due, body, failed>>
  BY DEF Discard, Ready, source, caller
<1>2. blen \in Nat /\ pos \in Nat /\ pos <= blen
  BY DEF IInv, TypeOK
<1>3. Avail' = Avail /\ AtToken' = AtToken
  BY <1>1, <1>2 DEF Avail, AtToken
<1>4. TrackShape'
  <2>1. ASSUME pendLen' # 0
        PROVE  /\ pendStart' <= pos' /\ pendStart' + pendLen' <= blen'
               /\ WholeRefAt(taken') /\ peekID' = taken'
               /\ pendStart' + pendLen' = pos' + RefExtent(taken')
    <3>1. /\ pendLen # 0 /\ pendStart' = 0
          /\ pendStart' + pendLen' + pos = pendStart + pendLen
          /\ pendStart' \in Nat /\ pendLen' \in Nat
      BY <1>1, <2>1, CompactedTrack, Compacted
    <3>2. /\ WholeRefAt(taken) /\ peekID = taken
          /\ pendStart + pendLen = pos + RefExtent(taken) /\ pendStart + pendLen <= blen
          /\ pendStart \in Nat /\ pendLen \in Nat
      BY <1>1, <3>1 DEF RInv, TrackShape, IInv, TypeOK
    <3>3. RefExtent(taken) \in Int
      <4>1. taken \in Nat /\ taken < InLen /\ InLen \in Nat
        BY <1>1, <3>2, Standing DEF WholeRefAt
      <4>2. taken \in Offsets
        BY <4>1 DEF Offsets
      <4>. QED
        BY <4>2, InputFacts DEF RefExtent
    <3>4. pendStart' + pendLen' = RefExtent(taken) /\ pendStart' + pendLen' <= blen - pos
      <4>1. PICK s1, l1 \in Nat : s1 = pendStart' /\ l1 = pendLen'
        BY <3>1
      <4>2. s1 + l1 + pos = pos + RefExtent(taken) /\ s1 + l1 + pos <= blen
        BY <3>1, <3>2, <4>1
      <4>3. s1 + l1 = RefExtent(taken) /\ s1 + l1 <= blen - pos
        BY <1>2, <3>3, <4>2
      <4>. QED
        BY <4>1, <4>3
    <3>5. taken' = taken /\ peekID' = peekID /\ pos' = 0 /\ blen' = blen - pos
      BY <1>1
    <3>6. pos' + RefExtent(taken') = RefExtent(taken)
      BY <3>3, <3>5
    <3>7. WholeRefAt(taken') /\ peekID' = taken'
      BY <3>2, <3>5
    <3>. QED
      BY <3>1, <3>4, <3>5, <3>6, <3>7
  <2>2. op'.kind # "readDirect" /\ AtToken'
    BY <1>1, <1>3
  <2>3. \A t : t = taken' => WholeRefAt(t) = WholeRefAt(taken)' /\ RefExtent(t) = RefExtent(taken)'
    BY DEF WholeRefAt, RefExtent
  <2>. QED
    BY <2>1, <2>2, <2>3 DEF TrackShape
<1>5. AnswerShape'
  BY <1>1, <1>3 DEF RInv, AnswerShape, RefAhead
<1>6. EndShape' /\ LookaheadSound' /\ LookShape'
  BY <1>1 DEF RInv, EndShape, LookaheadSound, LookShape, FillOps
<1>. QED
  BY <1>4, <1>5, <1>6 DEF RInv

LEMMA SnapshotRInv == ASSUME IInv, RInv, Pos \/ ByteRange PROVE RInv'
<1>1. /\ op.kind = "idle" /\ ~failed
      /\ UNCHANGED <<source, window, track, op, res, taken, due, body>>
  BY DEF Pos, ByteRange, Ready
<1>2. TrackShape' /\ EndShape'
  BY <1>1, Still DEF source, window, track
<1>3. AnswerShape'
  BY <1>1 DEF RInv, AnswerShape, RefAhead, AtToken, Avail, window
<1>4. LookShape'
  BY <1>1 DEF LookShape, FillOps
<1>5. LookaheadSound'
  <2>1. hint' = hint \/ hint'.op = "ByteRange"
    BY DEF Pos, ByteRange, Seen
  <2>. QED
    BY <2>1 DEF RInv, LookaheadSound
<1>. QED
  BY <1>2, <1>3, <1>4, <1>5 DEF RInv

(* A pull keeps the unread bytes in place, and compacts only a window in   *)
(* which an index of this call lies beyond largeRead.                      *)
LEMMA fillRInv == ASSUME IInv, RInv, fill PROVE RInv'
<1>. DEFINE kept == IF LongPrefix THEN blen - pos ELSE blen
<1>1. PICK nr \in 0..(InLen - fed), says \in {"more", "eof", "fault"} : \E room :
          /\ Reads(room, nr, says)
          /\ blen' = kept + nr
          /\ pos' = (IF LongPrefix THEN 0 ELSE pos)
          /\ base' = (IF LongPrefix THEN base + pos ELSE base)
          /\ pendStart' = (IF LongPrefix THEN CompactPendStart ELSE pendStart)
          /\ pendLen' = (IF LongPrefix THEN CompactPendLen ELSE pendLen)
          /\ fed' = fed + nr
          /\ eof' = (says = "eof")
          /\ op' = [op EXCEPT !.err = (says = "fault")]
  BY Zenon DEF fill
<1>2. /\ op.kind \in FillOps /\ op.kind # "readDirect" /\ op.kind # "idle"
      /\ UNCHANGED <<peekID, res, hint, taken, due, body, failed>>
  BY DEF fill, Filling, caller, FillOps
<1>3. ~failed
  BY <1>2 DEF IInv, CallShape
<1>4. /\ op'.kind = op.kind /\ op'.want = op.want /\ op'.name = op.name
      /\ op'.nx = op.nx /\ op'.n = op.n
  BY <1>1 DEF IInv, TypeOK
<1>5. nr \in Nat
  BY <1>3, <1>2, <1>1, Standing
<1>6. Avail' = Avail + nr /\ AtToken' = AtToken
  <2>1. blen' - pos' = blen - pos + nr
    BY <1>1, <1>2, <1>3, <1>5, Standing
  <2>. QED
    BY <1>2, <2>1 DEF Avail, AtToken
<1>7. EndShape'
  BY <1>1 DEF EndShape, Reads
<1>8. LookaheadSound'
  BY <1>2 DEF RInv, LookaheadSound
<1>9. AnswerShape'
  <2>1. ASSUME RefAhead PROVE RefAhead'
    <3>1. AtToken' /\ WholeRefAt(taken)'
      BY <1>2, <1>6, <2>1 DEF RefAhead, WholeRefAt, RefExtent
    <3>2. Avail >= RefExtent(taken) /\ taken < InLen
      BY <2>1 DEF RefAhead, WholeRefAt
    <3>3. taken \in Offsets
      BY <1>2, <1>3, <3>2, Standing DEF Offsets
    <3>4. RefExtent(taken) \in Nat /\ RefExtent(taken)' = RefExtent(taken)
      BY <1>2, <3>3, InputFacts DEF RefExtent
    <3>5. Avail' >= RefExtent(taken)'
      BY <1>2, <1>3, <1>5, <1>6, <3>2, <3>4, Standing
    <3>. QED
      BY <3>1, <3>5 DEF RefAhead
  <2>. QED
    BY <1>2, <2>1 DEF RInv, AnswerShape
<1>10. TrackShape'
  <2>. SUFFICES ASSUME pendLen' # 0
                PROVE  /\ pendStart' <= pos' /\ pendStart' + pendLen' <= blen'
                       /\ IF AtToken'
                            THEN /\ WholeRefAt(taken)' /\ peekID' = taken'
                                 /\ pendStart' + pendLen' = pos' + RefExtent(taken)'
                            ELSE /\ due' > 0 /\ body' = 0
                                 /\ pendStart' + pendLen' = pos' + due'
    BY <1>2, <1>4 DEF TrackShape
  <2>1. pendStart \in Nat /\ pendLen \in Nat
    BY DEF IInv, TypeOK
  <2>2. /\ pendLen # 0 /\ pendStart' <= pos'
        /\ pendStart' + pendLen' + pos = pendStart + pendLen + pos'
    <3>1. CASE LongPrefix
      <4>1. pos' = 0 /\ pendStart' = CompactPendStart /\ pendLen' = CompactPendLen
        BY <1>1, <3>1
      <4>2. /\ pendLen # 0 /\ pendStart' = 0
            /\ pendStart' + pendLen' + pos = pendStart + pendLen
        BY <4>1, CompactedTrack
      <4>. QED
        BY <1>2, <1>3, <2>1, <4>1, <4>2, Standing
    <3>2. CASE ~LongPrefix
      <4>1. pos' = pos /\ pendStart' = pendStart /\ pendLen' = pendLen
        BY <1>1, <3>2
      <4>. QED
        BY <4>1 DEF RInv, TrackShape
    <3>. QED
      BY <3>1, <3>2
  <2>3. pos \in Nat /\ blen \in Nat /\ pos' \in Nat /\ pendStart' \in Nat /\ pendLen' \in Nat
    BY <1>1, <1>2, <1>3, <2>1, Standing, Compacted
  <2>4. pendStart + pendLen <= blen
    BY <2>2 DEF RInv, TrackShape
  <2>a. PICK s1, l1, p1, b1 \in Nat :
          s1 = pendStart' /\ l1 = pendLen' /\ p1 = pos' /\ b1 = blen'
    <3>1. blen' \in Nat
      BY <1>1, <1>2, <1>3, <1>5, Standing
    <3>. QED
      BY <2>3, <3>1
  <2>b. s1 + l1 + pos = pendStart + pendLen + p1
    BY <2>2, <2>a
  <2>c. b1 + pos = blen + nr + p1
    <3>1. blen' + pos = blen + nr + pos'
      BY <1>1, <1>2, <1>3, <1>5, Standing
    <3>. QED
      BY <2>a, <3>1
  <2>5. pendStart' + pendLen' <= blen'
    <3>1. s1 + l1 <= b1
      BY <1>5, <2>1, <2>3, <2>4, <2>b, <2>c
    <3>. QED
      BY <2>a, <3>1
  <2>6. CASE AtToken
    <3>1. /\ WholeRefAt(taken) /\ peekID = taken
          /\ pendStart + pendLen = pos + RefExtent(taken)
      BY <2>2, <2>6 DEF RInv, TrackShape
    <3>2. RefExtent(taken) \in Nat
      <4>1. taken < InLen
        BY <3>1 DEF WholeRefAt
      <4>2. taken \in Offsets
        BY <1>2, <1>3, <4>1, Standing DEF Offsets
      <4>. QED
        BY <4>2, InputFacts DEF RefExtent
    <3>3. WholeRefAt(taken)' /\ RefExtent(taken)' = RefExtent(taken) /\ peekID' = taken'
      BY <1>2, <3>1 DEF WholeRefAt, RefExtent
    <3>4. PICK r \in Nat : r = RefExtent(taken)
      BY <3>2
    <3>5. pendStart' + pendLen' = pos' + RefExtent(taken)'
      <4>1. pendStart + pendLen = pos + r /\ RefExtent(taken)' = r
        BY <3>1, <3>3, <3>4
      <4>2. s1 + l1 = p1 + r
        BY <2>1, <2>3, <2>b, <4>1
      <4>. QED
        BY <2>a, <4>1, <4>2
    <3>. QED
      BY <1>6, <2>2, <2>5, <2>6, <3>3, <3>5
  <2>7. CASE ~AtToken
    <3>1. due > 0 /\ body = 0 /\ pendStart + pendLen = pos + due /\ due \in Nat
      BY <2>2, <2>7 DEF RInv, TrackShape, IInv, TypeOK
    <3>2. s1 + l1 = p1 + due
      BY <2>1, <2>3, <2>b, <3>1
    <3>3. due' = due /\ body' = body
      BY <1>2
    <3>4. pendStart' + pendLen' = pos' + due' /\ due' > 0 /\ body' = 0
      BY <2>a, <3>1, <3>2, <3>3
    <3>. QED
      BY <1>6, <2>2, <2>5, <2>7, <3>4
  <2>. QED
    BY <2>6, <2>7
<1>11. NameFound /\ taken \in Offsets => NameFound'
  <2>. SUFFICES ASSUME NameFound, taken \in Offsets PROVE NameFound'
    OBVIOUS
  <2>1. NameAt(taken)' = NameAt(taken)
    BY <1>2 DEF NameAt
  <2>2. CASE ~LongPrefix
    <3>1. pos' = pos /\ base' = base
      BY <1>1, <2>2
    <3>. QED
      BY <1>4, <2>1, <3>1 DEF NameFound
  <2>3. CASE LongPrefix
    <3>1. pos >= LargeRead /\ pos' = 0
      BY <1>1, <2>3 DEF LongPrefix
    <3>2. pos # 0
      BY <3>1, ConstantFacts
    <3>3. base + op.nx = NameAt(taken)
      BY <3>2 DEF NameFound
    <3>4. NameAt(taken) \in Nat /\ NameAt(taken) >= taken
      BY <1>2, <1>3, InputFacts, Standing DEF NameAt
    <3>5. op.nx \in Nat
      BY DEF IInv, TypeOK
    <3>6. op.nx >= LargeRead
      BY <1>2, <1>3, <3>1, <3>3, <3>4, <3>5, ConstantFacts, Standing
    <3>. QED
      BY <1>4, <3>1, <3>6 DEF NameFound
  <2>. QED
    BY <2>2, <2>3
<1>12. LookShape'
  <2>1. /\ RefExtent(taken)' = RefExtent(taken) /\ NameAt(taken)' = NameAt(taken)
        /\ NameBody(taken)' = NameBody(taken) /\ DescEnd(taken)' = DescEnd(taken)
    BY <1>2 DEF RefExtent, NameAt, NameBody, DescEnd
  <2>2. NameKnown /\ taken \in Offsets => NameKnown'
    BY <1>4, <1>11, <2>1 DEF NameKnown
  <2>. HIDE DEF NameFound, NameKnown, AtToken
  <2>3. op.kind \in {"PeekDesc2", "PeekDesc3", "PeekDesc4", "PeekDesc5"} =>
          taken \in Offsets /\ Input[taken].class = "desc" /\ Input[taken].width <= 1
    BY DEF RInv, LookShape
  <2>. QED
    BY <1>2, <1>4, <1>6, <1>11, <2>1, <2>2, <2>3 DEF RInv, LookShape
<1>. QED
  BY <1>7, <1>8, <1>9, <1>10, <1>12 DEF RInv

LEMMA StutterRInv == ASSUME RInv, UNCHANGED vars PROVE RInv'
<1>1. AtToken' = AtToken /\ Avail' = Avail
  BY DEF vars, AtToken, Avail
<1>2. TrackShape' /\ EndShape' /\ AnswerShape'
  BY <1>1 DEF vars, RInv, TrackShape, EndShape, AnswerShape, RefAhead
<1>3. LookShape'
  BY <1>1 DEF vars, RInv, LookShape, NameFound, NameKnown
<1>4. LookaheadSound'
  BY DEF vars, RInv, LookaheadSound
<1>. QED
  BY <1>2, <1>3, <1>4 DEF RInv

LEMMA NextRInv == IInv /\ RInv /\ [Next]_vars => RInv'
  BY BeginsRInv, byteAtEndRInv, readNEndRInv, readDirectRInv, readDirectReadRInv,
     readDirectEndRInv, PeekRefFirstRInv, PeekRefEndRInv, AtEOFRInv, AtEOFEndRInv,
     HintsRInv, PeekDescKindRInv, PeekDescKind2RInv, PeekDescNameRInv, PeekDescArgRInv,
     PeekDescEndRInv, DiscardRInv, SnapshotRInv, fillRInv, StutterRInv
  DEF Next, Start, Continue

(* What every reachable state says of the token in front of the caller.    *)
THEOREM AnswersHold == Spec => []RInv
  BY InitRInv, NextRInv, Invariance, PTL DEF Spec

(* A lookahead that says yes is right about the input, however the source  *)
(* cut its pieces and whatever the window was compacted to in between      *)
(* (wire.go, PeekByteAfterRef, PeekDesc and AtEnd).                        *)
THEOREM LookaheadsAreSound == Spec => []LookaheadSound
<1>1. RInv => LookaheadSound
  BY DEF RInv
<1>. QED
  BY <1>1, AnswersHold, PTL

(* A call that would Read owes a byte of its own token: fill asks for no   *)
(* more than the end of what the call is entitled to.                      *)
LEMMA WaitsInside == IInv /\ RInv => NeverWaitsPastToken
<1>. SUFFICES ASSUME IInv, RInv,
                     Filling \/ (op.kind = "readDirect" /\ olen < op.want)
              PROVE  fed < Entitled
  BY DEF NeverWaitsPastToken
<1>1. CASE op.kind = "readDirect" /\ olen < op.want
  <2>1. ~failed /\ op.want = Pending /\ blen = 0
    BY <1>1 DEF IInv, CallShape
  <2>2. /\ base + pos = taken + olen /\ base + blen = fed /\ pos = 0
        /\ base \in Nat /\ taken \in Nat /\ olen \in Nat /\ op.want \in Nat /\ fed \in Int
    BY <1>1, <2>1, ConstantFacts DEF IInv, WindowExact, TypeOK
  <2>3. fed < taken + Pending
    BY <1>1, <2>1, <2>2
  <2>. QED
    BY <1>1, <2>3 DEF Entitled
<1>2. CASE Filling
  <2>1. /\ op.kind \in FillOps /\ Avail < op.want
        /\ op.kind # "readDirect" /\ op.kind # "idle" /\ ~failed
    BY <1>2 DEF Filling, FillOps, IInv, CallShape
  <2>2. taken + Avail = fed /\ taken \in Nat /\ fed \in Nat /\ op.want \in Nat
    BY <2>1, Standing
  <2>3. fed < taken + op.want
    BY <2>1, <2>2, Standing
  <2>4. CASE op.kind \in {"byteAt", "AtEOF", "PeekRef1", "PeekDesc1"}
    BY <2>3, <2>4 DEF Entitled, IInv, WantShape
  <2>5. CASE op.kind = "readN"
    BY <2>3, <2>5 DEF Entitled, IInv, WantShape
  <2>6. CASE op.kind = "PeekRef2"
    BY <2>3, <2>6 DEF Entitled, RInv, LookShape
  <2>7. CASE op.kind = "PeekDesc2"
    BY <2>3, <2>7 DEF Entitled, IInv, WantShape
  <2>8. CASE op.kind = "PeekDesc3"
    BY <2>3, <2>8 DEF Entitled, RInv, LookShape
  <2>9. CASE op.kind = "PeekDesc4"
    BY <2>3, <2>9 DEF Entitled, RInv, LookShape
  <2>10. CASE op.kind = "PeekDesc5"
    BY <2>3, <2>10 DEF Entitled, RInv, LookShape
  <2>. QED
    BY <2>1, <2>4, <2>5, <2>6, <2>7, <2>8, <2>9, <2>10 DEF FillOps
<1>. QED
  BY <1>1, <1>2

(* On a live source no call waits for bytes behind the token it reads or   *)
(* looks at (wire.go, fill and readDirect, and every argument of fill).    *)
THEOREM WaitsOnlyForItsToken == Spec => []NeverWaitsPastToken
  BY WaitsInside, Invariance, AnswersHold, PTL

(* A pull that grows the window starts from a consumed prefix below        *)
(* largeRead and asks for no more than a record below it.                  *)
LEMMA fillBounded == ASSUME IInv, WindowBounded, fill PROVE WindowBounded'
<1>. DEFINE kept == IF LongPrefix THEN blen - pos ELSE blen
            free == IF LongPrefix THEN CompactSpare ELSE spare
            need == Larger(op.want - Avail, FillChunk)
            room == IF free < need THEN need ELSE free
<1>1. PICK nr \in 0..(InLen - fed) : blen' = kept + nr /\ spare' = room - nr
  BY Zenon DEF fill
<1>2. /\ op.kind \in FillOps /\ Avail < op.want
      /\ op.kind # "readDirect" /\ op.kind # "idle" /\ ~failed
  BY DEF fill, Filling, FillOps, IInv, CallShape
<1>3. /\ fed \in Nat /\ InLen \in Nat /\ blen \in Nat /\ pos \in Nat /\ pos <= blen
      /\ Avail = blen - pos /\ Avail \in Nat /\ op.want \in Nat
  BY <1>2, Standing
<1>4. /\ spare \in Nat /\ CompactSpare \in Nat /\ CompactSpare <= spare
      /\ blen + spare <= 2 * LargeRead + FillChunk
  BY Compacted DEF IInv, TypeOK, WindowBounded
<1>5. op.want <= LargeRead
  <2>1. CASE op.kind = "readN"
    BY <1>2, <1>3, <2>1, ConstantFacts DEF IInv, WantShape
  <2>2. CASE op.kind \in {"byteAt", "AtEOF", "PeekRef1", "PeekDesc1"}
    BY <2>2, ConstantFacts DEF IInv, WantShape
  <2>3. CASE op.kind \in {"PeekRef2", "PeekDesc2", "PeekDesc3", "PeekDesc4", "PeekDesc5"}
    <3>1. op.want <= PeekMax
      BY <1>3, <2>3, ConstantFacts DEF IInv, WantShape
    <3>. QED
      BY <1>3, <3>1, ConstantFacts
  <2>. QED
    BY <1>2, <2>1, <2>2, <2>3 DEF FillOps
<1>6. kept \in Nat /\ kept <= blen /\ kept <= LargeRead + Avail
  <2>1. CASE LongPrefix
    BY <1>3, <2>1, ConstantFacts
  <2>2. CASE ~LongPrefix
    BY <1>3, <2>2, ConstantFacts DEF LongPrefix
  <2>. QED
    BY <2>1, <2>2
<1>7. free \in Nat /\ free <= spare
  BY <1>4
<1>8. need \in Nat /\ Avail + need <= LargeRead + FillChunk
  BY <1>2, <1>3, <1>5, ConstantFacts DEF Larger
<1>. HIDE DEF kept, free, need
<1>9. kept + room <= 2 * LargeRead + FillChunk
  <2>1. CASE free < need
    <3>1. kept + need <= LargeRead + (LargeRead + FillChunk)
      BY <1>3, <1>6, <1>8, ConstantFacts
    <3>. QED
      BY <2>1, <3>1, <1>6, <1>8, ConstantFacts
  <2>2. CASE ~(free < need)
    BY <1>3, <1>4, <1>6, <1>7, <2>2, ConstantFacts
  <2>. QED
    BY <2>1, <2>2
<1>10. room \in Nat /\ nr \in Nat
  BY <1>3, <1>7, <1>8
<1>. HIDE DEF room
<1>11. blen' + spare' = kept + room
  BY <1>1, <1>6, <1>10
<1>. QED
  BY <1>9, <1>11 DEF WindowBounded

LEMMA NextBounded == IInv /\ WindowBounded /\ [Next]_vars => WindowBounded'
<1>. SUFFICES ASSUME IInv, WindowBounded, [Next]_vars PROVE WindowBounded'
  OBVIOUS
<1>1. CASE fill
  BY <1>1, fillBounded
<1>2. CASE Discard
  <2>1. blen' = blen - pos /\ spare' = CompactSpare
    BY <1>2 DEF Discard
  <2>2. blen \in Nat /\ pos \in Nat /\ spare \in Nat /\ pos <= blen
    BY DEF IInv, TypeOK
  <2>. QED
    BY <2>1, <2>2, Compacted, ConstantFacts DEF WindowBounded
<1>3. CASE readDirect
  BY <1>3, ConstantFacts DEF readDirect, WindowBounded
<1>4. CASE UNCHANGED <<blen, spare>>
  BY <1>4 DEF WindowBounded
<1>5. Next => fill \/ Discard \/ readDirect \/ UNCHANGED <<blen, spare>>
  BY DEF Next, Start, Continue, window, byteAt, readN, PeekRef, AtEOF,
         PeekByteAfterRef, AtEnd, PeekDesc, Pos, ByteRange, byteAtEnd, readNEnd,
         readDirectRead, readDirectEnd, PeekRefFirst, PeekRefEnd, AtEOFEnd, PeekDescKind,
         PeekDescKind2, PeekDescName, PeekDescArg, PeekDescEnd, Fail, Deliver, Look, Hint,
         NoDesc, DescStep
<1>. QED
  BY <1>1, <1>2, <1>3, <1>4, <1>5 DEF vars

(* The memory of the window does not depend on the records that go through *)
(* it, nor on the pieces the source cuts (wire.go, fill and readDirect).   *)
THEOREM MemoryBounded == Spec => []WindowBounded
<1>1. Init => WindowBounded
  BY ConstantFacts DEF Init, WindowBounded
<1>. QED
  BY <1>1, NextBounded, Invariance, PTL DEF Spec

-----------------------------------------------------------------------------
(* The refinement.  Each step of the reader is a stutter of the            *)
(* buffer-mode reader until the step that answers, and that one is the     *)
(* whole call of the buffer-mode reader, or its SourceFault.               *)

Stopped == res.op \in {"byteAt", "readN"} /\ ~res.ok

(* Between two calls and inside one, the buffer-mode reader is not stopped *)
(* as long as the caller goes on.                                          *)
LEMMA NotStopped == ASSUME RInv, ~failed PROVE ~Stopped
  BY DEF RInv, AnswerShape, Stopped

(* The one answer the buffer-mode reader cannot give: a source that        *)
(* returns its last bytes together with io.EOF ends a large read as a      *)
(* truncation, the bytes it brought not counted.                           *)
CutShort ==
  /\ EofWithData
  /\ op.kind = "readDirect" /\ fed < InLen /\ fed' = InLen
  /\ res' = Answer("readN", FALSE, "truncated", NoBytes)
  /\ UNCHANGED <<taken, due, body>>

LEMMA RefinesInit == Init => Buffer!Init
<1>. SUFFICES ASSUME Init PROVE Buffer!Init
  OBVIOUS
<1>1. res = Answer("none", TRUE, "none", NoBytes) /\ taken = 0 /\ due = 0 /\ body = 0
  BY DEF Init
<1>2. ~(res.op \in {"byteAt", "readN"} /\ ~res.ok)
  BY <1>1 DEF Answer
<1>. QED
  BY <1>1, <1>2 DEF Buffer!Init, Buffer!Answer, Answer, Buffer!NoBytes, NoBytes, Buffer!Span, Span

(* A step that answers nothing.                                            *)
LEMMA Stutters ==
  ASSUME UNCHANGED <<res, taken, due, body>>
  PROVE  UNCHANGED Buffer!bvars
  BY DEF Buffer!bvars

(* A source fault behind an answer.                                        *)
LEMMA Faulted ==
  ASSUME RInv, ~failed, NEW call \in {"byteAt", "readN", "PeekRef", "AtEOF"},
         res' = Answer(call, FALSE, "fault", NoBytes),
         UNCHANGED <<taken, due, body>>
  PROVE  Buffer!Next
<1>1. ~Stopped
  BY NotStopped
<1>2. Stopped' = (call \in {"byteAt", "readN"})
  BY DEF Stopped, Answer
<1>3. Buffer!SourceFault(call)
  BY <1>1, <1>2 DEF Buffer!SourceFault, Buffer!Answer, Answer, Buffer!NoBytes, NoBytes,
                    Buffer!Span, Span, Stopped
<1>. QED
  BY <1>3 DEF Buffer!Next

LEMMA byteAtEndRefines == ASSUME IInv, RInv, byteAtEnd PROVE Buffer!Next
<1>1. op.kind = "byteAt" /\ op.kind # "readDirect" /\ ~failed /\ ~Filling
  BY DEF byteAtEnd, Filled, IInv, CallShape
<1>2. AtToken /\ ~Stopped /\ op.want = 1
  BY <1>1, NotStopped DEF RInv, LookShape, FillOps, IInv, WantShape
<1>3. CASE op.err
  BY <1>1, <1>3, Faulted DEF byteAtEnd, Fail
<1>4. CASE ~op.err /\ Avail < 1
  <2>1. eof
    BY <1>1, <1>2, <1>4 DEF Filling, FillOps
  <2>2. taken >= InLen
    BY <1>1, <1>4, <2>1, Standing DEF RInv, EndShape
  <2>3. res' = Answer("byteAt", FALSE, "truncated", NoBytes) /\ UNCHANGED <<taken, due, body>>
    BY <1>4 DEF byteAtEnd, Fail
  <2>4. Stopped'
    BY <2>3 DEF Stopped, Answer
  <2>5. Buffer!byteAt
    BY <1>2, <2>2, <2>3, <2>4
    DEF Buffer!byteAt, Buffer!AtToken, Buffer!Fail, Buffer!Answer, Buffer!NoBytes,
        Buffer!Span, AtToken, Answer, NoBytes, Span, Stopped
  <2>. QED
    BY <2>5 DEF Buffer!Next
<1>5. CASE ~op.err /\ ~(Avail < 1)
  <2>1. Avail >= 1
    BY <1>1, <1>5, Standing
  <2>2. buf[pos] = taken /\ taken \in Offsets
    BY <1>1, <2>1, AtCursor
  <2>3. /\ Deliver("byteAt", 1) /\ due' = Input[taken].width /\ body' = Input[taken].len
    BY <1>5, <2>2 DEF byteAtEnd
  <2>4. [i \in 0..(1 - 1) |-> buf[pos + i]] = Span(taken, 1)
    <3>1. \A i \in 0..(1 - 1) : buf[pos + i] = taken + i
      BY <1>1, <2>1, <2>2, Standing
    <3>. QED
      BY <3>1 DEF Span
  <2>5. res' = Answer("byteAt", TRUE, "none", Span(taken, 1)) /\ taken' = taken + 1
    BY <2>3, <2>4 DEF Deliver
  <2>6. ~Stopped'
    BY <2>5 DEF Stopped, Answer
  <2>7. ~(taken >= InLen)
    BY <1>1, <2>1, Standing
  <2>8. Buffer!byteAt
    BY <1>2, <2>3, <2>5, <2>6, <2>7
    DEF Buffer!byteAt, Buffer!AtToken, Buffer!Answer, Buffer!Span, AtToken, Answer, Span, Stopped
  <2>. QED
    BY <2>8 DEF Buffer!Next
<1>. QED
  BY <1>3, <1>4, <1>5

(* A read of the buffer-mode reader that is too long for its input, and    *)
(* one that is not.                                                        *)
LEMMA Truncated ==
  ASSUME RInv, ~failed, ~AtToken, Pending > InLen - taken,
         res' = Answer("readN", FALSE, "truncated", NoBytes),
         UNCHANGED <<taken, due, body>>
  PROVE  Buffer!Next
<1>1. ~Stopped /\ Stopped'
  BY NotStopped DEF Stopped, Answer
<1>2. Buffer!readN
  BY <1>1 DEF Buffer!readN, Buffer!AtToken, Buffer!Pending, Buffer!Fail, Buffer!Answer,
              Buffer!NoBytes, Buffer!Span, AtToken, Pending, Answer, NoBytes, Span, Stopped
<1>. QED
  BY <1>2 DEF Buffer!Next

LEMMA Delivered ==
  ASSUME RInv, ~failed, ~AtToken, ~(Pending > InLen - taken),
         res' = Answer("readN", TRUE, "none", Span(taken, Pending)),
         taken' = taken + Pending, due' = 0, body' = IF due > 0 THEN body ELSE 0
  PROVE  Buffer!Next
<1>1. ~Stopped /\ ~Stopped'
  BY NotStopped DEF Stopped, Answer
<1>2. Buffer!readN
  BY <1>1 DEF Buffer!readN, Buffer!AtToken, Buffer!Pending, Buffer!Answer,
              Buffer!Span, AtToken, Pending, Answer, Span, Stopped
<1>. QED
  BY <1>2 DEF Buffer!Next

LEMMA readNEndRefines == ASSUME IInv, RInv, readNEnd PROVE Buffer!Next
<1>1. op.kind = "readN" /\ op.kind # "readDirect" /\ ~failed /\ ~Filling
  BY DEF readNEnd, Filled, IInv, CallShape
<1>2. op.want = Pending /\ ~AtToken
  BY <1>1 DEF IInv, WantShape
<1>3. CASE op.err
  BY <1>1, <1>3, Faulted DEF readNEnd, Fail
<1>4. CASE ~op.err /\ Avail < op.want
  <2>1. eof
    BY <1>1, <1>2, <1>4 DEF Filling, FillOps
  <2>2. Pending > InLen - taken
    BY <1>1, <1>2, <1>4, <2>1, Standing DEF RInv, EndShape
  <2>3. res' = Answer("readN", FALSE, "truncated", NoBytes) /\ UNCHANGED <<taken, due, body>>
    BY <1>4 DEF readNEnd, Fail
  <2>. QED
    BY <1>1, <1>2, <2>2, <2>3, Truncated
<1>5. CASE ~op.err /\ ~(Avail < op.want)
  <2>1. /\ Deliver("readN", op.want) /\ due' = 0 /\ body' = IF due > 0 THEN body ELSE 0
    BY <1>5 DEF readNEnd
  <2>2. [i \in 0..(op.want - 1) |-> buf[pos + i]] = Span(taken, op.want)
    <3>1. ASSUME NEW i \in 0..(op.want - 1) PROVE buf[pos + i] = taken + i
      <4>1. pos + i \in 0..(blen - 1)
        BY <1>1, <1>5, Standing
      <4>2. buf[pos + i] = base + (pos + i)
        BY <4>1, AtPos
      <4>. QED
        BY <1>1, <4>2, Standing
    <3>. QED
      BY <3>1 DEF Span
  <2>3. res' = Answer("readN", TRUE, "none", Span(taken, Pending)) /\ taken' = taken + Pending
    BY <1>2, <2>1, <2>2 DEF Deliver
  <2>4. ~(Pending > InLen - taken)
    BY <1>1, <1>2, <1>5, Standing
  <2>. QED
    BY <1>1, <1>2, <2>1, <2>3, <2>4, Delivered
<1>. QED
  BY <1>3, <1>4, <1>5

(* Where a large read stands.                                              *)
LEMMA InDirect ==
  ASSUME IInv, op.kind = "readDirect"
  PROVE  /\ ~failed /\ op.want = Pending /\ ~AtToken /\ taken + olen = fed
         /\ olen \in Nat /\ taken \in Nat /\ fed \in Nat /\ fed <= InLen /\ InLen \in Nat
         /\ op.want \in Nat /\ olen <= op.want
         /\ out \in Slice(olen) /\ \A i \in 0..(olen - 1) : out[i] = taken + i
<1>1. ~failed /\ op.want = Pending /\ ~AtToken /\ blen = 0
  BY DEF IInv, CallShape
<1>2. /\ olen \in Nat /\ taken \in Nat /\ fed \in Nat /\ fed <= InLen /\ InLen \in Nat
      /\ op.want \in Nat /\ ocap \in Nat /\ olen <= ocap /\ base \in Nat /\ pos = 0
      /\ out \in Slice(olen)
  BY <1>1, ConstantFacts DEF IInv, TypeOK
<1>3. ocap <= op.want
  BY DEF IInv, DirectNeverOverreads
<1>4. /\ base + blen = fed /\ base + pos = taken + olen
      /\ \A i \in 0..(olen - 1) : out[i] = taken + i
  BY <1>1 DEF IInv, WindowExact
<1>. QED
  BY <1>1, <1>2, <1>3, <1>4

LEMMA readDirectReadRefines ==
  ASSUME IInv, RInv, readDirectRead
  PROVE  [Buffer!Next \/ CutShort]_Buffer!bvars
<1>1. op.kind = "readDirect" /\ olen < op.want /\ UNCHANGED <<taken, due, body>>
  BY DEF readDirectRead
<1>2. PICK nr \in 0..(InLen - fed), says \in {"more", "eof", "fault"} :
        /\ Reads(DirectRoom - olen, nr, says)
        /\ fed' = fed + nr
        /\ CASE says = "eof" -> DirectFail("truncated")
             [] says = "fault" -> DirectFail("fault")
             [] says = "more" -> UNCHANGED <<res, failed, op>>
  BY Zenon DEF readDirectRead
<1>3. CASE says = "more"
  <2>1. res' = res
    BY <1>2, <1>3
  <2>. QED
    BY <1>1, <2>1, Stutters
<1>4. CASE says = "fault"
  <2>1. res' = Answer("readN", FALSE, "fault", NoBytes)
    BY <1>2, <1>4 DEF DirectFail
  <2>. QED
    BY <1>1, <2>1, InDirect, Faulted
<1>5. CASE says = "eof"
  <2>1. res' = Answer("readN", FALSE, "truncated", NoBytes)
    BY <1>2, <1>5 DEF DirectFail
  <2>2. fed + nr = InLen /\ (nr > 0 => EofWithData) /\ fed' = InLen
    BY <1>2, <1>5 DEF Reads
  <2>3. CASE nr > 0
    <3>1. fed < InLen
      BY <1>1, <2>2, <2>3, InDirect
    <3>2. CutShort
      BY <1>1, <2>1, <2>2, <2>3, <3>1 DEF CutShort
    <3>. QED
      BY <3>2
  <2>4. CASE ~(nr > 0)
    <3>1. fed = InLen
      BY <1>1, <2>2, <2>4, InDirect
    <3>2. Pending > InLen - taken
      BY <1>1, <3>1, InDirect
    <3>. QED
      BY <1>1, <2>1, <3>2, InDirect, Truncated
  <2>. QED
    BY <2>3, <2>4
<1>. QED
  BY <1>3, <1>4, <1>5

LEMMA readDirectEndRefines == ASSUME IInv, RInv, readDirectEnd PROVE Buffer!Next
<1>1. /\ op.kind = "readDirect" /\ olen >= op.want
      /\ res' = Answer("readN", TRUE, "none", out) /\ taken' = taken + olen
      /\ due' = 0 /\ body' = IF due > 0 THEN body ELSE 0
  BY DEF readDirectEnd
<1>2. olen = Pending
  BY <1>1, InDirect
<1>3. out = Span(taken, olen)
  <2>1. out \in [0..(olen - 1) -> Nat] /\ \A i \in 0..(olen - 1) : out[i] = taken + i
    BY <1>1, InDirect DEF Slice
  <2>. QED
    BY <2>1 DEF Span
<1>4. ~(Pending > InLen - taken)
  BY <1>1, <1>2, InDirect
<1>. QED
  BY <1>1, <1>2, <1>3, <1>4, InDirect, Delivered

(* A PeekRef of the buffer-mode reader, and its end-of-input test.         *)
LEMMA PeekedRef ==
  ASSUME RInv, ~failed, AtToken, UNCHANGED <<taken, due, body>>,
         res' = Answer("PeekRef", WholeRefAt(taken), "none",
                       IF WholeRefAt(taken) THEN Span(taken, 1) ELSE NoBytes)
  PROVE  Buffer!Next
<1>1. ~Stopped /\ ~Stopped'
  BY NotStopped DEF Stopped, Answer
<1>2. Buffer!WholeRefAt(taken) = WholeRefAt(taken)
  BY DEF Buffer!WholeRefAt, Buffer!RefExtent, WholeRefAt, RefExtent
<1>3. Buffer!PeekRef
  BY <1>1, <1>2 DEF Buffer!PeekRef, Buffer!AtToken, Buffer!Answer, Buffer!NoBytes, Buffer!Span,
                    AtToken, Answer, NoBytes, Span, Stopped
<1>. QED
  BY <1>3 DEF Buffer!Next

LEMMA TestedEnd ==
  ASSUME RInv, ~failed, AtToken, UNCHANGED <<taken, due, body>>,
         res' = Answer("AtEOF", taken >= InLen, "none", NoBytes)
  PROVE  Buffer!Next
<1>1. ~Stopped /\ ~Stopped'
  BY NotStopped DEF Stopped, Answer
<1>2. Buffer!AtEOF
  BY <1>1 DEF Buffer!AtEOF, Buffer!AtToken, Buffer!Answer, Buffer!NoBytes, Buffer!Span,
              AtToken, Answer, NoBytes, Span, Stopped
<1>. QED
  BY <1>2 DEF Buffer!Next

LEMMA PeekRefFirstRefines ==
  ASSUME IInv, RInv, PeekRefFirst
  PROVE  [Buffer!Next]_Buffer!bvars
<1>1. op.kind = "PeekRef1" /\ ~failed /\ op.kind # "readDirect" /\ ~Filling /\ op.want = 1
  BY DEF PeekRefFirst, Filled, IInv, CallShape, WantShape
<1>2. AtToken
  BY <1>1 DEF RInv, LookShape, FillOps
<1>3. UNCHANGED <<taken, due, body>>
  BY DEF PeekRefFirst, Look, caller
<1>4. CASE op.err
  BY <1>1, <1>3, <1>4, Faulted DEF PeekRefFirst, Look
<1>5. CASE ~op.err /\ (Avail < 1 \/ Input[buf[pos]].class # "ref")
  <2>1. ~WholeRefAt(taken)
    <3>1. CASE Avail < 1
      <4>1. eof
        BY <1>1, <1>5, <3>1 DEF Filling, FillOps
      <4>2. ~(taken < InLen)
        BY <1>1, <3>1, <4>1, Standing DEF RInv, EndShape
      <4>. QED
        BY <4>2 DEF WholeRefAt
    <3>2. CASE ~(Avail < 1)
      <4>1. buf[pos] = taken
        BY <1>1, <3>2, Standing, AtCursor
      <4>. QED
        BY <1>5, <3>2, <4>1 DEF WholeRefAt
    <3>. QED
      BY <3>1, <3>2
  <2>2. res' = Answer("PeekRef", FALSE, "none", NoBytes)
    BY <1>5 DEF PeekRefFirst, Look
  <2>3. WholeRefAt(taken) = FALSE
    BY <2>1 DEF WholeRefAt
  <2>. QED
    BY <1>1, <1>2, <1>3, <2>2, <2>3, PeekedRef
<1>6. CASE ~op.err /\ ~(Avail < 1 \/ Input[buf[pos]].class # "ref") /\ pendLen # 0
  <2>1. WholeRefAt(taken) /\ peekID = taken
    BY <1>2, <1>6 DEF RInv, TrackShape
  <2>2. res' = Answer("PeekRef", TRUE, "none", Span(taken, 1))
    BY <1>6, <2>1 DEF PeekRefFirst, Look
  <2>. QED
    BY <1>1, <1>2, <1>3, <2>1, <2>2, PeekedRef
<1>7. CASE ~op.err /\ ~(Avail < 1 \/ Input[buf[pos]].class # "ref") /\ ~(pendLen # 0)
  <2>1. res' = res
    BY <1>7 DEF PeekRefFirst
  <2>. QED
    BY <1>3, <2>1, Stutters
<1>. QED
  BY <1>4, <1>5, <1>6, <1>7

LEMMA PeekRefEndRefines == ASSUME IInv, RInv, PeekRefEnd PROVE Buffer!Next
<1>1. op.kind = "PeekRef2" /\ ~failed /\ op.kind # "readDirect" /\ ~Filling
  BY DEF PeekRefEnd, Filled, IInv, CallShape
<1>2. /\ AtToken /\ taken \in Offsets /\ Input[taken].class = "ref"
      /\ op.want = RefExtent(taken)
  BY <1>1 DEF RInv, LookShape, FillOps
<1>3. UNCHANGED <<taken, due, body>>
  BY DEF PeekRefEnd, Look, caller
<1>4. op.want \in Nat /\ op.want >= 1
  BY <1>1, Standing DEF IInv, WantShape
<1>5. CASE op.err
  BY <1>1, <1>3, <1>5, Faulted DEF PeekRefEnd, Look
<1>6. CASE ~op.err /\ Avail < op.want
  <2>1. eof
    BY <1>1, <1>6 DEF Filling, FillOps
  <2>2. ~(taken + op.want <= InLen)
    BY <1>1, <1>6, <2>1, Standing DEF RInv, EndShape
  <2>3. ~WholeRefAt(taken)
    BY <1>2, <2>2 DEF WholeRefAt
  <2>4. res' = Answer("PeekRef", FALSE, "none", NoBytes)
    BY <1>6 DEF PeekRefEnd, Look
  <2>5. WholeRefAt(taken) = FALSE
    BY <2>3 DEF WholeRefAt
  <2>. QED
    BY <1>1, <1>2, <1>3, <2>4, <2>5, PeekedRef
<1>7. CASE ~op.err /\ ~(Avail < op.want)
  <2>1. taken + op.want <= InLen /\ taken < InLen /\ Avail >= 1
    BY <1>1, <1>4, <1>7, Standing
  <2>2. WholeRefAt(taken)
    BY <1>2, <2>1 DEF WholeRefAt
  <2>3. buf[pos] = taken
    BY <1>1, <2>1, AtCursor
  <2>4. res' = Answer("PeekRef", TRUE, "none", Span(taken, 1))
    BY <1>7, <2>3 DEF PeekRefEnd, Look
  <2>. QED
    BY <1>1, <1>2, <1>3, <2>2, <2>4, PeekedRef
<1>. QED
  BY <1>5, <1>6, <1>7

LEMMA AtEOFRefines == ASSUME IInv, RInv, AtEOF PROVE [Buffer!Next]_Buffer!bvars
<1>1. op.kind = "idle" /\ op.kind # "readDirect" /\ ~failed /\ AtToken
  BY DEF AtEOF, Ready
<1>2. UNCHANGED <<taken, due, body>>
  BY DEF AtEOF, Look, caller
<1>3. CASE eof
  <2>1. (Avail = 0) = (taken >= InLen)
    <3>1. Avail = 0 <=> taken >= InLen
      BY <1>1, <1>3, Standing DEF RInv, EndShape
    <3>. QED
      BY <3>1
  <2>2. res' = Answer("AtEOF", taken >= InLen, "none", NoBytes)
    BY <1>3, <2>1 DEF AtEOF, Look
  <2>. QED
    BY <1>1, <1>2, <2>2, TestedEnd
<1>4. CASE ~eof
  <2>1. res' = res
    BY <1>4 DEF AtEOF
  <2>. QED
    BY <1>2, <2>1, Stutters
<1>. QED
  BY <1>3, <1>4

LEMMA AtEOFEndRefines == ASSUME IInv, RInv, AtEOFEnd PROVE Buffer!Next
<1>1. op.kind = "AtEOF" /\ op.kind # "readDirect" /\ ~failed /\ ~Filling /\ op.want = 1
  BY DEF AtEOFEnd, Filled, IInv, CallShape, WantShape
<1>2. AtToken
  BY <1>1 DEF RInv, LookShape, FillOps
<1>3. UNCHANGED <<taken, due, body>>
  BY DEF AtEOFEnd, Look, caller
<1>4. CASE op.err
  <2>1. res' = Answer("AtEOF", FALSE, "fault", NoBytes)
    BY <1>4 DEF AtEOFEnd, Look
  <2>. QED
    BY <1>1, <1>3, <2>1, Faulted
<1>5. CASE ~op.err
  <2>1. eof \/ Avail >= 1
    BY <1>1, <1>5, Standing DEF Filling, FillOps
  <2>2. (Avail = 0) = (taken >= InLen)
    <3>1. Avail = 0 <=> taken >= InLen
      BY <1>1, <2>1, Standing DEF RInv, EndShape
    <3>. QED
      BY <3>1
  <2>3. res' = Answer("AtEOF", Avail = 0, "none", NoBytes)
    BY <1>5 DEF AtEOFEnd, Look
  <2>. QED
    BY <1>1, <1>2, <1>3, <2>2, <2>3, TestedEnd
<1>. QED
  BY <1>4, <1>5

(* Every other step leaves what the buffer-mode reader keeps alone.        *)
LEMMA OthersStutter ==
  ASSUME Next,
         ~byteAtEnd, ~readNEnd, ~readDirectRead, ~readDirectEnd,
         ~PeekRefFirst, ~PeekRefEnd, ~AtEOF, ~AtEOFEnd
  PROVE  UNCHANGED <<res, taken, due, body>>
<1>1. CASE fill
  BY <1>1, Zenon DEF fill, caller
<1>2. CASE ~fill
  BY <1>2 DEF Next, Start, Continue, caller, byteAt, readN, readDirect, PeekRef,
         PeekByteAfterRef, AtEnd, PeekDesc, Discard, Pos, ByteRange, PeekDescKind,
         PeekDescKind2, PeekDescName, PeekDescArg, PeekDescEnd, Hint, NoDesc, DescStep
<1>. QED
  BY <1>1, <1>2

LEMMA RefinesStep ==
  IInv /\ RInv /\ [Next]_vars => [Buffer!Next \/ CutShort]_Buffer!bvars
<1>. SUFFICES ASSUME IInv, RInv, [Next]_vars
              PROVE  [Buffer!Next \/ CutShort]_Buffer!bvars
  OBVIOUS
<1>1. CASE UNCHANGED vars
  BY <1>1, Stutters DEF vars
<1>2. CASE byteAtEnd \/ readNEnd
  BY <1>2, byteAtEndRefines, readNEndRefines
<1>3. CASE readDirectRead \/ readDirectEnd
  BY <1>3, readDirectReadRefines, readDirectEndRefines
<1>4. CASE PeekRefFirst \/ PeekRefEnd
  BY <1>4, PeekRefFirstRefines, PeekRefEndRefines
<1>5. CASE AtEOF \/ AtEOFEnd
  BY <1>5, AtEOFRefines, AtEOFEndRefines
<1>. QED
  BY <1>1, <1>2, <1>3, <1>4, <1>5, OthersStutter, Stutters

(* For any source, the stream-mode reader is the buffer-mode reader as far *)
(* as its caller can tell, but for reported source faults and for large    *)
(* reads cut short by bytes that come together with io.EOF (wire.go,       *)
(* readDirect).                                                            *)
THEOREM OnlyCutLargeReadsDiffer ==
  Spec => Buffer!Init /\ [][Buffer!Next \/ CutShort]_Buffer!bvars
  BY RefinesStep, RefinesInit, Invariance, AnswersHold, PTL DEF Spec

(* A source that reports its end alone is all it takes for the stream-mode *)
(* reader to implement the buffer-mode reader.                             *)
THEOREM StreamRefinesBuffer == ASSUME ~EofWithData PROVE Spec => TracksBufferReader
<1>1. ~CutShort
  BY DEF CutShort
<1>2. IInv /\ RInv /\ [Next]_vars => [Buffer!Next]_Buffer!bvars
  BY <1>1, RefinesStep
<1>. QED
  BY <1>2, RefinesInit, Invariance, AnswersHold, PTL DEF Spec, TracksBufferReader, Buffer!Spec
=============================================================================
