---------------------------- MODULE StreamReader ----------------------------
(***************************************************************************)
(* wire.Reader over an io.Reader (NewStreamReader): tokens are pulled from *)
(* the source on demand into a sliding window, records above a threshold   *)
(* bypass the window, and lookaheads answer from the window without        *)
(* consuming.  The source delivers in pieces of its own choosing, may      *)
(* fail, and may report the end of the stream with its last bytes.         *)
(*                                                                         *)
(* A call is a first step that decides what it needs, one step per Read of *)
(* the source, and a last step that answers.  Between two steps the reader *)
(* is blocked in Read, which on a live source may be for ever.             *)
(*                                                                         *)
(* The caller is the codec: it reads the header byte of a token, then its  *)
(* ARG payload, then its raw body, looks ahead and discards only between   *)
(* tokens, and gives the stream up when a read fails (the sticky errors of *)
(* the facade).                                                            *)
(***************************************************************************)
EXTENDS TokenInput

CONSTANTS
  LargeRead,      \* largeRead: reads above it bypass the window
  FillChunk,      \* fillChunk: the least free space a pull leaves to Read
  DirectInit,     \* readDirectInit
  DirectMaxGrow,  \* readDirectMaxGrow
  EofWithData     \* may the source report io.EOF together with bytes?

(* The longest lookahead: a two-byte descriptor header, and a name's own   *)
(* header, argument and bytes.                                             *)
PeekMax == 3 + MaxArg + PeekNameCap

ASSUME ReaderAssumption ==
  /\ LargeRead \in Nat
  /\ FillChunk \in Nat \ {0}
  /\ DirectInit \in Nat \ {0}
  /\ DirectMaxGrow \in Nat \ {0}
  /\ EofWithData \in BOOLEAN
  \* 65547+65536+65536 <= 1048576 in the code.
  /\ PeekMax + FillChunk + DirectInit <= LargeRead

VARIABLES
  fed,        \* the source: bytes it has handed out
  buf,        \* the window, a function on 0..blen-1
  blen,       \* len(buf)
  spare,      \* cap(buf) - len(buf)
  pos,        \* the read position in the window
  base,       \* the absolute offset of buf[0]
  eof,        \* the source reported io.EOF
  faultErr,   \* a source fault was cached
  pendStart,  \* the armed lookahead track: where in the window it starts,
  pendLen,    \*   its length (0: none),
  peekID,     \*   and the REF it stands for, named by its offset
  op,         \* the call in progress
  out,        \* readDirect's serving buffer, a function on 0..olen-1
  olen,       \* len(out)
  ocap,       \* cap(out)
  res,        \* what the last read, PeekRef or AtEOF returned
  hint,       \* what the last of the other lookaheads returned
  taken,      \* bytes returned to the caller so far
  due,        \* ARG payload bytes of the current token not read yet
  body,       \* raw body bytes of the current token not read yet
  mark,       \* a Pos() snapshot the caller holds, or NoMark
  failed      \* a read failed, and the caller gave the stream up

source == <<fed>>
window == <<buf, blen, spare, pos, base, eof, faultErr>>
track  == <<pendStart, pendLen, peekID>>
direct == <<out, olen, ocap>>
caller == <<taken, due, body, mark, failed>>
vars   == <<fed, buf, blen, spare, pos, base, eof, faultErr,
            pendStart, pendLen, peekID, op, out, olen, ocap, res, hint,
            taken, due, body, mark, failed>>

NoMark == -1

Answer(call, ok, why, bytes) == [op |-> call, ok |-> ok, why |-> why, bytes |-> bytes]

NoBytes == Span(0, 0)

(* What a lookahead outside the buffer-mode contract returned, and where   *)
(* the caller stood.                                                       *)
Seen(call, ok, bytes) == [op |-> call, ok |-> ok, at |-> taken, bytes |-> bytes]

(* A call in progress: want is the argument of its fill, err that the fill *)
(* reported a source fault.  The rest are PeekDesc's locals: the index of  *)
(* the name token, the name's header byte, and the decoded name length.    *)
Call(kind, want, err) ==
  [kind |-> kind, want |-> want, err |-> err, nx |-> 0, name |-> 0, n |-> 0]

Idle == Call("idle", 0, FALSE)

Larger(a, b) == IF a >= b THEN a ELSE b
Smaller(a, b) == IF a <= b THEN a ELSE b

Init ==
  /\ fed = 0
  /\ buf = NoBytes /\ blen = 0 /\ spare = 0 /\ pos = 0 /\ base = 0
  /\ eof = FALSE /\ faultErr = FALSE
  /\ pendStart = 0 /\ pendLen = 0 /\ peekID = 0
  /\ op = Idle
  /\ out = NoBytes /\ olen = 0 /\ ocap = 0
  /\ res = Answer("none", TRUE, "none", NoBytes)
  /\ hint = [op |-> "none", ok |-> TRUE, at |-> 0, bytes |-> NoBytes]
  /\ taken = 0 /\ due = 0 /\ body = 0 /\ mark = NoMark /\ failed = FALSE

-----------------------------------------------------------------------------
(* The source.                                                             *)

(* One Read into a buffer with room bytes free: nr bytes and what it says  *)
(* of the stream's end.  io.Reader discourages (0, nil), which would only  *)
(* repeat the pull.                                                        *)
Reads(room, nr, says) ==
  /\ nr \in 0..Smaller(room, InLen - fed)
  /\ says \in {"more", "eof", "fault"}
  /\ says = "more" => nr > 0
  /\ says = "eof" => fed + nr = InLen /\ (nr > 0 => EofWithData)

-----------------------------------------------------------------------------
(* The sliding window.                                                     *)

Avail == blen - pos

(* The window only grows. *)
LongPrefixNever == FALSE

(* fill compacts a window whose consumed prefix has grown this long. *)
LongPrefix == pos >= LargeRead

(* compact: the copy taken from the head. *)
CompactBufFromHead == [i \in 0..(blen - pos - 1) |-> buf[i]]

(* compact: the window without its consumed prefix, and the armed track in *)
(* the coordinates of the shifted window.                                  *)
CompactBuf == [i \in 0..(blen - pos - 1) |-> buf[i + pos]]
CompactSpare == IF blen = pos THEN 0 ELSE spare
CompactPendStart ==
  IF pendLen = 0 THEN pendStart
  ELSE IF pos < pendStart THEN pendStart - pos ELSE 0
CompactPendLen ==
  IF pendLen = 0 \/ pos < pendStart THEN pendLen
  ELSE Larger(pendStart + pendLen - pos, 0)

(* releasePending after the read position moves to p. *)
Released(p) == IF pendLen > 0 /\ p >= pendStart + pendLen THEN 0 ELSE pendLen

FillOps == {"byteAt", "readN", "PeekRef1", "PeekRef2", "AtEOF",
            "PeekDesc1", "PeekDesc2", "PeekDesc3", "PeekDesc4", "PeekDesc5"}

(* fill's loop without its end-of-stream test. *)
FillingPastEOF ==
  /\ op.kind \in FillOps
  /\ ~op.err
  /\ Avail < op.want

(* The condition of fill's loop, in a call that has reached it. *)
Filling ==
  /\ op.kind \in FillOps
  /\ ~op.err
  /\ ~eof
  /\ Avail < op.want

(* One iteration of fill: compact when the consumed prefix is long, make   *)
(* room, and Read into all of it.                                          *)
fill ==
  /\ Filling
  /\ LET shift == LongPrefix
         old   == IF shift THEN CompactBuf ELSE buf
         kept  == IF shift THEN blen - pos ELSE blen
         free  == IF shift THEN CompactSpare ELSE spare
         need  == Larger(op.want - Avail, FillChunk)
         room  == IF free < need THEN need ELSE free
     IN \E nr \in 0..(InLen - fed), says \in {"more", "eof", "fault"} :
          /\ Reads(room, nr, says)
          /\ buf' = [i \in 0..(kept + nr - 1) |->
                       IF i < kept THEN old[i] ELSE fed + (i - kept)]
          /\ blen' = kept + nr
          /\ spare' = room - nr
          /\ pos' = IF shift THEN 0 ELSE pos
          /\ base' = IF shift THEN base + pos ELSE base
          /\ pendStart' = IF shift THEN CompactPendStart ELSE pendStart
          /\ pendLen' = IF shift THEN CompactPendLen ELSE pendLen
          /\ fed' = fed + nr
          /\ eof' = (says = "eof")
          /\ faultErr' = (says = "fault")
          /\ op' = [op EXCEPT !.err = (says = "fault")]
  /\ UNCHANGED <<peekID, direct, res, hint, caller>>

(* Between two calls of a caller that has not given up. *)
Ready == op.kind = "idle" /\ ~failed

AtToken == due = 0 /\ body = 0

(* A fill that does not look at the cached fault. *)
BeginForgetful(kind, want) ==
  op' = Call(kind, want, FALSE)

(* A call that reaches fill(want) if the window is short of want bytes. *)
Begin(kind, want) ==
  op' = Call(kind, want, faultErr /\ Avail < want)

(* A call that goes on to fill(want) whatever the window holds. *)
Refill(kind, want, nx, name, n) ==
  [kind |-> kind, want |-> want, err |-> faultErr, nx |-> nx, name |-> name, n |-> n]

Filled(kind) == op.kind = kind /\ ~Filling

-----------------------------------------------------------------------------
(* Reads.                                                                  *)

Fail(call, why) ==
  /\ res' = Answer(call, FALSE, why, NoBytes)
  /\ failed' = TRUE
  /\ op' = Idle
  /\ UNCHANGED <<source, window, track, direct, hint, taken, due, body, mark>>

(* The read position moves over the n bytes that are returned. *)
Deliver(call, n) ==
  /\ res' = Answer(call, TRUE, "none", [i \in 0..(n - 1) |-> buf[pos + i]])
  /\ pos' = pos + n
  /\ pendLen' = Released(pos + n)
  /\ taken' = taken + n
  /\ op' = Idle
  /\ UNCHANGED <<source, buf, blen, spare, base, eof, faultErr,
                 pendStart, peekID, direct, hint, mark, failed>>

byteAt ==
  /\ Ready /\ AtToken
  /\ Begin("byteAt", 1)
  /\ UNCHANGED <<source, window, track, direct, res, hint, caller>>

byteAtEnd ==
  /\ Filled("byteAt")
  /\ IF op.err THEN Fail("byteAt", "fault")
     ELSE IF Avail < 1 THEN Fail("byteAt", "truncated")
     ELSE /\ Deliver("byteAt", 1)
          /\ due' = Input[buf[pos]].width
          /\ body' = Input[buf[pos]].len

Pending == IF due > 0 THEN due ELSE body

readN ==
  /\ Ready /\ ~AtToken
  /\ ~(Pending > Avail /\ Pending > LargeRead)
  /\ Begin("readN", Pending)
  /\ UNCHANGED <<source, window, track, direct, res, hint, caller>>

readNEnd ==
  /\ Filled("readN")
  /\ IF op.err THEN Fail("readN", "fault")
     ELSE IF Avail < op.want THEN Fail("readN", "truncated")
     ELSE /\ Deliver("readN", op.want)
          /\ due' = 0
          /\ body' = IF due > 0 THEN body ELSE 0

(* A large read moves what the window holds to the head of a fresh buffer  *)
(* and drops the window.                                                   *)
readDirect ==
  /\ Ready /\ ~AtToken
  /\ Pending > Avail /\ Pending > LargeRead
  /\ out' = CompactBuf /\ olen' = Avail /\ ocap' = Avail + DirectInit
  /\ base' = base + pos + Avail
  /\ buf' = NoBytes /\ blen' = 0 /\ spare' = 0 /\ pos' = 0
  /\ pendLen' = 0
  /\ op' = Call("readDirect", Pending, FALSE)
  /\ UNCHANGED <<source, eof, faultErr, pendStart, peekID, res, hint, caller>>

(* Growth by doubling alone, not clamped to the record. *)
DirectRoomDoubled ==
  IF olen = ocap THEN ocap + Smaller(ocap, DirectMaxGrow) ELSE ocap

(* The room of the serving buffer after its growth: at most doubled, by at *)
(* most DirectMaxGrow, and never past the record.                          *)
DirectRoom ==
  IF olen = ocap
    THEN ocap + Smaller(Smaller(ocap, DirectMaxGrow), op.want - olen)
    ELSE ocap

DirectFail(why) ==
  /\ res' = Answer("readN", FALSE, why, NoBytes)
  /\ failed' = TRUE
  /\ op' = Idle
  /\ out' = NoBytes /\ olen' = 0 /\ ocap' = 0

(* One iteration of readDirect's loop. *)
readDirectRead ==
  /\ op.kind = "readDirect" /\ olen < op.want
  /\ \E nr \in 0..(InLen - fed), says \in {"more", "eof", "fault"} :
       /\ Reads(DirectRoom - olen, nr, says)
       /\ fed' = fed + nr
       /\ base' = base + nr
       /\ CASE says = "eof" -> DirectFail("truncated")
            [] says = "fault" -> DirectFail("fault")
            [] says = "more" ->
                 /\ out' = [i \in 0..(olen + nr - 1) |->
                              IF i < olen THEN out[i] ELSE fed + (i - olen)]
                 /\ olen' = olen + nr
                 /\ ocap' = DirectRoom
                 /\ UNCHANGED <<res, failed, op>>
  /\ UNCHANGED <<buf, blen, spare, pos, eof, faultErr, track, hint,
                 taken, due, body, mark>>

readDirectEnd ==
  /\ op.kind = "readDirect" /\ olen >= op.want
  /\ res' = Answer("readN", TRUE, "none", out)
  /\ taken' = taken + olen
  /\ due' = 0
  /\ body' = IF due > 0 THEN body ELSE 0
  /\ op' = Idle
  /\ out' = NoBytes /\ olen' = 0 /\ ocap' = 0
  /\ UNCHANGED <<source, window, track, hint, mark, failed>>

-----------------------------------------------------------------------------
(* Lookaheads.                                                             *)

(* A lookahead's answer: ok says whether the token is there, why is the    *)
(* model's record of a source fault behind a "no".                         *)
Look(call, ok, why, bytes) ==
  /\ res' = Answer(call, ok, why, bytes)
  /\ op' = Idle
  /\ UNCHANGED <<source, window, direct, hint, caller>>

PeekRef ==
  /\ Ready /\ AtToken
  /\ Begin("PeekRef1", 1)
  /\ UNCHANGED <<source, window, track, direct, res, hint, caller>>

(* A lookahead that also pulls the marker behind the REF. *)
PeekRefWantMarker == RefExtent(buf[pos]) + 1

(* The lookahead fills exactly the token. *)
PeekRefWant == RefExtent(buf[pos])

(* peekFirst has its byte: answer at once unless an unarmed REF starts     *)
(* here.                                                                   *)
PeekRefFirst ==
  /\ Filled("PeekRef1")
  /\ IF op.err THEN Look("PeekRef", FALSE, "fault", NoBytes) /\ UNCHANGED track
     ELSE IF Avail < 1 \/ Input[buf[pos]].class # "ref"
       THEN Look("PeekRef", FALSE, "none", NoBytes) /\ UNCHANGED track
     ELSE IF pendLen # 0
       THEN Look("PeekRef", TRUE, "none", Span(peekID, 1)) /\ UNCHANGED track
     ELSE /\ op' = Refill("PeekRef2", PeekRefWant, 0, 0, 0)
          /\ UNCHANGED <<source, window, track, direct, res, hint, caller>>

PeekRefEnd ==
  /\ Filled("PeekRef2")
  /\ IF op.err THEN Look("PeekRef", FALSE, "fault", NoBytes) /\ UNCHANGED track
     ELSE IF Avail < op.want THEN Look("PeekRef", FALSE, "none", NoBytes) /\ UNCHANGED track
     ELSE /\ Look("PeekRef", TRUE, "none", Span(buf[pos], 1))
          /\ pendStart' = pos
          /\ pendLen' = op.want
          /\ peekID' = buf[pos]

AtEOF ==
  /\ Ready /\ AtToken
  /\ IF eof
       THEN Look("AtEOF", Avail = 0, "none", NoBytes) /\ UNCHANGED track
       ELSE /\ Begin("AtEOF", 1)
            /\ UNCHANGED <<source, window, track, direct, res, hint, caller>>

(* AtEOF taking a failed source for a finished one. *)
AtEOFEndOnFault ==
  /\ Filled("AtEOF")
  /\ Look("AtEOF", Avail = 0, IF op.err THEN "fault" ELSE "none", NoBytes)
  /\ UNCHANGED track

AtEOFEnd ==
  /\ Filled("AtEOF")
  /\ Look("AtEOF", ~op.err /\ Avail = 0, IF op.err THEN "fault" ELSE "none", NoBytes)
  /\ UNCHANGED track

Hint(call, ok, bytes) ==
  /\ hint' = Seen(call, ok, bytes)
  /\ op' = Idle
  /\ UNCHANGED <<source, window, track, direct, res, caller>>

AfterRefHeader == pos + 1

(* The index of the byte behind the REF at the read position. *)
AfterRef == pos + RefExtent(buf[pos])

(* PeekByteAfterRef never pulls: it answers from the window. *)
PeekByteAfterRef ==
  /\ Ready /\ AtToken
  /\ res.op = "PeekRef" /\ res.ok
  /\ IF AfterRef >= blen
       THEN Hint("PeekByteAfterRef", FALSE, NoBytes)
       ELSE Hint("PeekByteAfterRef", TRUE, Span(buf[AfterRef], 1))

(* AtEnd, the end-of-input test of a coder's sub-decode, never pulls. *)
AtEnd ==
  /\ Ready /\ AtToken
  /\ Hint("AtEnd", Avail = 0, NoBytes)

PeekDesc ==
  /\ Ready /\ AtToken
  /\ Begin("PeekDesc1", 1)
  /\ UNCHANGED <<source, window, track, direct, res, hint, caller>>

DescStep(next) ==
  /\ op' = next
  /\ UNCHANGED <<source, window, track, direct, res, hint, caller>>

NoDesc == Hint("PeekDesc", FALSE, NoBytes)

(* The header: one byte, or two, the second behind a fill of its own.  The *)
(* name's index is taken before the fill that makes the name available.    *)
PeekDescKind ==
  /\ Filled("PeekDesc1")
  /\ IF op.err \/ Avail < 1 THEN NoDesc
     ELSE IF Input[buf[pos]].class # "desc" \/ Input[buf[pos]].width > 1 THEN NoDesc
     ELSE IF Input[buf[pos]].width = 0
       THEN DescStep(Refill("PeekDesc3", 2, pos + 1, 0, 0))
       ELSE DescStep(Refill("PeekDesc2", 2, 0, 0, 0))

PeekDescKind2 ==
  /\ Filled("PeekDesc2")
  /\ IF op.err \/ Avail < op.want THEN NoDesc
     ELSE DescStep(Refill("PeekDesc3", op.want + 1, pos + op.want, 0, 0))

(* The name token's header.  An inline argument is the length itself.      *)
PeekDescName ==
  /\ Filled("PeekDesc3")
  /\ IF op.err \/ op.nx >= blen THEN NoDesc
     ELSE LET name == buf[op.nx]
          IN IF Input[name].class # "string" THEN NoDesc
             ELSE IF Input[name].width > 0
               THEN DescStep(Refill("PeekDesc4", op.want + Input[name].width, op.nx, name, 0))
             ELSE IF Input[name].len > PeekNameCap THEN NoDesc
             ELSE DescStep(Refill("PeekDesc5", op.want + Input[name].len,
                                  op.nx, name, Input[name].len))

(* The length behind the header: what the header announces if the index    *)
(* still leads to its payload, else whatever the bytes there happen to say *)
(* (PeekNameCap + 1 standing for every length above the cap).              *)
PeekDescArg ==
  /\ Filled("PeekDesc4")
  /\ LET at == op.nx + 1
     IN IF op.err \/ at + Input[op.name].width > blen THEN NoDesc
        ELSE \E n \in IF buf[at] = op.name + 1 THEN {Input[op.name].len}
                                               ELSE 0..(PeekNameCap + 1) :
               IF n > PeekNameCap THEN NoDesc
               ELSE DescStep(Refill("PeekDesc5", op.want + n, op.nx, op.name, n))

PeekDescEnd ==
  /\ Filled("PeekDesc5")
  /\ LET at == op.nx + 1 + Input[op.name].width
     IN IF op.err \/ at + op.n > blen THEN NoDesc
        ELSE Hint("PeekDesc", TRUE, [i \in 0..(op.n - 1) |-> buf[at + i]])

-----------------------------------------------------------------------------
(* Record boundaries and position snapshots.                               *)

Discard ==
  /\ Ready /\ AtToken /\ mark = NoMark
  /\ pos > 0
  /\ buf' = CompactBuf /\ blen' = blen - pos /\ spare' = CompactSpare
  /\ pos' = 0 /\ base' = base + pos
  /\ pendStart' = CompactPendStart /\ pendLen' = CompactPendLen
  /\ UNCHANGED <<source, eof, faultErr, peekID, op, direct, res, hint, caller>>

(* skipValue's map-key identity: Pos() before the key, ByteRange after it. *)
(* A range that starts before the window is a negative slice index: a      *)
(* panic, which ends the stream.                                           *)
Pos ==
  /\ Ready /\ AtToken /\ mark = NoMark
  /\ mark' = base + pos
  /\ UNCHANGED <<source, window, track, op, direct, res, hint, taken, due, body, failed>>

ByteRange ==
  /\ Ready /\ AtToken /\ mark # NoMark /\ mark < base + pos
  /\ mark' = NoMark
  /\ hint' = IF mark - base < 0
               THEN Seen("ByteRange", FALSE, NoBytes)
               ELSE Seen("ByteRange", TRUE,
                      [i \in 0..(base + pos - mark - 1) |-> buf[mark - base + i]])
  /\ failed' = (mark < base)
  /\ UNCHANGED <<source, window, track, op, direct, res, taken, due, body>>

Start ==
  \/ byteAt \/ readN \/ readDirect
  \/ PeekRef \/ AtEOF \/ PeekByteAfterRef \/ AtEnd \/ PeekDesc
  \/ Discard \/ Pos \/ ByteRange

Continue ==
  \/ fill \/ byteAtEnd \/ readNEnd \/ readDirectRead \/ readDirectEnd
  \/ PeekRefFirst \/ PeekRefEnd \/ AtEOFEnd
  \/ PeekDescKind \/ PeekDescKind2 \/ PeekDescName \/ PeekDescArg \/ PeekDescEnd

Next == Start \/ Continue

Spec == Init /\ [][Next]_vars

(* The step is a Read that fails with a fault. *)
SourceFaults ==
  faultErr' # faultErr \/ (op.kind = "readDirect" /\ failed' /\ res'.why = "fault")

(* A call in progress goes on: the source keeps answering its Reads, with  *)
(* bytes or the end of the stream; no fault is counted on to end a call.   *)
FairSpec == Spec /\ WF_vars(Continue /\ ~SourceFaults)

-----------------------------------------------------------------------------
(* Types.                                                                  *)

Slice(n) == [0..(n - 1) -> Nat]

CallKinds == FillOps \cup {"idle", "readDirect"}

TypeOK ==
  /\ fed \in 0..InLen
  /\ blen \in Nat /\ buf \in Slice(blen)
  /\ spare \in Nat /\ pos \in 0..blen /\ base \in Nat
  /\ eof \in BOOLEAN /\ faultErr \in BOOLEAN
  /\ pendStart \in Nat /\ pendLen \in Nat /\ peekID \in Nat
  /\ op \in [kind : CallKinds, want : Nat, err : BOOLEAN,
             nx : Nat, name : Nat, n : Nat]
  /\ olen \in Nat /\ out \in Slice(olen) /\ ocap \in Nat /\ olen <= ocap
  /\ res.ok \in BOOLEAN /\ hint.ok \in BOOLEAN
  /\ taken \in Nat /\ due \in Nat /\ body \in Nat
  /\ mark \in Nat \cup {NoMark} /\ failed \in BOOLEAN

-----------------------------------------------------------------------------
(* Safety.                                                                 *)

(* The window is the input from base on, without a gap or a repetition,    *)
(* and ends where the source stands; in a large read the serving buffer    *)
(* continues what the caller has, and base follows the source.  Whatever   *)
(* fill, compact, Discard and readDirect do to buf, pos and base, and      *)
(* however the source cuts its pieces, the next byte read is the next byte *)
(* of the input, and Pos() is the number of bytes consumed.                *)
WindowExact ==
  /\ \A i \in 0..(blen - 1) : buf[i] = base + i
  /\ base + blen = fed
  /\ ~failed => base + pos = taken + (IF op.kind = "readDirect" THEN olen ELSE 0)
  /\ op.kind = "readDirect" => \A i \in 0..(olen - 1) : out[i] = taken + i

(* A large read takes from the source nothing behind its own record: the   *)
(* serving buffer, which only the record's bytes leave, never has room for *)
(* more.  It rests on the bound of what the window holds unread when the   *)
(* large read starts, so on fillChunk, peekNameCap and readDirectInit      *)
(* being small beside largeRead.                                           *)
DirectNeverOverreads == op.kind = "readDirect" => ocap <= op.want

(* What a call in progress is entitled to see of the input, as an offset:  *)
(* the end of the token or body it reads or looks at.                      *)
Entitled ==
  CASE op.kind \in {"byteAt", "AtEOF", "PeekRef1", "PeekDesc1"} -> taken + 1
    [] op.kind \in {"readN", "readDirect"} -> taken + Pending
    [] op.kind = "PeekRef2" -> taken + RefExtent(taken)
    [] op.kind = "PeekDesc2" -> taken + 2
    [] op.kind = "PeekDesc3" -> NameAt(taken) + 1
    [] op.kind = "PeekDesc4" -> NameBody(taken)
    [] op.kind = "PeekDesc5" -> DescEnd(taken)
    [] OTHER -> taken

(* On a live source that delivers and then stays open, no call waits for   *)
(* bytes behind the token it reads or looks at: the reader is in Read only *)
(* while the source still owes a byte of that token.                       *)
NeverWaitsPastToken ==
  Filling \/ (op.kind = "readDirect" /\ olen < op.want) => fed < Entitled

(* The window's memory, unread and free space together, is bounded by the  *)
(* thresholds and not by the records that went through it.                 *)
WindowBounded == blen + spare <= 2 * LargeRead + FillChunk

(* A lookahead that says yes is right: the marker byte behind the REF, the *)
(* name of the descriptor literal, the bytes of the key.  A "no" may be    *)
(* wrong: the lookahead gives up where the window ends.                    *)
LookaheadSound ==
  /\ hint.op = "PeekByteAfterRef" /\ hint.ok =>
       /\ WholeRefAt(hint.at)
       /\ hint.bytes = Span(hint.at + RefExtent(hint.at), 1)
  /\ hint.op = "PeekDesc" /\ hint.ok =>
       /\ WholeDescAt(hint.at)
       /\ hint.bytes = Span(NameBody(hint.at), DescEnd(hint.at) - NameBody(hint.at))
  /\ hint.op = "AtEnd" /\ ~hint.ok => hint.at < InLen

(* fill: a cached source fault resurfaces, and a source that reported its  *)
(* end is not asked again, in every call the window serves.                *)
WindowFaultSticks == [][(faultErr \/ eof) /\ op.kind # "readDirect" => fed' = fed]_vars

(* A call comes back once the source answers its Reads, in particular the  *)
(* loops of fill and readDirect end.                                       *)
CallReturns == op.kind # "idle" ~> op.kind = "idle"

-----------------------------------------------------------------------------
(* The stream-mode reader does what the buffer-mode reader does on the     *)
(* same input, except that it may report a source fault.                   *)

Buffer == INSTANCE BufferReader WITH
  cursor  <- taken,
  last    <- res,
  stopped <- res.op \in {"byteAt", "readN"} /\ ~res.ok

TracksBufferReader == Buffer!Spec

=============================================================================
