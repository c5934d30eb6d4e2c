--------------------------- MODULE EncodeSession ---------------------------
(***************************************************************************)
(* One Encoder, the stream encoder behind it, the coders that run inside   *)
(* an Encode, and the writer the bytes go to.                              *)
(*                                                                         *)
(* The Go call stack is explicit: an Encode call ("enc"), a value body in  *)
(* the making ("body"), a running coder ("coder").  A value is built body  *)
(* by body; `missing` counts the bodies whose bytes in the buffer lack     *)
(* something, which no reader of the stream could recover from.  Bytes are *)
(* counted, not represented: the header is HeaderLen of them, what a body, *)
(* a descriptor or a nil writes is one.                                    *)
(***************************************************************************)
EXTENDS Naturals, Sequences, FiniteSets

CONSTANTS
  CoderTypes,  \* types with a registered coder
  NoType,      \* the type of a frame that is no coder's
  Limits,      \* the budgets SetLimits may store: records of bytes, nodes, depth
  MaxSent,     \* bound: bytes a stream may get to
  MaxStack     \* bound: frames of the Go stack

HeaderLen == 1

(* The budgets are positive: validateLimits and the defaults see to it.    *)
ASSUME EncodeAssumption ==
  /\ Limits \subseteq [bytes : Nat, nodes : Nat, depth : Nat]
  /\ Limits # {}
  /\ NoType \notin CoderTypes
  /\ MaxSent \in Nat /\ MaxStack \in Nat

NoError == "none"
Breaks   == {"scan", "budget", "value", "coder", "recursion"}
Errors   == Breaks \cup {"io", "io_of_broken", "panic"}
Results  == Errors \cup {NoError, "writer", "reserved"}

VARIABLES
  err,      \* facade: the error every later call returns
  nilW,     \* facade: the writer is nil
  broken,   \* stream encoder: the error FlushTo and Encode return
  started,  \* the header was written
  buf,      \* bytes in the Writer
  missing,  \* bodies in the buffer or the sink that lack something
  flushed, streamStart,            \* the two counters behind bytesOut
  depth, nodes, lim,               \* budgets
  inCoder, activeCodrs,            \* coders running
  stack,    \* the Go stack, the innermost frame last
  sink,     \* bytes the writer took
  ret,      \* what the last call of Encode returned
  first,    \* the first error after which the Encoder is invalid
  leaked    \* bodies that panics took off the stack

facade  == <<err, nilW>>
output  == <<buf, missing, flushed, streamStart, started, sink>>
budget  == <<depth, nodes, lim>>
coders  == <<inCoder, activeCodrs>>
history == <<ret, first, leaked>>
vars    == <<facade, broken, output, budget, coders, stack, history>>

(* A frame: its kind, the type of a coder, and how far an Encode or a body *)
(* got: nothing written of its value yet, inside it, or through with it; a *)
(* nil interface has no body.                                              *)
Stages  == {"new", "open", "done", "nil"}
Enc     == [k : {"enc"}, t : {NoType}, at : Stages]
Body    == [k : {"body"}, t : {NoType}, at : Stages]
Coder   == [k : {"coder"}, t : CoderTypes, at : Stages]
Frames  == Enc \cup Body \cup Coder

EncFrame(at)  == [k |-> "enc", t |-> NoType, at |-> at]
BodyFrame     == [k |-> "body", t |-> NoType, at |-> "new"]
CoderFrame(t) == [k |-> "coder", t |-> t, at |-> "new"]

Top == stack[Len(stack)]
In(k) == stack # <<>> /\ Top.k = k
Pop == SubSeq(stack, 1, Len(stack) - 1)
At(k) == {i \in DOMAIN stack : stack[i].k = k}

(* The call of Encode that frame i runs in, and the frames that a return   *)
(* with an error or a panic takes off down to frame i, i included.         *)
Callers == {i \in At("enc") : \A j \in At("enc") : j <= i}
From(i, k) == {j \in At(k) : j >= i}

Init ==
  /\ err = NoError /\ nilW \in BOOLEAN
  /\ broken = NoError
  /\ started = FALSE /\ buf = 0 /\ missing = 0
  /\ flushed = 0 /\ streamStart = 0
  /\ depth = 0 /\ nodes = 0 /\ lim \in Limits
  /\ inCoder = 0 /\ activeCodrs = {}
  /\ stack = <<>>
  /\ sink = 0
  /\ ret = NoError /\ first = NoError /\ leaked = 0

---------------------------------------------------------------------------
(* User code runs outside every Encode or in a coder.                      *)
UserCode == stack # <<>> => Top.k = "coder"

bytesOut == flushed + buf - streamStart

Room == sink + buf < MaxSent /\ Len(stack) < MaxStack

Write(n) == buf' = buf + n

Note(e) == first' = IF first = NoError THEN e ELSE first

(* The error of an Encode: broken and the facade keep it, for a nested     *)
(* call as for an outer one, and the frames of the call are gone.          *)
FailTo(i, e) ==
  /\ broken' = e /\ err' = e /\ ret' = e /\ Note(e)
  /\ stack' = SubSeq(stack, 1, i - 1)

(* A return with an error: each body on the way takes its frame off the    *)
(* depth, a coder that returns takes itself off the coders.                *)
Fail(e, d) ==
  /\ \E i \in Callers :
       /\ FailTo(i, e)
       /\ depth' = d - Cardinality(From(i, "body"))
       /\ inCoder' = inCoder - Cardinality(From(i, "coder"))
       /\ activeCodrs' = activeCodrs \ {stack[j].t : j \in From(i, "coder")}
  /\ UNCHANGED <<nilW, missing, flushed, streamStart, started, sink, lim, leaked>>

(* Encode refuses: the sticky error, a nil writer outside a coder, a       *)
(* reserved name.  The last two are not sticky.                            *)
EncodeRefused ==
  /\ UserCode
  /\ \/ err # NoError /\ ret' = err
     \/ err = NoError /\ nilW /\ inCoder = 0 /\ ret' = "writer"
     \/ err = NoError /\ ~(nilW /\ inCoder = 0) /\ ret' = "reserved"
  /\ UNCHANGED <<facade, broken, output, budget, coders, stack, first, leaked>>

AdmittedForgetful == UserCode /\ ~(nilW /\ inCoder = 0)

Admitted == UserCode /\ err = NoError /\ ~(nilW /\ inCoder = 0)

(* The header goes out with the first outer value.                         *)
Opened(n) ==
  IF inCoder = 0 /\ ~started
    THEN /\ started' = TRUE /\ buf' = buf + HeaderLen + n
         /\ streamStart' = buf + HeaderLen
    ELSE Write(n) /\ UNCHANGED <<started, streamStart>>

(* encodeRoot and encodeSub up to the root's body: the scans succeed and   *)
(* the descriptor is written.                                              *)
Encode ==
  /\ Admitted /\ Room
  /\ broken = NoError
  /\ Opened(1)
  /\ stack' = Append(stack, EncFrame("new"))
  /\ UNCHANGED <<facade, broken, missing, flushed, sink, budget, coders, history>>

(* A nil interface has no body and is written at once.                     *)
EncodeNil ==
  /\ Admitted /\ Room
  /\ broken = NoError
  /\ Opened(2)
  /\ stack' = Append(stack, EncFrame("nil"))
  /\ UNCHANGED <<facade, broken, missing, flushed, sink, budget, coders, history>>

(* One of the scans or the descriptor fails, the header being written.     *)
EncodeFails ==
  /\ Admitted /\ Room
  /\ broken = NoError
  /\ Opened(0)
  /\ \E e \in {"scan", "budget"} : FailTo(Len(stack) + 1, e)
  /\ UNCHANGED <<nilW, missing, flushed, sink, budget, coders, leaked>>

(* encodeBody: one node, one frame, both budgeted.                         *)
BodyDue ==
  \/ In("enc") /\ Top.at = "new"
  \/ In("body") /\ Top.at \in {"new", "open"}

Inside == IF Top.k = "enc" THEN "done" ELSE "open"

encodeBody ==
  /\ BodyDue /\ Room
  /\ nodes < lim.nodes /\ depth < lim.depth
  /\ nodes' = nodes + 1 /\ depth' = depth + 1
  /\ Write(1) /\ missing' = missing + 1
  /\ stack' = Append(
       [stack EXCEPT ![Len(stack)].at = Inside], BodyFrame)
  /\ UNCHANGED <<facade, broken, flushed, streamStart, started, sink, lim,
                 coders, history>>

encodeBodyOverBudget ==
  /\ BodyDue
  /\ nodes >= lim.nodes \/ depth >= lim.depth
  /\ nodes' = nodes + 1
  /\ buf' = buf
  /\ Fail("budget", depth)

(* The body is written; the output bytes are looked at once more.          *)
encodeBodyEnd ==
  /\ In("body")
  /\ bytesOut <= lim.bytes
  /\ depth' = depth - 1 /\ missing' = missing - 1
  /\ stack' = Pop
  /\ UNCHANGED <<facade, broken, buf, flushed, streamStart, started, sink,
                 nodes, lim, coders, history>>

encodeBodyFails ==
  /\ In("body")
  /\ \/ bytesOut > lim.bytes /\ Fail("budget", depth)
     \/ Top.at # "done" /\ Fail("value", depth)
  /\ UNCHANGED <<buf, nodes>>

(* A body of a coder's type runs the coder, unless it runs already.        *)
CoderDue == In("body") /\ Top.at = "new"

CoderEncode(t) ==
  /\ CoderDue /\ Room
  /\ t \notin activeCodrs
  /\ inCoder' = inCoder + 1 /\ activeCodrs' = activeCodrs \cup {t}
  /\ stack' = Append([stack EXCEPT ![Len(stack)].at = "done"], CoderFrame(t))
  /\ UNCHANGED <<facade, broken, output, budget, history>>

CoderRecursion(t) ==
  /\ CoderDue
  /\ t \in activeCodrs
  /\ Fail("recursion", depth)
  /\ UNCHANGED <<buf, nodes>>

(* What the coder got from its Encode calls is its own affair: it may      *)
(* return nil after an error.                                              *)
CoderReturns ==
  /\ In("coder")
  /\ inCoder' = inCoder - 1 /\ activeCodrs' = activeCodrs \ {Top.t}
  /\ stack' = Pop
  /\ UNCHANGED <<facade, broken, output, budget, history>>

CoderFails ==
  /\ In("coder")
  /\ Fail("coder", depth)
  /\ UNCHANGED <<buf, nodes>>

---------------------------------------------------------------------------
(* A panic runs the deferred functions of the frames it leaves: coders     *)
(* are taken off, the depth is not.  Only the outermost Encode recovers,   *)
(* records the panic and raises it again.                                  *)
UnwoundBare(i) ==
  /\ leaked' = leaked + Cardinality(From(i, "body"))
  /\ stack' = SubSeq(stack, 1, i - 1)
  /\ UNCHANGED coders

Unwound(i) ==
  /\ leaked' = leaked + Cardinality(From(i, "body"))
  /\ stack' = SubSeq(stack, 1, i - 1)
  /\ inCoder' = inCoder - Cardinality(From(i, "coder"))
  /\ activeCodrs' = activeCodrs \ {stack[j].t : j \in From(i, "coder")}

EncodePanics ==
  /\ stack # <<>>
  /\ Unwound(1)
  /\ err' = "panic" /\ ret' = "panic" /\ Note("panic")
  /\ UNCHANGED <<nilW, broken, output, budget>>

(* A coder recovers a panic out of an Encode it called.                    *)
CoderRecovers ==
  /\ \E i \in At("enc") \ {1} : Unwound(i)
  /\ ret' = "panic"
  /\ UNCHANGED <<facade, broken, output, budget, first>>

---------------------------------------------------------------------------
EncodeDone == In("enc") /\ Top.at # "new"

(* A nested Encode leaves its bytes in the buffer.                         *)
EncodeReturns ==
  /\ EncodeDone /\ inCoder > 0
  /\ stack' = Pop /\ ret' = NoError
  /\ UNCHANGED <<facade, broken, output, budget, coders, first, leaked>>

Flushing == EncodeDone /\ inCoder = 0

FlushToAnyway ==
  /\ Flushing
  /\ flushed' = bytesOut /\ streamStart' = 0
  /\ sink' = sink + buf /\ buf' = 0
  /\ stack' = Pop /\ ret' = NoError
  /\ UNCHANGED <<facade, broken, missing, started, budget, coders, first, leaked>>

FlushToStartKept ==
  /\ Flushing /\ broken = NoError
  /\ flushed' = bytesOut
  /\ sink' = sink + buf /\ buf' = 0
  /\ stack' = Pop /\ ret' = NoError
  /\ UNCHANGED <<facade, broken, missing, started, streamStart, budget, coders,
                 first, leaked>>

(* FlushTo, the counters first.                                            *)
FlushTo ==
  /\ Flushing /\ broken = NoError
  /\ flushed' = bytesOut /\ streamStart' = 0
  /\ sink' = sink + buf /\ buf' = 0
  /\ stack' = Pop /\ ret' = NoError
  /\ UNCHANGED <<facade, broken, missing, started, budget, coders, first, leaked>>

FlushBroken ==
  /\ Flushing /\ broken # NoError
  /\ err' = "io_of_broken" /\ ret' = "io_of_broken" /\ Note("io_of_broken")
  /\ stack' = Pop
  /\ UNCHANGED <<nilW, broken, output, budget, coders, leaked>>

(* The writer fails, having taken a part of the bytes or all of them.      *)
FlushFails ==
  /\ Flushing /\ broken = NoError
  /\ flushed' = bytesOut /\ streamStart' = 0
  /\ \E n \in 0 .. buf : sink' = sink + n
  /\ err' = "io" /\ ret' = "io" /\ Note("io")
  /\ stack' = Pop
  /\ UNCHANGED <<nilW, broken, buf, missing, started, budget, coders, leaked>>

FlushPanics ==
  /\ Flushing /\ broken = NoError
  /\ flushed' = bytesOut /\ streamStart' = 0
  /\ \E n \in 0 .. buf : sink' = sink + n
  /\ err' = "panic" /\ ret' = "panic" /\ Note("panic")
  /\ stack' = Pop
  /\ UNCHANGED <<nilW, broken, buf, missing, started, budget, coders, leaked>>

SetLimits ==
  /\ UserCode
  /\ err = NoError
  /\ lim' \in Limits
  /\ UNCHANGED <<facade, broken, output, depth, nodes, coders, stack, history>>

Next ==
  \/ EncodeRefused \/ Encode \/ EncodeNil \/ EncodeFails
  \/ encodeBody \/ encodeBodyOverBudget \/ encodeBodyEnd \/ encodeBodyFails
  \/ \E t \in CoderTypes : CoderEncode(t) \/ CoderRecursion(t)
  \/ CoderReturns \/ CoderFails
  \/ EncodePanics \/ CoderRecovers
  \/ EncodeReturns \/ FlushTo \/ FlushBroken \/ FlushFails \/ FlushPanics
  \/ SetLimits

Spec == Init /\ [][Next]_vars

---------------------------------------------------------------------------
TypeOK ==
  /\ err \in Errors \cup {NoError} /\ nilW \in BOOLEAN
  /\ broken \in Errors \cup {NoError}
  /\ started \in BOOLEAN
  /\ buf \in Nat /\ missing \in Nat /\ flushed \in Nat /\ streamStart \in Nat /\ sink \in Nat
  /\ depth \in Nat /\ nodes \in Nat /\ inCoder \in Nat /\ leaked \in Nat
  /\ lim \in Limits
  /\ activeCodrs \subseteq CoderTypes
  /\ stack \in Seq(Frames)
  /\ ret \in Results
  /\ first \in Errors \cup {NoError}

(* Whatever way control takes out of a coder, a return, an error or a      *)
(* panic, the Encoder knows which coders still run: inCoder decides        *)
(* whether an Encode flushes and activeCodrs which coder recurses.  The    *)
(* depth is that of the bodies on the stack, and of those a recovered      *)
(* panic left behind.                                                      *)
CodersExact ==
  /\ inCoder = Cardinality(At("coder"))
  /\ activeCodrs = {stack[i].t : i \in At("coder")}
  /\ \A i, j \in At("coder") : stack[i].t = stack[j].t => i = j
  /\ depth = Cardinality(At("body")) + leaked

(* Only whole values reach the writer: the bytes of a value that failed on *)
(* the way stay in the buffer for good, even if the coder it failed in     *)
(* passed over the error.  A panic a coder recovered is not covered.       *)
WholeValuesSent ==
  [][sink' # sink /\ leaked = 0 => missing = 0 /\ At("body") = {}]_vars

(* After an error nothing reaches the writer any more, and once the failed *)
(* call returned, every later one returns the same error.                  *)
StickyError ==
  [][err # NoError =>
       /\ sink' = sink
       /\ stack = <<>> => err' = err /\ ret' = err]_vars

(* The byte budget is held against what the stream consists of: the bytes  *)
(* sent and those in the buffer, without the header, whatever was flushed  *)
(* in between.                                                             *)
BytesExact ==
  err = NoError /\ started => bytesOut + HeaderLen = sink + buf
=============================================================================
