---------------------------- MODULE DecodeSession ----------------------------
(***************************************************************************)
(* One Decoder over one stream: the facade (gbon.Decoder), the stream      *)
(* decoder behind it (codecStreamDecoder), the decoder of the value in     *)
(* progress (codecDecoder), and the user's coders, which run in the middle *)
(* of a value and call Decode again.  Three layers each remember an error; *)
(* a target is restored when its Decode fails; registrations come between  *)
(* the calls and are shared with a decoder that already runs.              *)
(*                                                                         *)
(* The stream is a sequence of units: the descriptor of a value, and its   *)
(* body, which for a coder's value is the values the coder encoded.  Any   *)
(* read of a unit may fail: the bytes are malformed, over budget, missing, *)
(* or the source fails.                                                    *)
(***************************************************************************)
EXTENDS Integers, Sequences

CONSTANTS
  Names,     \* the names of the types that have coders
  Stream,    \* the units behind the stream header
  MaxMisuse  \* how many misused sub-decodes a coder may make (bounds the run)

(* A descriptor announces a plain body, one unit, or the values of a coder.*)
Units ==
  [kind : {"desc"}, coder : Names, subs : Nat]
    \cup [kind : {"plain"}]
    \cup [kind : {"body"}]

ASSUME SessionAssumption ==
  /\ Stream \in Seq(Units)
  /\ MaxMisuse \in Nat

(* How far units read in order lead: the values that are still owed to the *)
(* value in progress, and the values that are whole.                       *)
Due(p) == IF p.owed = 0 THEN 1 ELSE p.owed

After(p, u) ==
  LET owed == CASE u.kind = "desc" -> Due(p) - 1 + u.subs
                [] u.kind = "plain" -> Due(p)
                [] u.kind = "body" -> Due(p) - 1
  IN  [owed |-> owed, whole |-> IF owed = 0 THEN p.whole + 1 ELSE p.whole]

Nothing == [owed |-> 0, whole |-> 0]

Progress[i \in 0..Len(Stream)] ==
  IF i = 0 THEN Nothing ELSE After(Progress[i - 1], Stream[i])

(* The values the stream makes up. *)
NumValues == Progress[Len(Stream)].whole

NoError == "none"

(* What a read of the stream and a coder may fail with.  wrapped_eof is a  *)
(* coder's error with io.EOF in its chain.                                 *)
ReadErrors == {"format", "truncated", "io_read", "budget"}
CoderErrors == {"coder_error", "wrapped_eof"}
Errors == ReadErrors \cup CoderErrors
            \cup {"bad_path", "unknown_name", "register_conflict", "internal_panic",
                  "contract_mismatch"}

(* errors.Is(err, io.EOF) *)
IsEOF(e) == e \in {"eof", "wrapped_eof"}

VARIABLES
  \* the facade
  err,       \* Decoder.err
  coders,    \* Decoder.coders: the names registered
  allocated, \* Decoder.coders # nil
  reserved,  \* Decoder.reserved
  \* the stream decoder
  dec,       \* "nil", or whether its coders is the facade's map or nil
  started,   \* the header was read
  sawValue,
  broken,
  rpos,      \* units consumed
  memo,      \* decShared.cc: "unset", "hit" or "miss" of each name
  \* the value in progress
  step,      \* where the call is
  unit,      \* the descriptor just read
  fit,       \* how the target relates to the root descriptor
  restoring, \* rootRestore # nil
  vbroken,   \* codecDecoder.broken
  cell,      \* codecDecoder.derivCell is pending
  stack,     \* the coders that run, innermost last: sub-values still due
  sub,       \* what the last sub-decode of the innermost coder returned
  subTarget, \* that coder's own target
  misused,   \* misused sub-decodes made
  \* the caller
  target,    \* the caller's value
  res,       \* what the last Decode returned
  first,     \* the first error that invalidates the Decoder, as returned
  got,       \* values delivered
  passed     \* a coder passed over a panic, or an error and values of its own

facade == <<err, coders, allocated, reserved>>
session == <<dec, started, sawValue, broken, rpos>>
value == <<unit, fit, restoring, vbroken, cell, stack, sub, subTarget, misused>>
caller == <<target, res, first, got, passed>>
vars == <<err, coders, allocated, reserved,
          dec, started, sawValue, broken, rpos, memo, step,
          unit, fit, restoring, vbroken, cell, stack, sub, subTarget, misused,
          target, res, first, got, passed>>

(* In place: directly, or through the pointer at the stream's root.  Gap:  *)
(* the target sits pointer levels deeper than the stream's root.           *)
Fits == {"in_place", "gap", "mismatch"}

NoUnit == [kind |-> "plain"]

Init ==
  /\ err = NoError /\ coders = {} /\ allocated = FALSE /\ reserved = {}
  /\ dec = "nil" /\ started = FALSE /\ sawValue = FALSE /\ broken = NoError
  /\ rpos = 0 /\ memo = [c \in Names |-> "unset"]
  /\ step = "idle"
  /\ unit = NoUnit /\ fit = "in_place" /\ restoring = FALSE
  /\ vbroken = NoError /\ cell = FALSE
  /\ stack = <<>> /\ sub = NoError /\ subTarget = "before" /\ misused = 0
  /\ target = "before" /\ res = NoError /\ first = NoError
  /\ got = 0 /\ passed = FALSE

-----------------------------------------------------------------------------
(* The layers' common ways out.                                            *)

(* mapReserved: a registry miss on a reserved name is reported as that.    *)
Mapped(e) ==
  IF e = "unknown_name" /\ unit.coder \in reserved THEN "register_conflict" ELSE e

(* The outer Decode returns e: the target is restored, the facade keeps    *)
(* every error that is not io.EOF.  What the stream decoder keeps is the   *)
(* business of the caller of Finish.                                       *)
Finish(e) ==
  /\ step' = "idle"
  /\ res' = Mapped(e)
  /\ err' = IF e # NoError /\ ~IsEOF(e) THEN Mapped(e) ELSE err
  /\ first' = IF first = NoError /\ e \notin {NoError, "eof"} THEN Mapped(e) ELSE first
  /\ target' = IF restoring /\ e # NoError THEN "before" ELSE target
  /\ restoring' = FALSE
  /\ stack' = <<>>
  /\ UNCHANGED <<coders, allocated, reserved, dec, started, unit, fit, cell, misused, passed>>
  /\ got' = IF e = NoError THEN got + 1 ELSE got

(* The stream decoder does not remember. *)
BreakForgetful(e) == Finish(e) /\ UNCHANGED broken

Break(e) == Finish(e) /\ broken' = e

(* The innermost running coder, and what is left without it. *)
Inner == stack[Len(stack)]
Outer == SubSeq(stack, 1, Len(stack) - 1)

InCoder == stack # <<>>

(* A decode inside the value fails: the whole Decode does, or the coder    *)
(* that asked for it learns of it and the value decoder remembers.         *)
FailAt(left, e) ==
  IF left = <<>>
    THEN /\ Break(e)
         /\ UNCHANGED <<sawValue, rpos, vbroken, sub, subTarget>>
    ELSE /\ vbroken' = e /\ sub' = e /\ stack' = left /\ step' = "coder"
         /\ UNCHANGED <<facade, session, unit, fit, restoring, cell, subTarget, misused, caller>>

(* The coders a value decoder looks up: the facade's map, if the stream    *)
(* decoder was made when there was one.                                    *)
Visible == IF dec = "shared" THEN coders ELSE {}

-----------------------------------------------------------------------------
(* The outer Decode, up to the value's descriptor.                         *)

Decode(f) ==
  /\ step = "idle"
  /\ IF err # NoError
       THEN /\ res' = err
            /\ target' = "before"
            /\ UNCHANGED <<facade, session, step, value, first, got, passed>>
       ELSE /\ dec' = IF dec # "nil" THEN dec ELSE IF allocated THEN "shared" ELSE "detached"
            /\ target' = "before"
            /\ restoring' = FALSE
            /\ fit' = f
            /\ IF broken # NoError
                 THEN res' = broken /\ UNCHANGED step
                 ELSE step' = (IF started THEN "eof?" ELSE "header") /\ UNCHANGED res
            /\ UNCHANGED <<facade, started, sawValue, broken, rpos, first, got, passed,
                           unit, vbroken, cell, stack, sub, subTarget, misused>>
  /\ UNCHANGED memo

(* A target that is no pointer, a negative limit, no reader: reported      *)
(* before the stream is touched.                                           *)
DecodeMisused ==
  /\ step = "idle" /\ err = NoError
  /\ res' = "misuse"
  /\ target' = "before"
  /\ UNCHANGED <<facade, session, memo, step, value, first, got, passed>>

ReadHeader ==
  /\ step = "header"
  /\ \/ /\ started' = TRUE /\ step' = "eof?"
        /\ UNCHANGED <<facade, dec, sawValue, broken, rpos, value, caller>>
     \/ \E e \in ReadErrors :
          /\ Break(e)
          /\ UNCHANGED <<sawValue, rpos, vbroken, sub, subTarget>>
  /\ UNCHANGED memo

(* The window is drained: nothing is pulled before the end is reported.    *)
AtEOFWindow ==
  /\ step = "eof?"
  /\ \/ /\ IF sawValue THEN Finish("eof") /\ UNCHANGED broken ELSE Break("truncated")
        /\ UNCHANGED <<sawValue, rpos, vbroken, sub, subTarget>>
     \/ /\ step' = "desc"
        /\ vbroken' = NoError /\ cell' = FALSE /\ sub' = NoError
        /\ UNCHANGED <<facade, session, unit, fit, restoring, stack, subTarget, misused, caller>>
  /\ UNCHANGED memo

AtEOF ==
  /\ step = "eof?"
  /\ \/ /\ rpos = Len(Stream)
        /\ IF sawValue THEN Finish("eof") /\ UNCHANGED broken ELSE Break("truncated")
        /\ UNCHANGED <<sawValue, rpos, vbroken, sub, subTarget>>
     \* More input, or a source that fails instead of ending.
     \/ /\ step' = "desc"
        /\ vbroken' = NoError /\ cell' = FALSE /\ sub' = NoError
        /\ UNCHANGED <<facade, session, unit, fit, restoring, stack, subTarget, misused, caller>>
  /\ UNCHANGED memo

ReadDesc ==
  /\ step = "desc"
  /\ \/ /\ rpos < Len(Stream) /\ Stream[rpos + 1].kind # "body"
        /\ unit' = Stream[rpos + 1]
        /\ rpos' = rpos + 1
        /\ step' = "match"
        /\ UNCHANGED <<facade, dec, started, sawValue, broken,
                       fit, restoring, vbroken, cell, stack, sub, subTarget, misused, caller>>
     \/ \E e \in ReadErrors : FailAt(stack, e)
  /\ UNCHANGED memo

-----------------------------------------------------------------------------
(* The value.                                                              *)

SnapshotsNever == FALSE

(* Whether the root decodes under a snapshot of the target. *)
Snapshots == fit = "in_place"

(* The root target against the root descriptor.  In place the value        *)
(* decodes under a snapshot; a gap decodes into a temporary.               *)
Match ==
  /\ step = "match" /\ ~InCoder
  /\ IF fit = "mismatch"
       THEN Break("format") /\ UNCHANGED <<sawValue, rpos, vbroken, sub, subTarget>>
       ELSE /\ restoring' = Snapshots
            /\ step' = "body"
            /\ UNCHANGED <<facade, session, unit, fit, vbroken, cell, stack, sub, subTarget,
                           misused, caller>>
  /\ UNCHANGED memo

(* decodeSub has no snapshot. *)
MatchSub ==
  /\ step = "match" /\ InCoder
  /\ \/ FailAt(stack, "format")
     \/ /\ step' = "body"
        /\ UNCHANGED <<facade, session, value, caller>>
  /\ UNCHANGED memo

(* A body writes the target's fields one at a time. *)
WritePart ==
  /\ step = "body"
  /\ IF InCoder
       THEN subTarget = "before" /\ subTarget' = "partial" /\ UNCHANGED target
       ELSE /\ fit = "in_place"
            /\ target = "before" /\ target' = "partial" /\ UNCHANGED subTarget
  /\ UNCHANGED <<facade, session, memo, step, unit, fit, restoring, vbroken, cell, stack, sub,
                 misused, res, first, got, passed>>

(* A decode inside the value succeeds: the value is there, or the coder    *)
(* that asked for it goes on.                                              *)
SucceedAt(left) ==
  IF left = <<>>
    THEN /\ step' = "close" /\ target' = "value" /\ stack' = left
         /\ UNCHANGED <<sub, subTarget>>
    ELSE /\ step' = "coder" /\ sub' = NoError /\ subTarget' = "before"
         /\ stack' = [left EXCEPT ![Len(left)] = @ - 1]
         /\ UNCHANGED target

(* A plain body, which may leave a path cell pending until the value ends. *)
PlainBody ==
  /\ step = "body" /\ unit.kind = "plain"
  /\ \/ /\ rpos < Len(Stream) /\ Stream[rpos + 1].kind = "body"
        /\ rpos' = rpos + 1
        /\ SucceedAt(stack)
        /\ cell' \in {cell, TRUE}
        /\ UNCHANGED <<facade, dec, started, sawValue, broken,
                       unit, fit, restoring, vbroken, misused, res, first, got, passed>>
     \/ \E e \in ReadErrors : FailAt(stack, e)
  /\ UNCHANGED memo

(* A coder's value: the coder is resolved, for a concrete target through   *)
(* the memo of the stream, and runs.                                       *)
CoderBody(iface) ==
  /\ step = "body" /\ unit.kind = "desc"
  /\ LET c == unit.coder
         found == IF iface \/ memo[c] = "unset" THEN c \in Visible ELSE memo[c] = "hit"
     IN /\ memo' = IF iface THEN memo ELSE [memo EXCEPT ![c] = IF found THEN "hit" ELSE "miss"]
        /\ IF found
             THEN /\ stack' = Append(stack, unit.subs)
                  /\ step' = "coder" /\ sub' = NoError /\ subTarget' = "before"
                  /\ UNCHANGED <<facade, session, unit, fit, restoring, vbroken, cell,
                                 misused, caller>>
             ELSE FailAt(stack, "unknown_name")

-----------------------------------------------------------------------------
(* The coders.  A coder asks for the values it encoded, in order, and      *)
(* returns nil when it has them; it may also give up on an error, return   *)
(* it or one of its own, pass over it, or panic.                           *)

CoderCalls(op) == step = "coder" /\ sub' = op /\ UNCHANGED
  <<facade, session, memo, step, unit, fit, restoring, vbroken, cell, stack, subTarget, caller>>

(* decodeSub: the value decoder's sticky error, the end of the window, or  *)
(* a value.                                                                *)
CoderDecode ==
  /\ step = "coder" /\ Inner > 0
  /\ \/ vbroken # NoError /\ CoderCalls(vbroken)
     \/ vbroken = NoError /\ CoderCalls("eof")
     \/ /\ vbroken = NoError /\ rpos < Len(Stream)
        /\ step' = "desc" /\ subTarget' = "before"
        /\ UNCHANGED <<facade, session, memo, unit, fit, restoring, vbroken, cell, stack, sub, caller>>
  /\ UNCHANGED misused

CoderMisuse ==
  /\ misused < MaxMisuse
  /\ misused' = misused + 1
  /\ CoderCalls("contract_mismatch")

CoderReturn ==
  /\ step = "coder"
  /\ Inner = 0 \/ sub # NoError
  /\ \/ /\ SucceedAt(Outer)
        /\ passed' = (passed \/ Inner > 0)
        /\ UNCHANGED <<facade, session, unit, fit, restoring, vbroken, cell, misused,
                       res, first, got>>
     \* decodeCoderInto: the byte window after the body.
     \/ FailAt(Outer, "budget")
  /\ UNCHANGED memo

(* An error of the codec passes the seam as it is, any other is wrapped.   *)
CoderFail ==
  /\ step = "coder"
  /\ \E e \in CoderErrors \cup ({sub} \cap Errors) : FailAt(Outer, e)
  /\ UNCHANGED memo

(* A panic in a coder, or in the source under a read. *)
CoderPanic ==
  /\ step \in {"coder", "header", "eof?", "desc", "body"}
  /\ step' = "panic"
  /\ stack' = IF step = "coder" THEN Outer ELSE stack
  /\ UNCHANGED <<facade, session, memo, unit, fit, restoring, vbroken, cell, sub, subTarget,
                 misused, caller>>

(* It unwinds the coders, any of which may recover, up to the Decode that  *)
(* turns it into an error, of which the stream decoder keeps nothing.      *)
Unwind ==
  /\ step = "panic"
  /\ \/ /\ InCoder /\ stack' = Outer
        /\ UNCHANGED <<facade, session, step, unit, fit, restoring, vbroken, cell, sub, subTarget,
                       misused, caller>>
     \/ /\ InCoder /\ step' = "coder" /\ sub' = "internal_panic" /\ passed' = TRUE
        /\ UNCHANGED <<facade, session, unit, fit, restoring, vbroken, cell, stack, subTarget,
                       misused, target, res, first, got>>
     \/ /\ ~InCoder /\ Finish("internal_panic")
        /\ UNCHANGED <<broken, sawValue, rpos, vbroken, sub, subTarget>>
  /\ UNCHANGED memo

(* The end of a value: a pending path cell makes it an error after all.    *)
Close ==
  /\ step = "close"
  /\ IF cell
       THEN Break("bad_path") /\ UNCHANGED sawValue
       ELSE Finish(NoError) /\ sawValue' = TRUE /\ UNCHANGED broken
  /\ UNCHANGED <<memo, rpos, vbroken, sub, subTarget>>

-----------------------------------------------------------------------------
(* Registrations, between two Decodes or from inside a coder.              *)

CanRegister == step \in {"idle", "coder"}

(* A registration that leaves the memo as it is. *)
RegisterCoderOnly(c) ==
  /\ CanRegister
  /\ c \notin reserved /\ c \notin coders
  /\ coders' = coders \cup {c}
  /\ allocated' = TRUE
  /\ UNCHANGED <<err, reserved, session, memo, step, value, caller>>

(* Every registration of a coder drops the memo of the running stream.     *)
RegisterCoder(c) ==
  /\ CanRegister
  /\ c \notin reserved /\ c \notin coders
  /\ coders' = coders \cup {c}
  /\ allocated' = TRUE
  /\ memo' = IF dec = "nil" THEN memo ELSE [n \in Names |-> "unset"]
  /\ UNCHANGED <<err, reserved, session, step, value, caller>>

RegisterReserved(c) ==
  /\ CanRegister
  /\ c \notin reserved /\ c \notin coders
  /\ reserved' = reserved \cup {c}
  /\ UNCHANGED <<err, coders, allocated, session, memo, step, value, caller>>

Next ==
  \/ \E f \in Fits : Decode(f)
  \/ DecodeMisused \/ ReadHeader \/ AtEOF \/ ReadDesc
  \/ Match \/ MatchSub \/ WritePart \/ PlainBody
  \/ \E iface \in BOOLEAN : CoderBody(iface)
  \/ CoderDecode \/ CoderMisuse \/ CoderReturn \/ CoderFail
  \/ CoderPanic \/ Unwind \/ Close
  \/ \E c \in Names : RegisterCoder(c) \/ RegisterReserved(c)

Spec == Init /\ [][Next]_vars

-----------------------------------------------------------------------------
TypeOK ==
  /\ err \in Errors \cup {NoError} /\ coders \subseteq Names /\ reserved \subseteq Names
  /\ allocated \in BOOLEAN /\ dec \in {"nil", "shared", "detached"}
  /\ started \in BOOLEAN /\ sawValue \in BOOLEAN
  /\ broken \in Errors \cup {NoError} /\ rpos \in 0..Len(Stream)
  /\ memo \in [Names -> {"unset", "hit", "miss"}]
  /\ step \in {"idle", "header", "eof?", "desc", "match", "body", "coder", "panic", "close"}
  /\ unit \in Units /\ fit \in Fits /\ restoring \in BOOLEAN /\ cell \in BOOLEAN
  /\ vbroken \in Errors \cup {NoError} /\ sub \in Errors \cup {NoError, "eof"}
  /\ stack \in Seq(Nat) /\ misused \in 0..MaxMisuse
  /\ target \in {"before", "partial", "value"} /\ subTarget \in {"before", "partial"}
  /\ res \in Errors \cup {NoError, "eof", "misuse"}
  /\ first \in Errors \cup {NoError}
  /\ got \in Nat /\ passed \in BOOLEAN

-----------------------------------------------------------------------------
(* Safety.                                                                 *)

(* Decode atomicity: a Decode that fails, wherever in the value and at     *)
(* whichever depth of coders, by an error or a panic, leaves the caller's  *)
(* target as it was.  The one exception is a target set through the        *)
(* pointer gap of a root descriptor, which a pending path cell fails.      *)
FailedDecodeRestores ==
  step = "idle" /\ res \notin {NoError, "eof"} =>
    target = "before" \/ (fit = "gap" /\ res = "bad_path")

(* Once a Decode has failed on the stream, no later one reads, and each    *)
(* returns that same error, although it is kept by one layer or another    *)
(* (io.EOF in a coder's error passes by the facade, a panic passes by the  *)
(* stream decoder, a reserved name is known to the facade only).  A misuse *)
(* may still be reported first where the facade kept nothing.              *)
StickyError ==
  [][first # NoError =>
       /\ UNCHANGED <<rpos, started, got>>
       /\ res' \in {res, first} \cup (IF IsEOF(first) THEN {"misuse"} ELSE {})]_vars

(* A clean end of the stream means that every value was delivered, one per *)
(* Decode, unless a coder passed over an error or a panic.                 *)
EndMeansAllDelivered == res = "eof" /\ ~passed => got = NumValues

(* What the stream remembers of a type's coder is what the registry says,  *)
(* whenever registrations come.                                            *)
MemoFresh ==
  dec = "shared" =>
    \A c \in Names : memo[c] # "unset" => (memo[c] = "hit") = (c \in coders)
=============================================================================
