---------------------------- MODULE BufferReader ----------------------------
(***************************************************************************)
(* wire.Reader over a byte slice (NewReader, src = nil): what every read   *)
(* of the stream-mode Reader promises.  The cursor moves over the input in *)
(* order, a read returns exactly the bytes at the cursor, an input that is *)
(* too short is a truncation, and a lookahead answers for the bytes at the *)
(* cursor without moving it.                                               *)
(*                                                                         *)
(* A reader over an io.Reader may fail with a source fault where this one  *)
(* answers; that is the only freedom the SourceFault action leaves it.     *)
(***************************************************************************)
EXTENDS TokenInput

VARIABLES
  cursor,   \* Pos(): bytes consumed from the start of the input
  due,      \* ARG payload bytes of the current token not read yet
  body,     \* raw body bytes of the current token not read yet
  last,     \* what the last call returned
  stopped   \* a call failed, and the caller gave the stream up

bvars == <<cursor, due, body, last, stopped>>

Answer(op, ok, why, bytes) == [op |-> op, ok |-> ok, why |-> why, bytes |-> bytes]

NoBytes == Span(0, 0)

Init ==
  /\ cursor = 0
  /\ due = 0
  /\ body = 0
  /\ last = Answer("none", TRUE, "none", NoBytes)
  /\ stopped = FALSE

AtToken == due = 0 /\ body = 0

(* The caller reads the payload of a token before its body. *)
Pending == IF due > 0 THEN due ELSE body

Fail(op, why) ==
  /\ last' = Answer(op, FALSE, why, NoBytes)
  /\ stopped' = TRUE
  /\ UNCHANGED <<cursor, due, body>>

byteAt ==
  /\ ~stopped /\ AtToken
  /\ IF cursor >= InLen
       THEN Fail("byteAt", "truncated")
       ELSE /\ last' = Answer("byteAt", TRUE, "none", Span(cursor, 1))
            /\ cursor' = cursor + 1
            /\ due' = Input[cursor].width
            /\ body' = Input[cursor].len
            /\ UNCHANGED stopped

readN ==
  /\ ~stopped /\ ~AtToken
  /\ IF Pending > InLen - cursor
       THEN Fail("readN", "truncated")
       ELSE /\ last' = Answer("readN", TRUE, "none", Span(cursor, Pending))
            /\ cursor' = cursor + Pending
            /\ due' = 0
            /\ body' = IF due > 0 THEN body ELSE 0
            /\ UNCHANGED stopped

PeekRef ==
  /\ ~stopped /\ AtToken
  /\ last' = Answer("PeekRef", WholeRefAt(cursor), "none",
                    IF WholeRefAt(cursor) THEN Span(cursor, 1) ELSE NoBytes)
  /\ UNCHANGED <<cursor, due, body, stopped>>

AtEOF ==
  /\ ~stopped /\ AtToken
  /\ last' = Answer("AtEOF", cursor >= InLen, "none", NoBytes)
  /\ UNCHANGED <<cursor, due, body, stopped>>

(* A read fails, and a lookahead answers "no", because the source failed.  *)
SourceFault(op) ==
  /\ ~stopped
  /\ last' = Answer(op, FALSE, "fault", NoBytes)
  /\ stopped' = (op \in {"byteAt", "readN"})
  /\ UNCHANGED <<cursor, due, body>>

Next ==
  \/ byteAt
  \/ readN
  \/ PeekRef
  \/ AtEOF
  \/ \E op \in {"byteAt", "readN", "PeekRef", "AtEOF"} : SourceFault(op)

Spec == Init /\ [][Next]_bvars
=============================================================================
