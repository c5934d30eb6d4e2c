------------------------- MODULE DecodeSessionProofs -------------------------
(***************************************************************************)
(* What TLAPS proves of DecodeSession, for every stream and every set of   *)
(* coders: the types, that errors stick, that a failed Decode restores its *)
(* target, that a clean end means that every value was delivered, and that *)
(* the memo of coders agrees with the registry.                            *)
(***************************************************************************)
EXTENDS DecodeSession, SequenceTheorems, WellFoundedInduction, TLAPS

(* A Decode in progress has no error behind it, and an error behind it is  *)
(* kept by the layer that has to refuse the next call.                     *)
Layers ==
  /\ step # "idle" => first = NoError
  /\ first = NoError => err = NoError /\ broken = NoError
  /\ first # NoError => IF IsEOF(first) THEN err = NoError /\ broken = first
                                        ELSE err = first

(* Where coders can be running, and what is due to them: the value they    *)
(* asked for while one is decoded.                                         *)
Coders ==
  /\ step \in {"idle", "header", "eof?", "close"} => stack = <<>>
  /\ step = "coder" => stack # <<>>
  /\ \A i \in 1..Len(stack) :
       i < Len(stack) \/ step \in {"desc", "match", "body", "panic"} => stack[i] > 0

(* The target may be touched only under a snapshot, but for a gap target   *)
(* when the value is complete.                                             *)
Guarded ==
  /\ step \in {"body", "close"} \/ stack # <<>> =>
       fit # "mismatch" /\ (fit = "in_place" => restoring)
  /\ step # "idle" =>
       target = "before" \/ restoring \/ (step = "close" /\ fit = "gap")
  /\ restoring => fit = "in_place"

(* The memo belongs to a stream decoder. *)
Memo ==
  /\ step # "idle" => dec # "nil"
  /\ dec = "nil" => memo = [c \in Names |-> "unset"]

Session == TypeOK /\ Layers /\ Coders /\ Guarded /\ FailedDecodeRestores

Here == Progress[rpos]

(* w counts, from the outermost coder in, the values that are due to the   *)
(* coders beyond the one that is read for each of them.                    *)
Owing(w, s) ==
  /\ w \in [0..Len(s) -> Int] /\ w[0] = 0
  /\ \A k \in 1..Len(s) : w[k - 1] >= 0 /\ w[k] = w[k - 1] + s[k] - 1

(* The values delivered, and the one that is whole but still in progress.  *)
Delivered == Here.whole = IF Here.owed = 0 THEN got + 1 ELSE got

(* Inside of a value, n values are due beyond the one that is read.        *)
InValue(n) ==
  /\ step = "desc" => /\ Here.owed = (IF stack = <<>> THEN 0 ELSE n + 1)
                      /\ Here.whole = got
  /\ step \in {"match", "body"} => /\ Here.owed = (IF unit.kind = "desc" THEN n + unit.subs ELSE n + 1)
                                   /\ Delivered
  /\ step = "coder" => Here.owed = n + 1 /\ Delivered

(* Unless a coder passed over an error, the units read make up what was    *)
(* delivered and what is due; and once a coder has been told of an error,  *)
(* no coder that runs can get all it asks for.                             *)
Reading ==
  ~passed /\ first = NoError =>
    /\ step \in {"idle", "header", "eof?"} => Here.owed = 0 /\ Here.whole = got
    /\ step = "close" => Here.owed = 0 /\ Here.whole = got + 1
    /\ vbroken # NoError => /\ step \in {"coder", "panic"}
                            /\ \A i \in 1..Len(stack) : stack[i] > 0
    /\ vbroken = NoError /\ step \in {"desc", "match", "body", "coder"} =>
         \E w : Owing(w, stack) /\ InValue(w[Len(stack)])

IInv == Session /\ Memo /\ MemoFresh /\ Reading /\ EndMeansAllDelivered

-----------------------------------------------------------------------------
(* Constants and small facts.                                              *)

Memos == [Names -> {"unset", "hit", "miss"}]

LEMMA ErrorFacts ==
  /\ NoError \notin Errors /\ "eof" \notin Errors /\ "misuse" \notin Errors
  /\ ReadErrors \subseteq Errors /\ CoderErrors \subseteq Errors
  /\ {"truncated", "format", "unknown_name", "register_conflict", "internal_panic",
      "contract_mismatch", "budget", "bad_path", "wrapped_eof"} \subseteq Errors
  /\ \A e \in Errors : IsEOF(e) <=> e = "wrapped_eof"
  /\ ~IsEOF(NoError) /\ IsEOF("eof") /\ NoError # "eof"
  BY DEF Errors, ReadErrors, CoderErrors, NoError, IsEOF

LEMMA MappedFacts ==
  /\ \A e \in Errors : Mapped(e) \in Errors /\ (IsEOF(e) => Mapped(e) = e)
                        /\ (IsEOF(Mapped(e)) => IsEOF(e))
  /\ Mapped(NoError) = NoError /\ Mapped("eof") = "eof" /\ Mapped("bad_path") = "bad_path"
  <1>1. \A e : Mapped(e) = e \/ (e = "unknown_name" /\ Mapped(e) = "register_conflict")
    BY DEF Mapped
  <1>2. ~IsEOF("unknown_name") /\ ~IsEOF("register_conflict")
    BY DEF IsEOF
  <1>3. Mapped(NoError) = NoError /\ Mapped("eof") = "eof" /\ Mapped("bad_path") = "bad_path"
    BY DEF Mapped, NoError
  <1>. QED
    BY <1>1, <1>2, <1>3, ErrorFacts

LEMMA UnitFacts ==
  /\ NoUnit \in Units
  /\ \A i \in 1..Len(Stream) : Stream[i] \in Units
  /\ \A u \in Units : u.kind = "desc" => u.coder \in Names /\ u.subs \in Nat
  /\ Len(Stream) \in Nat
  <1>1. \A u \in Units : u.kind = "desc" => u.coder \in Names /\ u.subs \in Nat
    BY DEF Units
  <1>. QED
    BY <1>1, SessionAssumption DEF SessionAssumption, Units, NoUnit

(* The coders without the innermost one. *)
LEMMA OuterFacts ==
  ASSUME TypeOK, stack # <<>>
  PROVE  /\ Outer \in Seq(Nat) /\ Len(Outer) = Len(stack) - 1
         /\ \A i \in 1..Len(Outer) : Outer[i] = stack[i] /\ i \in 1..Len(stack) /\ i < Len(stack)
<1>1. stack \in Seq(Nat)
  BY DEF TypeOK
<1>2. Len(stack) \in Nat \ {0}
  BY <1>1, EmptySeq
<1>3. \A i \in 1..(Len(stack) - 1) : stack[i] \in Nat
  BY <1>1, <1>2, ElementOfSeq
<1>4. /\ Outer \in Seq(Nat) /\ Len(Outer) = Len(stack) - 1
      /\ \A i \in 1..(Len(stack) - 1) : Outer[i] = stack[i]
  <2>. DEFINE n == Len(stack) - 1
  <2>1. /\ n \in Nat
        /\ SubSeq(stack, 1, n) \in Seq(Nat)
        /\ Len(SubSeq(stack, 1, n)) = IF 1 <= n THEN n - 1 + 1 ELSE 0
        /\ \A i \in 1..(n - 1 + 1) : SubSeq(stack, 1, n)[i] = stack[1 + i - 1]
    BY <1>2, <1>3, SubSeqProperties
  <2>2. n - 1 + 1 = n /\ (IF 1 <= n THEN n - 1 + 1 ELSE 0) = n
    <3>. HIDE DEF n
    <3>1. n \in Nat
      BY <2>1
    <3>2. CASE 1 <= n
      BY <3>1, <3>2
    <3>3. CASE ~(1 <= n)
      BY <3>1, <3>3
    <3>. QED
      BY <3>2, <3>3
  <2>3. \A i \in 1..n : stack[1 + i - 1] = stack[i]
    BY <2>1
  <2>. QED
    BY <2>1, <2>2, <2>3 DEF Outer
<1>. QED
  BY <1>2, <1>4

-----------------------------------------------------------------------------
(* Induction, from the well-foundedness of the natural numbers, and what   *)
(* the recursive function Progress is.                                     *)

LEMMA Least ==
  ASSUME NEW T, T \subseteq Nat, T # {}
  PROVE  \E x \in T : \A y \in T : x <= y
<1>1. PICK x \in T : \A y \in T : <<y, x>> \notin OpToRel(<, Nat)
  BY NatLessThanWellFounded, WFMin
<1>2. \A y \in T : ~(y < x)
  BY <1>1, Zenon DEF OpToRel
<1>. QED
  BY <1>2

LEMMA Induction ==
  ASSUME NEW S, 0 \in S, \A n \in Nat : n \in S => n + 1 \in S
  PROVE  Nat \subseteq S
<1>. SUFFICES ASSUME ~(Nat \subseteq S) PROVE FALSE
  OBVIOUS
<1>1. PICK x \in Nat \ S : \A y \in Nat \ S : x <= y
  BY Least
<1>2. x # 0 /\ x - 1 \in Nat /\ x - 1 < x /\ x = (x - 1) + 1
  BY <1>1
<1>3. x - 1 \in S
  BY <1>1, <1>2
<1>. QED
  BY <1>1, <1>2, <1>3

(* f is Progress as far as n. *)
Leads(f, n) == f = [i \in 0..n |-> IF i = 0 THEN Nothing ELSE After(f[i - 1], Stream[i])]

LEMMA ProgressExists == \A n \in Nat : \E f : Leads(f, n)
<1>. DEFINE S == {n \in Nat : \E f : Leads(f, n)}
<1>1. 0 \in S
  <2>. DEFINE f == [i \in 0..0 |-> Nothing]
  <2>1. Leads(f, 0)
    BY DEF Leads
  <2>. HIDE DEF f
  <2>. QED
    BY <2>1
<1>2. ASSUME NEW n \in Nat, n \in S PROVE n + 1 \in S
  <2>1. PICK f : Leads(f, n)
    BY <1>2
  <2>. DEFINE g == [i \in 0..(n + 1) |-> IF i <= n THEN f[i] ELSE After(f[n], Stream[n + 1])]
  <2>2. /\ \A i \in 0..n : g[i] = f[i]
        /\ g[n + 1] = After(f[n], Stream[n + 1])
        /\ g = [i \in 0..(n + 1) |-> g[i]]
    OBVIOUS
  <2>. HIDE DEF g
  <2>3. ASSUME NEW i \in 0..(n + 1)
        PROVE  g[i] = IF i = 0 THEN Nothing ELSE After(g[i - 1], Stream[i])
    <3>1. CASE i = n + 1
      <4>1. i # 0 /\ i - 1 = n /\ n \in 0..n
        BY <3>1
      <4>. QED
        BY <4>1, <3>1, <2>2
    <3>2. CASE i \in 0..n
      <4>1. f[i] = IF i = 0 THEN Nothing ELSE After(f[i - 1], Stream[i])
        BY <3>2, <2>1 DEF Leads
      <4>2. i # 0 => i - 1 \in 0..n
        BY <3>2
      <4>. QED
        BY <3>2, <4>1, <4>2, <2>2
    <3>. QED
      BY <3>1, <3>2
  <2>4. Leads(g, n + 1)
    BY <2>2, <2>3 DEF Leads
  <2>. QED
    BY <2>4
<1>3. Nat \subseteq S
  BY <1>1, <1>2, Induction
<1>. QED
  BY <1>3

LEMMA ProgressSteps ==
  /\ Progress[0] = Nothing
  /\ \A i \in 0..Len(Stream) : i + 1 \in 0..Len(Stream) =>
       Progress[i + 1] = After(Progress[i], Stream[i + 1])
<1>1. Len(Stream) \in Nat
  BY UnitFacts
<1>2. \E f : f = [i \in 0..Len(Stream) |->
                    IF i = 0 THEN Nothing ELSE After(f[i - 1], Stream[i])]
  BY <1>1, ProgressExists DEF Leads
<1>3. Progress = [i \in 0..Len(Stream) |->
                    IF i = 0 THEN Nothing ELSE After(Progress[i - 1], Stream[i])]
  BY <1>2, Zenon DEF Progress
<1>4. \A i \in 0..Len(Stream) :
        Progress[i] = IF i = 0 THEN Nothing ELSE After(Progress[i - 1], Stream[i])
  BY <1>3, Zenon
<1>5. Progress[0] = Nothing
  BY <1>1, <1>4
<1>6. ASSUME NEW i \in 0..Len(Stream), i + 1 \in 0..Len(Stream)
      PROVE  Progress[i + 1] = After(Progress[i], Stream[i + 1])
  <2>1. i + 1 # 0 /\ (i + 1) - 1 = i
    BY <1>1, <1>6
  <2>. QED
    BY <1>4, <1>6, <2>1
<1>. QED
  BY <1>5, <1>6

(* What a unit does to the values owed and the values whole. *)
LEMMA AfterFacts ==
  ASSUME NEW p, p.owed \in Nat, p.whole \in Nat, NEW u \in Units
  PROVE  /\ After(p, u).owed = IF u.kind = "desc" THEN Due(p) - 1 + u.subs
                               ELSE IF u.kind = "plain" THEN Due(p) ELSE Due(p) - 1
         /\ After(p, u).whole = IF After(p, u).owed = 0 THEN p.whole + 1 ELSE p.whole
         /\ After(p, u).owed \in Nat /\ After(p, u).whole \in Nat
<1>1. Due(p) \in Nat \ {0}
  BY DEF Due
<1>2. u.kind \in {"desc", "plain", "body"} /\ (u.kind = "desc" => u.subs \in Nat)
  BY DEF Units
<1>3. /\ After(p, u).owed = IF u.kind = "desc" THEN Due(p) - 1 + u.subs
                            ELSE IF u.kind = "plain" THEN Due(p) ELSE Due(p) - 1
      /\ After(p, u).whole = IF After(p, u).owed = 0 THEN p.whole + 1 ELSE p.whole
  BY <1>2 DEF After
<1>4. After(p, u).owed \in Nat
  <2>. DEFINE d == Due(p)  o == After(p, u).owed
  <2>1. CASE u.kind = "desc"
    <3>1. o = d - 1 + u.subs /\ u.subs \in Nat /\ d \in Nat \ {0}
      BY <1>1, <1>2, <1>3, <2>1
    <3>. HIDE DEF d, o
    <3>2. o \in Nat
      BY <3>1
    <3>. QED
      BY <3>2 DEF o
  <2>2. CASE u.kind # "desc"
    <3>1. o \in {d, d - 1} /\ d \in Nat \ {0}
      BY <1>1, <1>3, <2>2
    <3>. HIDE DEF d, o
    <3>2. o \in Nat
      BY <3>1
    <3>. QED
      BY <3>2 DEF o
  <2>. QED
    BY <2>1, <2>2
<1>. QED
  BY <1>3, <1>4

LEMMA ProgressType ==
  \A i \in 0..Len(Stream) : Progress[i].owed \in Nat /\ Progress[i].whole \in Nat
<1>. DEFINE S == {i \in Nat : i <= Len(Stream) => /\ Progress[i].owed \in Nat
                                                 /\ Progress[i].whole \in Nat}
<1>1. 0 \in S
  BY ProgressSteps DEF Nothing
<1>2. ASSUME NEW n \in Nat, n \in S PROVE n + 1 \in S
  <2>1. CASE n + 1 <= Len(Stream)
    <3>1. /\ n \in 0..Len(Stream) /\ n + 1 \in 0..Len(Stream) /\ n + 1 \in 1..Len(Stream)
          /\ n <= Len(Stream)
      BY <2>1, UnitFacts
    <3>2. Progress[n].owed \in Nat /\ Progress[n].whole \in Nat
      BY <1>2, <3>1
    <3>3. Progress[n + 1] = After(Progress[n], Stream[n + 1]) /\ Stream[n + 1] \in Units
      BY <3>1, ProgressSteps, UnitFacts
    <3>4. Progress[n + 1].owed \in Nat /\ Progress[n + 1].whole \in Nat
      BY <3>2, <3>3, AfterFacts
    <3>. QED
      BY <3>4
  <2>2. CASE ~(n + 1 <= Len(Stream))
    BY <2>2
  <2>. QED
    BY <2>1, <2>2
<1>3. Nat \subseteq S
  BY <1>1, <1>2, Induction
<1>. QED
  BY <1>3, UnitFacts

-----------------------------------------------------------------------------
(* The initial state.                                                      *)

LEMMA InitIInv == Init => IInv
<1>. SUFFICES ASSUME Init PROVE IInv
  OBVIOUS
<1>1. TypeOK
  <2>1. memo \in Memos
    BY DEF Init, Memos
  <2>2. /\ rpos \in 0..Len(Stream) /\ misused \in 0..MaxMisuse /\ stack \in Seq(Nat) /\ got \in Nat
    BY UnitFacts, SessionAssumption DEF Init, SessionAssumption
  <2>3. unit \in Units /\ fit \in Fits
    BY UnitFacts DEF Init, Fits
  <2>4. coders \subseteq Names /\ reserved \subseteq Names
    BY DEF Init
  <2>. QED
    BY <2>1, <2>2, <2>3, <2>4 DEF Init, TypeOK, Memos
<1>2. Layers /\ Coders /\ Guarded
  BY DEF Init, Layers, Coders, Guarded
<1>3. FailedDecodeRestores /\ Memo /\ MemoFresh
  BY DEF Init, FailedDecodeRestores, Memo, MemoFresh
<1>4. Reading /\ EndMeansAllDelivered
  <2>1. Here = Nothing
    BY ProgressSteps DEF Init, Here
  <2>2. first = NoError /\ got = 0 /\ step = "idle" /\ vbroken = NoError /\ res # "eof"
    BY ErrorFacts DEF Init
  <2>. QED
    BY <2>1, <2>2 DEF Reading, EndMeansAllDelivered, Nothing
<1>. QED
  BY <1>1, <1>2, <1>3, <1>4 DEF IInv, Session

-----------------------------------------------------------------------------
(* The ways out of a value.                                                *)

(* The outer Decode ends: with an error that a layer keeps, with the end   *)
(* of the stream, or with the value.                                       *)
LEMMA FinishSession ==
  ASSUME Session, step # "idle",
         NEW e \in Errors \cup {NoError, "eof"}, Finish(e),
         e = NoError => step = "close",
         step = "close" => e \in {NoError, "bad_path"},
         e \in {NoError, "eof"} => broken' = broken,
         e = "wrapped_eof" => broken' = e,
         broken' \in Errors \cup {NoError},
         sawValue' \in BOOLEAN, rpos' = rpos, memo' \in Memos,
         vbroken' = vbroken, sub' = sub, subTarget' = subTarget
  PROVE  Session'
<1>1. first = NoError /\ err = NoError /\ broken = NoError
  BY DEF Session, Layers
<1>2. /\ e \in Errors => Mapped(e) \in Errors
      /\ Mapped(e) \in Errors \cup {NoError, "eof"}
  BY MappedFacts
<1>3. TypeOK'
  <2>1. /\ step' = "idle" /\ res' = Mapped(e) /\ stack' = <<>> /\ restoring' = FALSE
        /\ err' \in {err, Mapped(e)} /\ first' \in {first, Mapped(e)}
        /\ target' \in {target, "before"} /\ got' \in {got, got + 1}
        /\ UNCHANGED <<coders, allocated, reserved, dec, started, unit, fit, cell, misused, passed>>
    BY DEF Finish
  <2>2. err' \in Errors \cup {NoError} /\ first' \in Errors \cup {NoError}
    BY <1>1, <1>2, ErrorFacts DEF Finish
  <2>3. target' \in {"before", "partial", "value"} /\ got' \in Nat
    BY <2>1 DEF TypeOK, Session
  <2>4. /\ coders' \subseteq Names /\ reserved' \subseteq Names
        /\ rpos' \in 0..Len(Stream) /\ misused' \in 0..MaxMisuse /\ unit' \in Units /\ fit' \in Fits
    BY <2>1 DEF TypeOK, Session
  <2>5. /\ allocated' \in BOOLEAN /\ dec' \in {"nil", "shared", "detached"} /\ started' \in BOOLEAN
        /\ cell' \in BOOLEAN /\ passed' \in BOOLEAN
        /\ vbroken' \in Errors \cup {NoError} /\ sub' \in Errors \cup {NoError, "eof"}
        /\ subTarget' \in {"before", "partial"}
    BY <2>1 DEF TypeOK, Session
  <2>6. stack' \in Seq(Nat)
    BY <2>1, EmptySeq
  <2>7. res' \in Errors \cup {NoError, "eof", "misuse"}
        /\ step' \in {"idle", "header", "eof?", "desc", "match", "body", "coder", "panic", "close"}
        /\ restoring' \in BOOLEAN /\ memo' \in [Names -> {"unset", "hit", "miss"}]
    BY <2>1, <1>2 DEF Memos
  <2>. QED
    BY <2>2, <2>3, <2>4, <2>5, <2>6, <2>7 DEF TypeOK
<1>4. Layers'
  <2>1. CASE e \in {NoError, "eof"}
    <3>1. err' = NoError /\ first' = NoError /\ broken' = NoError /\ step' = "idle"
      BY <2>1, <1>1, ErrorFacts DEF Finish
    <3>. QED
      BY <3>1 DEF Layers
  <2>2. CASE e \in Errors
    <3>1. first' = Mapped(e) /\ step' = "idle" /\ Mapped(e) # NoError
      BY <2>2, <1>1, <1>2, ErrorFacts DEF Finish
    <3>2. CASE IsEOF(e)
      <4>1. e = "wrapped_eof" /\ Mapped(e) = e
        BY <2>2, <3>2, ErrorFacts, MappedFacts
      <4>2. err' = NoError
        BY <3>2, <1>1 DEF Finish
      <4>. QED
        BY <3>1, <3>2, <4>1, <4>2 DEF Layers
    <3>3. CASE ~IsEOF(e)
      <4>1. err' = Mapped(e) /\ ~IsEOF(Mapped(e))
        BY <2>2, <3>3, ErrorFacts, MappedFacts DEF Finish
      <4>. QED
        BY <3>1, <4>1 DEF Layers
    <3>. QED
      BY <3>2, <3>3
  <2>. QED
    BY <2>1, <2>2
<1>5. Coders' /\ Guarded'
  BY DEF Finish, Coders, Guarded
<1>6. FailedDecodeRestores'
  <2>1. CASE e \in {NoError, "eof"}
    BY <2>1, MappedFacts DEF Finish, FailedDecodeRestores
  <2>2. CASE e \in Errors /\ restoring
    BY <2>2, ErrorFacts DEF Finish, FailedDecodeRestores
  <2>3. CASE e \in Errors /\ ~restoring
    <3>1. target = "before" \/ (step = "close" /\ fit = "gap")
      BY <2>3 DEF Session, Guarded
    <3>2. target' = target /\ fit' = fit /\ res' = Mapped(e)
      BY <2>3 DEF Finish
    <3>3. step = "close" => res' = "bad_path"
      BY <2>3, <3>2, MappedFacts, ErrorFacts
    <3>. QED
      BY <3>1, <3>2, <3>3 DEF FailedDecodeRestores
  <2>. QED
    BY <2>1, <2>2, <2>3
<1>. QED
  BY <1>3, <1>4, <1>5, <1>6 DEF Session

(* A decode inside the value fails, for the caller or for a coder. *)
LEMMA FailAtSession ==
  ASSUME Session, step \notin {"idle", "close"},
         NEW left \in Seq(Nat), \A i \in 1..Len(left) : left[i] > 0,
         left # <<>> => stack # <<>>,
         NEW e \in Errors, FailAt(left, e), memo' \in Memos
  PROVE  Session'
<1>1. CASE left = <<>>
  <2>1. /\ Finish(e) /\ broken' = e
        /\ UNCHANGED <<sawValue, rpos, vbroken, sub, subTarget>>
    BY <1>1 DEF FailAt, Break
  <2>2. sawValue' \in BOOLEAN /\ broken' \in Errors
    BY <2>1 DEF Session, TypeOK
  <2>. QED
    BY <2>1, <2>2, FinishSession, ErrorFacts
<1>2. CASE left # <<>>
  <2>1. /\ vbroken' = e /\ sub' = e /\ stack' = left /\ step' = "coder"
        /\ UNCHANGED <<facade, session, unit, fit, restoring, cell, subTarget, misused, caller>>
    BY <1>2 DEF FailAt
  <2>2. TypeOK'
    BY <2>1 DEF Session, TypeOK, facade, session, caller, Memos
  <2>3. Layers'
    BY <2>1 DEF Session, Layers, facade, session, caller
  <2>4. Coders'
    BY <2>1, <1>2 DEF Coders
  <2>5. Guarded'
    BY <2>1, <1>2 DEF Session, Guarded, caller
  <2>. QED
    BY <2>1, <2>2, <2>3, <2>4, <2>5 DEF Session, FailedDecodeRestores
<1>. QED
  BY <1>1, <1>2

(* A failing read leaves the coders that wait for it. *)
LEMMA FailHere ==
  ASSUME Session, step \in {"desc", "match", "body"},
         NEW e \in Errors, FailAt(stack, e), memo' \in Memos
  PROVE  Session'
<1>1. stack \in Seq(Nat) /\ \A i \in 1..Len(stack) : stack[i] > 0
  BY DEF Session, TypeOK, Coders
<1>. QED
  BY <1>1, FailAtSession

(* A failing coder is left for the one that asked for its value. *)
LEMMA FailOuter ==
  ASSUME Session, step = "coder",
         NEW e \in Errors, FailAt(Outer, e), memo' \in Memos
  PROVE  Session'
<1>1. TypeOK /\ stack # <<>>
  BY DEF Session, Coders
<1>2. \A i \in 1..Len(stack) : i < Len(stack) => stack[i] > 0
  BY DEF Session, Coders
<1>3. Outer \in Seq(Nat) /\ \A i \in 1..Len(Outer) : Outer[i] > 0
  BY <1>1, <1>2, OuterFacts
<1>. QED
  BY <1>1, <1>3, FailAtSession

-----------------------------------------------------------------------------
(* The steps, one by one.                                                  *)

LEMMA DecodeStepSession == ASSUME NEW f \in Fits PROVE Session /\ Decode(f) => Session'
<1>. SUFFICES ASSUME Session, Decode(f) PROVE Session'
  OBVIOUS
<1>1. step = "idle" /\ UNCHANGED memo /\ stack = <<>>
  BY DEF Decode, Session, Coders
<1>2. CASE err # NoError
  <2>1. /\ res' = err /\ target' = "before"
        /\ UNCHANGED <<facade, session, memo, step, value, first, got, passed>>
    BY <1>1, <1>2 DEF Decode
  <2>2. TypeOK'
    BY <2>1 DEF Session, TypeOK, facade, session, value
  <2>. QED
    BY <1>1, <2>1, <2>2
    DEF Session, Layers, Coders, Guarded, FailedDecodeRestores, facade, session, value
<1>3. CASE err = NoError
  <2>1. /\ dec' \in {"nil", "shared", "detached"}
        /\ target' = "before" /\ restoring' = FALSE /\ fit' = f
        /\ IF broken # NoError THEN res' = broken /\ step' = step
                               ELSE step' \in {"eof?", "header"} /\ res' = res
        /\ UNCHANGED <<facade, started, sawValue, broken, rpos, memo, first, got, passed,
                       unit, vbroken, cell, stack, sub, subTarget, misused>>
    BY <1>1, <1>3 DEF Decode, Session, TypeOK
  <2>2. TypeOK'
    <3>1. res' \in Errors \cup {NoError, "eof", "misuse"} /\ step' \in {"idle", "eof?", "header"}
      BY <1>1, <2>1 DEF Session, TypeOK
    <3>2. /\ target' \in {"before", "partial", "value"} /\ restoring' \in BOOLEAN /\ fit' \in Fits
          /\ dec' \in {"nil", "shared", "detached"}
          /\ UNCHANGED <<facade, started, sawValue, broken, rpos, memo, first, got, passed,
                         unit, vbroken, cell, stack, sub, subTarget, misused>>
      BY <2>1
    <3>. QED
      BY <3>1, <3>2 DEF Session, TypeOK, facade
  <2>3. Layers'
    BY <1>1, <1>3, <2>1, ErrorFacts DEF Session, Layers, TypeOK, facade
  <2>4. Coders' /\ Guarded' /\ FailedDecodeRestores'
    BY <1>1, <2>1 DEF Session, Coders, Guarded, FailedDecodeRestores
  <2>. QED
    BY <2>2, <2>3, <2>4 DEF Session
<1>. QED
  BY <1>2, <1>3

LEMMA MisusedSession == Session /\ DecodeMisused => Session'
  BY DEF Session, DecodeMisused, TypeOK, Layers, Coders, Guarded, FailedDecodeRestores,
         facade, session, value

LEMMA ReadHeaderSession == Session /\ ReadHeader => Session'
<1>. SUFFICES ASSUME Session, ReadHeader PROVE Session'
  OBVIOUS
<1>1. step = "header" /\ UNCHANGED memo /\ stack = <<>>
  BY DEF ReadHeader, Session, Coders
<1>2. CASE /\ started' = TRUE /\ step' = "eof?"
           /\ UNCHANGED <<facade, dec, sawValue, broken, rpos, value, caller>>
  BY <1>1, <1>2
  DEF Session, TypeOK, Layers, Coders, Guarded, FailedDecodeRestores, facade, value, caller
<1>3. ASSUME NEW e \in ReadErrors, Break(e),
             UNCHANGED <<sawValue, rpos, vbroken, sub, subTarget>>
      PROVE  Session'
  <2>1. e \in Errors /\ memo' \in Memos /\ stack \in Seq(Nat)
    BY <1>1, ErrorFacts DEF Session, TypeOK, Memos
  <2>2. FailAt(stack, e)
    BY <1>1, <1>3 DEF FailAt
  <2>3. \A i \in 1..Len(stack) : stack[i] > 0
    BY <1>1, EmptySeq
  <2>. QED
    BY <1>1, <2>1, <2>2, <2>3, FailAtSession
<1>. QED
  BY <1>2, <1>3 DEF ReadHeader

LEMMA AtEOFSession == Session /\ AtEOF => Session'
<1>. SUFFICES ASSUME Session, AtEOF PROVE Session'
  OBVIOUS
<1>1. step = "eof?" /\ UNCHANGED memo /\ stack = <<>> /\ memo' \in Memos
  BY DEF AtEOF, Session, Coders, TypeOK, Memos
<1>2. CASE Finish("eof") /\ UNCHANGED <<broken, sawValue, rpos, vbroken, sub, subTarget>>
  <2>1. broken' \in Errors \cup {NoError} /\ sawValue' \in BOOLEAN
    BY <1>2 DEF Session, TypeOK
  <2>. QED
    BY <1>1, <1>2, <2>1, FinishSession, ErrorFacts
<1>3. CASE Break("truncated") /\ UNCHANGED <<sawValue, rpos, vbroken, sub, subTarget>>
  <2>1. broken' = "truncated" /\ sawValue' \in BOOLEAN
    BY <1>3 DEF Break, Session, TypeOK
  <2>. QED
    BY <1>1, <1>3, <2>1, FinishSession, ErrorFacts DEF Break
<1>4. CASE /\ step' = "desc"
           /\ vbroken' = NoError /\ cell' = FALSE /\ sub' = NoError
           /\ UNCHANGED <<facade, session, unit, fit, restoring, stack, subTarget, misused, caller>>
  <2>1. TypeOK'
    <3>1. /\ vbroken' \in Errors \cup {NoError} /\ sub' \in Errors \cup {NoError, "eof"}
          /\ cell' \in BOOLEAN /\ step' = "desc"
      BY <1>4
    <3>2. /\ UNCHANGED <<facade, session, unit, fit, restoring, stack, subTarget, misused, caller>>
      BY <1>4
    <3>. QED
      BY <1>1, <3>1, <3>2 DEF Session, TypeOK, facade, session, caller, Memos
  <2>2. Coders'
    BY <1>1, <1>4, EmptySeq DEF Coders
  <2>. QED
    BY <1>1, <1>4, <2>1, <2>2
    DEF Session, Layers, Guarded, FailedDecodeRestores, facade, session, caller
<1>. QED
  BY <1>2, <1>3, <1>4 DEF AtEOF

LEMMA ReadDescSession == Session /\ ReadDesc => Session'
<1>. SUFFICES ASSUME Session, ReadDesc PROVE Session'
  OBVIOUS
<1>1. step = "desc" /\ UNCHANGED memo /\ memo' \in Memos
  BY DEF ReadDesc, Session, TypeOK, Memos
<1>2. CASE /\ rpos < Len(Stream)
           /\ unit' = Stream[rpos + 1] /\ rpos' = rpos + 1 /\ step' = "match"
           /\ UNCHANGED <<facade, dec, started, sawValue, broken,
                          fit, restoring, vbroken, cell, stack, sub, subTarget, misused, caller>>
  <2>1. rpos' \in 0..Len(Stream) /\ unit' \in Units
    BY <1>2, UnitFacts DEF Session, TypeOK
  <2>2. /\ step' = "match"
        /\ UNCHANGED <<facade, dec, started, sawValue, broken,
                       fit, restoring, vbroken, cell, stack, sub, subTarget, misused, caller>>
    BY <1>2
  <2>3. TypeOK'
    BY <1>1, <2>1, <2>2 DEF Session, TypeOK, facade, caller, Memos
  <2>. QED
    BY <1>1, <2>2, <2>3 DEF Session, Layers, Coders, Guarded, FailedDecodeRestores, facade, caller
<1>3. ASSUME NEW e \in ReadErrors, FailAt(stack, e) PROVE Session'
  BY <1>1, <1>3, FailHere, ErrorFacts
<1>. QED
  BY <1>2, <1>3 DEF ReadDesc

LEMMA MatchSession == Session /\ Match => Session'
<1>. SUFFICES ASSUME Session, Match PROVE Session'
  OBVIOUS
<1>1. step = "match" /\ UNCHANGED memo /\ stack = <<>> /\ memo' \in Memos
  BY DEF Match, InCoder, Session, TypeOK, Memos
<1>2. CASE fit = "mismatch"
  <2>1. FailAt(stack, "format")
    BY <1>1, <1>2 DEF Match, FailAt
  <2>. QED
    BY <1>1, <2>1, FailHere, ErrorFacts
<1>3. CASE fit # "mismatch"
  <2>1. /\ restoring' = (fit = "in_place") /\ step' = "body"
        /\ UNCHANGED <<facade, session, memo, unit, fit, vbroken, cell, stack, sub, subTarget,
                       misused, caller>>
    BY <1>3 DEF Match, Snapshots
  <2>2. TypeOK'
    <3>1. restoring' \in BOOLEAN /\ step' = "body"
      BY <2>1, Zenon
    <3>. QED
      BY <2>1, <3>1 DEF Session, TypeOK, facade, session, caller
  <2>3. Layers' /\ Coders'
    BY <1>1, <2>1 DEF Session, Layers, Coders, facade, session, caller
  <2>4. Guarded'
    <3>1. (fit' = "in_place" => restoring') /\ fit' # "mismatch"
      BY <1>3, <2>1, Zenon
    <3>2. restoring' => fit' = "in_place"
      BY <2>1, Zenon
    <3>3. target' = "before" \/ restoring'
      <4>1. target = "before" \/ fit = "in_place"
        BY <1>1 DEF Session, Guarded
      <4>2. target' = target
        BY <2>1 DEF caller
      <4>. QED
        BY <2>1, <4>1, <4>2, Zenon
    <3>. QED
      BY <3>1, <3>2, <3>3 DEF Guarded
  <2>. QED
    BY <2>1, <2>2, <2>3, <2>4 DEF Session, FailedDecodeRestores
<1>. QED
  BY <1>2, <1>3

LEMMA MatchSubSession == Session /\ MatchSub => Session'
<1>. SUFFICES ASSUME Session, MatchSub PROVE Session'
  OBVIOUS
<1>1. step = "match" /\ UNCHANGED memo /\ stack # <<>> /\ memo' \in Memos
  BY DEF MatchSub, InCoder, Session, TypeOK, Memos
<1>2. CASE FailAt(stack, "format")
  BY <1>1, <1>2, FailHere, ErrorFacts
<1>3. CASE step' = "body" /\ UNCHANGED <<facade, session, value, caller>>
  BY <1>1, <1>3
  DEF Session, TypeOK, Layers, Coders, Guarded, FailedDecodeRestores, facade, session, value, caller
<1>. QED
  BY <1>2, <1>3 DEF MatchSub

LEMMA WritePartSession == Session /\ WritePart => Session'
<1>. SUFFICES ASSUME Session, WritePart PROVE Session'
  OBVIOUS
<1>1. /\ step = "body"
      /\ UNCHANGED <<facade, session, memo, step, unit, fit, restoring, vbroken, cell, stack, sub,
                     misused, res, first, got, passed>>
  BY DEF WritePart
<1>2. /\ subTarget' \in {"before", "partial"}
      /\ \/ target' = target
         \/ fit = "in_place" /\ target' = "partial"
  BY DEF WritePart, Session, TypeOK
<1>3. TypeOK'
  BY <1>1, <1>2 DEF Session, TypeOK, facade, session
<1>4. Guarded'
  BY <1>1, <1>2 DEF Session, Guarded
<1>. QED
  BY <1>1, <1>3, <1>4 DEF Session, Layers, Coders, FailedDecodeRestores, facade, session

(* The value decoded goes to the caller, or to the coder that asked for it.*)
LEMMA SucceedSession ==
  ASSUME Session, step \in {"body", "coder"},
         NEW left \in Seq(Nat), \A i \in 1..Len(left) : left[i] > 0,
         left # <<>> => stack # <<>>, step = "coder" => stack # <<>>,
         SucceedAt(left),
         rpos' \in 0..Len(Stream), cell' \in BOOLEAN, passed' \in BOOLEAN,
         UNCHANGED <<facade, dec, started, sawValue, broken, memo, unit, fit, restoring, vbroken,
                     misused, res, first, got>>
  PROVE  Session'
<1>1. fit # "mismatch" /\ (fit = "in_place" => restoring) /\ fit \in Fits
  BY DEF Session, Guarded, TypeOK
<1>2. CASE left = <<>>
  <2>1. /\ step' = "close" /\ target' = "value" /\ stack' = left /\ UNCHANGED <<sub, subTarget>>
    BY <1>2 DEF SucceedAt
  <2>2. TypeOK'
    BY <2>1 DEF Session, TypeOK, facade
  <2>3. Layers' /\ FailedDecodeRestores'
    BY <2>1 DEF Session, Layers, FailedDecodeRestores, facade
  <2>4. Coders'
    <3>1. stack' = <<>> /\ Len(stack') = 0
      BY <2>1, <1>2, EmptySeq
    <3>. QED
      BY <2>1, <3>1 DEF Coders
  <2>5. Guarded'
    <3>1. restoring => fit = "in_place"
      BY DEF Session, Guarded
    <3>2. fit = "gap" \/ restoring
      BY <1>1 DEF Fits
    <3>. QED
      BY <2>1, <1>1, <3>1, <3>2 DEF Guarded
  <2>. QED
    BY <2>2, <2>3, <2>4, <2>5 DEF Session
<1>3. CASE left # <<>>
  <2>1. /\ step' = "coder" /\ sub' = NoError /\ subTarget' = "before"
        /\ stack' = [left EXCEPT ![Len(left)] = left[Len(left)] - 1] /\ target' = target
    BY <1>3 DEF SucceedAt
  <2>2. Len(left) \in Nat \ {0} /\ Len(left) \in 1..Len(left)
    BY <1>3, EmptySeq
  <2>3. left[Len(left)] - 1 \in Nat
    BY <2>2, ElementOfSeq
  <2>4. /\ stack' \in Seq(Nat) /\ Len(stack') = Len(left)
        /\ \A j \in 1..Len(left) : stack'[j] = IF j = Len(left) THEN left[Len(left)] - 1 ELSE left[j]
    BY <2>1, <2>2, <2>3, ExceptSeq
  <2>5. TypeOK'
    BY <2>1, <2>4 DEF Session, TypeOK, facade
  <2>6. Layers' /\ FailedDecodeRestores'
    BY <2>1 DEF Session, Layers, FailedDecodeRestores, facade
  <2>7. stack' # <<>>
    BY <2>2, <2>4, EmptySeq
  <2>8. Coders'
    <3>1. \A i \in 1..Len(stack') : i < Len(stack') => stack'[i] > 0
      BY <2>2, <2>4
    <3>. QED
      BY <2>1, <2>7, <3>1 DEF Coders
  <2>9. Guarded'
    BY <2>1, <1>1, <1>3 DEF Session, Guarded
  <2>. QED
    BY <2>5, <2>6, <2>8, <2>9 DEF Session
<1>. QED
  BY <1>2, <1>3

LEMMA PlainBodySession == Session /\ PlainBody => Session'
<1>. SUFFICES ASSUME Session, PlainBody PROVE Session'
  OBVIOUS
<1>1. step = "body" /\ UNCHANGED memo /\ memo' \in Memos
  BY DEF PlainBody, Session, TypeOK, Memos
<1>2. CASE /\ rpos < Len(Stream) /\ rpos' = rpos + 1
           /\ SucceedAt(stack) /\ cell' \in {cell, TRUE}
           /\ UNCHANGED <<facade, dec, started, sawValue, broken,
                          unit, fit, restoring, vbroken, misused, res, first, got, passed>>
  <2>1. stack \in Seq(Nat) /\ \A i \in 1..Len(stack) : stack[i] > 0
    BY <1>1 DEF Session, TypeOK, Coders
  <2>2. cell' \in BOOLEAN /\ passed' \in BOOLEAN
    BY <1>2 DEF Session, TypeOK
  <2>3. rpos' \in 0..Len(Stream)
    <3>1. rpos \in 0..Len(Stream)
      BY DEF Session, TypeOK
    <3>. QED
      BY <1>2, <3>1, UnitFacts
  <2>. QED
    BY <1>1, <1>2, <2>1, <2>2, <2>3, SucceedSession
<1>3. ASSUME NEW e \in ReadErrors, FailAt(stack, e) PROVE Session'
  BY <1>1, <1>3, FailHere, ErrorFacts
<1>. QED
  BY <1>2, <1>3 DEF PlainBody

LEMMA CoderBodySession ==
  ASSUME NEW iface \in BOOLEAN PROVE Session /\ CoderBody(iface) => Session'
<1>. SUFFICES ASSUME Session, CoderBody(iface) PROVE Session'
  OBVIOUS
<1>. DEFINE found == IF iface \/ memo[unit.coder] = "unset"
                       THEN unit.coder \in Visible ELSE memo[unit.coder] = "hit"
<1>1. step = "body" /\ unit \in Units /\ unit.kind = "desc"
  BY DEF CoderBody, Session, TypeOK
<1>2. /\ memo' = IF iface THEN memo
                 ELSE [memo EXCEPT ![unit.coder] = IF found THEN "hit" ELSE "miss"]
      /\ IF found
           THEN /\ stack' = Append(stack, unit.subs)
                /\ step' = "coder" /\ sub' = NoError /\ subTarget' = "before"
                /\ UNCHANGED <<facade, session, unit, fit, restoring, vbroken, cell,
                               misused, caller>>
           ELSE FailAt(stack, "unknown_name")
  BY DEF CoderBody
<1>3. memo' \in Memos
  <2>1. memo \in Memos
    BY DEF Session, TypeOK, Memos
  <2>. QED
    BY <1>2, <2>1 DEF Memos
<1>4. CASE ~found
  BY <1>1, <1>2, <1>3, <1>4, FailHere, ErrorFacts
<1>5. CASE found
  <2>1. /\ stack' = Append(stack, unit.subs)
        /\ step' = "coder" /\ sub' = NoError /\ subTarget' = "before"
        /\ UNCHANGED <<facade, session, unit, fit, restoring, vbroken, cell, misused, caller>>
    BY <1>2, <1>5
  <2>2. unit.subs \in Nat /\ stack \in Seq(Nat)
    BY <1>1, UnitFacts DEF Session, TypeOK
  <2>3. /\ Append(stack, unit.subs) \in Seq(Nat)
        /\ Len(Append(stack, unit.subs)) = Len(stack) + 1
        /\ \A i \in 1..Len(stack) : Append(stack, unit.subs)[i] = stack[i]
    BY <2>2, AppendProperties
  <2>4. Len(stack) \in Nat /\ \A i \in 1..Len(stack) : stack[i] > 0
    BY <1>1, <2>2, EmptySeq, LenProperties DEF Session, Coders
  <2>5. /\ stack' \in Seq(Nat) /\ stack' # <<>>
        /\ \A i \in 1..Len(stack') : i < Len(stack') => stack'[i] > 0
    <3>1. stack' \in Seq(Nat) /\ Len(stack') = Len(stack) + 1
      BY <2>1, <2>3
    <3>2. stack' # <<>>
      BY <3>1, <2>4, EmptySeq
    <3>3. ASSUME NEW i \in 1..Len(stack'), i < Len(stack') PROVE stack'[i] > 0
      <4>1. i \in 1..Len(stack)
        BY <3>1, <3>3, <2>4
      <4>. QED
        BY <2>1, <2>3, <2>4, <4>1
    <3>. QED
      BY <3>1, <3>2, <3>3
  <2>6. TypeOK'
    BY <1>3, <2>1, <2>5 DEF Session, TypeOK, facade, session, caller, Memos
  <2>7. Coders'
    BY <2>1, <2>5 DEF Coders
  <2>8. Layers' /\ Guarded' /\ FailedDecodeRestores'
    BY <1>1, <2>1 DEF Session, Layers, Guarded, FailedDecodeRestores, facade, session, caller
  <2>. QED
    BY <2>6, <2>7, <2>8 DEF Session
<1>. QED
  BY <1>4, <1>5

LEMMA CoderCallsSession ==
  ASSUME NEW e \in Errors \cup {"eof"}, Session, CoderCalls(e), misused' \in 0..MaxMisuse
  PROVE  Session'
<1>1. /\ step = "coder" /\ sub' = e
      /\ UNCHANGED <<facade, session, memo, step, unit, fit, restoring, vbroken, cell, stack,
                     subTarget, caller>>
  BY DEF CoderCalls
<1>2. TypeOK'
  BY <1>1 DEF Session, TypeOK, facade, session, caller
<1>. QED
  BY <1>1, <1>2 DEF Session, Layers, Coders, Guarded, FailedDecodeRestores, facade, session, caller

LEMMA CoderDecodeSession == Session /\ CoderDecode => Session'
<1>. SUFFICES ASSUME Session, CoderDecode PROVE Session'
  OBVIOUS
<1>1. /\ step = "coder" /\ Inner > 0 /\ misused' = misused
      /\ vbroken \in Errors \cup {NoError} /\ misused' \in 0..MaxMisuse
  BY DEF CoderDecode, Session, TypeOK
<1>2. CASE vbroken # NoError /\ CoderCalls(vbroken)
  BY <1>1, <1>2, CoderCallsSession
<1>3. CASE CoderCalls("eof")
  BY <1>1, <1>3, CoderCallsSession
<1>4. CASE /\ step' = "desc" /\ subTarget' = "before"
           /\ UNCHANGED <<facade, session, memo, unit, fit, restoring, vbroken, cell, stack, sub,
                          caller>>
  <2>1. TypeOK'
    BY <1>1, <1>4 DEF Session, TypeOK, facade, session, caller
  <2>2. stack \in Seq(Nat) /\ Len(stack) \in Nat /\ stack # <<>>
    BY <1>1, EmptySeq, LenProperties DEF Session, TypeOK, Coders
  <2>3. \A i \in 1..Len(stack) : stack[i] > 0
    <3>1. \A i \in 1..Len(stack) : i < Len(stack) => stack[i] > 0
      BY DEF Session, Coders
    <3>2. stack[Len(stack)] > 0
      BY <1>1 DEF Inner
    <3>. QED
      BY <2>2, <3>1, <3>2
  <2>4. Coders'
    BY <1>4, <2>2, <2>3 DEF Coders
  <2>5. Layers' /\ Guarded' /\ FailedDecodeRestores'
    BY <1>1, <1>4 DEF Session, Layers, Guarded, FailedDecodeRestores, facade, session, caller
  <2>. QED
    BY <2>1, <2>4, <2>5 DEF Session
<1>. QED
  BY <1>2, <1>3, <1>4 DEF CoderDecode

LEMMA CoderMisuseSession == Session /\ CoderMisuse => Session'
<1>. SUFFICES ASSUME Session, CoderMisuse PROVE Session'
  OBVIOUS
<1>1. CoderCalls("contract_mismatch") /\ misused' = misused + 1 /\ misused < MaxMisuse
  BY DEF CoderMisuse
<1>2. misused' \in 0..MaxMisuse
  <2>1. misused \in 0..MaxMisuse
    BY DEF Session, TypeOK
  <2>. QED
    BY <1>1, <2>1, SessionAssumption DEF SessionAssumption
<1>. QED
  BY <1>1, <1>2, CoderCallsSession, ErrorFacts

LEMMA CoderReturnSession == Session /\ CoderReturn => Session'
<1>. SUFFICES ASSUME Session, CoderReturn PROVE Session'
  OBVIOUS
<1>1. step = "coder" /\ UNCHANGED memo /\ stack # <<>> /\ memo' \in Memos /\ TypeOK
  BY DEF CoderReturn, Session, Coders, TypeOK, Memos
<1>2. CASE /\ SucceedAt(Outer)
           /\ passed' = (passed \/ Inner > 0)
           /\ UNCHANGED <<facade, session, unit, fit, restoring, vbroken, cell, misused,
                          res, first, got>>
  <2>1. \A i \in 1..Len(stack) : i < Len(stack) => stack[i] > 0
    BY DEF Session, Coders
  <2>2. Outer \in Seq(Nat) /\ \A i \in 1..Len(Outer) : Outer[i] > 0
    BY <1>1, <2>1, OuterFacts
  <2>3. passed' \in BOOLEAN
    BY <1>2, Zenon
  <2>4. rpos' \in 0..Len(Stream) /\ cell' \in BOOLEAN
    BY <1>1, <1>2 DEF TypeOK, session
  <2>5. UNCHANGED <<facade, dec, started, sawValue, broken, memo, unit, fit, restoring, vbroken,
                    misused, res, first, got>>
    BY <1>1, <1>2 DEF session
  <2>. QED
    BY <1>1, <1>2, <2>2, <2>3, <2>4, <2>5, SucceedSession
<1>3. CASE FailAt(Outer, "budget")
  BY <1>1, <1>3, FailOuter, ErrorFacts
<1>. QED
  BY <1>2, <1>3 DEF CoderReturn

LEMMA CoderFailSession == Session /\ CoderFail => Session'
<1>. SUFFICES ASSUME Session, CoderFail PROVE Session'
  OBVIOUS
<1>1. PICK e \in CoderErrors \cup ({sub} \cap Errors) : FailAt(Outer, e)
  BY DEF CoderFail
<1>2. step = "coder" /\ memo' \in Memos /\ e \in Errors
  BY ErrorFacts DEF CoderFail, Session, TypeOK, Memos
<1>. QED
  BY <1>1, <1>2, FailOuter

LEMMA CoderPanicSession == Session /\ CoderPanic => Session'
<1>. SUFFICES ASSUME Session, CoderPanic PROVE Session'
  OBVIOUS
<1>1. /\ step \in {"coder", "header", "eof?", "desc", "body"} /\ step' = "panic"
      /\ stack' = IF step = "coder" THEN Outer ELSE stack
      /\ UNCHANGED <<facade, session, memo, unit, fit, restoring, vbroken, cell, sub, subTarget,
                     misused, caller>>
  BY DEF CoderPanic
<1>2. stack' \in Seq(Nat) /\ (stack' # <<>> => stack # <<>>)
      /\ \A i \in 1..Len(stack') : stack'[i] > 0
  <2>1. CASE step = "coder"
    <3>1. stack # <<>> /\ TypeOK
      BY <2>1 DEF Session, Coders
    <3>2. \A i \in 1..Len(stack) : i < Len(stack) => stack[i] > 0
      BY DEF Session, Coders
    <3>. QED
      BY <1>1, <2>1, <3>1, <3>2, OuterFacts
  <2>2. CASE step \in {"header", "eof?"}
    <3>1. stack' = <<>>
      BY <1>1, <2>2 DEF Session, Coders
    <3>. QED
      BY <3>1, EmptySeq
  <2>3. CASE step \in {"desc", "body"}
    <3>1. stack' = stack
      BY <1>1, <2>3
    <3>. QED
      BY <2>3, <3>1 DEF Session, Coders, TypeOK
  <2>. QED
    BY <1>1, <2>1, <2>2, <2>3
<1>3. TypeOK'
  BY <1>1, <1>2 DEF Session, TypeOK, facade, session, caller
<1>4. Coders'
  BY <1>1, <1>2 DEF Coders
<1>5. Layers' /\ Guarded' /\ FailedDecodeRestores'
  BY <1>1, <1>2 DEF Session, Layers, Guarded, FailedDecodeRestores, facade, session, caller
<1>. QED
  BY <1>3, <1>4, <1>5 DEF Session

LEMMA UnwindSession == Session /\ Unwind => Session'
<1>. SUFFICES ASSUME Session, Unwind PROVE Session'
  OBVIOUS
<1>1. step = "panic" /\ UNCHANGED memo /\ memo' \in Memos /\ TypeOK
      /\ \A i \in 1..Len(stack) : stack[i] > 0
  BY DEF Unwind, Session, Coders, TypeOK, Memos
<1>2. CASE /\ stack # <<>> /\ stack' = Outer
           /\ UNCHANGED <<facade, session, step, unit, fit, restoring, vbroken, cell, sub, subTarget,
                          misused, caller>>
  <2>1. stack' \in Seq(Nat) /\ \A i \in 1..Len(stack') : stack'[i] > 0
    BY <1>1, <1>2, OuterFacts
  <2>2. TypeOK'
    BY <1>1, <1>2, <2>1 DEF TypeOK, facade, session, caller, Memos
  <2>3. Coders'
    BY <1>1, <1>2, <2>1 DEF Coders
  <2>4. Layers' /\ Guarded' /\ FailedDecodeRestores'
    BY <1>1, <1>2 DEF Session, Layers, Guarded, FailedDecodeRestores, facade, session, caller
  <2>. QED
    BY <2>2, <2>3, <2>4 DEF Session
<1>3. CASE /\ stack # <<>> /\ step' = "coder" /\ sub' = "internal_panic" /\ passed' = TRUE
           /\ UNCHANGED <<facade, session, unit, fit, restoring, vbroken, cell, stack, subTarget,
                          misused, target, res, first, got>>
  <2>1. sub' \in Errors \cup {NoError, "eof"} /\ passed' \in BOOLEAN /\ step' = "coder"
    BY <1>3, ErrorFacts
  <2>2. TypeOK'
    BY <1>1, <1>3, <2>1 DEF TypeOK, facade, session, Memos
  <2>3. Coders'
    BY <1>1, <1>3 DEF Coders
  <2>4. Layers' /\ Guarded' /\ FailedDecodeRestores'
    BY <1>1, <1>3 DEF Session, Layers, Guarded, FailedDecodeRestores, facade, session
  <2>. QED
    BY <2>2, <2>3, <2>4 DEF Session
<1>4. CASE /\ stack = <<>> /\ Finish("internal_panic")
           /\ UNCHANGED <<broken, sawValue, rpos, vbroken, sub, subTarget>>
  <2>1. broken' \in Errors \cup {NoError} /\ sawValue' \in BOOLEAN
    BY <1>1, <1>4 DEF TypeOK
  <2>2. "internal_panic" \in Errors /\ "internal_panic" # "wrapped_eof"
        /\ "internal_panic" \notin {NoError, "eof"}
    BY ErrorFacts
  <2>. QED
    BY <1>1, <1>4, <2>1, <2>2, FinishSession
<1>. QED
  BY <1>2, <1>3, <1>4 DEF Unwind, InCoder

LEMMA CloseSession == Session /\ Close => Session'
<1>. SUFFICES ASSUME Session, Close PROVE Session'
  OBVIOUS
<1>1. step = "close" /\ UNCHANGED <<memo, rpos, vbroken, sub, subTarget>> /\ memo' \in Memos
      /\ sawValue \in BOOLEAN /\ broken \in Errors \cup {NoError}
  BY DEF Close, Session, TypeOK, Memos
<1>2. CASE cell
  <2>1. Finish("bad_path") /\ broken' = "bad_path" /\ sawValue' = sawValue
    BY <1>2 DEF Close, Break
  <2>. QED
    BY <1>1, <2>1, FinishSession, ErrorFacts
<1>3. CASE ~cell
  <2>1. Finish(NoError) /\ broken' = broken /\ sawValue' = TRUE
    BY <1>3 DEF Close
  <2>. QED
    BY <1>1, <2>1, FinishSession, ErrorFacts
<1>. QED
  BY <1>2, <1>3

LEMMA RegistrationSession ==
  ASSUME NEW c \in Names PROVE Session /\ (RegisterCoder(c) \/ RegisterReserved(c)) => Session'
<1>. SUFFICES ASSUME Session, RegisterCoder(c) \/ RegisterReserved(c) PROVE Session'
  OBVIOUS
<1>1. /\ coders' \subseteq Names /\ reserved' \subseteq Names /\ allocated' \in BOOLEAN
      /\ memo' \in Memos
  <2>1. coders \subseteq Names /\ reserved \subseteq Names /\ allocated \in BOOLEAN /\ memo \in Memos
    BY DEF Session, TypeOK, Memos
  <2>2. [n \in Names |-> "unset"] \in Memos
    BY DEF Memos
  <2>3. memo' \in {memo, [n \in Names |-> "unset"]}
    BY DEF RegisterCoder, RegisterReserved
  <2>. QED
    BY <2>1, <2>2, <2>3 DEF RegisterCoder, RegisterReserved
<1>2. UNCHANGED <<err, session, step, value, caller>>
  BY DEF RegisterCoder, RegisterReserved
<1>3. TypeOK'
  BY <1>1, <1>2 DEF Session, TypeOK, session, value, caller, Memos
<1>. QED
  BY <1>2, <1>3 DEF Session, Layers, Coders, Guarded, FailedDecodeRestores, session, value, caller

LEMMA NextSession == Session /\ [Next]_vars => Session'
<1>1. Session /\ UNCHANGED vars => Session'
  BY DEF vars, Session, TypeOK, Layers, Coders, Guarded, FailedDecodeRestores
<1>. QED
  BY <1>1, DecodeStepSession, MisusedSession, ReadHeaderSession, AtEOFSession, ReadDescSession,
     MatchSession, MatchSubSession, WritePartSession, PlainBodySession, CoderBodySession,
     CoderDecodeSession, CoderMisuseSession, CoderReturnSession, CoderFailSession,
     CoderPanicSession, UnwindSession, CloseSession, RegistrationSession
  DEF Next

-----------------------------------------------------------------------------
(* The memo.                                                               *)

(* Only the first Decode makes the stream decoder, and only it leaves idle.*)
LEMMA StreamDecoder ==
  ASSUME Session, Memo, Next
  PROVE  /\ dec' = dec \/ (dec = "nil" /\ dec' # "nil")
         /\ step' # "idle" => dec' # "nil"
<1>1. ASSUME NEW f \in Fits, Decode(f)
      PROVE  /\ dec' = dec \/ (dec = "nil" /\ dec' # "nil")
             /\ step' # "idle" => dec' # "nil"
  BY <1>1 DEF Decode, session
<1>2. ASSUME NEW c \in Names, RegisterCoder(c) \/ RegisterReserved(c)
      PROVE  dec' = dec /\ step' = step
  BY <1>2 DEF RegisterCoder, RegisterReserved, session
<1>3. DecodeMisused => dec' = dec /\ step' = step
  BY DEF DecodeMisused, session
<1>4. ASSUME \/ ReadHeader \/ AtEOF \/ ReadDesc
             \/ Match \/ MatchSub \/ WritePart \/ PlainBody
             \/ CoderDecode \/ CoderMisuse \/ CoderReturn \/ CoderFail
             \/ CoderPanic \/ Unwind \/ Close
             \/ \E iface \in BOOLEAN : CoderBody(iface)
      PROVE  dec' = dec /\ step # "idle"
  <2>1. \A left, e : FailAt(left, e) => dec' = dec
    BY DEF FailAt, Break, Finish, session
  <2>2. ReadHeader \/ AtEOF \/ ReadDesc => dec' = dec /\ step # "idle"
    BY <2>1 DEF ReadHeader, AtEOF, ReadDesc, Break, Finish, session
  <2>3. Match \/ MatchSub \/ WritePart \/ PlainBody => dec' = dec /\ step # "idle"
    BY <2>1 DEF Match, MatchSub, WritePart, PlainBody, Break, Finish, session
  <2>4. CoderDecode \/ CoderMisuse \/ CoderReturn \/ CoderFail => dec' = dec /\ step # "idle"
    BY <2>1 DEF CoderDecode, CoderMisuse, CoderCalls, CoderReturn, CoderFail, session
  <2>5. CoderPanic \/ Unwind \/ Close => dec' = dec /\ step # "idle"
    BY DEF CoderPanic, Unwind, Close, Break, Finish, session
  <2>6. ASSUME NEW iface \in BOOLEAN, CoderBody(iface) PROVE dec' = dec /\ step # "idle"
    BY <2>1, <2>6 DEF CoderBody, session
  <2>. QED
    BY <1>4, <2>2, <2>3, <2>4, <2>5, <2>6
<1>. QED
  BY <1>1, <1>2, <1>3, <1>4 DEF Next, Memo

(* The registry and the memo change only where one looks at the other. *)
LEMMA MemoOrCoders ==
  ASSUME Next
  PROVE  \/ coders' = coders /\ memo' = memo
         \/ \E iface \in BOOLEAN : CoderBody(iface)
         \/ \E c \in Names : RegisterCoder(c)
<1>1. \A left, e : FailAt(left, e) => coders' = coders
  BY DEF FailAt, Break, Finish, facade
<1>2. \A f \in Fits : Decode(f) => coders' = coders /\ memo' = memo
  BY DEF Decode, facade
<1>3. DecodeMisused \/ ReadHeader \/ AtEOF \/ ReadDesc => coders' = coders /\ memo' = memo
  BY <1>1 DEF DecodeMisused, ReadHeader, AtEOF, ReadDesc, Break, Finish, facade
<1>4. Match \/ MatchSub \/ WritePart \/ PlainBody => coders' = coders /\ memo' = memo
  BY <1>1 DEF Match, MatchSub, WritePart, PlainBody, Break, Finish, facade
<1>5. CoderDecode \/ CoderMisuse \/ CoderReturn \/ CoderFail => coders' = coders /\ memo' = memo
  BY <1>1 DEF CoderDecode, CoderMisuse, CoderCalls, CoderReturn, CoderFail, facade
<1>6. CoderPanic \/ Unwind \/ Close => coders' = coders /\ memo' = memo
  BY DEF CoderPanic, Unwind, Close, Break, Finish, facade
<1>7. \A c \in Names : RegisterReserved(c) => coders' = coders /\ memo' = memo
  BY DEF RegisterReserved
<1>. QED
  BY <1>2, <1>3, <1>4, <1>5, <1>6, <1>7 DEF Next

LEMMA NextMemo == IInv /\ [Next]_vars => Memo' /\ MemoFresh'
<1>. SUFFICES ASSUME IInv, [Next]_vars PROVE Memo' /\ MemoFresh'
  OBVIOUS
<1>1. CASE UNCHANGED vars
  BY <1>1 DEF vars, IInv, Memo, MemoFresh
<1>2. CASE Next
  <2>1. /\ dec' = dec \/ (dec = "nil" /\ dec' # "nil")
        /\ step' # "idle" => dec' # "nil"
    BY <1>2, StreamDecoder DEF IInv
  <2>2. memo \in Memos /\ coders \subseteq Names
    BY DEF IInv, Session, TypeOK, Memos
  <2>3. CASE coders' = coders /\ memo' = memo
    BY <2>1, <2>3 DEF IInv, Memo, MemoFresh
  <2>4. ASSUME NEW iface \in BOOLEAN, CoderBody(iface) PROVE Memo' /\ MemoFresh'
    <3>. DEFINE found == IF iface \/ memo[unit.coder] = "unset"
                           THEN unit.coder \in Visible ELSE memo[unit.coder] = "hit"
    <3>1. step = "body" /\ dec # "nil" /\ dec' = dec
      BY <2>1, <2>4 DEF CoderBody, IInv, Memo
    <3>2. coders' = coders
      BY <2>4 DEF CoderBody, FailAt, Break, Finish, facade
    <3>3. /\ memo' = IF iface THEN memo
                     ELSE [memo EXCEPT ![unit.coder] = IF found THEN "hit" ELSE "miss"]
      BY <2>4 DEF CoderBody
    <3>4. ASSUME dec = "shared", NEW c \in Names, memo'[c] # "unset"
          PROVE  (memo'[c] = "hit") = (c \in coders)
      <4>1. memo[c] # "unset" => (memo[c] = "hit") = (c \in coders)
        BY <3>4 DEF IInv, MemoFresh
      <4>2. CASE memo'[c] = memo[c]
        BY <3>4, <4>1, <4>2
      <4>3. CASE memo'[c] # memo[c]
        <5>1. c = unit.coder /\ memo'[c] = (IF found THEN "hit" ELSE "miss") /\ ~iface
          BY <2>2, <3>3, <4>3 DEF Memos
        <5>2. found = (c \in coders)
          BY <3>4, <4>1, <5>1, Zenon DEF Visible
        <5>3. CASE c \in coders
          BY <5>1, <5>2, <5>3, Zenon
        <5>4. CASE c \notin coders
          <6>1. memo'[c] = "miss"
            BY <5>1, <5>2, <5>4, Zenon
          <6>. QED
            BY <6>1, <5>4
        <5>. QED
          BY <5>3, <5>4
      <4>. QED
        BY <4>2, <4>3
    <3>. QED
      BY <3>1, <3>2, <3>4 DEF Memo, MemoFresh
  <2>5. ASSUME NEW c \in Names, RegisterCoder(c) PROVE Memo' /\ MemoFresh'
    <3>1. memo' = IF dec = "nil" THEN memo ELSE [n \in Names |-> "unset"]
      BY <2>5 DEF RegisterCoder
    <3>2. dec' = dec /\ step' = step
      BY <2>5 DEF RegisterCoder, session
    <3>. QED
      BY <3>1, <3>2 DEF IInv, Memo, MemoFresh
  <2>. QED
    BY <1>2, <2>3, <2>4, <2>5, MemoOrCoders
<1>. QED
  BY <1>1, <1>2

-----------------------------------------------------------------------------
(* What has been read.                                                     *)

LEMMA HereFacts ==
  ASSUME TypeOK
  PROVE  Here.owed \in Nat /\ Here.whole \in Nat /\ got \in Nat /\ rpos \in 0..Len(Stream)
  BY ProgressType DEF TypeOK, Here

(* The next unit is read. *)
LEMMA ReadFacts ==
  ASSUME TypeOK, rpos < Len(Stream), rpos' = rpos + 1, NEW u, u = Stream[rpos + 1]
  PROVE  /\ u \in Units
         /\ Here'.owed = IF u.kind = "desc" THEN Due(Here) - 1 + u.subs
                         ELSE IF u.kind = "plain" THEN Due(Here) ELSE Due(Here) - 1
         /\ Here'.whole = IF Here'.owed = 0 THEN Here.whole + 1 ELSE Here.whole
<1>1. rpos \in 0..Len(Stream) /\ rpos + 1 \in 0..Len(Stream) /\ rpos + 1 \in 1..Len(Stream)
  BY UnitFacts DEF TypeOK
<1>2. Progress[rpos + 1] = After(Progress[rpos], Stream[rpos + 1]) /\ u \in Units
  BY <1>1, ProgressSteps, UnitFacts
<1>3. Here' = After(Here, u)
  BY <1>2 DEF Here
<1>. QED
  BY <1>2, <1>3, HereFacts, AfterFacts

(* What the coders that run are due, with and without the innermost one. *)
LEMMA OwingFacts ==
  ASSUME NEW s \in Seq(Nat), NEW w, Owing(w, s)
  PROVE  /\ w[Len(s)] \in Int /\ (s = <<>> => w[Len(s)] = 0)
         /\ (\A i \in 1..Len(s) : s[i] > 0) => w[Len(s)] \in Nat
         /\ s # <<>> => /\ Len(s) \in 1..Len(s) /\ Len(s) - 1 \in 0..Len(s)
                        /\ w[Len(s) - 1] \in Nat
                        /\ w[Len(s)] = w[Len(s) - 1] + s[Len(s)] - 1
                        /\ s[Len(s)] \in Nat
<1>1. Len(s) \in Nat /\ Len(s) \in 0..Len(s) /\ w[Len(s)] \in Int
  BY LenProperties DEF Owing
<1>2. s = <<>> => w[Len(s)] = 0
  BY EmptySeq DEF Owing
<1>3. ASSUME s # <<>>
      PROVE  /\ Len(s) \in 1..Len(s) /\ Len(s) - 1 \in 0..Len(s)
             /\ w[Len(s) - 1] \in Nat
             /\ w[Len(s)] = w[Len(s) - 1] + s[Len(s)] - 1
             /\ s[Len(s)] \in Nat
  <2>1. Len(s) \in 1..Len(s) /\ Len(s) - 1 \in 0..Len(s)
    BY <1>1, <1>3, EmptySeq
  <2>2. w[Len(s) - 1] \in Int /\ w[Len(s) - 1] >= 0
    BY <2>1 DEF Owing
  <2>. QED
    BY <2>1, <2>2, ElementOfSeq DEF Owing
<1>4. ASSUME \A i \in 1..Len(s) : s[i] > 0 PROVE w[Len(s)] \in Nat
  <2>1. CASE s = <<>>
    BY <1>2, <2>1
  <2>2. CASE s # <<>>
    <3>1. s[Len(s)] > 0
      BY <1>3, <1>4, <2>2
    <3>. QED
      BY <1>3, <2>2, <3>1
  <2>. QED
    BY <2>1, <2>2
<1>. QED
  BY <1>1, <1>2, <1>3, <1>4

-----------------------------------------------------------------------------
(* The ways out of a value, as far as the units are counted.               *)

LEMMA BreakReading ==
  ASSUME Session, step # "idle", NEW e \in Errors, Finish(e)
  PROVE  Reading'
<1>1. first = NoError
  BY DEF Session, Layers
<1>2. first' = Mapped(e) /\ Mapped(e) # NoError
  BY <1>1, ErrorFacts, MappedFacts DEF Finish
<1>. QED
  BY <1>2 DEF Reading

LEMMA FailAtReading ==
  ASSUME Session, step \notin {"idle", "close"},
         NEW left \in Seq(Nat), \A i \in 1..Len(left) : left[i] > 0,
         NEW e \in Errors, FailAt(left, e)
  PROVE  Reading'
<1>1. CASE left = <<>>
  BY <1>1, BreakReading DEF FailAt, Break
<1>2. CASE left # <<>>
  <2>1. vbroken' = e /\ e # NoError /\ stack' = left /\ step' = "coder"
    BY <1>2, ErrorFacts DEF FailAt
  <2>. QED
    BY <2>1 DEF Reading
<1>. QED
  BY <1>1, <1>2

LEMMA FailHereReading ==
  ASSUME Session, step \in {"desc", "match", "body"}, NEW e \in Errors, FailAt(stack, e)
  PROVE  Reading'
<1>1. stack \in Seq(Nat) /\ \A i \in 1..Len(stack) : stack[i] > 0
  BY DEF Session, TypeOK, Coders
<1>. QED
  BY <1>1, FailAtReading

LEMMA OuterPositive ==
  ASSUME Session, step = "coder"
  PROVE  stack # <<>> /\ Outer \in Seq(Nat) /\ \A i \in 1..Len(Outer) : Outer[i] > 0
<1>1. TypeOK /\ stack # <<>>
  BY DEF Session, Coders
<1>2. \A i \in 1..Len(stack) : i < Len(stack) => stack[i] > 0
  BY DEF Session, Coders
<1>. QED
  BY <1>1, <1>2, OuterFacts

LEMMA FailOuterReading ==
  ASSUME Session, step = "coder", NEW e \in Errors, FailAt(Outer, e)
  PROVE  Reading'
  BY OuterPositive, FailAtReading

(* A value is whole: the units read are those of what was delivered and of *)
(* what is due without it.                                                 *)
LEMMA SucceedReading ==
  ASSUME Session, vbroken' = NoError, got' = got,
         NEW left \in Seq(Nat), NEW w, Owing(w, left), \A i \in 1..Len(left) : left[i] > 0,
         SucceedAt(left),
         Here'.owed = w[Len(left)],
         Here'.whole = IF Here'.owed = 0 THEN got + 1 ELSE got
  PROVE  Reading'
<1>1. CASE left = <<>>
  <2>1. step' = "close" /\ w[Len(left)] = 0
    BY <1>1, OwingFacts DEF SucceedAt
  <2>. QED
    BY <2>1 DEF Reading
<1>2. CASE left # <<>>
  <2>. DEFINE n == Len(left)
              v == [w EXCEPT ![n] = w[n] - 1]
  <2>1. /\ n \in 1..n /\ n \in Nat \ {0} /\ w[n - 1] \in Nat /\ w[n] = w[n - 1] + left[n] - 1
        /\ left[n] \in Nat /\ left[n] > 0 /\ w[n] \in Int
        /\ w \in [0..n -> Int] /\ w[0] = 0
        /\ \A k \in 1..n : w[k - 1] >= 0 /\ w[k] = w[k - 1] + left[k] - 1
    BY <1>2, OwingFacts, EmptySeq, LenProperties DEF Owing
  <2>2. step' = "coder" /\ stack' = [left EXCEPT ![n] = left[n] - 1]
    BY <1>2 DEF SucceedAt
  <2>3. /\ stack' \in Seq(Nat) /\ Len(stack') = n
        /\ \A j \in 1..n : stack'[j] = IF j = n THEN left[n] - 1 ELSE left[j]
    BY <2>1, <2>2, ExceptSeq
  <2>. HIDE DEF n
  <2>4. /\ v \in [0..n -> Int] /\ v[0] = 0 /\ v[n] = w[n] - 1
        /\ \A k \in 0..n : k # n => v[k] = w[k]
    BY <2>1
  <2>. HIDE DEF v
  <2>5. ASSUME NEW k \in 1..n PROVE v[k - 1] >= 0 /\ v[k] = v[k - 1] + stack'[k] - 1
    <3>1. k \in 0..n /\ k - 1 \in 0..n /\ k - 1 # n /\ k \in 1..Len(left)
      BY <2>1 DEF n
    <3>2. v[k - 1] = w[k - 1] /\ w[k - 1] \in Int /\ w[k] \in Int
      <4>1. w \in [0..n -> Int]
        BY <2>1
      <4>. QED
        BY <3>1, <2>4, <4>1
    <3>3. w[k - 1] >= 0 /\ w[k] = w[k - 1] + left[k] - 1
      BY <2>1
    <3>4. left[k] \in Nat
      BY <3>1, ElementOfSeq
    <3>5. v[k] = IF k = n THEN w[k] - 1 ELSE w[k]
      BY <2>4, <3>1
    <3>6. stack'[k] = IF k = n THEN left[k] - 1 ELSE left[k]
      BY <2>3
    <3>7. v[k] = v[k - 1] + stack'[k] - 1
      <4>1. CASE k = n
        <5>1. PICK x, y, z : x = stack'[k] /\ y = left[k] /\ z = w[k - 1]
          OBVIOUS
        <5>2. v[k] = w[k] - 1 /\ x = y - 1 /\ y \in Nat /\ z \in Int /\ w[k] = z + y - 1
          BY <3>2, <3>3, <3>4, <3>5, <3>6, <4>1, <5>1
        <5>3. v[k] = z + x - 1
          BY <5>2
        <5>. QED
          BY <3>2, <5>1, <5>3
      <4>2. CASE k # n
        <5>1. v[k] = w[k] /\ stack'[k] = left[k]
          BY <3>5, <3>6, <4>2
        <5>. QED
          BY <3>2, <3>3, <3>4, <5>1
      <4>. QED
        BY <4>1, <4>2
    <3>. QED
      BY <3>2, <3>3, <3>7
  <2>6. \A s : s = stack' => Owing(v, s)
    BY <2>3, <2>4, <2>5 DEF Owing
  <2>7. Here'.owed = v[n] + 1 /\ Here'.whole = IF Here'.owed = 0 THEN got' + 1 ELSE got'
    BY <2>1, <2>4 DEF n
  <2>8. \A s : s = stack' => \E x : Owing(x, s) /\ Here'.owed = x[Len(s)] + 1
    BY <2>3, <2>6, <2>7
  <2>9. \E x : Owing(x, stack') /\ Here'.owed = x[Len(stack')] + 1
    BY <2>8
  <2>. QED
    BY <2>2, <2>7, <2>9 DEF Reading, InValue, Delivered
<1>. QED
  BY <1>1, <1>2

-----------------------------------------------------------------------------
(* The steps, as far as the units are counted.                             *)

LEMMA OuterStepsReading ==
  ASSUME Session, Reading,
         \/ \E f \in Fits : Decode(f)
         \/ DecodeMisused \/ ReadHeader
         \/ \E c \in Names : RegisterCoder(c) \/ RegisterReserved(c)
  PROVE  Reading'
<1>1. ASSUME NEW f \in Fits, Decode(f) PROVE Reading'
  <2>1. step = "idle" /\ (first = NoError => err = NoError /\ broken = NoError)
    BY <1>1 DEF Decode, Session, Layers
  <2>2. UNCHANGED <<first, passed>>
    BY <1>1, <2>1 DEF Decode
  <2>3. first = NoError =>
          step' \in {"header", "eof?"} /\ UNCHANGED <<rpos, got, passed, vbroken, stack>>
    BY <1>1, <2>1 DEF Decode
  <2>. QED
    BY <2>1, <2>2, <2>3 DEF Reading, Here
<1>2. CASE DecodeMisused
  BY <1>2 DEF DecodeMisused, Reading, Here, session, value, InValue, Delivered
<1>3. CASE ReadHeader
  <2>1. step = "header"
    BY <1>3 DEF ReadHeader
  <2>2. CASE /\ step' = "eof?"
             /\ UNCHANGED <<facade, dec, sawValue, broken, rpos, value, caller>>
    BY <2>1, <2>2 DEF Reading, Here, value, caller
  <2>3. ASSUME NEW e \in ReadErrors, Break(e) PROVE Reading'
    BY <2>1, <2>3, BreakReading, ErrorFacts DEF Break
  <2>. QED
    BY <1>3, <2>2, <2>3 DEF ReadHeader
<1>4. ASSUME NEW c \in Names, RegisterCoder(c) \/ RegisterReserved(c) PROVE Reading'
  BY <1>4 DEF RegisterCoder, RegisterReserved, Reading, Here, session, value, caller, InValue,
              Delivered
<1>. QED
  BY <1>1, <1>2, <1>3, <1>4

LEMMA AtEOFReading == ASSUME Session, Reading, AtEOF PROVE Reading'
<1>1. step = "eof?" /\ stack = <<>>
  BY DEF AtEOF, Session, Coders
<1>2. CASE /\ IF sawValue THEN Finish("eof") /\ UNCHANGED broken ELSE Break("truncated")
           /\ UNCHANGED <<sawValue, rpos, vbroken, sub, subTarget>>
  <2>1. CASE Finish("eof")
    <3>1. step' = "idle" /\ first' = first /\ got' = got /\ passed' = passed
      BY <2>1, ErrorFacts DEF Finish, NoError
    <3>2. rpos' = rpos /\ vbroken' = vbroken
      BY <1>2
    <3>. QED
      BY <1>1, <3>1, <3>2 DEF Reading, Here
  <2>2. CASE Break("truncated")
    BY <1>1, <2>2, BreakReading, ErrorFacts DEF Break
  <2>. QED
    BY <1>2, <2>1, <2>2
<1>3. CASE /\ step' = "desc" /\ vbroken' = NoError
           /\ UNCHANGED <<facade, session, unit, fit, restoring, stack, subTarget, misused, caller>>
  <2>1. stack' = <<>> /\ first' = first /\ passed' = passed /\ got' = got /\ rpos' = rpos
    BY <1>1, <1>3 DEF session, caller
  <2>. DEFINE w == [k \in 0..0 |-> 0]
  <2>2. Owing(w, <<>>) /\ Len(<<>>) = 0 /\ w[0] = 0
    BY DEF Owing
  <2>. HIDE DEF w
  <2>3. ~passed /\ first = NoError => Here.owed = 0 /\ Here.whole = got
    BY <1>1 DEF Reading
  <2>4. \A s : s = stack' => Owing(w, s)
    BY <2>1, <2>2
  <2>5. \E x : Owing(x, stack')
    BY <2>4
  <2>6. Here' = Here
    BY <2>1 DEF Here
  <2>. QED
    BY <1>3, <2>1, <2>3, <2>5, <2>6 DEF Reading, InValue
<1>. QED
  BY <1>2, <1>3 DEF AtEOF

LEMMA ReadDescReading == ASSUME Session, Reading, ReadDesc PROVE Reading'
<1>1. step = "desc" /\ TypeOK
  BY DEF ReadDesc, Session
<1>2. CASE /\ rpos < Len(Stream) /\ Stream[rpos + 1].kind # "body"
           /\ unit' = Stream[rpos + 1] /\ rpos' = rpos + 1 /\ step' = "match"
           /\ UNCHANGED <<facade, dec, started, sawValue, broken,
                          fit, restoring, vbroken, cell, stack, sub, subTarget, misused, caller>>
  <2>. SUFFICES ASSUME ~passed', first' = NoError PROVE Reading'
    BY DEF Reading
  <2>1. stack' = stack /\ vbroken' = vbroken /\ got' = got /\ ~passed /\ first = NoError
    BY <1>2 DEF caller
  <2>2. vbroken = NoError
    BY <1>1, <2>1 DEF Reading
  <2>3. PICK w : /\ Owing(w, stack) /\ Here.whole = got
                 /\ Here.owed = IF stack = <<>> THEN 0 ELSE w[Len(stack)] + 1
    BY <1>1, <2>1, <2>2 DEF Reading, InValue
  <2>4. w[Len(stack)] \in Nat /\ (stack = <<>> => w[Len(stack)] = 0)
    BY <1>1, <2>3, OwingFacts DEF Session, TypeOK, Coders
  <2>5. PICK n \in Nat : n = w[Len(stack)]
    BY <2>4
  <2>6. Due(Here) = n + 1
    BY <2>3, <2>4, <2>5 DEF Due
  <2>7. PICK u : u = Stream[rpos + 1] /\ u = unit'
    BY <1>2
  <2>8. /\ u \in Units /\ u.kind # "body" /\ u.kind \in {"desc", "plain", "body"}
        /\ u.kind = "desc" => u.subs \in Nat
        /\ Here'.owed = IF u.kind = "desc" THEN Due(Here) - 1 + u.subs
                         ELSE IF u.kind = "plain" THEN Due(Here) ELSE Due(Here) - 1
        /\ Here'.whole = IF Here'.owed = 0 THEN Here.whole + 1 ELSE Here.whole
    BY <1>1, <1>2, <2>7, ReadFacts DEF Units
  <2>9. Here'.owed = IF unit'.kind = "desc" THEN n + unit'.subs ELSE n + 1
    <3>1. CASE u.kind = "desc"
      <4>1. Here'.owed = (n + 1) - 1 + u.subs /\ u.subs \in Nat
        BY <2>6, <2>8, <3>1
      <4>2. (n + 1) - 1 + u.subs = n + u.subs
        BY <4>1
      <4>. QED
        BY <2>7, <3>1, <4>1, <4>2
    <3>2. CASE u.kind = "plain"
      BY <2>6, <2>7, <2>8, <3>2
    <3>. QED
      BY <2>8, <3>1, <3>2
  <2>10. Here'.whole = IF Here'.owed = 0 THEN got' + 1 ELSE got'
    BY <2>1, <2>3, <2>8
  <2>11. \E x : /\ Owing(x, stack')
                /\ Here'.owed = IF unit'.kind = "desc" THEN x[Len(stack')] + unit'.subs
                                ELSE x[Len(stack')] + 1
    BY <2>1, <2>3, <2>5, <2>9
  <2>. QED
    BY <1>2, <2>1, <2>2, <2>10, <2>11 DEF Reading, InValue, Delivered
<1>3. ASSUME NEW e \in ReadErrors, FailAt(stack, e) PROVE Reading'
  BY <1>1, <1>3, FailHereReading, ErrorFacts
<1>. QED
  BY <1>2, <1>3 DEF ReadDesc

LEMMA MatchReading == ASSUME Session, Reading, Match \/ MatchSub \/ WritePart PROVE Reading'
<1>1. CASE Match /\ fit = "mismatch"
  BY <1>1, BreakReading, ErrorFacts DEF Match, Break
<1>2. CASE MatchSub /\ FailAt(stack, "format")
  BY <1>2, FailHereReading, ErrorFacts DEF MatchSub
<1>3. CASE /\ step \in {"match", "body"} /\ step' = "body"
           /\ UNCHANGED <<rpos, unit, stack, vbroken, first, got, passed>>
  BY <1>3 DEF Reading, Here, InValue, Delivered
<1>4. Match /\ fit # "mismatch" =>
        /\ step = "match" /\ step' = "body"
        /\ UNCHANGED <<rpos, unit, stack, vbroken, first, got, passed>>
  BY DEF Match, session, caller
<1>5. MatchSub => \/ FailAt(stack, "format")
                  \/ /\ step = "match" /\ step' = "body"
                     /\ UNCHANGED <<rpos, unit, stack, vbroken, first, got, passed>>
  BY DEF MatchSub, session, value, caller
<1>6. WritePart => /\ step = "body" /\ step' = "body"
                   /\ UNCHANGED <<rpos, unit, stack, vbroken, first, got, passed>>
  BY DEF WritePart, session
<1>. QED
  BY <1>1, <1>2, <1>3, <1>4, <1>5, <1>6

LEMMA PlainBodyReading == ASSUME Session, Reading, PlainBody PROVE Reading'
<1>1. step = "body" /\ TypeOK /\ unit.kind = "plain"
  BY DEF PlainBody, Session
<1>2. CASE /\ rpos < Len(Stream) /\ Stream[rpos + 1].kind = "body" /\ rpos' = rpos + 1
           /\ SucceedAt(stack) /\ cell' \in {cell, TRUE}
           /\ UNCHANGED <<facade, dec, started, sawValue, broken,
                          unit, fit, restoring, vbroken, misused, res, first, got, passed>>
  <2>. SUFFICES ASSUME ~passed', first' = NoError PROVE Reading'
    BY DEF Reading
  <2>1. vbroken' = vbroken /\ got' = got /\ ~passed /\ first = NoError
    BY <1>2
  <2>2. vbroken = NoError
    BY <1>1, <2>1 DEF Reading
  <2>3. PICK w : Owing(w, stack) /\ Here.owed = w[Len(stack)] + 1 /\ Delivered
    BY <1>1, <2>1, <2>2 DEF Reading, InValue
  <2>4. stack \in Seq(Nat) /\ \A i \in 1..Len(stack) : stack[i] > 0
    BY <1>1 DEF Session, TypeOK, Coders
  <2>5. PICK n \in Nat : n = w[Len(stack)]
    BY <2>3, <2>4, OwingFacts
  <2>6. Here.owed = n + 1 /\ Here.owed # 0 /\ Here.whole = got /\ Due(Here) = n + 1
    BY <2>3, <2>5 DEF Delivered, Due
  <2>7. /\ Here'.owed = Due(Here) - 1
        /\ Here'.whole = IF Here'.owed = 0 THEN Here.whole + 1 ELSE Here.whole
    BY <1>1, <1>2, ReadFacts
  <2>8. Here'.owed = w[Len(stack)] /\ Here'.whole = IF Here'.owed = 0 THEN got + 1 ELSE got
    BY <2>5, <2>6, <2>7
  <2>. QED
    BY <1>2, <2>1, <2>2, <2>3, <2>4, <2>8, SucceedReading
<1>3. ASSUME NEW e \in ReadErrors, FailAt(stack, e) PROVE Reading'
  BY <1>1, <1>3, FailHereReading, ErrorFacts
<1>. QED
  BY <1>2, <1>3 DEF PlainBody

(* A coder begins: its values are due. *)
LEMMA CoderBodyReading ==
  ASSUME Session, Reading, NEW iface \in BOOLEAN, CoderBody(iface) PROVE Reading'
<1>1. step = "body" /\ unit \in Units /\ unit.kind = "desc" /\ stack \in Seq(Nat)
      /\ (\A i \in 1..Len(stack) : stack[i] > 0) /\ unit.subs \in Nat
  BY UnitFacts DEF CoderBody, Session, TypeOK, Coders
<1>2. CASE FailAt(stack, "unknown_name")
  BY <1>1, <1>2, FailHereReading, ErrorFacts
<1>3. CASE /\ stack' = Append(stack, unit.subs) /\ step' = "coder"
           /\ UNCHANGED <<facade, session, unit, fit, restoring, vbroken, cell, misused, caller>>
  <2>. SUFFICES ASSUME ~passed', first' = NoError PROVE Reading'
    BY DEF Reading
  <2>1. vbroken' = vbroken /\ got' = got /\ ~passed /\ first = NoError /\ rpos' = rpos /\ Here' = Here
    BY <1>3 DEF caller, session, Here
  <2>2. vbroken = NoError
    BY <1>1, <2>1 DEF Reading
  <2>3. PICK w : Owing(w, stack) /\ Here.owed = w[Len(stack)] + unit.subs /\ Delivered
    BY <1>1, <2>1, <2>2 DEF Reading, InValue
  <2>. DEFINE n == Len(stack)
              v == [k \in 0..(n + 1) |-> IF k = n + 1 THEN w[n] + unit.subs - 1 ELSE w[k]]
  <2>4. n \in Nat /\ w[n] \in Nat /\ w \in [0..n -> Int]
    BY <1>1, <2>3, OwingFacts, LenProperties DEF Owing
  <2>5. /\ Len(stack') = n + 1 /\ stack'[n + 1] = unit.subs
        /\ \A i \in 1..n : stack'[i] = stack[i]
    BY <1>1, <1>3, AppendProperties
  <2>6. /\ w[0] = 0 /\ \A k \in 1..n : w[k - 1] >= 0 /\ w[k] = w[k - 1] + stack[k] - 1
    BY <2>3 DEF Owing
  <2>. HIDE DEF n
  <2>7. /\ v \in [0..(n + 1) -> Int] /\ v[n + 1] = w[n] + unit.subs - 1
        /\ \A k \in 0..n : v[k] = w[k]
    BY <1>1, <2>4
  <2>. HIDE DEF v
  <2>8. ASSUME NEW k \in 1..(n + 1) PROVE v[k - 1] >= 0 /\ v[k] = v[k - 1] + stack'[k] - 1
    <3>1. k - 1 \in 0..n /\ v[k - 1] = w[k - 1]
      BY <2>4, <2>7
    <3>2. CASE k = n + 1
      <4>1. k - 1 = n
        BY <2>4, <3>2
      <4>. QED
        BY <2>4, <2>5, <2>7, <3>1, <3>2, <4>1
    <3>3. CASE k # n + 1
      <4>1. k \in 1..n /\ k \in 0..n
        BY <2>4, <3>3
      <4>2. v[k] = w[k] /\ stack'[k] = stack[k]
        BY <2>5, <2>7, <4>1
      <4>3. w[k - 1] >= 0 /\ w[k] = w[k - 1] + stack[k] - 1
        BY <2>6, <4>1
      <4>. QED
        BY <3>1, <4>2, <4>3
    <3>. QED
      BY <3>2, <3>3
  <2>9. v[0] = 0
    BY <2>4, <2>6, <2>7
  <2>10. \A s : s = stack' => Owing(v, s)
    BY <2>5, <2>7, <2>8, <2>9 DEF Owing
  <2>11. Here'.owed = v[n + 1] + 1
    <3>1. PICK x \in Nat, y \in Nat : x = w[n] /\ y = unit.subs
      BY <1>1, <2>4
    <3>2. Here.owed = x + y /\ v[n + 1] = x + y - 1
      BY <2>3, <2>7, <3>1 DEF n
    <3>3. Here.owed = v[n + 1] + 1
      BY <3>1, <3>2
    <3>. QED
      BY <2>1, <3>3
  <2>12. \E x : Owing(x, stack') /\ Here'.owed = x[Len(stack')] + 1
    <3>1. \A s : s = stack' => \E x : Owing(x, s) /\ Here'.owed = x[Len(s)] + 1
      BY <2>5, <2>10, <2>11
    <3>. QED
      BY <3>1
  <2>. QED
    BY <1>3, <2>1, <2>2, <2>3, <2>12 DEF Reading, InValue, Delivered
<1>. QED
  BY <1>2, <1>3 DEF CoderBody

LEMMA CoderCallsReading ==
  ASSUME Session, Reading, CoderMisuse \/ \E e : CoderCalls(e) PROVE Reading'
<1>1. /\ step = "coder" /\ step' = "coder"
      /\ UNCHANGED <<rpos, unit, stack, vbroken, first, got, passed>>
  BY DEF CoderMisuse, CoderCalls, session, caller
<1>. QED
  BY <1>1 DEF Reading, Here, InValue, Delivered

LEMMA CoderDecodeReading == ASSUME Session, Reading, CoderDecode PROVE Reading'
<1>1. step = "coder" /\ Inner > 0 /\ stack # <<>> /\ stack \in Seq(Nat)
  BY DEF CoderDecode, Session, TypeOK, Coders
<1>2. CASE CoderCalls(vbroken) \/ CoderCalls("eof")
  BY <1>2, CoderCallsReading
<1>3. CASE /\ vbroken = NoError /\ step' = "desc"
           /\ UNCHANGED <<facade, session, memo, unit, fit, restoring, vbroken, cell, stack, sub,
                          caller>>
  <2>. SUFFICES ASSUME ~passed', first' = NoError PROVE Reading'
    BY DEF Reading
  <2>1. /\ vbroken' = NoError /\ got' = got /\ ~passed /\ first = NoError /\ rpos' = rpos
        /\ stack' = stack /\ Here' = Here
    BY <1>3 DEF caller, session, Here
  <2>2. PICK w : Owing(w, stack) /\ Here.owed = w[Len(stack)] + 1 /\ Delivered
    BY <1>1, <1>3, <2>1 DEF Reading, InValue
  <2>3. w[Len(stack)] \in Nat
    <3>1. /\ w[Len(stack)] = w[Len(stack) - 1] + stack[Len(stack)] - 1
          /\ w[Len(stack) - 1] \in Nat /\ stack[Len(stack)] \in Nat
      BY <1>1, <2>2, OwingFacts
    <3>. QED
      BY <1>1, <3>1 DEF Inner
  <2>4. Here.whole = got
    <3>1. Here.owed # 0
      BY <2>2, <2>3
    <3>. QED
      BY <2>2, <3>1 DEF Delivered
  <2>. QED
    BY <1>1, <1>3, <2>1, <2>2, <2>4 DEF Reading, InValue
<1>. QED
  BY <1>2, <1>3 DEF CoderDecode

LEMMA CoderReturnReading == ASSUME Session, Reading, CoderReturn PROVE Reading'
<1>1. step = "coder" /\ TypeOK /\ stack # <<>> /\ stack \in Seq(Nat)
      /\ Outer \in Seq(Nat) /\ (\A i \in 1..Len(Outer) : Outer[i] > 0)
  BY OuterPositive DEF CoderReturn, Session, TypeOK
<1>2. CASE /\ SucceedAt(Outer)
           /\ passed' = (passed \/ Inner > 0)
           /\ UNCHANGED <<facade, session, unit, fit, restoring, vbroken, cell, misused,
                          res, first, got>>
  <2>. SUFFICES ASSUME ~passed', first' = NoError PROVE Reading'
    BY DEF Reading
  <2>1. vbroken' = vbroken /\ got' = got /\ first = NoError /\ rpos' = rpos /\ Here' = Here
    BY <1>2 DEF session, Here
  <2>2. ~passed /\ ~(Inner > 0)
    BY <1>2, Zenon
  <2>3. /\ Len(stack) \in 1..Len(stack) /\ stack[Len(stack)] \in Nat /\ Len(stack) \in Nat
        /\ stack[Len(stack)] = 0
    <3>1. Len(stack) \in 1..Len(stack) /\ Len(stack) \in Nat
      BY <1>1, EmptySeq, LenProperties
    <3>2. stack[Len(stack)] \in Nat
      BY <1>1, <3>1, ElementOfSeq
    <3>. QED
      BY <2>2, <3>1, <3>2 DEF Inner
  <2>4. vbroken = NoError
    BY <1>1, <2>1, <2>2, <2>3 DEF Reading
  <2>5. PICK w : Owing(w, stack) /\ Here.owed = w[Len(stack)] + 1 /\ Delivered
    BY <1>1, <2>1, <2>2, <2>4 DEF Reading, InValue
  <2>. DEFINE n == Len(stack) - 1
              v == [k \in 0..n |-> w[k]]
  <2>6. /\ n \in Nat /\ Len(Outer) = n
        /\ \A i \in 1..n : Outer[i] = stack[i] /\ i \in 1..Len(stack)
    BY <1>1, <2>3, OuterFacts
  <2>7. w[n] \in Nat /\ w[Len(stack)] = w[n] + 0 - 1
    BY <1>1, <2>3, <2>5, OwingFacts
  <2>8. /\ w[0] = 0 /\ \A k \in 0..n : w[k] \in Int
        /\ \A k \in 1..n : w[k - 1] >= 0 /\ w[k] = w[k - 1] + Outer[k] - 1
    <3>1. n < Len(stack) /\ \A k \in 0..n : k \in 0..Len(stack)
      BY <2>3, <2>6
    <3>2. w[0] = 0 /\ \A k \in 0..n : w[k] \in Int
      BY <2>5, <3>1 DEF Owing
    <3>3. ASSUME NEW k \in 1..n PROVE w[k - 1] >= 0 /\ w[k] = w[k - 1] + Outer[k] - 1
      BY <2>5, <2>6, <3>3 DEF Owing
    <3>. QED
      BY <3>2, <3>3
  <2>. HIDE DEF n
  <2>9. v \in [0..n -> Int] /\ \A k \in 0..n : v[k] = w[k]
    BY <2>8
  <2>. HIDE DEF v
  <2>10. Owing(v, Outer)
    <3>1. \A k \in 1..n : k - 1 \in 0..n /\ k \in 0..n
      BY <2>6
    <3>2. v[0] = 0
      BY <2>6, <2>8, <2>9
    <3>3. \A k \in 1..n : v[k - 1] >= 0 /\ v[k] = v[k - 1] + Outer[k] - 1
      BY <2>8, <2>9, <3>1
    <3>. QED
      BY <2>6, <2>9, <3>2, <3>3 DEF Owing
  <2>11. Here'.owed = v[Len(Outer)]
    <3>1. Here.owed = w[n]
      BY <2>5, <2>7
    <3>. QED
      BY <2>1, <2>6, <2>9, <3>1
  <2>12. Here'.whole = IF Here'.owed = 0 THEN got + 1 ELSE got
    BY <2>1, <2>5 DEF Delivered
  <2>. QED
    BY <1>1, <1>2, <2>1, <2>4, <2>10, <2>11, <2>12, SucceedReading
<1>3. CASE FailAt(Outer, "budget")
  BY <1>1, <1>3, FailOuterReading, ErrorFacts
<1>. QED
  BY <1>2, <1>3 DEF CoderReturn

LEMMA CoderFailReading == ASSUME Session, Reading, CoderFail PROVE Reading'
<1>1. PICK e \in CoderErrors \cup ({sub} \cap Errors) : FailAt(Outer, e)
  BY DEF CoderFail
<1>2. step = "coder" /\ e \in Errors
  BY ErrorFacts DEF CoderFail
<1>. QED
  BY <1>1, <1>2, FailOuterReading

LEMMA PanicReading == ASSUME Session, Reading, CoderPanic \/ Unwind PROVE Reading'
<1>1. CASE CoderPanic
  <2>1. /\ step \in {"coder", "header", "eof?", "desc", "body"} /\ step' = "panic"
        /\ stack' = IF step = "coder" THEN Outer ELSE stack
        /\ UNCHANGED <<rpos, vbroken, first, got, passed>>
    BY <1>1 DEF CoderPanic, session, caller
  <2>2. step = "coder" => \A i \in 1..Len(Outer) : Outer[i] > 0
    BY OuterPositive
  <2>. QED
    BY <2>1, <2>2 DEF Reading
<1>2. CASE Unwind
  <2>1. step = "panic" /\ TypeOK /\ \A i \in 1..Len(stack) : stack[i] > 0
    BY <1>2 DEF Unwind, Session, Coders
  <2>2. CASE /\ stack # <<>> /\ stack' = Outer
             /\ UNCHANGED <<facade, session, step, unit, fit, restoring, vbroken, cell, sub,
                            subTarget, misused, caller>>
    <3>1. \A i \in 1..Len(stack') : stack'[i] > 0
      BY <2>1, <2>2, OuterFacts
    <3>. QED
      BY <2>1, <2>2, <3>1 DEF Reading
  <2>3. CASE passed' = TRUE
    BY <2>3 DEF Reading
  <2>4. CASE Finish("internal_panic")
    BY <2>1, <2>4, BreakReading, ErrorFacts
  <2>. QED
    BY <1>2, <2>2, <2>3, <2>4 DEF Unwind, InCoder
<1>. QED
  BY <1>1, <1>2

LEMMA CloseReading == ASSUME Session, Reading, Close PROVE Reading'
<1>1. step = "close" /\ UNCHANGED <<rpos, vbroken>>
  BY DEF Close
<1>2. CASE cell
  BY <1>1, <1>2, BreakReading, ErrorFacts DEF Close, Break
<1>3. CASE ~cell
  <2>1. step' = "idle" /\ first' = first /\ passed' = passed /\ got' = got + 1
    BY <1>3 DEF Close, Finish
  <2>. QED
    BY <1>1, <2>1 DEF Reading, Here
<1>. QED
  BY <1>2, <1>3

LEMMA NextReading == Session /\ Reading /\ [Next]_vars => Reading'
<1>1. Reading /\ UNCHANGED vars => Reading'
  BY DEF vars, Reading, Here, InValue, Delivered
<1>. QED
  BY <1>1, OuterStepsReading, AtEOFReading, ReadDescReading, MatchReading, PlainBodyReading,
     CoderBodyReading, CoderCallsReading, CoderDecodeReading, CoderReturnReading,
     CoderFailReading, PanicReading, CloseReading
  DEF Next

-----------------------------------------------------------------------------
(* The end of the stream.                                                  *)

(* A clean end is reported at the end, and stands for as long as nothing   *)
(* else is returned; a value is delivered with a result of its own.        *)
LEMMA EndReported ==
  ASSUME Session, Next
  PROVE  /\ passed => passed'
         /\ res' = "eof" => \/ res = "eof" /\ got' = got
                            \/ step = "eof?" /\ rpos = Len(Stream) /\ got' = got
<1>1. \A e \in Errors : Mapped(e) # "eof"
  BY MappedFacts, ErrorFacts
<1>2. ASSUME NEW e \in Errors \cup {NoError}, Finish(e) PROVE passed' = passed /\ res' # "eof"
  BY <1>1, <1>2, MappedFacts, ErrorFacts DEF Finish
<1>3. ASSUME NEW left, NEW e \in Errors, FailAt(left, e)
      PROVE  passed' = passed /\ (res' = "eof" => res = "eof" /\ got' = got)
  BY <1>2, <1>3 DEF FailAt, Break, caller
<1>4. ASSUME NEW f \in Fits, Decode(f)
      PROVE  passed' = passed /\ (res' = "eof" => res = "eof" /\ got' = got)
  <2>1. err # "eof" /\ broken # "eof"
    BY ErrorFacts DEF Session, TypeOK
  <2>. QED
    BY <1>4, <2>1 DEF Decode
<1>5. DecodeMisused \/ ReadHeader => passed' = passed /\ (res' = "eof" => res = "eof" /\ got' = got)
  BY <1>2, ErrorFacts DEF DecodeMisused, ReadHeader, Break, caller
<1>6. AtEOF => /\ passed' = passed
               /\ res' = "eof" => \/ res = "eof" /\ got' = got
                                  \/ step = "eof?" /\ rpos = Len(Stream) /\ got' = got
  <2>1. Finish("eof") => passed' = passed /\ got' = got
    BY ErrorFacts DEF Finish
  <2>2. Break("truncated") => passed' = passed /\ res' # "eof"
    BY <1>2, ErrorFacts DEF Break
  <2>. QED
    BY <2>1, <2>2 DEF AtEOF, caller
<1>7. ReadDesc \/ Match \/ MatchSub \/ WritePart
        => passed' = passed /\ (res' = "eof" => res = "eof" /\ got' = got)
  BY <1>2, <1>3, ErrorFacts DEF ReadDesc, Match, MatchSub, WritePart, Break, caller
<1>8. PlainBody => passed' = passed /\ (res' = "eof" => res = "eof" /\ got' = got)
  BY <1>3, ErrorFacts DEF PlainBody
<1>9. \A iface \in BOOLEAN :
        CoderBody(iface) => passed' = passed /\ (res' = "eof" => res = "eof" /\ got' = got)
  BY <1>3, ErrorFacts DEF CoderBody, caller
<1>10. CoderDecode \/ CoderMisuse => passed' = passed /\ (res' = "eof" => res = "eof" /\ got' = got)
  BY DEF CoderDecode, CoderMisuse, CoderCalls, caller
<1>11. CoderReturn => (passed => passed') /\ (res' = "eof" => res = "eof" /\ got' = got)
  <2>1. FailAt(Outer, "budget") => passed' = passed /\ (res' = "eof" => res = "eof" /\ got' = got)
    BY <1>3, ErrorFacts
  <2>. QED
    BY <2>1, Zenon DEF CoderReturn
<1>12. CoderFail => passed' = passed /\ (res' = "eof" => res = "eof" /\ got' = got)
  <2>. SUFFICES ASSUME CoderFail
                PROVE  passed' = passed /\ (res' = "eof" => res = "eof" /\ got' = got)
    OBVIOUS
  <2>1. PICK e \in CoderErrors \cup ({sub} \cap Errors) : FailAt(Outer, e)
    BY DEF CoderFail
  <2>2. e \in Errors
    BY ErrorFacts
  <2>. QED
    BY <1>3, <2>1, <2>2
<1>13. CoderPanic \/ Unwind => (passed => passed') /\ (res' = "eof" => res = "eof" /\ got' = got)
  BY <1>2, ErrorFacts DEF CoderPanic, Unwind, caller
<1>14. Close => passed' = passed /\ (res' = "eof" => res = "eof" /\ got' = got)
  BY <1>2, ErrorFacts DEF Close, Break
<1>15. \A c \in Names : RegisterCoder(c) \/ RegisterReserved(c)
         => passed' = passed /\ (res' = "eof" => res = "eof" /\ got' = got)
  BY DEF RegisterCoder, RegisterReserved, caller
<1>. QED
  BY <1>4, <1>5, <1>6, <1>7, <1>8, <1>9, <1>10, <1>11, <1>12, <1>13, <1>14, <1>15 DEF Next

LEMMA NextEnd ==
  Session /\ Reading /\ EndMeansAllDelivered /\ [Next]_vars => EndMeansAllDelivered'
<1>. SUFFICES ASSUME Session, Reading, EndMeansAllDelivered, Next PROVE EndMeansAllDelivered'
  BY DEF vars, EndMeansAllDelivered
<1>. SUFFICES ASSUME res' = "eof", ~passed' PROVE got' = NumValues
  BY DEF EndMeansAllDelivered
<1>1. ~passed
  BY EndReported
<1>2. CASE res = "eof" /\ got' = got
  BY <1>1, <1>2 DEF EndMeansAllDelivered
<1>3. CASE step = "eof?" /\ rpos = Len(Stream) /\ got' = got
  <2>1. first = NoError
    BY <1>3 DEF Session, Layers
  <2>. QED
    BY <1>1, <1>3, <2>1 DEF Reading, Here, NumValues
<1>. QED
  BY <1>2, <1>3, EndReported

-----------------------------------------------------------------------------
(* The theorems.                                                           *)

LEMMA NextIInv == IInv /\ [Next]_vars => IInv'
  BY NextSession, NextMemo, NextReading, NextEnd DEF IInv

(* The inductive invariant of a Decoder. *)
THEOREM Invariance == Spec => []IInv
  BY InitIInv, NextIInv, PTL DEF Spec

(* Every variable of the three layers keeps its type. *)
THEOREM TypeCorrectness == Spec => []TypeOK
<1>1. IInv => TypeOK
  BY DEF IInv, Session
<1>. QED
  BY <1>1, Invariance, PTL

(* A Decode that fails, at any depth of coders and by an error or a panic, *)
(* leaves the caller's target as it was (codecStreamDecoder.Decode and its *)
(* rootRestore), a pending cell behind a gap target aside.                 *)
THEOREM Atomicity == Spec => []FailedDecodeRestores
<1>1. IInv => FailedDecodeRestores
  BY DEF IInv, Session
<1>. QED
  BY <1>1, Invariance, PTL

(* A Decode that reports the end of the stream has delivered every value   *)
(* of it before, for any stream and coders nested to any depth, unless a   *)
(* coder passed over an error (codecStreamDecoder.Decode, decodeSub).      *)
THEOREM CleanEnd == Spec => []EndMeansAllDelivered
<1>1. IInv => EndMeansAllDelivered
  BY DEF IInv
<1>. QED
  BY <1>1, Invariance, PTL

(* What the stream remembers of a type's coder (decShared.cc) is what the  *)
(* registry says.                                                          *)
THEOREM MemoExact == Spec => []MemoFresh
<1>1. IInv => MemoFresh
  BY DEF IInv
<1>. QED
  BY <1>1, Invariance, PTL

(* After the first error nothing is read, and every Decode returns that    *)
(* error, whichever of Decoder.err and codecStreamDecoder.broken keeps it. *)
THEOREM Stickiness == Spec => StickyError
<1>1. IInv /\ [Next]_vars
        => [first # NoError =>
              /\ UNCHANGED <<rpos, started, got>>
              /\ res' \in {res, first} \cup (IF IsEOF(first) THEN {"misuse"} ELSE {})]_vars
  <2>1. ASSUME IInv, Next, first # NoError
        PROVE  /\ UNCHANGED <<rpos, started, got>>
               /\ res' \in {res, first} \cup (IF IsEOF(first) THEN {"misuse"} ELSE {})
    <3>1. /\ step = "idle"
          /\ IF IsEOF(first) THEN err = NoError /\ broken = first ELSE err = first
      BY <2>1 DEF IInv, Session, Layers
    <3>2. \/ \E f \in Fits : Decode(f)
          \/ DecodeMisused
          \/ \E c \in Names : RegisterCoder(c) \/ RegisterReserved(c)
      BY <2>1, <3>1
      DEF Next, ReadHeader, AtEOF, ReadDesc, Match, MatchSub, WritePart, PlainBody, CoderBody,
          CoderDecode, CoderCalls, CoderMisuse, CoderReturn, CoderFail, CoderPanic, Unwind, Close
    <3>3. ASSUME NEW f \in Fits, Decode(f)
          PROVE  UNCHANGED <<rpos, started, got>> /\ res' = first
      BY <2>1, <3>1, <3>3 DEF Decode, session
    <3>4. DecodeMisused => UNCHANGED <<rpos, started, got>> /\ res' = "misuse" /\ IsEOF(first)
      BY <2>1, <3>1 DEF DecodeMisused, session
    <3>5. ASSUME NEW c \in Names, RegisterCoder(c) \/ RegisterReserved(c)
          PROVE  UNCHANGED <<rpos, started, got>> /\ res' = res
      BY <3>5 DEF RegisterCoder, RegisterReserved, session, caller
    <3>. QED
      BY <3>2, <3>3, <3>4, <3>5
  <2>. QED
    BY <2>1
<1>. QED
  BY <1>1, Invariance, PTL DEF Spec, StickyError
=============================================================================
