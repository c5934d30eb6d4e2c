------------------------- MODULE InternSpaceProofs -------------------------
(***************************************************************************)
(* Proofs for InternSpace, for a Writer that keeps to the shapes the       *)
(* Reader counts alike (Gaps = {}): whatever the program's types, the      *)
(* values, their length and the fields a target lacks, both sides give the *)
(* same ids to the same records.                                           *)
(*                                                                         *)
(* The Reader starts when the stream is complete, and follows positions    *)
(* the Writer has long left.  The invariant therefore speaks of the past   *)
(* of the stream: there is one that explains the wire and the Writer's     *)
(* tables (InternWriterProofs), and the Reader's table, positions and      *)
(* cursor agree with one of its moments (Match).  A step of the Reader     *)
(* goes on by one moment, or by more where it takes several at once.       *)
(***************************************************************************)
EXTENDS InternWriterProofs

-----------------------------------------------------------------------------
(***************************************************************************)
(* What the Reader has read, at a later moment.                            *)
(***************************************************************************)

(* The Reader's entries and positions at a later moment. *)
LEMMA NamesLater ==
  ASSUME NEW tab, NEW c \in Nat, NEW c2 \in Nat, c <= c2, NEW id, NEW d, Names(tab, c, id, d)
  PROVE  Names(tab, c2, id, d)
  BY DEF Names, Owned

LEMMA FitsLater ==
  ASSUME NEW tab, NEW dr, NEW c \in Nat, NEW c2 \in Nat, c <= c2, NEW e, NEW p, Fits(tab, dr, c, e, p)
  PROVE  Fits(tab, dr, c2, e, p)
<1>1. \A id, d : Names(tab, c, id, d) => Names(tab, c2, id, d)
  BY NamesLater
<1>. QED
  BY <1>1 DEF Fits

(* The parts of a descriptor's entry. *)
HasParts(tab, c, a, i, e, b) ==
  /\ e.kind = Kind[b]
  /\ e.name = IF Pending(a, "name", i - 1, 0) THEN "" ELSE Name[b]
  /\ Len(e.fields) <= Len(Fields[b])
  /\ \A j \in 1 .. Len(e.fields) : e.fields[j] = Fields[b][j]
  /\ \A j \in 1 .. Len(Fields[b]) : Pending(a, "name", i - 1, j) <=> j > Len(e.fields)
  /\ Len(e.kids) <= Len(Kids[b])
  /\ \A j \in 1 .. Len(e.kids) : Names(tab, c, e.kids[j], Kids[b][j])
  /\ \A j \in 1 .. Len(Kids[b]) : Pending(a, "kid", i - 1, j) <=> j > Len(e.kids)

(* An entry of a descriptor, the descriptor named. *)
LEMMA DescForm ==
  ASSUME NEW tab, NEW c, NEW a, NEW i, NEW e
  PROVE  HoldsDesc(tab, c, a, i, e) <=> HasParts(tab, c, a, i, e, tab[i].of)
  BY Zenon DEF HoldsDesc, HasParts

(* With no part outstanding an entry is complete. *)
LEMMA NoneMissing ==
  ASSUME NEW tab, NEW c, NEW a, NEW i, NEW e, NEW b, HasParts(tab, c, a, i, e, b),
         \A j : ~Pending(a, "name", i - 1, j) /\ ~Pending(a, "kid", i - 1, j)
  PROVE  /\ e.kind = Kind[b] /\ e.name = Name[b]
         /\ Len(e.fields) <= Len(Fields[b]) /\ \A j \in 1 .. Len(e.fields) : e.fields[j] = Fields[b][j]
         /\ \A j \in 1 .. Len(Fields[b]) : ~(j > Len(e.fields))
         /\ Len(e.kids) <= Len(Kids[b])
         /\ \A j \in 1 .. Len(e.kids) : Names(tab, c, e.kids[j], Kids[b][j])
         /\ \A j \in 1 .. Len(Kids[b]) : ~(j > Len(e.kids))
<1>1. e.name = Name[b] /\ e.kind = Kind[b]
  BY DEF HasParts
<1>2. /\ \A j \in 1 .. Len(Fields[b]) : ~(j > Len(e.fields))
      /\ \A j \in 1 .. Len(Kids[b]) : ~(j > Len(e.kids))
  BY Zenon DEF HasParts
<1>3. /\ Len(e.fields) <= Len(Fields[b]) /\ \A j \in 1 .. Len(e.fields) : e.fields[j] = Fields[b][j]
      /\ Len(e.kids) <= Len(Kids[b])
      /\ \A j \in 1 .. Len(e.kids) : Names(tab, c, e.kids[j], Kids[b][j])
  BY Zenon DEF HasParts
<1>. QED
  BY <1>1, <1>2, <1>3

(* The entry of id i - 1 is not touched. *)
Untouched(tab, dr, c, c2, a, a2, i, e) ==
  /\ c \in Nat /\ c2 \in Nat /\ c <= c2 /\ Holds(tab, dr, c, a, i, e)
  /\ e.sort = "desc" =>
       \A j : /\ Pending(a2, "name", i - 1, j) <=> Pending(a, "name", i - 1, j)
              /\ Pending(a2, "kid", i - 1, j) <=> Pending(a, "kid", i - 1, j)
  /\ e.sort \in {"map", "array", "value"} =>
       (Pending(a2, "name", e.of, 0) => Pending(a, "name", e.of, 0))

(* An entry holds later, if none of its parts was taken. *)
LEMMA HoldsLater ==
  ASSUME NEW tab, NEW dr, NEW c, NEW c2, NEW a, NEW a2, NEW i, NEW e,
         Untouched(tab, dr, c, c2, a, a2, i, e)
  PROVE  Holds(tab, dr, c2, a2, i, e)
<1>0. /\ c \in Nat /\ c2 \in Nat /\ c <= c2 /\ Holds(tab, dr, c, a, i, e)
      /\ e.sort = "desc" =>
           \A j : /\ Pending(a2, "name", i - 1, j) <=> Pending(a, "name", i - 1, j)
                  /\ Pending(a2, "kid", i - 1, j) <=> Pending(a, "kid", i - 1, j)
      /\ e.sort \in {"map", "array", "value"} =>
           (Pending(a2, "name", e.of, 0) => Pending(a, "name", e.of, 0))
  BY DEF Untouched
<1>1. \A id, d : Names(tab, c, id, d) => Names(tab, c2, id, d)
  BY <1>0, NamesLater
<1>2. ASSUME e.sort = "desc" PROVE HoldsDesc(tab, c2, a2, i, e)
  <2>1. HoldsDesc(tab, c, a, i, e)
    BY <1>0, <1>2 DEF Holds
  <2>2. /\ \A j : Pending(a2, "name", i - 1, j) <=> Pending(a, "name", i - 1, j)
        /\ \A j : Pending(a2, "kid", i - 1, j) <=> Pending(a, "kid", i - 1, j)
    BY <1>0, <1>2
  <2>3. HasParts(tab, c, a, i, e, tab[i].of)
    BY <2>1, DescForm
  <2>4. HasParts(tab, c2, a2, i, e, tab[i].of)
    BY <1>1, <2>2, <2>3 DEF HasParts
  <2>. QED
    BY <2>4, DescForm
<1>3. ASSUME e.sort \in {"map", "array", "value"}
      PROVE  IF e.live THEN Names(tab, c2, e.of, tab[i].of) /\ ~Pending(a2, "name", e.of, 0) ELSE dr # {}
  BY <1>0, <1>1, <1>3 DEF Holds
<1>4. e \in REntry /\ e.sort = tab[i].sort /\ (e.sort = "str" => e.s = tab[i].of)
  BY <1>0 DEF Holds
<1>. QED
  BY <1>2, <1>3, <1>4 DEF Holds

(* A read where no part of a descriptor is outstanding. *)
ReadsOn(w, tab, dr, rt, ex, ps, g, h, more, n, c, rt2, more2) ==
  /\ Match(tab, dr, rt, ex, ps, g) /\ Stage(w, tab, g) /\ Stage(w, tab, h)
  /\ ex # <<>> /\ ~Slot(Head(g.a)) /\ NoSlots(g.a)
  /\ more \in Seq(Position) /\ NoSlots(more) /\ Turn(g, h, more, n, c)
  /\ n \in Nat /\ c \in Nat
  /\ rt2 \in Seq(REntry) /\ Len(rt2) = Len(rt) + c /\ \A i \in 1 .. Len(rt) : rt2[i] = rt[i]
  /\ \A i \in Len(rt) + 1 .. Len(rt2) : Holds(tab, dr, h.c, h.a, i, rt2[i])
  /\ more2 \in Seq(RPosition) /\ Len(more2) = Len(more)
  /\ \A x \in 1 .. Len(more) : Fits(tab, dr, h.c, more2[x], more[x])

(* What a match gives. *)
LEMMA MatchForm ==
  ASSUME NEW tab, NEW dr, NEW rt, NEW ex, NEW ps, NEW h, Match(tab, dr, rt, ex, ps, h), h \in Moment
  PROVE  /\ ps = h.n /\ rt \in Seq(REntry) /\ Len(rt) = h.c /\ ex \in Seq(RPosition) /\ Len(ex) = Len(h.a)
         /\ h.c \in Nat /\ h.n \in Nat /\ h.a \in Seq(Position) /\ (ex = <<>> <=> h.a = <<>>)
         /\ \A x \in 1 .. Len(ex) : Fits(tab, dr, h.c, ex[x], h.a[x])
         /\ \A i \in 1 .. Len(rt) : Holds(tab, dr, h.c, h.a, i, rt[i]) /\ rt[i] \in REntry
<1>1. h.a \in Seq(Position) /\ h.n \in Nat /\ h.c \in Nat
  BY MomentForm
<1>2. ex \in Seq(RPosition) /\ Len(ex) = Len(h.a)
  BY DEF Match
<1>3. \A S, T : \A u \in Seq(S), v \in Seq(T) : Len(u) = Len(v) => (u = <<>> <=> v = <<>>)
  OBVIOUS
<1>4. ex = <<>> <=> h.a = <<>>
  BY <1>1, <1>2, <1>3
<1>5. \A i \in 1 .. Len(rt) : rt[i] \in REntry
  BY DEF Match
<1>. QED
  BY <1>1, <1>2, <1>4, <1>5 DEF Match

(* Positions in front of the rest. *)
Fronts(tab, dr, c, c2, ex, a, more, more2) ==
  /\ c \in Nat /\ c2 \in Nat /\ c <= c2
  /\ ex \in Seq(RPosition) /\ a \in Seq(Position) /\ Len(ex) = Len(a) /\ ex # <<>> /\ a # <<>>
  /\ \A x \in 1 .. Len(ex) : Fits(tab, dr, c, ex[x], a[x])
  /\ more \in Seq(Position) /\ more2 \in Seq(RPosition) /\ Len(more2) = Len(more)
  /\ \A x \in 1 .. Len(more) : Fits(tab, dr, c2, more2[x], more[x])

LEMMA FitsTurn ==
  ASSUME NEW tab, NEW dr, NEW c, NEW c2, NEW ex, NEW a, NEW more, NEW more2,
         Fronts(tab, dr, c, c2, ex, a, more, more2)
  PROVE  /\ more2 \o Tail(ex) \in Seq(RPosition) /\ Len(more2 \o Tail(ex)) = Len(more \o Tail(a))
         /\ \A x \in 1 .. Len(more2 \o Tail(ex)) :
              Fits(tab, dr, c2, (more2 \o Tail(ex))[x], (more \o Tail(a))[x])
<1>. DEFINE ex2 == more2 \o Tail(ex)
            a2 == more \o Tail(a)
<1>0. /\ c \in Nat /\ c2 \in Nat /\ c <= c2
      /\ ex \in Seq(RPosition) /\ a \in Seq(Position) /\ Len(ex) = Len(a) /\ ex # <<>> /\ a # <<>>
      /\ \A x \in 1 .. Len(ex) : Fits(tab, dr, c, ex[x], a[x])
      /\ more \in Seq(Position) /\ more2 \in Seq(RPosition) /\ Len(more2) = Len(more)
      /\ \A x \in 1 .. Len(more) : Fits(tab, dr, c2, more2[x], more[x])
  BY DEF Fronts
<1>. DEFINE t == Tail(ex)
            s == Tail(a)
<1>1. /\ t \in Seq(RPosition) /\ Len(t) = Len(ex) - 1 /\ \A x \in 1 .. Len(t) : t[x] = ex[x + 1]
      /\ Len(ex) \in Nat
  BY <1>0, TailFacts
<1>2. /\ s \in Seq(Position) /\ Len(s) = Len(a) - 1 /\ \A x \in 1 .. Len(s) : s[x] = a[x + 1]
  BY <1>0, TailFacts
<1>. HIDE DEF t, s
<1>3. ASSUME NEW x \in 1 .. Len(t) PROVE Fits(tab, dr, c2, t[x], s[x])
  <2>1. x + 1 \in 1 .. Len(ex) /\ t[x] = ex[x + 1] /\ s[x] = a[x + 1]
    BY <1>1, <1>2, <1>0
  <2>2. Fits(tab, dr, c, t[x], s[x])
    BY <1>0, <2>1
  <2>. QED
    BY <1>0, <2>2, FitsLater
<1>e. ex2 = more2 \o t /\ a2 = more \o s
  BY DEF ex2, a2, t, s
<1>. HIDE DEF ex2, a2
<1>4. /\ ex2 \in Seq(RPosition) /\ Len(ex2) = Len(more2) + Len(t)
      /\ \A x \in 1 .. Len(more2) : ex2[x] = more2[x]
      /\ \A x \in 1 .. Len(t) : ex2[Len(more2) + x] = t[x]
      /\ \A x \in 1 .. Len(ex2) : x \in 1 .. Len(more2) \/ x - Len(more2) \in 1 .. Len(t)
      /\ Len(more2) \in Nat /\ Len(t) \in Nat
  <2>1. more2 \in Seq(RPosition) /\ t \in Seq(RPosition)
    BY <1>0, <1>1
  <2>2. /\ more2 \o t \in Seq(RPosition) /\ Len(more2 \o t) = Len(more2) + Len(t)
        /\ \A x \in 1 .. Len(more2) : (more2 \o t)[x] = more2[x]
        /\ \A x \in 1 .. Len(t) : (more2 \o t)[Len(more2) + x] = t[x]
        /\ Len(more2) \in Nat /\ Len(t) \in Nat
    BY <2>1, ConcatFacts
  <2>3. \A x \in 1 .. Len(more2 \o t) : x \in 1 .. Len(more2) \/ x - Len(more2) \in 1 .. Len(t)
    BY <2>2
  <2>. QED
    BY <1>e, <2>2, <2>3
<1>5. /\ Len(a2) = Len(more) + Len(s)
      /\ \A x \in 1 .. Len(more) : a2[x] = more[x]
      /\ \A x \in 1 .. Len(s) : a2[Len(more) + x] = s[x]
  <2>1. more \in Seq(Position) /\ s \in Seq(Position)
    BY <1>0, <1>2
  <2>2. /\ Len(more \o s) = Len(more) + Len(s)
        /\ \A x \in 1 .. Len(more) : (more \o s)[x] = more[x]
        /\ \A x \in 1 .. Len(s) : (more \o s)[Len(more) + x] = s[x]
    BY <2>1, ConcatFacts
  <2>. QED
    BY <1>e, <2>2
<1>6. Len(ex2) = Len(a2) /\ Len(t) = Len(s)
  BY <1>0, <1>1, <1>2, <1>4, <1>5
<1>7. ASSUME NEW x \in 1 .. Len(ex2) PROVE Fits(tab, dr, c2, ex2[x], a2[x])
  <2>1. CASE x \in 1 .. Len(more2)
    BY <1>0, <1>4, <1>5, <2>1
  <2>2. CASE x - Len(more2) \in 1 .. Len(t)
    <3>. DEFINE y == x - Len(more2)
    <3>1. y \in 1 .. Len(t) /\ x = Len(more2) + y
      BY <1>4, <2>2
    <3>. HIDE DEF y
    <3>2. ex2[x] = t[y] /\ a2[x] = s[y]
      BY <1>0, <1>4, <1>5, <1>6, <3>1
    <3>. QED
      BY <1>3, <3>1, <3>2
  <2>. QED
    BY <1>4, <2>1, <2>2
<1>. QED
  BY <1>4, <1>6, <1>7 DEF ex2, a2

(* A read that takes no part leads to the next moment. *)
LEMMA Advance ==
  ASSUME NEW w, NEW tab, NEW dr, NEW rt, NEW ex, NEW ps, NEW g, NEW h, NEW more, NEW n, NEW c,
         NEW rt2, NEW more2, ReadsOn(w, tab, dr, rt, ex, ps, g, h, more, n, c, rt2, more2)
  PROVE  Match(tab, dr, rt2, more2 \o Tail(ex), ps + n, h)
<1>1. /\ Match(tab, dr, rt, ex, ps, g) /\ g \in Moment /\ h \in Moment /\ ex # <<>>
      /\ NoSlots(g.a) /\ Turn(g, h, more, n, c) /\ n \in Nat /\ c \in Nat
  BY DEF ReadsOn, Stage
<1>2. /\ more \in Seq(Position) /\ NoSlots(more)
      /\ more2 \in Seq(RPosition) /\ Len(more2) = Len(more)
      /\ \A x \in 1 .. Len(more) : Fits(tab, dr, h.c, more2[x], more[x])
  BY DEF ReadsOn
<1>3. /\ rt2 \in Seq(REntry) /\ Len(rt2) = Len(rt) + c /\ \A i \in 1 .. Len(rt) : rt2[i] = rt[i]
      /\ \A i \in Len(rt) + 1 .. Len(rt2) : Holds(tab, dr, h.c, h.a, i, rt2[i])
  BY DEF ReadsOn
<1>4. /\ ps = g.n /\ rt \in Seq(REntry) /\ Len(rt) = g.c /\ ex \in Seq(RPosition) /\ Len(ex) = Len(g.a)
      /\ g.c \in Nat /\ g.n \in Nat /\ g.a \in Seq(Position) /\ g.a # <<>>
      /\ \A x \in 1 .. Len(ex) : Fits(tab, dr, g.c, ex[x], g.a[x])
      /\ \A i \in 1 .. Len(rt) : Holds(tab, dr, g.c, g.a, i, rt[i])
  BY <1>1, MatchForm
<1>5. h.a = more \o Tail(g.a) /\ h.n = g.n + n /\ h.c = g.c + c
  BY <1>1, TurnForm
<1>6. h.c \in Nat /\ g.c <= h.c
  BY <1>1, <1>4, <1>5
<1>7. NoSlots(h.a)
  <2>1. Tail(g.a) \in Seq(Position) /\ NoSlots(Tail(g.a))
    BY <1>1, <1>4, TailFacts, TailSlots
  <2>. QED
    BY <1>2, <1>5, <2>1, ConcatSlots
<1>. DEFINE ex2 == more2 \o Tail(ex)
<1>8. /\ ex2 \in Seq(RPosition) /\ Len(ex2) = Len(h.a)
      /\ \A x \in 1 .. Len(ex2) : Fits(tab, dr, h.c, ex2[x], h.a[x])
  <2>1. Fronts(tab, dr, g.c, h.c, ex, g.a, more, more2)
    BY <1>1, <1>2, <1>4, <1>6 DEF Fronts
  <2>2. /\ ex2 \in Seq(RPosition) /\ Len(ex2) = Len(more \o Tail(g.a))
        /\ \A x \in 1 .. Len(ex2) : Fits(tab, dr, h.c, ex2[x], (more \o Tail(g.a))[x])
    BY <2>1, FitsTurn
  <2>. HIDE DEF ex2
  <2>. QED
    BY <1>5, <2>2
<1>. HIDE DEF ex2
<1>9. ASSUME NEW i \in 1 .. Len(rt2) PROVE Holds(tab, dr, h.c, h.a, i, rt2[i])
  <2>1. CASE i \in 1 .. Len(rt)
    <3>1. /\ \A k \in {"name", "kid"} : \A o, j : ~Pending(h.a, k, o, j)
          /\ \A k \in {"name", "kid"} : \A o, j : ~Pending(g.a, k, o, j)
      BY <1>1, <1>7, NonePending
    <3>2. Holds(tab, dr, g.c, g.a, i, rt[i]) /\ rt2[i] = rt[i]
      BY <1>3, <1>4, <2>1
    <3>3. Untouched(tab, dr, g.c, h.c, g.a, h.a, i, rt2[i])
      BY <1>4, <1>6, <3>1, <3>2 DEF Untouched
    <3>. QED
      BY <3>3, HoldsLater
  <2>2. CASE i \notin 1 .. Len(rt)
    <3>1. i \in Len(rt) + 1 .. Len(rt2)
      BY <1>3, <1>4, <2>2
    <3>. QED
      BY <1>3, <3>1
  <2>. QED
    BY <2>1, <2>2
<1>. QED
  BY <1>3, <1>4, <1>5, <1>8, <1>9 DEF Match, ex2

(* What the Reader has of a descriptor that it has read in full. *)
LEMMA BodyKnown ==
  ASSUME NEW tab, NEW dr, NEW rt, NEW ex, NEW ps, NEW g, Match(tab, dr, rt, ex, ps, g), g \in Moment,
         NoSlots(g.a), NEW id, NEW d, Names(tab, g.c, id, d), NEW r, r = rt[id + 1]
  PROVE  /\ id \in Nat /\ id + 1 \in 1 .. Len(rt) /\ r \in REntry /\ d \in Descs
         /\ r.sort = "desc" /\ r.kind = Kind[d] /\ r.name = Name[d]
         /\ r.fields = Fields[d] /\ DOMAIN r.kids = 1 .. Len(Kids[d]) /\ r.kids \in Seq(Nat)
         /\ \A j \in 1 .. Len(Kids[d]) : Names(tab, g.c, r.kids[j], Kids[d][j])
<1>. DEFINE b == tab[id + 1].of
<1>1. id \in Nat /\ id < g.c /\ tab[id + 1].sort = "desc" /\ Alike(b, d)
  BY DEF Names, Owned
<1>2. b \in Descs /\ d \in Descs /\ Same(b, d)
  BY <1>1, AlikeType
<1>3. /\ Len(rt) = g.c /\ g.c \in Nat /\ \A i \in 1 .. Len(rt) : Holds(tab, dr, g.c, g.a, i, rt[i]) /\ rt[i] \in REntry
  BY MatchForm
<1>4. id + 1 \in 1 .. Len(rt)
  BY <1>1, <1>3
<1>5. r \in REntry /\ r.sort = "desc" /\ HoldsDesc(tab, g.c, g.a, id + 1, r)
  BY <1>1, <1>3, <1>4 DEF Holds
<1>6. r.fields \in Seq(DOMAIN Hash) /\ r.kids \in Seq(Nat)
  BY <1>5 DEF REntry
<1>7. \A o, j : ~Pending(g.a, "name", o, j) /\ ~Pending(g.a, "kid", o, j)
  BY NonePending
<1>8. /\ r.kind = Kind[b] /\ r.name = Name[b]
      /\ Len(r.fields) <= Len(Fields[b]) /\ \A j \in 1 .. Len(r.fields) : r.fields[j] = Fields[b][j]
      /\ \A j \in 1 .. Len(Fields[b]) : ~(j > Len(r.fields))
      /\ Len(r.kids) <= Len(Kids[b])
      /\ \A j \in 1 .. Len(r.kids) : Names(tab, g.c, r.kids[j], Kids[b][j])
      /\ \A j \in 1 .. Len(Kids[b]) : ~(j > Len(r.kids))
  <2>. DEFINE k == id + 1
              a == g.a
  <2>1. HasParts(tab, g.c, a, k, r, b)
    BY <1>5, DescForm
  <2>. HIDE DEF b
  <2>2. \A j : ~Pending(a, "name", k - 1, j) /\ ~Pending(a, "kid", k - 1, j)
    BY <1>7, Zenon
  <2>. HIDE DEF k, a
  <2>. QED
    BY <2>1, <2>2, NoneMissing
<1>. HIDE DEF b
<1>9. Len(Fields[b]) \in Nat /\ Len(Kids[b]) \in Nat /\ Fields[b] \in Seq(DOMAIN Hash)
  BY <1>2, KidFacts, DescFacts
<1>10. Len(r.fields) = Len(Fields[b]) /\ Len(r.kids) = Len(Kids[b])
  <2>1. \A m, n \in Nat : m <= n /\ (\A j \in 1 .. n : ~(j > m)) => m = n
    <3>. SUFFICES ASSUME NEW m \in Nat, NEW n \in Nat, m <= n, \A j \in 1 .. n : ~(j > m) PROVE m = n
      OBVIOUS
    <3>1. CASE m < n
      <4>1. n \in 1 .. n /\ n > m
        BY <3>1
      <4>. QED
        BY <4>1
    <3>. QED
      BY <3>1
  <2>2. Len(r.fields) \in Nat /\ Len(r.kids) \in Nat
    BY <1>6
  <2>. QED
    BY <1>8, <1>9, <2>1, <2>2
<1>11. r.fields = Fields[b]
  <2>1. \A u, v \in Seq(DOMAIN Hash) : Len(u) = Len(v) /\ (\A j \in 1 .. Len(u) : u[j] = v[j]) => u = v
    OBVIOUS
  <2>2. \A j \in 1 .. Len(r.fields) : r.fields[j] = Fields[b][j]
    BY <1>8
  <2>. QED
    BY <1>6, <1>9, <1>10, <2>1, <2>2
<1>12. Kind[b] = Kind[d] /\ Name[b] = Name[d] /\ Fields[b] = Fields[d] /\ Len(Kids[b]) = Len(Kids[d])
  BY <1>2 DEF Same
<1>13. ASSUME NEW j \in 1 .. Len(Kids[d]) PROVE Names(tab, g.c, r.kids[j], Kids[d][j])
  <2>1. j \in 1 .. Len(Kids[b]) /\ j \in 1 .. Len(r.kids)
    BY <1>10, <1>12
  <2>2. Names(tab, g.c, r.kids[j], Kids[b][j])
    BY <1>8, <2>1
  <2>3. Alike(Kids[b][j], Kids[d][j])
    BY <1>1, <2>1, AlikeKids DEF b
  <2>. QED
    BY <2>2, <2>3, AlikeOn DEF Names
<1>14. DOMAIN r.kids = 1 .. Len(Kids[d])
  BY <1>6, <1>10, <1>12
<1>. QED
  BY <1>1, <1>2, <1>4, <1>5, <1>6, <1>8, <1>11, <1>12, <1>13, <1>14

(* A descriptor has one id: names are claimed once. *)
LEMMA OneId ==
  ASSUME NEW tab, OneName(tab), NEW c, c <= Len(tab), c \in Nat, Len(tab) \in Nat,
         NEW i, NEW j, NEW d, Names(tab, c, i, d), Names(tab, c, j, d)
  PROVE  i = j
<1>1. /\ i \in Nat /\ i + 1 \in 1 .. Len(tab) /\ tab[i + 1].sort = "desc"
      /\ j \in Nat /\ j + 1 \in 1 .. Len(tab) /\ tab[j + 1].sort = "desc"
      /\ Alike(tab[i + 1].of, d) /\ Alike(tab[j + 1].of, d)
  BY DEF Names, Owned
<1>2. Name[tab[i + 1].of] = Name[tab[j + 1].of]
  BY <1>1, AlikeType DEF Same
<1>3. i + 1 = j + 1
  BY <1>1, <1>2 DEF OneName
<1>. QED
  BY <1>1, <1>3

-----------------------------------------------------------------------------
(***************************************************************************)
(* A step of the Reader.                                                   *)
(***************************************************************************)

(* The Reader stands at moment i of the past; where a step of it may lead. *)
Standing(H, i) ==
  /\ WInv(H, wire, wtab, drop, todo, strs, claims) /\ todo = <<>>
  /\ i \in 1 .. Len(H) /\ Match(wtab, drop, rtab, expect, pos, H[i])

Reached(H) == \E j \in 1 .. Len(H) : Match(wtab, drop, rtab', expect', pos', H[j])

Good(H) ==
  \/ err' = err /\ UNCHANGED <<wvars, drop>> /\ Reached(H)
  \/ LeftOut /\ ErrEvolutionRef

LEMMA StandTypes ==
  ASSUME NEW H, NEW i, Standing(H, i), NEW g, g = H[i]
  PROVE  /\ wire \in Seq(Token) /\ wtab \in Seq(TabEntry) /\ H \in Seq(Moment) /\ Len(H) \in Nat /\ i \in Nat
         /\ Len(wire) \in Nat /\ Len(wtab) \in Nat /\ OneName(wtab)
         /\ Stage(wire, wtab, g) /\ g \in Moment /\ g.a \in Seq(Position) /\ g.n \in Nat /\ g.c \in Nat
         /\ pos = g.n /\ Len(rtab) = g.c /\ rtab \in Seq(REntry) /\ expect \in Seq(RPosition)
         /\ (expect = <<>> <=> g.a = <<>>) /\ g.n <= Len(wire) /\ g.c <= Len(wtab)
         /\ Match(wtab, drop, rtab, expect, pos, g)
<1>1. /\ WInv(H, wire, wtab, drop, todo, strs, claims) /\ i \in 1 .. Len(H)
      /\ Match(wtab, drop, rtab, expect, pos, g)
  BY DEF Standing
<1>2. /\ wire \in Seq(Token) /\ wtab \in Seq(TabEntry) /\ H \in Seq(Moment)
      /\ Past(H, wire, wtab, drop) /\ OneName(wtab)
  BY <1>1, NowFacts DEF WriterOK
<1>3. Stage(wire, wtab, g) /\ g \in Moment /\ g.n <= Len(wire) /\ g.c <= Len(wtab)
  BY <1>1, <1>2 DEF Past, Stage
<1>4. Len(wire) \in Nat /\ Len(wtab) \in Nat /\ Len(H) \in Nat /\ i \in Nat
  BY <1>1, <1>2
<1>. QED
  BY <1>1, <1>2, <1>3, <1>4, MatchForm

LEMMA StandFacts ==
  ASSUME NEW H, NEW i, Standing(H, i), expect # <<>>, NEW g, g = H[i], NEW h, h = H[i + 1],
         NEW p, p = Head(g.a), NEW e, e = Head(expect)
  PROVE  /\ i + 1 \in 1 .. Len(H) /\ Onward(wire, wtab, drop, g, h) /\ Stage(wire, wtab, h)
         /\ h \in Moment /\ h.n <= Len(wire) /\ h.c <= Len(wtab) /\ h.n \in Nat /\ h.c \in Nat
         /\ h.a \in Seq(Position)
         /\ g.a # <<>> /\ p \in Position /\ PosOK(wtab, g.c, p) /\ e \in RPosition
         /\ Fits(wtab, drop, g.c, e, p) /\ (Slot(p) \/ NoSlots(g.a))
<1>1. /\ H \in Seq(Moment) /\ Len(H) \in Nat /\ i \in Nat /\ Stage(wire, wtab, g)
      /\ g.a \in Seq(Position) /\ g.a # <<>> /\ g.c \in Nat
      /\ expect \in Seq(RPosition) /\ Match(wtab, drop, rtab, expect, pos, g) /\ g \in Moment
  BY StandTypes
<1>2. /\ WInv(H, wire, wtab, drop, todo, strs, claims) /\ todo = <<>> /\ i \in 1 .. Len(H)
  BY DEF Standing
<1>3. H[Len(H)].a = <<>> /\ Past(H, wire, wtab, drop)
  BY <1>2, NowFacts
<1>4. i # Len(H)
  BY <1>1, <1>3
<1>5. i \in 1 .. Len(H) - 1 /\ i + 1 \in 1 .. Len(H)
  BY <1>1, <1>2, <1>4
<1>6. Goes(wire, wtab, drop, g, h) /\ Stage(wire, wtab, h)
  BY <1>3, <1>5 DEF Past
<1>7. Onward(wire, wtab, drop, g, h)
  BY <1>1, <1>6 DEF Goes, StepValue
<1>8. h \in Moment /\ h.n <= Len(wire) /\ h.c <= Len(wtab)
  BY <1>6 DEF Stage
<1>9. h.n \in Nat /\ h.c \in Nat /\ h.a \in Seq(Position)
  BY <1>8, MomentForm
<1>10. /\ p \in Position /\ p = g.a[1] /\ e \in RPosition /\ e = expect[1]
       /\ Len(g.a) \in Nat /\ Len(g.a) >= 1 /\ Len(expect) = Len(g.a)
  BY <1>1, TailFacts, MatchForm
<1>11. PosOK(wtab, g.c, p)
  BY <1>1, <1>10 DEF Stage
<1>12. Fits(wtab, drop, g.c, e, p)
  BY <1>1, <1>10, MatchForm
<1>13. Slot(p) \/ NoSlots(g.a)
  BY <1>1, HeadSlots DEF Stage
<1>. QED
  BY <1>1, <1>5, <1>6, <1>7, <1>8, <1>9, <1>10, <1>11, <1>12, <1>13

(* A step that no part of a descriptor is outstanding at. *)
Takes(H, i, j, more, n, c, rt2, more2) ==
  /\ Standing(H, i) /\ expect # <<>> /\ NoSlots(H[i].a) /\ j \in 1 .. Len(H)
  /\ more \in Seq(Position) /\ NoSlots(more) /\ Turn(H[i], H[j], more, n, c)
  /\ n \in Nat /\ more2 \in Seq(RPosition) /\ Len(more2) = Len(more)
  /\ \A x \in 1 .. Len(more) : Fits(wtab, drop, H[j].c, more2[x], more[x])
  /\ Step(n, rt2, more2)

LEMMA StepSame ==
  ASSUME NEW H, NEW i, NEW j, NEW more, NEW n, NEW more2,
         Takes(H, i, j, more, n, 0, rtab, more2)
  PROVE  Good(H)
<1>. DEFINE g == H[i]
            h == H[j]
<1>1. /\ Standing(H, i) /\ expect # <<>> /\ NoSlots(g.a) /\ j \in 1 .. Len(H)
      /\ more \in Seq(Position) /\ NoSlots(more) /\ Turn(g, h, more, n, 0)
      /\ n \in Nat /\ more2 \in Seq(RPosition) /\ Len(more2) = Len(more)
      /\ \A x \in 1 .. Len(more) : Fits(wtab, drop, h.c, more2[x], more[x])
      /\ Step(n, rtab, more2)
  BY DEF Takes
<1>2. /\ Match(wtab, drop, rtab, expect, pos, g) /\ Stage(wire, wtab, g) /\ g.a \in Seq(Position)
      /\ g.a # <<>> /\ rtab \in Seq(REntry)
  BY <1>1, StandTypes
<1>3. Stage(wire, wtab, h)
  BY <1>1, NowFacts DEF Standing, Past
<1>4. ~Slot(Head(g.a))
  BY <1>1, <1>2, TailFacts DEF NoSlots
<1>5. Len(rtab) = Len(rtab) + 0 /\ \A k \in Len(rtab) + 1 .. Len(rtab) : FALSE
  BY <1>2
<1>6. ReadsOn(wire, wtab, drop, rtab, expect, pos, g, h, more, n, 0, rtab, more2)
  <2>. HIDE DEF g, h
  <2>. QED
    BY <1>1, <1>2, <1>3, <1>4, <1>5 DEF ReadsOn
<1>7. Match(wtab, drop, rtab, more2 \o Tail(expect), pos + n, h)
  BY <1>6, Advance
<1>8. /\ rtab' = rtab /\ expect' = more2 \o Tail(expect) /\ pos' = pos + n
      /\ err' = err /\ UNCHANGED <<wvars, drop>>
  BY <1>1 DEF Step
<1>9. Match(wtab, drop, rtab', expect', pos', h)
  BY <1>7, <1>8
<1>. QED
  BY <1>1, <1>8, <1>9 DEF Good, Reached

LEMMA StepNew ==
  ASSUME NEW H, NEW i, NEW j, NEW more, NEW n, NEW e, NEW more2,
         Takes(H, i, j, more, n, 1, Append(rtab, e), more2), e \in REntry,
         Holds(wtab, drop, H[j].c, H[j].a, Len(rtab) + 1, e)
  PROVE  Good(H)
<1>. DEFINE g == H[i]
            h == H[j]
            rt2 == Append(rtab, e)
<1>1. /\ Standing(H, i) /\ expect # <<>> /\ NoSlots(g.a) /\ j \in 1 .. Len(H)
      /\ more \in Seq(Position) /\ NoSlots(more) /\ Turn(g, h, more, n, 1)
      /\ n \in Nat /\ more2 \in Seq(RPosition) /\ Len(more2) = Len(more)
      /\ \A x \in 1 .. Len(more) : Fits(wtab, drop, h.c, more2[x], more[x])
      /\ Step(n, rt2, more2)
  BY DEF Takes
<1>2. /\ Match(wtab, drop, rtab, expect, pos, g) /\ Stage(wire, wtab, g) /\ g.a \in Seq(Position)
      /\ g.a # <<>> /\ rtab \in Seq(REntry)
  BY ZenonT(30), <1>1, StandTypes
<1>3. Stage(wire, wtab, h)
  BY <1>1, NowFacts DEF Standing, Past
<1>4. ~Slot(Head(g.a))
  BY <1>1, <1>2, TailFacts DEF NoSlots
<1>5. /\ rt2 \in Seq(REntry) /\ Len(rtab) \in Nat /\ Len(rt2) = Len(rtab) + 1
      /\ rt2[Len(rtab) + 1] = e /\ \A k \in 1 .. Len(rtab) : rt2[k] = rtab[k]
  BY <1>2, AppendFacts
<1>. HIDE DEF g, h, rt2
<1>a. \A k \in Len(rtab) + 1 .. Len(rt2) : Holds(wtab, drop, h.c, h.a, k, rt2[k])
  <2>1. \A k \in Len(rtab) + 1 .. Len(rt2) : k = Len(rtab) + 1
    BY <1>5
  <2>. QED
    BY <1>5, <2>1 DEF h
<1>6. ReadsOn(wire, wtab, drop, rtab, expect, pos, g, h, more, n, 1, rt2, more2)
  BY <1>1, <1>2, <1>3, <1>4, <1>5, <1>a DEF ReadsOn
<1>7. Match(wtab, drop, rt2, more2 \o Tail(expect), pos + n, h)
  BY <1>6, Advance
<1>8. /\ rtab' = rt2 /\ expect' = more2 \o Tail(expect) /\ pos' = pos + n
      /\ err' = err /\ UNCHANGED <<wvars, drop>>
  BY <1>1 DEF Step
<1>9. Match(wtab, drop, rtab', expect', pos', h)
  BY <1>7, <1>8
<1>. QED
  BY <1>1, <1>8, <1>9 DEF Good, Reached, h

LEMMA RMade ==
  /\ \A id \in Nat, skip \in BOOLEAN :
       /\ RBody(id, skip) \in RPosition /\ ROpen(id, skip) \in RPosition
       /\ \A then \in {"kid", "open", "body"} : RDesc(id, then, skip) \in RPosition
  /\ RView \in RPosition
  BY DEF RBody, ROpen, RDesc, RView, RPosition

LEMMA FitsMade ==
  ASSUME NEW tab, NEW dr, NEW c, NEW id, NEW skip, skip => dr # {}
  PROVE  /\ \A d : Names(tab, c, id, d) =>
              /\ Fits(tab, dr, c, RBody(id, skip), Body(d)) /\ Fits(tab, dr, c, RBody(id, skip), Held(d))
              /\ Fits(tab, dr, c, ROpen(id, skip), Open(d))
         /\ \A d, then : Fits(tab, dr, c, RDesc(id, then, skip), DescAt(d, then))
         /\ \A x : Fits(tab, dr, c, RView, ViewOf(x))
<1>1. ASSUME NEW d, Names(tab, c, id, d)
      PROVE  /\ Fits(tab, dr, c, RBody(id, skip), Body(d)) /\ Fits(tab, dr, c, RBody(id, skip), Held(d))
             /\ Fits(tab, dr, c, ROpen(id, skip), Open(d))
  BY <1>1 DEF Fits, RBody, ROpen, Body, Held, Open
<1>2. \A d, then : Fits(tab, dr, c, RDesc(id, then, skip), DescAt(d, then))
  BY DEF Fits, RDesc, DescAt
<1>3. \A x : Fits(tab, dr, c, RView, ViewOf(x))
  BY DEF Fits, RView, ViewOf
<1>. QED
  BY <1>1, <1>2, <1>3

LEMMA NewRec ==
  ASSUME NEW tab, NEW dr, NEW c, NEW a, NoSlots(a), NEW k, NEW sort \in {"map", "array", "value"},
         NEW id \in Nat, NEW d, NEW live \in BOOLEAN, tab[k] = Entry(sort, d), Names(tab, c, id, d),
         live \/ dr # {}
  PROVE  Rec(sort, id, live) \in REntry /\ Holds(tab, dr, c, a, k, Rec(sort, id, live))
<1>. DEFINE e == Rec(sort, id, live)
<1>1. e.sort = sort /\ e.of = id /\ e.live = live /\ e \in REntry
  BY DEF Rec, REntry
<1>2. ~Pending(a, "name", id, 0)
  BY NonePending
<1>3. tab[k].sort = sort /\ tab[k].of = d
  BY DEF Entry
<1>. HIDE DEF e
<1>4. Holds(tab, dr, c, a, k, e)
  BY <1>1, <1>2, <1>3 DEF Holds
<1>. QED
  BY <1>1, <1>4 DEF e

LEMMA NewStr ==
  ASSUME NEW tab, NEW dr, NEW c, NEW a, NEW k, NEW s \in DOMAIN Hash, tab[k] = Entry("str", s)
  PROVE  Str(s) \in REntry /\ Holds(tab, dr, c, a, k, Str(s))
<1>. DEFINE e == Str(s)
<1>1. e.sort = "str" /\ e.s = s /\ e \in REntry
  BY DEF Str, REntry
<1>3. tab[k].sort = "str" /\ tab[k].of = s
  BY DEF Entry
<1>. HIDE DEF e
<1>4. Holds(tab, dr, c, a, k, e)
  BY <1>1, <1>3 DEF Holds
<1>. QED
  BY <1>1, <1>4 DEF e

LEMMA TurnSlots ==
  ASSUME NEW g, g.a \in Seq(Position), g.a # <<>>, NoSlots(g.a), NEW more \in Seq(Position), NoSlots(more),
         NEW h, NEW n, NEW c, Turn(g, h, more, n, c)
  PROVE  NoSlots(h.a)
<1>1. h.a = more \o Tail(g.a)
  BY TurnForm
<1>2. Tail(g.a) \in Seq(Position) /\ NoSlots(Tail(g.a))
  BY TailFacts, TailSlots
<1>. QED
  BY <1>1, <1>2, ConcatSlots

(* The step that ends a body, by its kind. *)
LEMMA BodyMoves ==
  ASSUME NEW w, NEW tab, NEW dr, NEW g, NEW h, Onward(w, tab, dr, g, h), Head(g.a).k = "body",
         NEW kind, kind = Kind[Head(g.a).d]
  PROVE  /\ kind = "string" => StepText(w, tab, dr, g, h)
         /\ kind = "struct" => StepStruct(w, g, h)
         /\ kind = "map" => StepMap(w, tab, dr, g, h) \/ StepNil(w, dr, g, h)
         /\ kind = "slice" => StepSlice(w, tab, g, h) \/ StepNil(w, dr, g, h)
         /\ kind = "iface" => StepIface(g, h) \/ StepNil(w, dr, g, h)
         /\ kind = "ptr" => \/ StepNil(w, dr, g, h) \/ StepRepeat(w, tab, g, h) \/ StepRecord(tab, g, h)
                            \/ StepTag(g, h) \/ StepPath(w, tab, dr, g, h)
<1>1. ~StepDescLit(w, tab, g, h) /\ ~StepDescRef(w, tab, g, h)
  BY Zenon DEF StepDescLit, StepDescRef
<1>2. ~StepName(w, tab, g, h) /\ ~StepOpen(tab, g, h) /\ ~StepView(w, tab, g, h)
  BY DEF StepName, StepOpen, StepView
<1>3. /\ StepText(w, tab, dr, g, h) => kind = "string"
      /\ StepStruct(w, g, h) => kind = "struct"
      /\ StepNil(w, dr, g, h) => kind \in {"ptr", "map", "slice", "iface"}
      /\ StepMap(w, tab, dr, g, h) => kind = "map"
      /\ StepSlice(w, tab, g, h) => kind = "slice"
      /\ StepIface(g, h) => kind = "iface"
      /\ StepRepeat(w, tab, g, h) => kind = "ptr"
      /\ StepRecord(tab, g, h) => kind = "ptr"
      /\ StepTag(g, h) => kind = "ptr"
      /\ StepPath(w, tab, dr, g, h) => kind = "ptr"
  BY ZenonT(30) DEF StepText, StepStruct, StepNil, StepMap, StepSlice, StepIface, StepRepeat, StepRecord, StepTag, StepPath, BodyIs
<1>. QED
  BY <1>1, <1>2, <1>3 DEF Onward

(* A body is read by a descriptor with its structure. *)
LEMMA BodyAt ==
  ASSUME NEW H, NEW i, Standing(H, i), NEW kind, RAt(kind), NEW g, g = H[i], NEW p, p = Head(g.a)
  PROVE  /\ expect # <<>> /\ p.k = "body" /\ p.d \in Descs /\ p.held \in BOOLEAN /\ ~Slot(p) /\ NoSlots(g.a)
         /\ Kind[p.d] = kind /\ Names(wtab, g.c, RD, p.d) /\ RD \in Nat /\ Skip \in BOOLEAN
         /\ (Skip => drop # {}) /\ RD + 1 \in 1 .. Len(rtab)
         /\ rtab[RD + 1].name = Name[p.d] /\ rtab[RD + 1].fields = Fields[p.d]
         /\ DOMAIN rtab[RD + 1].kids = 1 .. Len(Kids[p.d])
         /\ \A j \in 1 .. Len(Kids[p.d]) : /\ Names(wtab, g.c, KidOf(RD, j), Kids[p.d][j])
                                          /\ KidOf(RD, j) \in Nat
<1>1. expect # <<>> /\ Head(expect).k = "body" /\ KindOf(Head(expect).d) = kind
  BY DEF RAt
<1>2. /\ p \in Position /\ Head(expect) \in RPosition /\ Fits(wtab, drop, g.c, Head(expect), p)
      /\ Slot(p) \/ NoSlots(g.a)
  BY <1>1, StandFacts
<1>3. p.k \in {"name", "kid", "desc", "body", "open", "view"}
  BY <1>2, PositionForm
<1>4. p.k = "body"
  BY <1>1, <1>2, <1>3 DEF Fits
<1>5. p.d \in Descs /\ p.held \in BOOLEAN /\ ~Slot(p) /\ NoSlots(g.a)
  BY <1>2, <1>4, PositionForm DEF Slot
<1>6. Names(wtab, g.c, RD, p.d) /\ (Skip => drop # {})
  BY <1>2, <1>4 DEF Fits, RD, Skip
<1>7. Skip \in BOOLEAN /\ RD \in Nat
  BY <1>1, <1>2 DEF RPosition, Skip, RD
<1>8. Match(wtab, drop, rtab, expect, pos, g) /\ g \in Moment
  BY ZenonT(30), StandTypes
<1>. DEFINE r == rtab[RD + 1]
<1>9. /\ RD + 1 \in 1 .. Len(rtab) /\ r.kind = Kind[p.d] /\ r.name = Name[p.d]
      /\ r.fields = Fields[p.d] /\ DOMAIN r.kids = 1 .. Len(Kids[p.d]) /\ r.kids \in Seq(Nat)
      /\ \A j \in 1 .. Len(Kids[p.d]) : Names(wtab, g.c, r.kids[j], Kids[p.d][j])
  <2>. DEFINE id == RD
              d == p.d
  <2>1. /\ Match(wtab, drop, rtab, expect, pos, g) /\ g \in Moment /\ NoSlots(g.a)
        /\ Names(wtab, g.c, id, d) /\ r = rtab[id + 1]
    BY <1>5, <1>6, <1>8
  <2>. HIDE DEF id, d, r
  <2>2. /\ id + 1 \in 1 .. Len(rtab) /\ r.kind = Kind[d] /\ r.name = Name[d]
        /\ r.fields = Fields[d] /\ DOMAIN r.kids = 1 .. Len(Kids[d]) /\ r.kids \in Seq(Nat)
        /\ \A j \in 1 .. Len(Kids[d]) : Names(wtab, g.c, r.kids[j], Kids[d][j])
    BY SMTT(30), <2>1, BodyKnown
  <2>. QED
    BY <2>2 DEF id, d
<1>10. Kind[p.d] = kind
  BY <1>1, <1>9 DEF KindOf, RD
<1>11. \A j \in 1 .. Len(Kids[p.d]) : /\ Names(wtab, g.c, KidOf(RD, j), Kids[p.d][j])
                                     /\ KidOf(RD, j) \in Nat
  <2>1. \A j \in 1 .. Len(Kids[p.d]) : Names(wtab, g.c, KidOf(RD, j), Kids[p.d][j])
    BY <1>9 DEF KidOf
  <2>2. \A id, d : Names(wtab, g.c, id, d) => id \in Nat
    BY DEF Names, Owned
  <2>. QED
    BY <2>1, <2>2
<1>. QED
  BY <1>1, <1>4, <1>5, <1>6, <1>7, <1>9, <1>10, <1>11

-----------------------------------------------------------------------------
(***************************************************************************)
(* The Reader's actions, one by one: strings, structs, maps, slices,       *)
(* views, interfaces.                                                      *)
(***************************************************************************)

LEMMA StepSame0 ==
  ASSUME NEW H, NEW i, NEW j, Standing(H, i), expect # <<>>, NoSlots(H[i].a), j \in 1 .. Len(H),
         NEW n \in Nat, Turn(H[i], H[j], <<>>, n, 0), Step(n, rtab, <<>>)
  PROVE  Good(H)
<1>. DEFINE none == <<>>
<1>1. /\ none \in Seq(Position) /\ NoSlots(none) /\ none \in Seq(RPosition) /\ Len(none) = Len(none)
      /\ \A x \in 1 .. Len(none) : FALSE
  BY EmptyFacts
<1>2. Turn(H[i], H[j], none, n, 0) /\ Step(n, rtab, none)
  OBVIOUS
<1>. HIDE DEF none
<1>3. Takes(H, i, j, none, n, 0, rtab, none)
  BY <1>1, <1>2 DEF Takes
<1>. QED
  BY <1>3, StepSame

LEMMA StepNew0 ==
  ASSUME NEW H, NEW i, NEW j, Standing(H, i), expect # <<>>, NoSlots(H[i].a), j \in 1 .. Len(H),
         NEW n \in Nat, Turn(H[i], H[j], <<>>, n, 1), NEW e \in REntry, Step(n, Append(rtab, e), <<>>),
         Holds(wtab, drop, H[j].c, H[j].a, Len(rtab) + 1, e)
  PROVE  Good(H)
<1>. DEFINE none == <<>>
<1>1. /\ none \in Seq(Position) /\ NoSlots(none) /\ none \in Seq(RPosition) /\ Len(none) = Len(none)
      /\ \A x \in 1 .. Len(none) : FALSE
  BY EmptyFacts
<1>2. Turn(H[i], H[j], none, n, 1) /\ Step(n, Append(rtab, e), none)
  OBVIOUS
<1>. HIDE DEF none
<1>3. Takes(H, i, j, none, n, 1, Append(rtab, e), none)
  BY <1>1, <1>2 DEF Takes
<1>. QED
  BY <1>3, StepNew

LEMMA TurnSlots0 ==
  ASSUME NEW g, g.a \in Seq(Position), g.a # <<>>, NoSlots(g.a),
         NEW h, NEW n, NEW c, Turn(g, h, <<>>, n, c)
  PROVE  NoSlots(h.a)
<1>. DEFINE none == <<>>
<1>1. none \in Seq(Position) /\ NoSlots(none)
  BY EmptyFacts
<1>2. Turn(g, h, none, n, c)
  OBVIOUS
<1>. HIDE DEF none
<1>. QED
  BY <1>1, <1>2, TurnSlots

(* The token and the entry at the cursor. *)
LEMMA TokAt ==
  ASSUME NEW H, NEW i, Standing(H, i), NEW g, g = H[i], NEW m \in Nat, m <= Len(wire), g.n + 1 <= m
  PROVE  /\ More /\ Tok = wire[g.n + 1] /\ Tok \in Token /\ Class = Tok.t
         /\ g.n + 1 \in 1 .. Len(wire)
<1>1. pos = g.n /\ g.n \in Nat /\ wire \in Seq(Token) /\ Len(wire) \in Nat
  BY StandTypes
<1>2. More /\ g.n + 1 \in 1 .. Len(wire)
  BY <1>1 DEF More
<1>3. Tok = wire[g.n + 1]
  BY <1>1 DEF Tok
<1>4. wire[g.n + 1] \in Token
  BY <1>1, <1>2
<1>. QED
  BY <1>2, <1>3, <1>4 DEF Class

(* The entry a reference names is the record the Writer meant. *)
LEMMA NamedAt ==
  ASSUME NEW H, NEW i, Standing(H, i), NEW g, g = H[i], NEW tk, Again(wire, wtab, g, tk), Tok = wire[g.n + 1]
  PROVE  /\ Known /\ Tok = tk /\ Named \in REntry /\ Named.sort = tk.sort /\ Named = rtab[tk.x + 1]
         /\ Holds(wtab, drop, g.c, g.a, tk.x + 1, Named) /\ wtab[tk.x + 1] = Entry(tk.sort, tk.of)
         /\ tk.x \in Nat /\ tk.x < g.c
<1>1. tk.x \in 0 .. g.c - 1 /\ Tok = tk /\ wtab[tk.x + 1] = Entry(tk.sort, tk.of)
  BY DEF Again
<1>2. /\ Len(rtab) = g.c /\ g.c \in Nat /\ g \in Moment /\ Match(wtab, drop, rtab, expect, pos, g)
  BY StandTypes
<1>3. Known /\ Named = rtab[tk.x + 1] /\ tk.x + 1 \in 1 .. Len(rtab)
  BY <1>1, <1>2 DEF Known, Named
<1>4. Holds(wtab, drop, g.c, g.a, tk.x + 1, Named) /\ Named \in REntry
  BY <1>2, <1>3, MatchForm
<1>5. Named.sort = tk.sort
  BY <1>1, <1>4 DEF Holds, Entry
<1>. QED
  BY <1>1, <1>2, <1>3, <1>4, <1>5

LEMMA ReadOpenGood ==
  ASSUME NEW H, NEW i, Standing(H, i), ReadOpen
  PROVE  Good(H)
<1>. DEFINE g == H[i]
            h == H[i + 1]
            p == Head(g.a)
            id == Head(expect).d
            skip == Head(expect).skip
            e == Rec("value", id, ~skip)
<1>1. expect # <<>> /\ Head(expect).k = "open" /\ Step(0, Append(rtab, e), <<>>)
  BY DEF ReadOpen
<1>2. /\ i + 1 \in 1 .. Len(H) /\ Onward(wire, wtab, drop, g, h) /\ h.c \in Nat
      /\ g.a # <<>> /\ p \in Position /\ Head(expect) \in RPosition
      /\ Fits(wtab, drop, g.c, Head(expect), p) /\ (Slot(p) \/ NoSlots(g.a))
  BY <1>1, StandFacts
<1>3. g.a \in Seq(Position) /\ g.c \in Nat /\ Len(rtab) = g.c
  BY StandTypes
<1>4. p.k \in {"name", "kid", "desc", "body", "open", "view"}
  BY <1>2, PositionForm
<1>5. p.k = "open" /\ ~Slot(p) /\ p.d \in Descs
  BY <1>1, <1>2, <1>4, PositionForm DEF Fits, Slot
<1>6. Names(wtab, g.c, id, p.d) /\ (skip => drop # {})
  BY ZenonT(30), <1>2, <1>5 DEF Fits
<1>7. skip \in BOOLEAN /\ id \in Nat
  BY <1>1, <1>2 DEF RPosition
<1>8. StepOpen(wtab, g, h)
  <2>1. ~StepDescLit(wire, wtab, g, h) /\ ~StepDescRef(wire, wtab, g, h)
    BY <1>5, Zenon DEF StepDescLit, StepDescRef
  <2>2. ~StepName(wire, wtab, g, h) /\ ~StepView(wire, wtab, g, h)
    BY ZenonT(30), <1>5 DEF StepName, StepView
  <2>3. /\ ~StepText(wire, wtab, drop, g, h) /\ ~StepStruct(wire, g, h) /\ ~StepNil(wire, drop, g, h)
        /\ ~StepMap(wire, wtab, drop, g, h) /\ ~StepSlice(wire, wtab, g, h) /\ ~StepIface(g, h)
        /\ ~StepRepeat(wire, wtab, g, h) /\ ~StepRecord(wtab, g, h) /\ ~StepTag(g, h)
        /\ ~StepPath(wire, wtab, drop, g, h)
    BY <1>5 DEF StepText, StepStruct, StepNil, StepMap, StepSlice, StepIface, StepRepeat, StepRecord, StepTag, StepPath, BodyIs
  <2>. QED
    BY ZenonT(30), <1>2, <2>1, <2>2, <2>3 DEF Onward
<1>9. wtab[g.c + 1] = Entry("value", p.d) /\ Turn(g, h, <<>>, 0, 1)
  BY <1>8 DEF StepOpen
<1>10. NoSlots(g.a) /\ NoSlots(h.a) /\ h.c = g.c + 1
  <2>1. g.a \in Seq(Position) /\ g.a # <<>> /\ NoSlots(g.a)
    BY <1>2, <1>3, <1>5
  <2>. HIDE DEF g, h
  <2>2. NoSlots(h.a)
    BY <1>9, <2>1, TurnSlots0
  <2>3. h.c = g.c + 1
    BY <1>9, TurnForm
  <2>. QED
    BY <2>1, <2>2, <2>3
<1>11. Names(wtab, h.c, id, p.d)
  BY <1>3, <1>6, <1>10, NamesLater
<1>. HIDE DEF g, h, p, id, skip
<1>12. e \in REntry /\ Holds(wtab, drop, h.c, h.a, Len(rtab) + 1, e)
  <2>1. /\ NoSlots(h.a) /\ id \in Nat /\ (~skip) \in BOOLEAN /\ wtab[g.c + 1] = Entry("value", p.d)
        /\ Names(wtab, h.c, id, p.d) /\ (~skip \/ drop # {})
    BY <1>6, <1>7, <1>9, <1>10, <1>11
  <2>2. e \in REntry /\ Holds(wtab, drop, h.c, h.a, g.c + 1, e)
    BY <2>1, NewRec
  <2>. QED
    BY <1>3, <2>2
<1>. HIDE DEF e
<1>. QED
  <2>1. Turn(H[i], H[i + 1], <<>>, 0, 1) /\ NoSlots(H[i].a)
        /\ Holds(wtab, drop, H[i + 1].c, H[i + 1].a, Len(rtab) + 1, e)
    BY <1>9, <1>10, <1>12 DEF g, h
  <2>. QED
    BY <1>1, <1>2, <1>12, <2>1, StepNew0

(* ReadStringBudgeted, read and skipped. *)
LEMMA ReadStringGood ==
  ASSUME NEW H, NEW i, Standing(H, i), ReadString
  PROVE  Good(H)
<1>. DEFINE g == H[i]
            h == H[i + 1]
            p == Head(g.a)
<1>1. RAt("string")
  BY DEF ReadString
<1>2. expect # <<>> /\ p.k = "body" /\ NoSlots(g.a) /\ Kind[p.d] = "string"
  BY <1>1, BodyAt
<1>3. /\ i + 1 \in 1 .. Len(H) /\ Onward(wire, wtab, drop, g, h) /\ h.c \in Nat
      /\ h.n \in Nat /\ h.n <= Len(wire) /\ g.a # <<>>
  BY <1>2, StandFacts
<1>4. g.a \in Seq(Position) /\ g.c \in Nat /\ Len(rtab) = g.c /\ g.n \in Nat
  BY StandTypes
<1>5. StepText(wire, wtab, drop, g, h)
  BY <1>2, <1>3, BodyMoves
<1>. HIDE DEF g, h
<1>6. PICK s \in DOMAIN Hash : TextLit(wire, wtab, g, h, s) \/ TextRef(wire, wtab, g, h, s)
  BY <1>5 DEF StepText
<1>7. CASE TextLit(wire, wtab, g, h, s)
  <2>1. wire[g.n + 1] = Lit("str", s) /\ wtab[g.c + 1] = Entry("str", s) /\ Turn(g, h, <<>>, 1, 1)
    BY <1>7 DEF TextLit
  <2>2. h.n = g.n + 1
    BY <2>1, TurnForm
  <2>3. Tok = Lit("str", s) /\ Class = "str"
    <3>1. Tok = wire[g.n + 1] /\ Class = Tok.t
      BY <1>3, <1>4, <2>2, TokAt DEF g
    <3>. QED
      BY <2>1, <3>1 DEF Lit
  <2>4. Step(1, Append(rtab, Str(s)), <<>>)
    BY <2>3 DEF ReadString, Lit
  <2>5. Str(s) \in REntry /\ Holds(wtab, drop, h.c, h.a, Len(rtab) + 1, Str(s))
    BY <1>4, <2>1, NewStr
  <2>6. Turn(H[i], H[i + 1], <<>>, 1, 1) /\ NoSlots(H[i].a)
        /\ Holds(wtab, drop, H[i + 1].c, H[i + 1].a, Len(rtab) + 1, Str(s))
    BY <1>2, <2>1, <2>5 DEF g, h
  <2>. QED
    BY <1>2, <1>3, <2>4, <2>5, <2>6, StepNew0
<1>8. CASE TextRef(wire, wtab, g, h, s)
  <2>1. PICK id \in 0 .. g.c - 1 : Again(wire, wtab, g, Ref(id, "str", s))
    BY <1>8 DEF TextRef
  <2>2. Turn(g, h, <<>>, 1, 0)
    BY <1>8 DEF TextRef
  <2>3. h.n = g.n + 1
    BY <2>2, TurnForm
  <2>4. Tok = wire[g.n + 1] /\ Class = Tok.t
    BY <1>3, <1>4, <2>3, TokAt DEF g
  <2>5. Known /\ Tok = Ref(id, "str", s) /\ Named.sort = Ref(id, "str", s).sort
    BY <2>1, <2>4, NamedAt DEF g
  <2>6. Class = "ref" /\ Known /\ Named.sort = "str"
    BY <2>4, <2>5 DEF Ref
  <2>7. Step(1, rtab, <<>>)
    BY <2>6 DEF ReadString
  <2>8. Turn(H[i], H[i + 1], <<>>, 1, 0) /\ NoSlots(H[i].a)
    BY <1>2, <2>2 DEF g, h
  <2>. QED
    BY <1>2, <1>3, <2>7, <2>8, StepSame0
<1>. QED
  BY <1>6, <1>7, <1>8

LEMMA FailGood ==
  ASSUME NEW H, ErrEvolutionRef, drop # {}, Class \in {"ref", "view"}, Known,
         Named.sort \notin {"str", "desc"}, ~Named.live
  PROVE  Good(H)
  BY DEF LeftOut, Good

LEMMA NilGood ==
  ASSUME NEW H, NEW i, Standing(H, i), expect # <<>>, NEW g, g = H[i], NEW h, h = H[i + 1], NoSlots(g.a),
         StepNil(wire, drop, g, h)
  PROVE  /\ Class = "nil" /\ Tok.x = Kind[Head(g.a).d]
         /\ Head(g.a).held => drop = {} /\ Kind[Head(g.a).d] # "ptr"
         /\ Step(1, rtab, <<>>) => Good(H)
<1>1. i + 1 \in 1 .. Len(H) /\ h.n \in Nat /\ h.n <= Len(wire)
  BY StandFacts
<1>2. /\ wire[g.n + 1] = Lit("nil", Kind[Head(g.a).d]) /\ Turn(g, h, <<>>, 1, 0)
      /\ Head(g.a).held => drop = {} /\ Kind[Head(g.a).d] # "ptr"
  BY DEF StepNil
<1>3. h.n = g.n + 1 /\ g.n \in Nat
  BY SMTT(30), <1>2, TurnForm, StandTypes
<1>4. Tok = wire[g.n + 1] /\ Class = Tok.t
  BY <1>1, <1>3, TokAt
<1>5. Class = "nil" /\ Tok.x = Kind[Head(g.a).d]
  BY <1>2, <1>4 DEF Lit
<1>6. ASSUME Step(1, rtab, <<>>) PROVE Good(H)
  <2>1. Turn(H[i], H[i + 1], <<>>, 1, 0) /\ NoSlots(H[i].a)
    BY <1>2
  <2>. QED
    BY <1>1, <1>6, <2>1, StepSame0
<1>. QED
  BY <1>2, <1>5, <1>6

(* A repeat of a record names the descriptor of the position. *)
LEMMA RefBack ==
  ASSUME NEW H, NEW i, Standing(H, i), NEW g, g = H[i], NEW tk, Again(wire, wtab, g, tk), Tok = wire[g.n + 1],
         tk.sort \in {"map", "array", "value"}, NEW id, Names(wtab, g.c, id, tk.of)
  PROVE  IF Named.live THEN Named.of = id ELSE drop # {}
<1>1. /\ Holds(wtab, drop, g.c, g.a, tk.x + 1, Named) /\ wtab[tk.x + 1] = Entry(tk.sort, tk.of)
      /\ Named.sort = tk.sort
  BY NamedAt
<1>2. IF Named.live THEN Names(wtab, g.c, Named.of, wtab[tk.x + 1].of) ELSE drop # {}
  BY <1>1 DEF Holds
<1>3. wtab[tk.x + 1].of = tk.of
  BY <1>1 DEF Entry
<1>4. OneName(wtab) /\ g.c \in Nat /\ g.c <= Len(wtab) /\ Len(wtab) \in Nat
  BY StandTypes
<1>5. Named.live => Named.of = id
  BY <1>2, <1>3, <1>4, OneId
<1>. QED
  BY <1>2, <1>5

(* A struct: the fields the target lacks are skipped. *)
LEMMA ReadStructGood ==
  ASSUME NEW H, NEW i, Standing(H, i), ReadStruct
  PROVE  Good(H)
<1>. DEFINE g == H[i]
            h == H[i + 1]
            p == Head(g.a)
            d == p.d
            n == Len(Kids[d])
            skips(j) == Skip \/ <<rtab[RD + 1].name, rtab[RD + 1].fields[j]>> \in drop
            more == [j \in 1 .. n |-> Body(Kids[d][j])]
            more2 == [j \in 1 .. n |-> RBody(KidOf(RD, j), skips(j))]
<1>1. RAt("struct")
  BY DEF ReadStruct
<1>2. /\ expect # <<>> /\ p.k = "body" /\ NoSlots(g.a) /\ Kind[d] = "struct" /\ d \in Descs
      /\ (Skip => drop # {}) /\ Skip \in BOOLEAN
      /\ DOMAIN rtab[RD + 1].kids = 1 .. n
      /\ \A j \in 1 .. n : Names(wtab, g.c, KidOf(RD, j), Kids[d][j]) /\ KidOf(RD, j) \in Nat
  BY SMTT(30), <1>1, BodyAt
<1>3. /\ i + 1 \in 1 .. Len(H) /\ Onward(wire, wtab, drop, g, h) /\ h.c \in Nat
      /\ h.n \in Nat /\ h.n <= Len(wire) /\ g.a # <<>>
  BY <1>2, StandFacts
<1>4. g.a \in Seq(Position) /\ g.c \in Nat /\ Len(rtab) = g.c /\ g.n \in Nat
  BY StandTypes
<1>5. StepStruct(wire, g, h)
  BY <1>2, <1>3, BodyMoves
<1>6. wire[g.n + 1] = Lit("struct", 0) /\ Turn(g, h, more, 1, 0)
  BY ZenonT(30), <1>5 DEF StepStruct
<1>7. h.n = g.n + 1 /\ h.c = g.c + 0
  <2>. HIDE DEF g, h, more
  <2>. QED
    BY <1>6, TurnForm
<1>8. Class = "struct"
  <2>1. Tok = wire[g.n + 1] /\ Class = Tok.t
    BY <1>3, <1>4, <1>7, TokAt
  <2>. QED
    BY SMTT(30), <1>6, <2>1 DEF Lit
<1>9. Step(1, rtab, more2)
  <2>1. Step(1, rtab, [j \in DOMAIN rtab[RD + 1].kids |->
               RBody(KidOf(RD, j), Skip \/ <<rtab[RD + 1].name, rtab[RD + 1].fields[j]>> \in drop)])
    BY ZenonT(30), <1>8 DEF ReadStruct
  <2>. QED
    BY ZenonT(30), <1>2, <2>1
<1>10. \A j : skips(j) \in BOOLEAN /\ (skips(j) => drop # {})
  BY ZenonT(30), <1>2
<1>11. n \in Nat /\ \A j \in 1 .. n : Kids[d][j] \in Descs
  BY <1>2, KidFacts
<1>. HIDE DEF skips, n, d, p, g, h
<1>12. /\ more \in Seq(Position) /\ more2 \in Seq(RPosition) /\ Len(more2) = Len(more) /\ Len(more) = n
       /\ \A j \in 1 .. n : more[j] = Body(Kids[d][j]) /\ more2[j] = RBody(KidOf(RD, j), skips(j))
  <2>1. \A j \in 1 .. n : Body(Kids[d][j]) \in Position
    BY <1>11, PositionMade
  <2>2. \A j \in 1 .. n : RBody(KidOf(RD, j), skips(j)) \in RPosition
    BY <1>2, <1>10, RMade
  <2>. QED
    BY <1>11, <2>1, <2>2
<1>13. NoSlots(more)
  BY <1>12, MadeForm DEF NoSlots
<1>14. \A j \in 1 .. Len(more) : Fits(wtab, drop, h.c, more2[j], more[j])
  <2>1. ASSUME NEW j \in 1 .. n PROVE Fits(wtab, drop, h.c, more2[j], more[j])
    <3>1. Names(wtab, h.c, KidOf(RD, j), Kids[d][j])
      BY <1>2, <1>4, <1>7
    <3>2. Fits(wtab, drop, h.c, RBody(KidOf(RD, j), skips(j)), Body(Kids[d][j]))
      BY <1>10, <3>1, FitsMade
    <3>. QED
      BY <1>12, <3>2
  <2>. QED
    BY <1>12, <2>1
<1>. HIDE DEF more, more2
<1>15. Takes(H, i, i + 1, more, 1, 0, rtab, more2)
  BY <1>2, <1>3, <1>6, <1>9, <1>12, <1>13, <1>14 DEF Takes, g, h
<1>. QED
  BY <1>15, StepSame

(* A map, or the reference to one; one that was skipped is refused.        *)
LEMMA ReadMapGood ==
  ASSUME NEW H, NEW i, Standing(H, i), ReadMap
  PROVE  Good(H)
<1>. DEFINE g == H[i]
            h == H[i + 1]
            p == Head(g.a)
            d == p.d
<1>1. RAt("map")
  BY DEF ReadMap
<1>2. /\ expect # <<>> /\ p.k = "body" /\ NoSlots(g.a) /\ Kind[d] = "map" /\ d \in Descs
      /\ (Skip => drop # {}) /\ Skip \in BOOLEAN /\ RD \in Nat /\ Names(wtab, g.c, RD, d)
      /\ \A j \in 1 .. Len(Kids[d]) : Names(wtab, g.c, KidOf(RD, j), Kids[d][j]) /\ KidOf(RD, j) \in Nat
  BY SMTT(30), <1>1, BodyAt
<1>3. /\ i + 1 \in 1 .. Len(H) /\ Onward(wire, wtab, drop, g, h) /\ h.c \in Nat
      /\ h.n \in Nat /\ h.n <= Len(wire) /\ g.a # <<>>
  BY <1>2, StandFacts
<1>4. g.a \in Seq(Position) /\ g.c \in Nat /\ Len(rtab) = g.c /\ g.n \in Nat
  BY StandTypes
<1>5. StepMap(wire, wtab, drop, g, h) \/ StepNil(wire, drop, g, h)
  BY ZenonT(30), <1>2, <1>3, BodyMoves
<1>. HIDE DEF g, h
<1>6. CASE StepNil(wire, drop, g, h)
  <2>1. /\ Class = "nil" /\ Tok.x = "map" /\ (Step(1, rtab, <<>>) => Good(H))
    BY <1>2, <1>6, NilGood DEF g, h
  <2>2. Step(1, rtab, <<>>)
    BY <2>1 DEF ReadMap
  <2>. QED
    BY <2>1, <2>2
<1>7. CASE /\ \E id \in 0 .. g.c - 1 : Again(wire, wtab, g, Ref(id, "map", d))
           /\ Turn(g, h, <<>>, 1, 0)
  <2>1. PICK id \in 0 .. g.c - 1 : Again(wire, wtab, g, Ref(id, "map", d))
    BY <1>7
  <2>. DEFINE tk == Ref(id, "map", d)
  <2>2. h.n = g.n + 1
    BY <1>7, TurnForm
  <2>3. Tok = wire[g.n + 1] /\ Class = Tok.t
    BY <1>3, <1>4, <2>2, TokAt DEF g
  <2>4. tk.sort = "map" /\ tk.of = d /\ tk.t = "ref"
    BY DEF Ref
  <2>. HIDE DEF tk
  <2>5. Known /\ Tok = tk /\ Named.sort = tk.sort
    BY <2>1, <2>3, NamedAt DEF g, tk
  <2>6. Class = "ref" /\ Named.sort = "map"
    BY <2>3, <2>4, <2>5
  <2>7. IF Named.live THEN Named.of = RD ELSE drop # {}
    <3>1. Again(wire, wtab, g, tk) /\ Names(wtab, g.c, RD, tk.of)
      BY <1>2, <2>1, <2>4 DEF tk
    <3>. QED
      BY <2>3, <2>4, <3>1, RefBack DEF g
  <2>8. Step(1, rtab, <<>>) \/ (ErrEvolutionRef /\ ~Named.live)
    BY <2>5, <2>6, <2>7 DEF ReadMap
  <2>9. Turn(H[i], H[i + 1], <<>>, 1, 0) /\ NoSlots(H[i].a)
    BY <1>2, <1>7 DEF g, h
  <2>10. Step(1, rtab, <<>>) => Good(H)
    BY <1>2, <1>3, <2>9, StepSame0
  <2>. QED
    BY <2>5, <2>6, <2>7, <2>8, <2>10, FailGood
<1>8. ASSUME NEW n \in 0 .. 1, wire[g.n + 1] = Lit("map", n), wtab[g.c + 1] = Entry("map", d),
             Turn(g, h, IF n = 0 THEN <<>> ELSE <<Body(Kids[d][1]), Body(Kids[d][2])>>, 1, 1)
      PROVE  Good(H)
  <2>. DEFINE k1 == Kids[d][1]
              k2 == Kids[d][2]
              more == IF n = 0 THEN <<>> ELSE <<Body(k1), Body(k2)>>
              more2 == IF n = 0 THEN <<>> ELSE <<RBody(KidOf(RD, 1), Skip), RBody(KidOf(RD, 2), Skip)>>
              e == Rec("map", RD, ~Skip)
  <2>1. Turn(g, h, more, 1, 1)
    BY <1>8
  <2>2. h.n = g.n + 1 /\ h.c = g.c + 1
    <3>. HIDE DEF more
    <3>. QED
      BY <2>1, TurnForm
  <2>3. Tok = wire[g.n + 1] /\ Class = Tok.t
    BY <1>3, <1>4, <2>2, TokAt DEF g
  <2>4. Class = "map" /\ Tok.x = n
    BY <1>8, <2>3 DEF Lit
  <2>5. Step(1, Append(rtab, e), more2)
    BY ZenonT(30), <2>4 DEF ReadMap
  <2>6. /\ Names(wtab, g.c, KidOf(RD, 1), k1) /\ KidOf(RD, 1) \in Nat /\ k1 \in Descs
        /\ Names(wtab, g.c, KidOf(RD, 2), k2) /\ KidOf(RD, 2) \in Nat /\ k2 \in Descs
    <3>1. Len(Kids[d]) = 2
      BY <1>2, DescFacts
    <3>. QED
      BY <1>2, <3>1, KidFacts
  <2>7. /\ Names(wtab, h.c, KidOf(RD, 1), k1) /\ Names(wtab, h.c, KidOf(RD, 2), k2)
        /\ Names(wtab, h.c, RD, d)
    BY <1>2, <1>4, <2>2, <2>6, NamesLater
  <2>8. /\ Body(k1) \in Position /\ Body(k2) \in Position /\ ~Slot(Body(k1)) /\ ~Slot(Body(k2))
        /\ RBody(KidOf(RD, 1), Skip) \in RPosition /\ RBody(KidOf(RD, 2), Skip) \in RPosition
    BY <1>2, <2>6, PositionMade, MadeForm, RMade
  <2>9. /\ Fits(wtab, drop, h.c, RBody(KidOf(RD, 1), Skip), Body(k1))
        /\ Fits(wtab, drop, h.c, RBody(KidOf(RD, 2), Skip), Body(k2))
    BY <1>2, <2>7, FitsMade
  <2>. HIDE DEF k1, k2
  <2>10. /\ more \in Seq(Position) /\ NoSlots(more) /\ more2 \in Seq(RPosition) /\ Len(more2) = Len(more)
         /\ \A x \in 1 .. Len(more) : Fits(wtab, drop, h.c, more2[x], more[x])
    <3>1. CASE n = 0
      BY <3>1, EmptyFacts
    <3>2. CASE n # 0
      <4>1. more = <<Body(k1), Body(k2)>> /\ more2 = <<RBody(KidOf(RD, 1), Skip), RBody(KidOf(RD, 2), Skip)>>
        BY <3>2
      <4>. HIDE DEF more, more2
      <4>2. more \in Seq(Position) /\ more2 \in Seq(RPosition) /\ Len(more2) = 2 /\ Len(more) = 2
        BY <2>8, <4>1
      <4>3. \A x \in 1 .. 2 : ~Slot(more[x]) /\ Fits(wtab, drop, h.c, more2[x], more[x])
        BY <2>8, <2>9, <4>1
      <4>. QED
        BY <4>2, <4>3 DEF NoSlots
    <3>. QED
      BY <3>1, <3>2
  <2>. HIDE DEF more, more2
  <2>11. NoSlots(h.a)
    BY ZenonT(30), <1>2, <1>3, <1>4, <2>1, <2>10, TurnSlots
  <2>12. e \in REntry /\ Holds(wtab, drop, h.c, h.a, Len(rtab) + 1, e)
    <3>1. NoSlots(h.a) /\ RD \in Nat /\ (~Skip) \in BOOLEAN /\ Names(wtab, h.c, RD, d) /\ (~Skip \/ drop # {})
          /\ wtab[g.c + 1] = Entry("map", d)
      BY ZenonT(30), <1>2, <1>8, <2>7, <2>11
    <3>2. e \in REntry /\ Holds(wtab, drop, h.c, h.a, g.c + 1, e)
      BY <3>1, NewRec
    <3>. QED
      BY ZenonT(30), <1>4, <3>2
  <2>. HIDE DEF e
  <2>13. Takes(H, i, i + 1, more, 1, 1, Append(rtab, e), more2)
    BY <1>2, <1>3, <2>1, <2>5, <2>10 DEF Takes, g, h
  <2>14. Holds(wtab, drop, H[i + 1].c, H[i + 1].a, Len(rtab) + 1, e)
    BY <2>12 DEF h
  <2>. QED
    BY <2>12, <2>13, <2>14, StepNew
<1>. QED
  BY <1>5, <1>6, <1>7, <1>8 DEF StepMap, p, d

(* A backing or the view of one, likewise. *)
LEMMA ReadSliceGood ==
  ASSUME NEW H, NEW i, Standing(H, i), ReadSlice
  PROVE  Good(H)
<1>. DEFINE g == H[i]
            h == H[i + 1]
            p == Head(g.a)
            d == p.d
<1>1. RAt("slice")
  BY DEF ReadSlice
<1>2. /\ expect # <<>> /\ p.k = "body" /\ NoSlots(g.a) /\ Kind[d] = "slice" /\ d \in Descs
      /\ (Skip => drop # {}) /\ Skip \in BOOLEAN /\ RD \in Nat /\ Names(wtab, g.c, RD, d)
      /\ \A j \in 1 .. Len(Kids[d]) : Names(wtab, g.c, KidOf(RD, j), Kids[d][j]) /\ KidOf(RD, j) \in Nat
  BY SMTT(30), <1>1, BodyAt
<1>3. /\ i + 1 \in 1 .. Len(H) /\ Onward(wire, wtab, drop, g, h) /\ h.c \in Nat
      /\ h.n \in Nat /\ h.n <= Len(wire) /\ g.a # <<>>
  BY <1>2, StandFacts
<1>4. g.a \in Seq(Position) /\ g.c \in Nat /\ Len(rtab) = g.c /\ g.n \in Nat
  BY StandTypes
<1>5. StepSlice(wire, wtab, g, h) \/ StepNil(wire, drop, g, h)
  BY <1>2, <1>3, BodyMoves
<1>. HIDE DEF g, h
<1>6. CASE StepNil(wire, drop, g, h)
  <2>1. /\ Class = "nil" /\ Tok.x = "slice" /\ (Step(1, rtab, <<>>) => Good(H))
    BY <1>2, <1>6, NilGood DEF g, h
  <2>2. Step(1, rtab, <<>>)
    BY <2>1 DEF ReadSlice
  <2>. QED
    BY <2>1, <2>2
<1>7. CASE /\ \E id \in 0 .. g.c - 1 : Again(wire, wtab, g, View(id, d))
           /\ Turn(g, h, <<>>, 1, 0)
  <2>1. PICK id \in 0 .. g.c - 1 : Again(wire, wtab, g, View(id, d))
    BY <1>7
  <2>. DEFINE tk == View(id, d)
  <2>2. h.n = g.n + 1
    BY <1>7, TurnForm
  <2>3. Tok = wire[g.n + 1] /\ Class = Tok.t
    BY <1>3, <1>4, <2>2, TokAt DEF g
  <2>4. tk.sort = "array" /\ tk.of = d /\ tk.t = "view"
    BY DEF View
  <2>. HIDE DEF tk
  <2>5. Known /\ Tok = tk /\ Named.sort = tk.sort
    BY <2>1, <2>3, NamedAt DEF g, tk
  <2>6. Class = "view" /\ Named.sort = "array"
    BY <2>3, <2>4, <2>5
  <2>7. IF Named.live THEN Named.of = RD ELSE drop # {}
    <3>1. Again(wire, wtab, g, tk) /\ Names(wtab, g.c, RD, tk.of)
      BY <1>2, <2>1, <2>4 DEF tk
    <3>. QED
      BY ZenonT(40), <2>3, <2>4, <3>1, RefBack DEF g
  <2>8. Step(1, rtab, <<>>) \/ (ErrEvolutionRef /\ ~Named.live)
    BY <2>5, <2>6, <2>7 DEF ReadSlice
  <2>9. Turn(H[i], H[i + 1], <<>>, 1, 0) /\ NoSlots(H[i].a)
    BY <1>2, <1>7 DEF g, h
  <2>10. Step(1, rtab, <<>>) => Good(H)
    BY ZenonT(30), <1>2, <1>3, <2>9, StepSame0
  <2>. QED
    BY <2>5, <2>6, <2>7, <2>8, <2>10, FailGood
<1>8. ASSUME NEW n \in 0 .. 1, wire[g.n + 1] = Lit("array", n), wtab[g.c + 1] = Entry("array", d),
             Turn(g, h, [j \in 1 .. n |-> Body(Kids[d][1])] \o <<ViewOf(g.c)>>, 1, 1)
      PROVE  Good(H)
  <2>. DEFINE k1 == Kids[d][1]
              u == [j \in 1 .. n |-> Body(k1)]
              v == <<ViewOf(g.c)>>
              u2 == [j \in 1 .. n |-> RBody(KidOf(RD, 1), Skip)]
              v2 == <<RView>>
              more == u \o v
              more2 == u2 \o v2
              e == Rec("array", RD, ~Skip)
  <2>1. Turn(g, h, more, 1, 1)
    BY <1>8
  <2>2. h.n = g.n + 1 /\ h.c = g.c + 1
    <3>. HIDE DEF more
    <3>. QED
      BY <2>1, TurnForm
  <2>3. Tok = wire[g.n + 1] /\ Class = Tok.t
    BY <1>3, <1>4, <2>2, TokAt DEF g
  <2>4. Class = "array" /\ Tok.x = n
    BY <1>8, <2>3 DEF Lit
  <2>5. Step(1, Append(rtab, e), more2)
    BY <2>4 DEF ReadSlice
  <2>6. Names(wtab, g.c, KidOf(RD, 1), k1) /\ KidOf(RD, 1) \in Nat /\ k1 \in Descs
    <3>1. Len(Kids[d]) = 1
      BY <1>2, DescFacts
    <3>. QED
      BY <1>2, <3>1, KidFacts
  <2>7. Names(wtab, h.c, KidOf(RD, 1), k1) /\ Names(wtab, h.c, RD, d)
    BY <1>2, <1>4, <2>2, <2>6, NamesLater
  <2>8. /\ Body(k1) \in Position /\ ~Slot(Body(k1)) /\ RBody(KidOf(RD, 1), Skip) \in RPosition
        /\ ViewOf(g.c) \in Position /\ ~Slot(ViewOf(g.c)) /\ RView \in RPosition
    BY ZenonT(30), <1>2, <1>4, <2>6, PositionMade, MadeForm, RMade
  <2>9. /\ Fits(wtab, drop, h.c, RBody(KidOf(RD, 1), Skip), Body(k1))
        /\ Fits(wtab, drop, h.c, RView, ViewOf(g.c))
    BY <1>2, <2>7, FitsMade
  <2>. HIDE DEF k1
  <2>10. /\ u \in Seq(Position) /\ u2 \in Seq(RPosition) /\ Len(u) = n /\ Len(u2) = n
         /\ \A x \in 1 .. n : u[x] = Body(k1) /\ u2[x] = RBody(KidOf(RD, 1), Skip)
    BY <2>8
  <2>11. /\ v \in Seq(Position) /\ v2 \in Seq(RPosition) /\ Len(v) = 1 /\ Len(v2) = 1
         /\ v[1] = ViewOf(g.c) /\ v2[1] = RView
    BY <2>8
  <2>. HIDE DEF u, v, u2, v2
  <2>12. /\ more \in Seq(Position) /\ more2 \in Seq(RPosition) /\ Len(more) = n + 1 /\ Len(more2) = n + 1
         /\ \A x \in 1 .. n : more[x] = u[x] /\ more2[x] = u2[x]
         /\ more[n + 1] = v[1] /\ more2[n + 1] = v2[1]
    <3>1. /\ more \in Seq(Position) /\ Len(more) = Len(u) + Len(v)
          /\ \A x \in 1 .. Len(u) : more[x] = u[x]
          /\ \A x \in 1 .. Len(v) : more[Len(u) + x] = v[x]
      <4>1. u \in Seq(Position) /\ v \in Seq(Position)
        BY <2>10, <2>11
      <4>. QED
        BY <4>1, ConcatFacts
    <3>2. /\ more2 \in Seq(RPosition) /\ Len(more2) = Len(u2) + Len(v2)
          /\ \A x \in 1 .. Len(u2) : more2[x] = u2[x]
          /\ \A x \in 1 .. Len(v2) : more2[Len(u2) + x] = v2[x]
      <4>1. u2 \in Seq(RPosition) /\ v2 \in Seq(RPosition)
        BY <2>10, <2>11
      <4>. QED
        BY <4>1, ConcatFacts
    <3>. HIDE DEF more, more2
    <3>3. 1 \in 1 .. Len(v) /\ 1 \in 1 .. Len(v2)
      BY <2>11
    <3>. QED
      BY <2>10, <2>11, <3>1, <3>2, <3>3
  <2>. HIDE DEF more, more2
  <2>13. \A x \in 1 .. Len(more) : x \in 1 .. n \/ x = n + 1
    BY <2>12
  <2>14. NoSlots(more)
    BY <2>8, <2>10, <2>11, <2>12, <2>13 DEF NoSlots
  <2>15. \A x \in 1 .. Len(more) : Fits(wtab, drop, h.c, more2[x], more[x])
    BY <2>9, <2>10, <2>11, <2>12, <2>13
  <2>16. NoSlots(h.a)
    BY <1>2, <1>3, <1>4, <2>1, <2>12, <2>14, TurnSlots
  <2>17. e \in REntry /\ Holds(wtab, drop, h.c, h.a, Len(rtab) + 1, e)
    <3>1. NoSlots(h.a) /\ RD \in Nat /\ (~Skip) \in BOOLEAN /\ Names(wtab, h.c, RD, d) /\ (~Skip \/ drop # {})
          /\ wtab[g.c + 1] = Entry("array", d)
      BY <1>2, <1>8, <2>7, <2>16
    <3>2. e \in REntry /\ Holds(wtab, drop, h.c, h.a, g.c + 1, e)
      BY <3>1, NewRec
    <3>. QED
      BY <1>4, <3>2
  <2>. HIDE DEF e
  <2>18. Takes(H, i, i + 1, more, 1, 1, Append(rtab, e), more2)
    BY <1>2, <1>3, <2>1, <2>5, <2>12, <2>14, <2>15 DEF Takes, g, h
  <2>19. Holds(wtab, drop, H[i + 1].c, H[i + 1].a, Len(rtab) + 1, e)
    BY <2>17 DEF h
  <2>. QED
    BY <2>17, <2>18, <2>19, StepNew
<1>. QED
  BY <1>5, <1>6, <1>7, <1>8 DEF StepSlice, p, d

LEMMA ReadViewGood ==
  ASSUME NEW H, NEW i, Standing(H, i), ReadView
  PROVE  Good(H)
<1>. DEFINE g == H[i]
            h == H[i + 1]
            p == Head(g.a)
<1>1. expect # <<>> /\ Head(expect).k = "view"
  BY DEF ReadView
<1>2. /\ i + 1 \in 1 .. Len(H) /\ Onward(wire, wtab, drop, g, h) /\ h.n \in Nat /\ h.n <= Len(wire)
      /\ g.a # <<>> /\ p \in Position /\ Head(expect) \in RPosition /\ PosOK(wtab, g.c, p)
      /\ Fits(wtab, drop, g.c, Head(expect), p) /\ (Slot(p) \/ NoSlots(g.a))
  BY <1>1, StandFacts
<1>3. /\ g.a \in Seq(Position) /\ g.c \in Nat /\ Len(rtab) = g.c /\ g.n \in Nat
      /\ Match(wtab, drop, rtab, expect, pos, g) /\ g \in Moment
  BY StandTypes
<1>4. p.k \in {"name", "kid", "desc", "body", "open", "view"}
  BY <1>2, PositionForm
<1>5. p.k = "view" /\ ~Slot(p) /\ p.id \in Nat
  BY SMTT(30), <1>1, <1>2, <1>4, PositionForm DEF Fits, Slot
<1>6. p.id < g.c /\ wtab[p.id + 1].sort = "array"
  BY <1>2, <1>5 DEF PosOK
<1>8. StepView(wire, wtab, g, h)
  <2>1. ~StepDescLit(wire, wtab, g, h) /\ ~StepDescRef(wire, wtab, g, h)
    BY <1>5, Zenon DEF StepDescLit, StepDescRef
  <2>2. ~StepName(wire, wtab, g, h) /\ ~StepOpen(wtab, g, h)
    BY ZenonT(30), <1>5 DEF StepName, StepOpen
  <2>3. /\ ~StepText(wire, wtab, drop, g, h) /\ ~StepStruct(wire, g, h) /\ ~StepNil(wire, drop, g, h)
        /\ ~StepMap(wire, wtab, drop, g, h) /\ ~StepSlice(wire, wtab, g, h) /\ ~StepIface(g, h)
        /\ ~StepRepeat(wire, wtab, g, h) /\ ~StepRecord(wtab, g, h) /\ ~StepTag(g, h)
        /\ ~StepPath(wire, wtab, drop, g, h)
    BY <1>5 DEF StepText, StepStruct, StepNil, StepMap, StepSlice, StepIface, StepRepeat, StepRecord, StepTag, StepPath, BodyIs
  <2>. QED
    BY <1>2, <2>1, <2>2, <2>3 DEF Onward
<1>9. wire[g.n + 1] = View(p.id, wtab[p.id + 1].of) /\ Turn(g, h, <<>>, 1, 0)
  BY <1>8 DEF StepView
<1>10. h.n = g.n + 1
  <2>. HIDE DEF g, h
  <2>. QED
    BY <1>9, TurnForm
<1>11. Tok = wire[g.n + 1] /\ Class = Tok.t
  BY <1>2, <1>3, <1>10, TokAt
<1>12. Class = "view" /\ Tok.x = p.id
  BY <1>9, <1>11 DEF View
<1>13. Known /\ Named = rtab[p.id + 1] /\ p.id + 1 \in 1 .. Len(rtab)
  BY SMTT(30), <1>3, <1>5, <1>6, <1>12 DEF Known, Named
<1>14. Holds(wtab, drop, g.c, g.a, p.id + 1, Named)
  BY <1>3, <1>13, MatchForm
<1>15. Named.sort = "array"
  BY <1>6, <1>14 DEF Holds
<1>16. Step(1, rtab, <<>>)
  BY <1>12, <1>13, <1>15 DEF ReadView
<1>17. Turn(H[i], H[i + 1], <<>>, 1, 0) /\ NoSlots(H[i].a)
  BY <1>2, <1>5, <1>9
<1>. QED
  BY <1>1, <1>2, <1>16, <1>17, StepSame0

(* A moment before a descriptor: what is written next. *)
LEMMA DescNext ==
  ASSUME NEW H, WInv(H, wire, wtab, drop, todo, strs, claims), todo = <<>>,
         NEW k \in 1 .. Len(H), NEW h, h = H[k], h.a # <<>>, Head(h.a).k \in {"kid", "desc"},
         NEW f, f = H[k + 1]
  PROVE  /\ k + 1 \in 1 .. Len(H) /\ Stage(wire, wtab, f) /\ Stage(wire, wtab, h)
         /\ StepDescLit(wire, wtab, h, f) \/ StepDescRef(wire, wtab, h, f)
         /\ h.n + 1 <= Len(wire) /\ wire[h.n + 1].t \in {"desc", "ref"} /\ h.n \in Nat
<1>. DEFINE p == Head(h.a)
<1>1. /\ Past(H, wire, wtab, drop) /\ H[Len(H)].a = <<>> /\ Len(H) \in Nat /\ Len(wire) \in Nat
  BY NowFacts
<1>2. k # Len(H) /\ k \in 1 .. Len(H) - 1 /\ k + 1 \in 1 .. Len(H)
  BY <1>1
<1>3. Goes(wire, wtab, drop, h, f) /\ Stage(wire, wtab, h) /\ Stage(wire, wtab, f)
  BY <1>1, <1>2 DEF Past
<1>4. Onward(wire, wtab, drop, h, f)
  BY <1>3 DEF Goes, StepValue
<1>5. StepDescLit(wire, wtab, h, f) \/ StepDescRef(wire, wtab, h, f)
  <2>1. p.k \in {"kid", "desc"}
    OBVIOUS
  <2>2. ~StepName(wire, wtab, h, f) /\ ~StepOpen(wtab, h, f) /\ ~StepView(wire, wtab, h, f)
    BY ZenonT(30), <2>1 DEF StepName, StepOpen, StepView
  <2>3. /\ ~StepText(wire, wtab, drop, h, f) /\ ~StepStruct(wire, h, f) /\ ~StepNil(wire, drop, h, f)
        /\ ~StepMap(wire, wtab, drop, h, f) /\ ~StepSlice(wire, wtab, h, f) /\ ~StepIface(h, f)
        /\ ~StepRepeat(wire, wtab, h, f) /\ ~StepRecord(wtab, h, f) /\ ~StepTag(h, f)
        /\ ~StepPath(wire, wtab, drop, h, f)
    BY <2>1 DEF StepText, StepStruct, StepNil, StepMap, StepSlice, StepIface, StepRepeat, StepRecord, StepTag, StepPath, BodyIs
  <2>. QED
    BY <1>4, <2>2, <2>3 DEF Onward
<1>6. h \in Moment /\ f \in Moment /\ h.n \in Nat /\ f.n \in Nat /\ f.n <= Len(wire)
  BY <1>3, MomentForm DEF Stage
<1>7. CASE StepDescLit(wire, wtab, h, f)
  <2>. DEFINE d == DescOf(wtab, p)
              more == Parts(h.c, d) \o Behind(p)
  <2>1. wire[h.n + 1] = [t |-> "desc", x |-> Kind[d], n |-> Len(Kids[d])] /\ Turn(h, f, more, 1, 1)
    BY <1>7, Zenon DEF StepDescLit
  <2>2. f.n = h.n + 1
    <3>. HIDE DEF more
    <3>. QED
      BY <2>1, TurnForm
  <2>. QED
    BY <1>1, <1>2, <1>3, <1>5, <1>6, <2>1, <2>2
<1>8. CASE StepDescRef(wire, wtab, h, f)
  <2>. DEFINE d == DescOf(wtab, p)
              more == Behind(p)
  <2>1. (\E id \in 0 .. h.c - 1 : wire[h.n + 1] = Ref(id, "desc", d)) /\ Turn(h, f, more, 1, 0)
    BY <1>8, Zenon DEF StepDescRef
  <2>2. f.n = h.n + 1
    <3>. HIDE DEF more
    <3>. QED
      BY <2>1, TurnForm
  <2>3. wire[h.n + 1].t = "ref"
    BY <2>1 DEF Ref
  <2>. QED
    BY <1>1, <1>2, <1>3, <1>5, <1>6, <2>2, <2>3
<1>. QED
  BY <1>5, <1>7, <1>8

(* A step to one position in front of the rest. *)
LEMMA StepSame1 ==
  ASSUME NEW H, NEW i, NEW j, Standing(H, i), expect # <<>>, NoSlots(H[i].a), j \in 1 .. Len(H),
         NEW n \in Nat, NEW q \in Position, ~Slot(q), Turn(H[i], H[j], <<q>>, n, 0),
         NEW q2 \in RPosition, Fits(wtab, drop, H[j].c, q2, q), Step(n, rtab, <<q2>>)
  PROVE  Good(H)
<1>. DEFINE one == <<q>>
            one2 == <<q2>>
<1>1. /\ one \in Seq(Position) /\ NoSlots(one) /\ one2 \in Seq(RPosition) /\ Len(one2) = Len(one)
      /\ \A x \in 1 .. Len(one) : Fits(wtab, drop, H[j].c, one2[x], one[x])
  BY DEF NoSlots
<1>2. Turn(H[i], H[j], one, n, 0) /\ Step(n, rtab, one2)
  OBVIOUS
<1>. HIDE DEF one, one2
<1>3. Takes(H, i, j, one, n, 0, rtab, one2)
  BY <1>1, <1>2 DEF Takes
<1>. QED
  BY <1>3, StepSame

LEMMA StepNew1 ==
  ASSUME NEW H, NEW i, NEW j, Standing(H, i), expect # <<>>, NoSlots(H[i].a), j \in 1 .. Len(H),
         NEW n \in Nat, NEW q \in Position, ~Slot(q), Turn(H[i], H[j], <<q>>, n, 1),
         NEW q2 \in RPosition, Fits(wtab, drop, H[j].c, q2, q),
         NEW e \in REntry, Step(n, Append(rtab, e), <<q2>>),
         Holds(wtab, drop, H[j].c, H[j].a, Len(rtab) + 1, e)
  PROVE  Good(H)
<1>. DEFINE one == <<q>>
            one2 == <<q2>>
<1>1. /\ one \in Seq(Position) /\ NoSlots(one) /\ one2 \in Seq(RPosition) /\ Len(one2) = Len(one)
      /\ \A x \in 1 .. Len(one) : Fits(wtab, drop, H[j].c, one2[x], one[x])
  BY DEF NoSlots
<1>2. Turn(H[i], H[j], one, n, 1) /\ Step(n, Append(rtab, e), one2)
  OBVIOUS
<1>. HIDE DEF one, one2
<1>3. Takes(H, i, j, one, n, 1, Append(rtab, e), one2)
  BY <1>1, <1>2 DEF Takes
<1>. QED
  BY <1>3, StepNew

LEMMA HeadOne ==
  ASSUME NEW a, a \in Seq(Position), NEW q \in Position, NEW b, b = <<q>> \o Tail(a), a # <<>>
  PROVE  b \in Seq(Position) /\ b # <<>> /\ Head(b) = q /\ Tail(b) = Tail(a)
<1>. DEFINE z == Tail(a)
            u == <<q>>
<1>1. z \in Seq(Position)
  BY TailFacts
<1>2. u = <<q>> /\ u \in Seq(Position) /\ b = u \o z
  OBVIOUS
<1>. HIDE DEF z, u
<1>3. Tail(b) = z /\ Head(b) = q /\ b # <<>>
  BY <1>1, <1>2, ConsTail
<1>4. b \in Seq(Position)
  BY <1>1, <1>2, ConcatFacts
<1>. QED
  BY <1>3, <1>4 DEF z

LEMMA TurnOne ==
  ASSUME NEW g, g.a \in Seq(Position), g.a # <<>>, NEW q \in Position, NEW h, NEW n, NEW c,
         Turn(g, h, <<q>>, n, c)
  PROVE  /\ h.a \in Seq(Position) /\ h.a # <<>> /\ Head(h.a) = q /\ Tail(h.a) = Tail(g.a)
         /\ h.n = g.n + n /\ h.c = g.c + c
<1>. DEFINE one == <<q>>
<1>1. Turn(g, h, one, n, c)
  OBVIOUS
<1>2. h.a = one \o Tail(g.a) /\ h.n = g.n + n /\ h.c = g.c + c
  <2>. HIDE DEF one
  <2>. QED
    BY <1>1, TurnForm
<1>3. h.a = <<q>> \o Tail(g.a)
  BY <1>2
<1>4. h.a \in Seq(Position) /\ h.a # <<>> /\ Head(h.a) = q /\ Tail(h.a) = Tail(g.a)
  BY <1>3, HeadOne
<1>. QED
  BY <1>2, <1>4

LEMMA ReadIfaceGood ==
  ASSUME NEW H, NEW i, Standing(H, i), ReadIface
  PROVE  Good(H)
<1>. DEFINE g == H[i]
            h == H[i + 1]
            p == Head(g.a)
<1>1. RAt("iface")
  BY DEF ReadIface
<1>2. /\ expect # <<>> /\ p.k = "body" /\ NoSlots(g.a) /\ Kind[p.d] = "iface"
      /\ (Skip => drop # {}) /\ Skip \in BOOLEAN
  BY <1>1, BodyAt
<1>3. /\ i + 1 \in 1 .. Len(H) /\ Onward(wire, wtab, drop, g, h) /\ h.c \in Nat
      /\ h.n \in Nat /\ h.n <= Len(wire) /\ g.a # <<>>
  BY <1>2, StandFacts
<1>4. g.a \in Seq(Position) /\ g.c \in Nat /\ Len(rtab) = g.c /\ g.n \in Nat
  BY StandTypes
<1>5. StepIface(g, h) \/ StepNil(wire, drop, g, h)
  BY <1>2, <1>3, BodyMoves
<1>. HIDE DEF g, h
<1>6. CASE StepNil(wire, drop, g, h)
  <2>1. /\ Class = "nil" /\ Tok.x = "iface" /\ (Step(1, rtab, <<>>) => Good(H))
    BY <1>2, <1>6, NilGood DEF g, h
  <2>2. Step(1, rtab, <<>>)
    BY <2>1 DEF ReadIface
  <2>. QED
    BY <2>1, <2>2
<1>7. CASE StepIface(g, h)
  <2>1. PICK d \in Descs : Turn(g, h, <<DescAt(d, "body")>>, 0, 0)
    BY <1>7 DEF StepIface
  <2>. DEFINE q == DescAt(d, "body")
              q2 == RDesc(0, "body", Skip)
  <2>2. q \in Position /\ ~Slot(q) /\ q.k = "desc" /\ q2 \in RPosition
    BY <1>2, PositionMade, MadeForm, RMade
  <2>3. Fits(wtab, drop, h.c, q2, q)
    BY <1>2, FitsMade
  <2>4. Turn(g, h, <<q>>, 0, 0)
    BY <2>1
  <2>. HIDE DEF q
  <2>5. h.a # <<>> /\ Head(h.a) = q /\ h.n = g.n + 0
    BY <1>3, <1>4, <2>2, <2>4, TurnOne
  <2>6. h.a # <<>> /\ Head(h.a) = q /\ h.n = g.n
    BY <1>4, <2>5
  <2>7. WInv(H, wire, wtab, drop, todo, strs, claims) /\ todo = <<>>
    BY DEF Standing
  <2>8. h.n + 1 <= Len(wire) /\ wire[h.n + 1].t \in {"desc", "ref"}
    BY <1>3, <2>2, <2>6, <2>7, DescNext DEF h
  <2>9. Tok = wire[g.n + 1] /\ Class = Tok.t
    <3>1. Len(wire) \in Nat /\ Len(wire) <= Len(wire) /\ g.n + 1 <= Len(wire)
      BY <2>6, <2>8, StandTypes
    <3>. QED
      BY <3>1, TokAt DEF g
  <2>10. Class # "nil"
    BY <2>6, <2>8, <2>9
  <2>11. Step(0, rtab, <<q2>>)
    BY <2>10 DEF ReadIface
  <2>12. Turn(H[i], H[i + 1], <<q>>, 0, 0) /\ NoSlots(H[i].a) /\ Fits(wtab, drop, H[i + 1].c, q2, q)
    BY <1>2, <2>3, <2>4 DEF g, h
  <2>. HIDE DEF q2
  <2>. QED
    BY <1>2, <1>3, <2>2, <2>11, <2>12, StepSame1
<1>. QED
  BY <1>5, <1>6, <1>7

-----------------------------------------------------------------------------
(***************************************************************************)
(* Pointers, read and skipped.                                             *)
(***************************************************************************)

LEMMA NextFacts ==
  ASSUME NEW H, WInv(H, wire, wtab, drop, todo, strs, claims), todo = <<>>,
         NEW k \in 1 .. Len(H), NEW h, h = H[k], h.a # <<>>, NEW f, f = H[k + 1]
  PROVE  /\ k + 1 \in 1 .. Len(H) /\ k \in Nat /\ Onward(wire, wtab, drop, h, f)
         /\ Stage(wire, wtab, h) /\ Stage(wire, wtab, f) /\ h \in Moment /\ f \in Moment
         /\ h.n \in Nat /\ f.n \in Nat /\ h.c \in Nat /\ f.c \in Nat /\ f.n <= Len(wire) /\ f.c <= Len(wtab)
         /\ h.a \in Seq(Position) /\ f.a \in Seq(Position) /\ Len(wire) \in Nat
<1>1. /\ Past(H, wire, wtab, drop) /\ H[Len(H)].a = <<>> /\ Len(H) \in Nat /\ Len(wire) \in Nat
  BY NowFacts
<1>2. k # Len(H) /\ k \in 1 .. Len(H) - 1 /\ k + 1 \in 1 .. Len(H) /\ k \in Nat
  BY <1>1
<1>3. Goes(wire, wtab, drop, h, f) /\ Stage(wire, wtab, h) /\ Stage(wire, wtab, f)
  BY <1>1, <1>2 DEF Past
<1>4. Onward(wire, wtab, drop, h, f)
  BY <1>3 DEF Goes, StepValue
<1>5. h \in Moment /\ f \in Moment /\ f.n <= Len(wire) /\ f.c <= Len(wtab)
  BY <1>3 DEF Stage
<1>6. h.n \in Nat /\ f.n \in Nat /\ h.c \in Nat /\ f.c \in Nat /\ h.a \in Seq(Position) /\ f.a \in Seq(Position)
  BY <1>5, MomentForm
<1>. QED
  BY <1>1, <1>2, <1>3, <1>4, <1>5, <1>6

(* A reference that ends its record is not followed by a path. *)
LEMMA NotPath ==
  ASSUME NEW H, NEW i, Standing(H, i), NEW g, g = H[i], NEW f, Stage(wire, wtab, f), f.n = g.n + 1
  PROVE  ~IsPath
<1>1. pos = g.n /\ g.n \in Nat
  BY StandTypes
<1>2. f.n < Len(wire) => wire[f.n + 1].t # "path"
  BY DEF Stage
<1>3. (g.n + 1) + 1 = g.n + 2
  BY <1>1
<1>. QED
  BY <1>1, <1>2, <1>3 DEF IsPath

(* The cursor, at a later moment of the same token. *)
Abreast(H, i, g, h) ==
  /\ Standing(H, i) /\ g = H[i] /\ h.n = g.n /\ h.c \in {g.c, g.c + 1}
  /\ h.c = g.c + 1 => wtab[g.c + 1].sort = "value"

LEMMA RefHere ==
  ASSUME NEW H, NEW i, NEW g, NEW h, Abreast(H, i, g, h), NEW tk, Again(wire, wtab, h, tk),
         tk.sort # "value", tk.t = "ref", NEW f, Stage(wire, wtab, f), f.n = g.n + 1
  PROVE  /\ Class = "ref" /\ ~IsPath /\ Known /\ Named.sort = tk.sort /\ Tok = tk
<1>1. /\ Standing(H, i) /\ g = H[i] /\ h.n = g.n /\ h.c \in {g.c, g.c + 1}
      /\ h.c = g.c + 1 => wtab[g.c + 1].sort = "value"
  BY DEF Abreast
<1>2. g.n \in Nat /\ g.c \in Nat
  BY <1>1, StandTypes
<1>3. tk.x \in 0 .. h.c - 1 /\ wire[g.n + 1] = tk /\ wtab[tk.x + 1] = Entry(tk.sort, tk.of)
  BY <1>1 DEF Again
<1>4. tk.x \in 0 .. g.c - 1
  <2>1. wtab[tk.x + 1].sort # "value"
    BY <1>3 DEF Entry
  <2>2. CASE h.c = g.c
    BY <1>3, <2>2
  <2>3. CASE h.c = g.c + 1
    <3>1. tk.x # g.c
      BY <1>1, <2>1, <2>3
    <3>. QED
      BY <1>2, <1>3, <2>3, <3>1
  <2>. QED
    BY <1>1, <2>2, <2>3
<1>5. Again(wire, wtab, g, tk)
  BY <1>3, <1>4 DEF Again
<1>6. f.n \in Nat /\ f.n <= Len(wire)
  BY <1>1, <1>2 DEF Stage
<1>7. Tok = wire[g.n + 1] /\ Class = Tok.t
  BY <1>1, <1>6, TokAt
<1>8. Known /\ Tok = tk /\ Named.sort = tk.sort
  BY <1>1, <1>5, <1>7, NamedAt
<1>9. ~IsPath
  BY <1>1, NotPath
<1>. QED
  BY <1>7, <1>8, <1>9

LEMMA ClassHere ==
  ASSUME NEW H, NEW i, NEW g, NEW h, Abreast(H, i, g, h), NEW f, Stage(wire, wtab, f), f.n = g.n + 1
  PROVE  Tok = wire[h.n + 1] /\ Class = Tok.t
<1>1. Standing(H, i) /\ g = H[i] /\ h.n = g.n
  BY DEF Abreast
<1>2. g.n \in Nat
  BY <1>1, StandTypes
<1>3. f.n \in Nat /\ f.n <= Len(wire) /\ g.n + 1 <= f.n
  BY <1>2 DEF Stage
<1>. QED
  BY <1>1, <1>3, TokAt

(* A descriptor is next, in full or by reference. *)
LEMMA DescHere ==
  ASSUME NEW H, NEW i, NEW g, NEW j \in 1 .. Len(H), NEW h, h = H[j], Abreast(H, i, g, h), h.a # <<>>,
         Head(h.a).k = "desc", NEW d, d = Head(h.a).d, NEW f, f = H[j + 1]
  PROVE  /\ j + 1 \in 1 .. Len(H)
         /\ \/ Class = "desc"
            \/ /\ Class = "ref" /\ ~IsPath /\ Known /\ Named.sort = "desc" /\ Tok.x \in Nat
               /\ Names(wtab, g.c, Tok.x, d) /\ Turn(h, f, Behind(Head(h.a)), 1, 0)
<1>1. /\ Standing(H, i) /\ g = H[i] /\ h.n = g.n /\ h.c \in {g.c, g.c + 1}
      /\ h.c = g.c + 1 => wtab[g.c + 1].sort = "value"
  BY DEF Abreast
<1>2. g.n \in Nat /\ g.c \in Nat /\ Len(wire) \in Nat /\ Len(rtab) = g.c
      /\ Match(wtab, drop, rtab, expect, pos, g) /\ g \in Moment
  BY <1>1, StandTypes
<1>3. /\ j + 1 \in 1 .. Len(H) /\ Stage(wire, wtab, f)
      /\ StepDescLit(wire, wtab, h, f) \/ StepDescRef(wire, wtab, h, f)
      /\ h.n + 1 <= Len(wire)
  BY <1>1, DescNext DEF Standing
<1>4. Tok = wire[g.n + 1] /\ Class = Tok.t
  <2>1. Len(wire) \in Nat /\ Len(wire) <= Len(wire) /\ g.n + 1 <= Len(wire)
    BY SMTT(30), <1>1, <1>2, <1>3
  <2>. QED
    BY <1>1, <2>1, TokAt
<1>5. DescOf(wtab, Head(h.a)) = d
  BY DEF DescOf
<1>6. CASE StepDescLit(wire, wtab, h, f)
  <2>. DEFINE b == DescOf(wtab, Head(h.a))
  <2>2. wire[h.n + 1] = [t |-> "desc", x |-> Kind[b], n |-> Len(Kids[b])]
    BY <1>6, Zenon DEF StepDescLit
  <2>. HIDE DEF b
  <2>1. wire[h.n + 1].t = "desc"
    BY <2>2
  <2>. QED
    BY <1>1, <1>3, <1>4, <2>1
<1>7. CASE StepDescRef(wire, wtab, h, f)
  <2>1. PICK id \in 0 .. h.c - 1 : Names(wtab, h.c, id, d) /\ wire[h.n + 1] = Ref(id, "desc", d)
    BY <1>5, <1>7, Zenon DEF StepDescRef
  <2>. DEFINE more == Behind(Head(h.a))
  <2>2. Turn(h, f, more, 1, 0)
    BY <1>7, Zenon DEF StepDescRef
  <2>. HIDE DEF more
  <2>3. f.n = h.n + 1
    BY <2>2, TurnForm
  <2>4. Tok = Ref(id, "desc", d) /\ Class = "ref" /\ Tok.x = id
    BY <1>1, <1>4, <2>1 DEF Ref
  <2>5. id \in Nat /\ wtab[id + 1].sort = "desc" /\ id < h.c
    BY <2>1 DEF Names, Owned
  <2>6. id < g.c
    <3>1. CASE h.c = g.c
      BY <2>5, <3>1
    <3>2. CASE h.c = g.c + 1
      <4>1. id # g.c
        BY <1>1, <2>5, <3>2
      <4>. QED
        BY <1>2, <2>5, <3>2, <4>1
    <3>. QED
      BY <1>1, <3>1, <3>2
  <2>7. Names(wtab, g.c, id, d)
    BY <2>1, <2>5, <2>6 DEF Names, Owned
  <2>8. Known /\ Named = rtab[id + 1] /\ id + 1 \in 1 .. Len(rtab)
    BY <1>2, <2>4, <2>5, <2>6 DEF Known, Named
  <2>9. Holds(wtab, drop, g.c, g.a, id + 1, Named)
    BY <1>2, <2>8, MatchForm
  <2>10. Named.sort = "desc"
    BY <2>5, <2>9 DEF Holds
  <2>11. ~IsPath
    BY <1>1, <1>3, <2>3, NotPath
  <2>. QED
    BY <1>3, <2>2, <2>4, <2>5, <2>7, <2>8, <2>10, <2>11 DEF more
<1>. QED
  BY <1>3, <1>6, <1>7

LEMMA KindKnown ==
  ASSUME NEW tab, NEW dr, NEW rt, NEW ex, NEW ps, NEW g, Match(tab, dr, rt, ex, ps, g), g \in Moment,
         NoSlots(g.a), NEW id, NEW d, Names(tab, g.c, id, d)
  PROVE  rt[id + 1].kind = Kind[d]
<1>. DEFINE r == rt[id + 1]
<1>1. r = rt[id + 1]
  OBVIOUS
<1>. HIDE DEF r
<1>2. /\ id + 1 \in 1 .. Len(rt) /\ r.kind = Kind[d] /\ r.name = Name[d]
      /\ r.fields = Fields[d] /\ DOMAIN r.kids = 1 .. Len(Kids[d]) /\ r.kids \in Seq(Nat)
      /\ \A j \in 1 .. Len(Kids[d]) : Names(tab, g.c, r.kids[j], Kids[d][j])
  BY <1>1, BodyKnown
<1>. QED
  BY <1>1, <1>2

(* A position that a pointer is read at. *)
Pointing(H, i, g, h, p, e, kid) ==
  /\ Standing(H, i) /\ RAt("ptr") /\ g = H[i] /\ h = H[i + 1] /\ p = Head(g.a)
  /\ e = Elem(g) /\ kid = KidOf(RD, 1)

LEMMA PointerAt ==
  ASSUME NEW H, NEW i, NEW g, NEW h, NEW p, NEW e, NEW kid, Pointing(H, i, g, h, p, e, kid)
  PROVE  /\ Standing(H, i) /\ g = H[i] /\ h = H[i + 1] /\ i + 1 \in 1 .. Len(H)
         /\ WInv(H, wire, wtab, drop, todo, strs, claims) /\ todo = <<>>
         /\ expect # <<>> /\ p.k = "body" /\ NoSlots(g.a) /\ Kind[p.d] = "ptr" /\ p.d \in Descs
         /\ (Skip => drop # {}) /\ Skip \in BOOLEAN
         /\ kid \in Nat /\ e \in Descs /\ Names(wtab, g.c, kid, e) /\ (IfaceElem <=> Kind[e] = "iface")
         /\ Kind[e] \in Kinds
         /\ Onward(wire, wtab, drop, g, h) /\ Stage(wire, wtab, h) /\ h.c \in Nat /\ h.n \in Nat
         /\ h.n <= Len(wire) /\ g.a # <<>> /\ g.a \in Seq(Position)
         /\ g.c \in Nat /\ Len(rtab) = g.c /\ g.n \in Nat /\ pos = g.n /\ Len(wire) \in Nat
         /\ \/ StepNil(wire, drop, g, h) \/ StepRepeat(wire, wtab, g, h) \/ StepRecord(wtab, g, h)
            \/ StepTag(g, h) \/ StepPath(wire, wtab, drop, g, h)
<1>1. /\ Standing(H, i) /\ RAt("ptr") /\ g = H[i] /\ h = H[i + 1] /\ p = Head(g.a)
      /\ e = Elem(g) /\ kid = KidOf(RD, 1)
  BY DEF Pointing
<1>2. /\ expect # <<>> /\ p.k = "body" /\ NoSlots(g.a) /\ Kind[p.d] = "ptr" /\ p.d \in Descs
      /\ (Skip => drop # {}) /\ Skip \in BOOLEAN
      /\ \A j \in 1 .. Len(Kids[p.d]) : Names(wtab, g.c, KidOf(RD, j), Kids[p.d][j]) /\ KidOf(RD, j) \in Nat
  BY SMTT(30), <1>1, BodyAt
<1>3. /\ i + 1 \in 1 .. Len(H) /\ Onward(wire, wtab, drop, g, h) /\ Stage(wire, wtab, h) /\ h.c \in Nat
      /\ h.n \in Nat /\ h.n <= Len(wire) /\ g.a # <<>>
  BY <1>1, <1>2, StandFacts
<1>4. /\ g.a \in Seq(Position) /\ g.c \in Nat /\ Len(rtab) = g.c /\ g.n \in Nat /\ pos = g.n
      /\ Len(wire) \in Nat /\ Match(wtab, drop, rtab, expect, pos, g) /\ g \in Moment
  BY <1>1, StandTypes
<1>5. Len(Kids[p.d]) = 1 /\ e = Kids[p.d][1]
  BY ZenonT(30), <1>1, <1>2, DescFacts DEF Elem
<1>6. kid \in Nat /\ Names(wtab, g.c, kid, e)
  BY <1>1, <1>2, <1>5
<1>7. e \in Descs /\ Kind[e] \in Kinds
  BY <1>2, <1>5, KidFacts, DescFacts
<1>8. rtab[kid + 1].kind = Kind[e]
  <2>1. /\ Match(wtab, drop, rtab, expect, pos, g) /\ g \in Moment /\ NoSlots(g.a)
        /\ Names(wtab, g.c, kid, e)
    BY ZenonT(30), <1>2, <1>4, <1>6
  <2>. QED
    BY <2>1, KindKnown
<1>9. IfaceElem <=> Kind[e] = "iface"
  BY ZenonT(30), <1>1, <1>8 DEF IfaceElem, KindOf
<1>10. \/ StepNil(wire, drop, g, h) \/ StepRepeat(wire, wtab, g, h) \/ StepRecord(wtab, g, h)
       \/ StepTag(g, h) \/ StepPath(wire, wtab, drop, g, h)
  BY <1>1, <1>2, <1>3, BodyMoves
<1>11. WInv(H, wire, wtab, drop, todo, strs, claims) /\ todo = <<>>
  BY <1>1 DEF Standing
<1>. QED
  BY <1>1, <1>2, <1>3, <1>4, <1>6, <1>7, <1>9, <1>10, <1>11

(* The next step of a record whose body is held. *)
LEMMA HeldNext ==
  ASSUME NEW H, NEW i, NEW g, NEW h, NEW p, NEW e, NEW kid, Pointing(H, i, g, h, p, e, kid),
         StepRecord(wtab, g, h), NEW f, f = H[i + 2]
  PROVE  /\ i + 2 \in 1 .. Len(H) /\ Turn(g, h, <<Held(e)>>, 0, 1) /\ wtab[g.c + 1] = Entry("value", e)
         /\ Abreast(H, i, g, h) /\ Kind[e] # "ptr"
         /\ \/ Class \in {"str", "struct", "map", "array", "view"}
            \/ Class = "nil" /\ Tok.x # "ptr" /\ drop = {}
            \/ Class = "ref" /\ ~IsPath /\ Known /\ Named.sort \in {"str", "map", "array"} /\ drop = {}
            \/ Kind[e] = "iface" /\ StepIface(h, f)
<1>1. /\ Standing(H, i) /\ g = H[i] /\ h = H[i + 1] /\ i + 1 \in 1 .. Len(H)
      /\ WInv(H, wire, wtab, drop, todo, strs, claims) /\ todo = <<>>
      /\ e \in Descs /\ Kind[e] \in Kinds /\ g.a # <<>> /\ g.a \in Seq(Position)
      /\ g.c \in Nat /\ g.n \in Nat
  BY PointerAt
<1>2. e = Elem(g)
  BY DEF Pointing
<1>3. Kind[e] # "ptr" /\ wtab[g.c + 1] = Entry("value", e) /\ Turn(g, h, <<Held(e)>>, 0, 1)
  BY <1>2 DEF StepRecord
<1>. DEFINE q == Held(e)
<1>4. q \in Position /\ q.k = "body" /\ q.d = e /\ q.held = TRUE
  BY <1>1, PositionMade, MadeForm
<1>5. Turn(g, h, <<q>>, 0, 1)
  BY <1>3
<1>. HIDE DEF q
<1>6. h.a # <<>> /\ Head(h.a) = q /\ h.n = g.n + 0 /\ h.c = g.c + 1
  BY SMTT(30), <1>1, <1>4, <1>5, TurnOne
<1>7. Abreast(H, i, g, h)
  <2>1. h.n = g.n /\ h.c \in {g.c, g.c + 1}
    BY <1>1, <1>6
  <2>2. wtab[g.c + 1].sort = "value"
    BY <1>3 DEF Entry
  <2>. QED
    BY <1>1, <2>1, <2>2 DEF Abreast
<1>8. (i + 1) + 1 = i + 2
  BY <1>1, StandTypes
<1>9. /\ i + 2 \in 1 .. Len(H) /\ Onward(wire, wtab, drop, h, f) /\ Stage(wire, wtab, f)
  <2>. DEFINE k == i + 1
  <2>1. k \in 1 .. Len(H) /\ h = H[k] /\ f = H[k + 1] /\ h.a # <<>>
    BY <1>1, <1>6, <1>8
  <2>. HIDE DEF k
  <2>2. k + 1 \in 1 .. Len(H) /\ Onward(wire, wtab, drop, h, f) /\ Stage(wire, wtab, f)
    BY <1>1, <2>1, NextFacts
  <2>. QED
    BY <1>8, <2>2 DEF k
<1>. DEFINE kind == Kind[e]
            Now == \/ Class \in {"str", "struct", "map", "array", "view"}
                   \/ Class = "nil" /\ Tok.x # "ptr" /\ drop = {}
                   \/ Class = "ref" /\ ~IsPath /\ Known /\ Named.sort \in {"str", "map", "array"} /\ drop = {}
                   \/ Kind[e] = "iface" /\ StepIface(h, f)
<1>10. Head(h.a).k = "body" /\ kind = Kind[Head(h.a).d] /\ Head(h.a).held = TRUE /\ Head(h.a).d = e
  BY <1>4, <1>6
<1>11. /\ kind = "string" => StepText(wire, wtab, drop, h, f)
       /\ kind = "struct" => StepStruct(wire, h, f)
       /\ kind = "map" => StepMap(wire, wtab, drop, h, f) \/ StepNil(wire, drop, h, f)
       /\ kind = "slice" => StepSlice(wire, wtab, h, f) \/ StepNil(wire, drop, h, f)
       /\ kind = "iface" => StepIface(h, f) \/ StepNil(wire, drop, h, f)
  <2>. HIDE DEF kind
  <2>. QED
    BY <1>9, <1>10, BodyMoves
<1>12. ASSUME NEW more, NEW n, NEW c, n = 1, Turn(h, f, more, n, c)
       PROVE  f.n = g.n + 1 /\ Tok = wire[h.n + 1] /\ Class = Tok.t
  <2>1. f.n = g.n + 1
    BY <1>1, <1>6, <1>12, TurnForm
  <2>. QED
    BY <1>7, <1>9, <2>1, ClassHere
<1>13. ASSUME NEW tk, NEW more, NEW n, NEW c, n = 1, Turn(h, f, more, n, c), Again(wire, wtab, h, tk),
              tk.t = "ref", tk.sort \in {"str", "map", "array"}, drop = {}
       PROVE  Now
  <2>1. f.n = g.n + 1
    BY <1>12, <1>13
  <2>2. Class = "ref" /\ ~IsPath /\ Known /\ Named.sort = tk.sort
    BY <1>7, <1>9, <1>13, <2>1, RefHere
  <2>. QED
    BY <1>13, <2>2
<1>14. ASSUME StepNil(wire, drop, h, f) PROVE Now
  <2>1. wire[h.n + 1] = Lit("nil", kind) /\ Turn(h, f, <<>>, 1, 0) /\ drop = {} /\ kind # "ptr"
    BY <1>10, <1>14 DEF StepNil
  <2>2. Tok = Lit("nil", kind) /\ Class = Tok.t
    BY <1>12, <2>1
  <2>. QED
    BY <2>1, <2>2 DEF Lit
<1>15. ASSUME kind = "string" PROVE Now
  <2>1. PICK s \in DOMAIN Hash :
          \/ TextLit(wire, wtab, h, f, s)
          \/ TextRef(wire, wtab, h, f, s) /\ (Head(h.a).held => drop = {})
    BY <1>11, <1>15 DEF StepText
  <2>2. CASE TextLit(wire, wtab, h, f, s)
    <3>1. wire[h.n + 1] = Lit("str", s) /\ Turn(h, f, <<>>, 1, 1)
      BY <2>2 DEF TextLit
    <3>2. Tok = Lit("str", s) /\ Class = Tok.t
      BY <1>12, <3>1
    <3>. QED
      BY <3>2 DEF Lit
  <2>3. CASE TextRef(wire, wtab, h, f, s) /\ (Head(h.a).held => drop = {})
    <3>1. PICK id \in 0 .. h.c - 1 : Again(wire, wtab, h, Ref(id, "str", s))
      BY <2>3 DEF TextRef
    <3>2. Turn(h, f, <<>>, 1, 0) /\ drop = {}
      BY <1>10, <2>3 DEF TextRef
    <3>3. Ref(id, "str", s).t = "ref" /\ Ref(id, "str", s).sort = "str"
      BY DEF Ref
    <3>. HIDE DEF Now
    <3>. QED
      BY <1>13, <3>1, <3>2, <3>3
  <2>. QED
    BY <2>1, <2>2, <2>3
<1>16. ASSUME kind = "struct" PROVE Now
  <2>. DEFINE more == [j \in 1 .. Len(Kids[Head(h.a).d]) |-> Body(Kids[Head(h.a).d][j])]
  <2>1. wire[h.n + 1] = Lit("struct", 0) /\ Turn(h, f, more, 1, 0)
    BY <1>11, <1>16 DEF StepStruct
  <2>. HIDE DEF more
  <2>2. Tok = Lit("struct", 0) /\ Class = Tok.t
    BY <1>12, <2>1
  <2>. QED
    BY <2>2 DEF Lit
<1>17. ASSUME StepMap(wire, wtab, drop, h, f) PROVE Now
  <2>1. CASE /\ drop = {} /\ \E id \in 0 .. h.c - 1 : Again(wire, wtab, h, Ref(id, "map", e))
             /\ Turn(h, f, <<>>, 1, 0)
    <3>1. PICK id \in 0 .. h.c - 1 : Again(wire, wtab, h, Ref(id, "map", e))
      BY <2>1
    <3>2. Ref(id, "map", e).t = "ref" /\ Ref(id, "map", e).sort = "map"
      BY DEF Ref
    <3>. HIDE DEF Now
    <3>. QED
      BY <1>13, <2>1, <3>1, <3>2
  <2>2. ASSUME NEW n \in 0 .. 1, wire[h.n + 1] = Lit("map", n),
               NEW more, Turn(h, f, more, 1, 1)
        PROVE  Now
    <3>1. Tok = Lit("map", n) /\ Class = Tok.t
      BY <1>12, <2>2
    <3>. QED
      BY <3>1 DEF Lit
  <2>. HIDE DEF Now
  <2>. QED
    BY <1>10, <1>17, <2>1, <2>2 DEF StepMap
<1>18. ASSUME StepSlice(wire, wtab, h, f) PROVE Now
  <2>1. CASE (\E id \in 0 .. h.c - 1 : Again(wire, wtab, h, View(id, e))) /\ Turn(h, f, <<>>, 1, 0)
    <3>1. PICK id \in 0 .. h.c - 1 : Again(wire, wtab, h, View(id, e))
      BY <2>1
    <3>2. Tok = wire[h.n + 1] /\ Class = Tok.t
      BY <1>12, <2>1
    <3>3. Tok = View(id, e)
      BY <3>1, <3>2 DEF Again
    <3>. QED
      BY <3>2, <3>3 DEF View
  <2>2. ASSUME NEW n \in 0 .. 1, wire[h.n + 1] = Lit("array", n),
               NEW more, Turn(h, f, more, 1, 1)
        PROVE  Now
    <3>1. Tok = Lit("array", n) /\ Class = Tok.t
      BY <1>12, <2>2
    <3>. QED
      BY <3>1 DEF Lit
  <2>. HIDE DEF Now
  <2>. QED
    BY <1>10, <1>18, <2>1, <2>2 DEF StepSlice
<1>19. Now
  <2>1. kind \in {"string", "struct", "map", "slice", "iface"}
    BY <1>1, <1>3 DEF Kinds
  <2>2. kind = "iface" /\ StepIface(h, f) => Now
    OBVIOUS
  <2>. HIDE DEF Now, kind
  <2>. QED
    BY <1>11, <1>14, <1>15, <1>16, <1>17, <1>18, <2>1, <2>2
<1>. QED
  BY <1>3, <1>7, <1>9, <1>19

(* The cell of a pointer is registered, its record comes next. *)
LEMMA ElidedGood ==
  ASSUME NEW H, NEW i, NEW g, NEW h, NEW p, NEW e, NEW kid, Pointing(H, i, g, h, p, e, kid),
         Turn(g, h, <<Held(e)>>, 0, 1), wtab[g.c + 1] = Entry("value", e), Elided
  PROVE  Good(H)
<1>1. /\ Standing(H, i) /\ g = H[i] /\ h = H[i + 1] /\ i + 1 \in 1 .. Len(H)
      /\ expect # <<>> /\ NoSlots(g.a) /\ (Skip => drop # {}) /\ Skip \in BOOLEAN
      /\ kid \in Nat /\ e \in Descs /\ Names(wtab, g.c, kid, e)
      /\ g.a # <<>> /\ g.a \in Seq(Position) /\ g.c \in Nat /\ Len(rtab) = g.c /\ h.c \in Nat
  BY PointerAt
<1>2. kid = KidOf(RD, 1)
  BY DEF Pointing
<1>. DEFINE q == Held(e)
            q2 == RBody(kid, Skip)
            r == Rec("value", kid, ~Skip)
<1>3. Step(0, Append(rtab, r), <<q2>>)
  BY <1>2 DEF Elided
<1>4. q \in Position /\ ~Slot(q) /\ q2 \in RPosition
  BY <1>1, PositionMade, MadeForm, RMade
<1>5. Turn(g, h, <<q>>, 0, 1)
  OBVIOUS
<1>6. h.c = g.c + 1
  <2>. HIDE DEF q
  <2>. QED
    BY <1>1, <1>4, <1>5, TurnOne
<1>7. Names(wtab, h.c, kid, e)
  BY <1>1, <1>6, NamesLater
<1>8. Fits(wtab, drop, h.c, q2, q)
  BY <1>1, <1>7, FitsMade
<1>9. NoSlots(h.a)
  <2>. DEFINE one == <<q>>
  <2>. HIDE DEF q
  <2>1. one \in Seq(Position) /\ NoSlots(one) /\ Turn(g, h, one, 0, 1)
    BY <1>4, <1>5 DEF NoSlots
  <2>. HIDE DEF one
  <2>. QED
    BY <1>1, <2>1, TurnSlots
<1>10. r \in REntry /\ Holds(wtab, drop, h.c, h.a, Len(rtab) + 1, r)
  <2>1. NoSlots(h.a) /\ kid \in Nat /\ (~Skip) \in BOOLEAN /\ Names(wtab, h.c, kid, e) /\ (~Skip \/ drop # {})
        /\ wtab[g.c + 1] = Entry("value", e)
    BY <1>1, <1>7, <1>9
  <2>2. r \in REntry /\ Holds(wtab, drop, h.c, h.a, g.c + 1, r)
    BY <2>1, NewRec
  <2>. QED
    BY <1>1, <2>2
<1>. HIDE DEF q, q2, r
<1>11. /\ Turn(H[i], H[i + 1], <<q>>, 0, 1) /\ NoSlots(H[i].a)
       /\ Fits(wtab, drop, H[i + 1].c, q2, q) /\ Holds(wtab, drop, H[i + 1].c, H[i + 1].a, Len(rtab) + 1, r)
  BY <1>1, <1>5, <1>8, <1>10
<1>. QED
  BY <1>1, <1>3, <1>4, <1>10, <1>11, StepNew1

(* A descriptor of the dynamic type is next. *)
LEMMA IfaceNext ==
  ASSUME NEW H, NEW i, NEW g, NEW h, NEW p, NEW e, NEW kid, Pointing(H, i, g, h, p, e, kid),
         StepRecord(wtab, g, h), StepIface(h, H[i + 2])
  PROVE  \/ Class = "desc"
         \/ /\ Class = "ref" /\ ~IsPath /\ Known /\ Named.sort = "desc" /\ Tok.x \in Nat
            /\ i + 3 \in 1 .. Len(H)
            /\ \E d \in Descs : Names(wtab, g.c, Tok.x, d) /\ Turn(g, H[i + 3], <<Body(d)>>, 1, 1)
<1>. DEFINE f == H[i + 2]
<1>1. /\ i + 2 \in 1 .. Len(H) /\ Turn(g, h, <<Held(e)>>, 0, 1) /\ Abreast(H, i, g, h)
  BY HeldNext
<1>2. /\ e \in Descs /\ g.a # <<>> /\ g.a \in Seq(Position) /\ g.c \in Nat /\ g.n \in Nat
      /\ Standing(H, i) /\ g = H[i]
  BY PointerAt
<1>3. h.a \in Seq(Position) /\ h.a # <<>> /\ Tail(h.a) = Tail(g.a) /\ h.n = g.n + 0 /\ h.c = g.c + 1
  <2>. DEFINE q == Held(e)
  <2>1. q \in Position /\ Turn(g, h, <<q>>, 0, 1)
    BY <1>1, <1>2, PositionMade
  <2>. HIDE DEF q
  <2>. QED
    BY <1>2, <2>1, TurnOne
<1>4. PICK d \in Descs : Turn(h, f, <<DescAt(d, "body")>>, 0, 0)
  BY DEF StepIface
<1>. DEFINE q == DescAt(d, "body")
<1>5. q \in Position /\ q.k = "desc" /\ q.d = d /\ Behind(q) = <<Body(d)>>
  <2>1. q \in Position /\ q.k = "desc" /\ q.d = d /\ q.then = "body"
    BY PositionMade, MadeForm
  <2>. HIDE DEF q
  <2>. QED
    BY <2>1 DEF Behind, After
<1>6. f.a # <<>> /\ Head(f.a) = q /\ Tail(f.a) = Tail(h.a) /\ f.n = h.n + 0 /\ f.c = h.c + 0
  <2>1. Turn(h, f, <<q>>, 0, 0)
    BY <1>4
  <2>. HIDE DEF q, f
  <2>. QED
    BY <1>3, <1>5, <2>1, TurnOne
<1>. HIDE DEF q, f
<1>7. f.n = g.n /\ f.c = g.c + 1
  BY <1>2, <1>3, <1>6
<1>8. Abreast(H, i, g, f)
  BY <1>1, <1>3, <1>2, <1>7 DEF Abreast
<1>9. (i + 2) + 1 = i + 3
  BY <1>2, StandTypes
<1>10. \/ Class = "desc"
       \/ /\ Class = "ref" /\ ~IsPath /\ Known /\ Named.sort = "desc" /\ Tok.x \in Nat
          /\ Names(wtab, g.c, Tok.x, d) /\ Turn(f, H[i + 3], <<Body(d)>>, 1, 0) /\ i + 3 \in 1 .. Len(H)
  <2>. DEFINE k == i + 2
              b == H[k + 1]
  <2>1. k \in 1 .. Len(H) /\ f = H[k]
    BY <1>1 DEF f
  <2>2. b = H[k + 1]
    OBVIOUS
  <2>. HIDE DEF k, b
  <2>3. /\ k + 1 \in 1 .. Len(H)
        /\ \/ Class = "desc"
           \/ /\ Class = "ref" /\ ~IsPath /\ Known /\ Named.sort = "desc" /\ Tok.x \in Nat
              /\ Names(wtab, g.c, Tok.x, d) /\ Turn(f, b, Behind(q), 1, 0)
    BY ZenonT(40), <1>5, <1>6, <1>8, <2>1, <2>2, DescHere
  <2>4. k + 1 = i + 3
    BY <1>9 DEF k
  <2>. QED
    BY <1>5, <2>2, <2>3, <2>4
<1>11. ASSUME Turn(f, H[i + 3], <<Body(d)>>, 1, 0) PROVE Turn(g, H[i + 3], <<Body(d)>>, 1, 1)
  <2>1. H[i + 3] = [a |-> <<Body(d)>> \o Tail(f.a), n |-> f.n + 1, c |-> f.c + 0]
    BY <1>11 DEF Turn
  <2>2. Tail(f.a) = Tail(g.a) /\ f.n + 1 = g.n + 1 /\ f.c + 0 = g.c + 1
    BY <1>2, <1>3, <1>6, <1>7
  <2>. QED
    BY <2>1, <2>2 DEF Turn
<1>. QED
  BY <1>4, <1>10, <1>11

(* decodePointer: the tag, the elided record, the repeat and the path are  *)
(* told apart.                                                             *)
LEMMA ReadPointerGood ==
  ASSUME NEW H, NEW i, Standing(H, i), ReadPointer
  PROVE  Good(H)
<1>. DEFINE g == H[i]
            h == H[i + 1]
            p == Head(g.a)
            e == Elem(g)
            kid == KidOf(RD, 1)
<1>1. Pointing(H, i, g, h, p, e, kid) /\ ~Skip
  BY DEF ReadPointer, Pointing
<1>. HIDE DEF g, h, p, e, kid
<1>2. /\ Standing(H, i) /\ g = H[i] /\ h = H[i + 1] /\ i + 1 \in 1 .. Len(H)
      /\ WInv(H, wire, wtab, drop, todo, strs, claims) /\ todo = <<>>
      /\ expect # <<>> /\ p.k = "body" /\ NoSlots(g.a) /\ Kind[p.d] = "ptr" /\ p.d \in Descs
      /\ kid \in Nat /\ e \in Descs /\ Names(wtab, g.c, kid, e) /\ (IfaceElem <=> Kind[e] = "iface")
      /\ Stage(wire, wtab, h) /\ h.c \in Nat /\ h.n \in Nat
      /\ h.n <= Len(wire) /\ g.a # <<>> /\ g.a \in Seq(Position)
      /\ g.c \in Nat /\ Len(rtab) = g.c /\ g.n \in Nat /\ pos = g.n /\ Len(wire) \in Nat
  BY <1>1, PointerAt
<1>3. \/ StepNil(wire, drop, g, h) \/ StepRepeat(wire, wtab, g, h) \/ StepRecord(wtab, g, h)
      \/ StepTag(g, h) \/ StepPath(wire, wtab, drop, g, h)
  BY <1>1, PointerAt
<1>4. kid = KidOf(RD, 1) /\ e = Elem(g) /\ p = Head(g.a)
  BY DEF kid, e, p
<1>5. CASE StepNil(wire, drop, g, h)
  <2>1. /\ Class = "nil" /\ Tok.x = "ptr" /\ (Step(1, rtab, <<>>) => Good(H))
    BY SMTT(30), <1>2, <1>4, <1>5, NilGood
  <2>2. Step(1, rtab, <<>>)
    BY <2>1 DEF ReadPointer
  <2>. QED
    BY <2>1, <2>2
<1>6. CASE StepRepeat(wire, wtab, g, h)
  <2>1. PICK id \in 0 .. g.c - 1 : Again(wire, wtab, g, Ref(id, "value", e))
    BY <1>4, <1>6 DEF StepRepeat
  <2>. DEFINE tk == Ref(id, "value", e)
  <2>2. Turn(g, h, <<>>, 1, 0)
    BY <1>6 DEF StepRepeat
  <2>3. h.n = g.n + 1
    BY <2>2, TurnForm
  <2>4. Tok = wire[g.n + 1] /\ Class = Tok.t
    BY SMTT(30), <1>2, <2>3, TokAt
  <2>5. tk.sort = "value" /\ tk.of = e /\ tk.t = "ref"
    BY DEF Ref
  <2>. HIDE DEF tk
  <2>6. Known /\ Tok = tk /\ Named.sort = tk.sort
    BY SMTT(30), <1>2, <2>1, <2>4, NamedAt DEF tk
  <2>7. Class = "ref" /\ Named.sort = "value" /\ ~IsPath
    BY <1>2, <2>3, <2>4, <2>5, <2>6, NotPath
  <2>8. IF Named.live THEN Named.of = kid ELSE drop # {}
    <3>1. Again(wire, wtab, g, tk) /\ Names(wtab, g.c, kid, tk.of)
      BY <1>2, <2>1, <2>5 DEF tk
    <3>. QED
      BY ZenonT(40), <1>2, <2>4, <2>5, <3>1, RefBack
  <2>9. Step(1, rtab, <<>>) \/ (ErrEvolutionRef /\ ~Named.live)
    BY <1>4, <2>6, <2>7, <2>8 DEF ReadPointer
  <2>10. Turn(H[i], H[i + 1], <<>>, 1, 0) /\ NoSlots(H[i].a)
    BY <1>2, <2>2
  <2>11. Step(1, rtab, <<>>) => Good(H)
    BY <1>2, <2>10, StepSame0
  <2>. QED
    BY <2>6, <2>7, <2>8, <2>9, <2>11, FailGood
<1>7. CASE StepPath(wire, wtab, drop, g, h)
  <2>1. PICK id \in 0 .. g.c - 1, x \in 0 .. g.c - 1, d \in Descs :
          /\ Again(wire, wtab, g, Ref(id, "value", d))
          /\ \E k \in 1 .. Len(Fields[d]) :
               /\ wire[g.n + 2] = [t |-> "path", x |-> x, of |-> Fields[d][k]]
               /\ wtab[x + 1] = Entry("str", Fields[d][k])
    BY <1>7, Zenon DEF StepPath
  <2>2. PICK k \in 1 .. Len(Fields[d]) :
          /\ wire[g.n + 2] = [t |-> "path", x |-> x, of |-> Fields[d][k]]
          /\ wtab[x + 1] = Entry("str", Fields[d][k])
    BY <2>1
  <2>3. drop = {} /\ wtab[g.c + 1] = Entry("value", e) /\ Turn(g, h, <<>>, 2, 1)
    BY <1>4, <1>7 DEF StepPath
  <2>4. h.n = g.n + 2 /\ h.c = g.c + 1
    BY <2>3, TurnForm
  <2>5. Tok = wire[g.n + 1] /\ Class = Tok.t
    <3>1. Standing(H, i) /\ g = H[i] /\ h.n \in Nat /\ h.n <= Len(wire) /\ g.n + 1 <= h.n
      BY SMTT(30), <1>2, <2>4
    <3>. QED
      BY <3>1, TokAt
  <2>. DEFINE tk == Ref(id, "value", d)
  <2>6. tk.sort = "value" /\ tk.of = d /\ tk.t = "ref"
    BY DEF Ref
  <2>7. Again(wire, wtab, g, tk)
    BY <2>1
  <2>. HIDE DEF tk
  <2>8. /\ Known /\ Tok = tk /\ Named \in REntry /\ Named.sort = tk.sort
        /\ Holds(wtab, drop, g.c, g.a, tk.x + 1, Named) /\ wtab[tk.x + 1] = Entry(tk.sort, tk.of)
    <3>1. Standing(H, i) /\ g = H[i] /\ Tok = wire[g.n + 1]
      BY <1>2, <2>5
    <3>. QED
      BY <2>7, <3>1, NamedAt
  <2>9. Named.sort = "value" /\ wtab[tk.x + 1].of = d
    BY <2>6, <2>8 DEF Entry
  <2>10. Named.live /\ Names(wtab, g.c, Named.of, d)
    BY <2>3, <2>8, <2>9 DEF Holds
  <2>11. Class = "ref" /\ IsPath /\ wire[pos + 2].x = x
    <3>1. wire[g.n + 2].t = "path" /\ wire[g.n + 2].x = x
      BY <2>2
    <3>. QED
      BY <1>2, <2>4, <2>5, <2>6, <2>8, <3>1 DEF IsPath
  <2>12. x < Len(rtab) /\ rtab[x + 1].sort = "str" /\ rtab[x + 1].s = Fields[d][k]
    <3>1. x \in Nat /\ x + 1 \in 1 .. Len(rtab)
      BY SMTT(30), <1>2
    <3>2. Match(wtab, drop, rtab, expect, pos, g) /\ g \in Moment
      BY <1>2, StandTypes
    <3>3. Holds(wtab, drop, g.c, g.a, x + 1, rtab[x + 1])
      BY <3>1, <3>2, MatchForm
    <3>4. wtab[x + 1].sort = "str" /\ wtab[x + 1].of = Fields[d][k]
      BY <2>2 DEF Entry
    <3>. QED
      BY SMTT(30), <1>2, <3>1, <3>3, <3>4 DEF Holds
  <2>13. rtab[Named.of + 1].fields = Fields[d]
    <3>. DEFINE r == rtab[Named.of + 1]
                o == Named.of
    <3>1. Match(wtab, drop, rtab, expect, pos, g) /\ g \in Moment
      BY <1>2, StandTypes
    <3>2. /\ Match(wtab, drop, rtab, expect, pos, g) /\ g \in Moment /\ NoSlots(g.a)
          /\ Names(wtab, g.c, o, d) /\ r = rtab[o + 1]
      BY <1>2, <2>10, <3>1
    <3>. HIDE DEF r, o
    <3>3. r.fields = Fields[d]
      BY <3>2, BodyKnown
    <3>. QED
      BY <3>3 DEF r, o
  <2>14. \E j \in DOMAIN rtab[Named.of + 1].fields : rtab[Named.of + 1].fields[j] = rtab[x + 1].s
    <3>1. DOMAIN Fields[d] = 1 .. Len(Fields[d])
      BY KidFacts
    <3>. QED
      BY <2>12, <2>13, <3>1
  <2>. DEFINE r == Rec("value", kid, TRUE)
  <2>15. Step(2, Append(rtab, r), <<>>)
    <3>1. ReadPath
      BY <2>11 DEF ReadPointer
    <3>. QED
      BY <1>4, <2>8, <2>9, <2>10, <2>11, <2>12, <2>14, <3>1 DEF ReadPath
  <2>16. NoSlots(h.a)
    BY <1>2, <2>3, TurnSlots0
  <2>17. r \in REntry /\ Holds(wtab, drop, h.c, h.a, Len(rtab) + 1, r)
    <3>1. Names(wtab, h.c, kid, e)
      BY SMTT(30), <1>2, <2>4, NamesLater
    <3>2. r \in REntry /\ Holds(wtab, drop, h.c, h.a, g.c + 1, r)
      BY <1>2, <2>3, <2>16, <3>1, NewRec
    <3>. QED
      BY <1>2, <3>2
  <2>. HIDE DEF r
  <2>18. /\ Turn(H[i], H[i + 1], <<>>, 2, 1) /\ NoSlots(H[i].a)
         /\ Holds(wtab, drop, H[i + 1].c, H[i + 1].a, Len(rtab) + 1, r)
    BY <1>2, <2>3, <2>17
  <2>. QED
    BY <1>2, <2>15, <2>17, <2>18, StepNew0
<1>8. CASE StepTag(g, h)
  <2>1. Kind[e] = "ptr" /\ Turn(g, h, <<DescAt(e, "open")>>, 0, 0)
    BY <1>4, <1>8 DEF StepTag
  <2>. DEFINE q == DescAt(e, "open")
              q2 == RDesc(0, "open", FALSE)
  <2>2. q \in Position /\ ~Slot(q) /\ q.k = "desc" /\ q.d = e /\ q2 \in RPosition
    <3>1. e \in Descs
      BY <1>2
    <3>2. q \in Position
      BY <3>1, PositionMade
    <3>3. ~Slot(q) /\ q.k = "desc" /\ q.d = e
      BY MadeForm
    <3>4. q2 \in RPosition
      BY RMade
    <3>. QED
      BY <3>2, <3>3, <3>4
  <2>3. Fits(wtab, drop, h.c, q2, q)
    BY FitsMade
  <2>4. Turn(g, h, <<q>>, 0, 0)
    BY <2>1
  <2>. HIDE DEF q
  <2>5. h.a # <<>> /\ Head(h.a) = q /\ h.n = g.n + 0 /\ h.c = g.c + 0
    BY SMTT(30), <1>2, <2>2, <2>4, TurnOne
  <2>6. Abreast(H, i, g, h)
    BY <1>2, <2>5 DEF Abreast
  <2>7. Class = "desc" \/ (Class = "ref" /\ ~IsPath /\ Known /\ Named.sort = "desc")
    <3>. DEFINE k == i + 1
                b == H[k + 1]
    <3>1. k \in 1 .. Len(H) /\ h = H[k] /\ b = H[k + 1]
      BY <1>2
    <3>2. h.a # <<>> /\ Head(h.a).k = "desc" /\ e = Head(h.a).d
      BY <2>2, <2>5
    <3>. HIDE DEF k, b
    <3>3. /\ k + 1 \in 1 .. Len(H)
          /\ \/ Class = "desc"
             \/ /\ Class = "ref" /\ ~IsPath /\ Known /\ Named.sort = "desc" /\ Tok.x \in Nat
                /\ Names(wtab, g.c, Tok.x, e) /\ Turn(h, b, Behind(Head(h.a)), 1, 0)
      BY ZenonT(40), <2>6, <3>1, <3>2, DescHere
    <3>. QED
      BY <3>3
  <2>8. ~IfaceElem
    BY <1>2, <2>1
  <2>9. Step(0, rtab, <<q2>>)
    BY <2>7, <2>8 DEF ReadPointer
  <2>. HIDE DEF q2
  <2>10. Turn(H[i], H[i + 1], <<q>>, 0, 0) /\ NoSlots(H[i].a) /\ Fits(wtab, drop, H[i + 1].c, q2, q)
    BY <1>2, <2>3, <2>4
  <2>. QED
    BY <1>2, <2>2, <2>9, <2>10, StepSame1
<1>9. CASE StepRecord(wtab, g, h)
  <2>. DEFINE f == H[i + 2]
  <2>1. Turn(g, h, <<Held(e)>>, 0, 1) /\ wtab[g.c + 1] = Entry("value", e)
    BY ZenonT(40), <1>1, <1>9, HeldNext
  <2>2. \/ Class \in {"str", "struct", "map", "array", "view"}
        \/ Class = "nil" /\ Tok.x # "ptr" /\ drop = {}
        \/ Class = "ref" /\ ~IsPath /\ Known /\ Named.sort \in {"str", "map", "array"} /\ drop = {}
        \/ Kind[e] = "iface" /\ StepIface(h, f)
    BY <1>1, <1>9, HeldNext
  <2>3. Elided
    <3>1. CASE Class \in {"str", "struct", "map", "array", "view"}
      BY <3>1 DEF ReadPointer
    <3>2. CASE Class = "nil" /\ Tok.x # "ptr"
      BY <3>2 DEF ReadPointer
    <3>3. CASE Class = "ref" /\ ~IsPath /\ Known /\ Named.sort \in {"str", "map", "array"}
      BY <3>3 DEF ReadPointer
    <3>4. CASE Kind[e] = "iface" /\ StepIface(h, f)
      <4>1. IfaceElem
        BY <1>2, <3>4
      <4>2. Class = "desc" \/ (Class = "ref" /\ ~IsPath /\ Known /\ Named.sort = "desc")
        BY <1>1, <1>9, <3>4, IfaceNext
      <4>. QED
        BY <4>1, <4>2 DEF ReadPointer
    <3>. QED
      BY <2>2, <3>1, <3>2, <3>3, <3>4
  <2>. QED
    BY <1>1, <2>1, <2>3, ElidedGood
<1>. QED
  BY <1>3, <1>5, <1>6, <1>7, <1>8, <1>9

(* The record behind a descriptor that was written before is skipped with  *)
(* it, in one step.                                                        *)
LEMMA SkippedRef ==
  ASSUME NEW H, NEW i, Standing(H, i), expect # <<>>, NEW j \in 1 .. Len(H), NEW g, g = H[i], NEW h, h = H[j],
         NoSlots(g.a), NEW q \in Position, ~Slot(q), Turn(g, h, <<q>>, 1, 1), NEW id \in Nat, NEW d,
         Names(wtab, g.c, id, d), q = Body(d) \/ q = Held(d), NEW b, wtab[g.c + 1] = Entry("value", b),
         drop # {}, Step(1, Append(rtab, Rec("value", id, FALSE)), <<RBody(id, TRUE)>>)
  PROVE  Good(H)
<1>. DEFINE r == Rec("value", id, FALSE)
            q2 == RBody(id, TRUE)
<1>1. /\ g.a \in Seq(Position) /\ g.c \in Nat /\ Len(rtab) = g.c /\ (expect = <<>> <=> g.a = <<>>)
  BY SMTT(30), StandTypes
<1>2. h.c = g.c + 1
  BY <1>1, TurnOne
<1>3. Names(wtab, h.c, id, d)
  BY <1>1, <1>2, NamesLater
<1>4. q2 \in RPosition
  BY RMade
<1>5. Fits(wtab, drop, h.c, q2, q)
  <2>1. Fits(wtab, drop, h.c, q2, Body(d)) /\ Fits(wtab, drop, h.c, q2, Held(d))
    BY <1>3, FitsMade
  <2>. QED
    BY <2>1
<1>6. r \in REntry /\ Holds(wtab, drop, h.c, h.a, Len(rtab) + 1, r)
  <2>1. r.sort = "value" /\ r.of = id /\ r.live = FALSE /\ r \in REntry
    BY DEF Rec, REntry
  <2>2. wtab[g.c + 1].sort = "value"
    BY DEF Entry
  <2>. HIDE DEF r
  <2>3. Holds(wtab, drop, h.c, h.a, g.c + 1, r)
    BY <2>1, <2>2 DEF Holds
  <2>. QED
    BY <1>1, <2>1, <2>3
<1>. HIDE DEF r, q2
<1>7. Step(1, Append(rtab, r), <<q2>>)
  BY DEF r, q2
<1>8. /\ Turn(H[i], H[j], <<q>>, 1, 1) /\ NoSlots(H[i].a) /\ Fits(wtab, drop, H[j].c, q2, q)
      /\ Holds(wtab, drop, H[j].c, H[j].a, Len(rtab) + 1, r)
  BY <1>5, <1>6
<1>. QED
  BY <1>4, <1>6, <1>7, <1>8, StepNew1

(* Behind a reference to the descriptor of a pointer, the record opens. *)
Opening(H, k, f, e, rest, b) ==
  /\ WInv(H, wire, wtab, drop, todo, strs, claims) /\ todo = <<>>
  /\ k \in 1 .. Len(H) /\ f = H[k] /\ e \in Descs /\ rest \in Seq(Position)
  /\ f.a = <<Open(e), Held(e)>> \o rest /\ b = H[k + 1]

LEMMA OpenNext ==
  ASSUME NEW H, NEW k, NEW f, NEW e, NEW rest, NEW b, Opening(H, k, f, e, rest, b)
  PROVE  /\ k + 1 \in 1 .. Len(H) /\ b = [a |-> <<Held(e)>> \o rest, n |-> f.n, c |-> f.c + 1]
         /\ wtab[f.c + 1] = Entry("value", e)
<1>. DEFINE q == Open(e)
            z == <<Held(e)>> \o rest
            u == <<q>>
<1>0. /\ WInv(H, wire, wtab, drop, todo, strs, claims) /\ todo = <<>>
      /\ k \in 1 .. Len(H) /\ f = H[k] /\ e \in Descs /\ rest \in Seq(Position)
      /\ f.a = <<Open(e), Held(e)>> \o rest /\ b = H[k + 1]
  BY DEF Opening
<1>1. q \in Position /\ q.k = "open" /\ q.d = e /\ Held(e) \in Position
  BY <1>0, PositionMade, MadeForm
<1>2. f.a = u \o z /\ z \in Seq(Position)
  BY <1>0, <1>1
<1>3. u = <<q>>
  OBVIOUS
<1>. HIDE DEF q, z, u
<1>4. Tail(f.a) = z /\ Head(f.a) = q /\ f.a # <<>>
  BY <1>1, <1>2, <1>3, ConsTail
<1>5. /\ k + 1 \in 1 .. Len(H) /\ Onward(wire, wtab, drop, f, b) /\ f.n \in Nat /\ f.c \in Nat
  BY <1>0, <1>4, NextFacts
<1>6. StepOpen(wtab, f, b)
  <2>. DEFINE p == Head(f.a)
  <2>0. p.k = "open" /\ p.d = e
    BY <1>1, <1>4
  <2>1. ~StepDescLit(wire, wtab, f, b) /\ ~StepDescRef(wire, wtab, f, b)
    BY <2>0, Zenon DEF StepDescLit, StepDescRef
  <2>2. ~StepName(wire, wtab, f, b) /\ ~StepView(wire, wtab, f, b)
    BY ZenonT(30), <2>0 DEF StepName, StepView
  <2>3. /\ ~StepText(wire, wtab, drop, f, b) /\ ~StepStruct(wire, f, b) /\ ~StepNil(wire, drop, f, b)
        /\ ~StepMap(wire, wtab, drop, f, b) /\ ~StepSlice(wire, wtab, f, b) /\ ~StepIface(f, b)
        /\ ~StepRepeat(wire, wtab, f, b) /\ ~StepRecord(wtab, f, b) /\ ~StepTag(f, b)
        /\ ~StepPath(wire, wtab, drop, f, b)
    BY <2>0 DEF StepText, StepStruct, StepNil, StepMap, StepSlice, StepIface, StepRepeat, StepRecord, StepTag, StepPath, BodyIs
  <2>. QED
    BY <1>5, <2>1, <2>2, <2>3 DEF Onward
<1>7. wtab[f.c + 1] = Entry("value", e) /\ Turn(f, b, <<>>, 0, 1)
  BY <1>1, <1>4, <1>6 DEF StepOpen
<1>8. b = [a |-> <<>> \o Tail(f.a), n |-> f.n + 0, c |-> f.c + 1]
  BY <1>7 DEF Turn
<1>9. <<>> \o Tail(f.a) = z /\ f.n + 0 = f.n
  BY SMTT(30), <1>2, <1>4, <1>5
<1>10. b = [a |-> z, n |-> f.n, c |-> f.c + 1]
  BY <1>8, <1>9
<1>. QED
  BY <1>5, <1>7, <1>10 DEF z

(* skipValue at a pointer takes the same ids (the mirror). *)
LEMMA SkipPointerGood ==
  ASSUME NEW H, NEW i, Standing(H, i), SkipPointer
  PROVE  Good(H)
<1>. DEFINE g == H[i]
            h == H[i + 1]
            p == Head(g.a)
            e == Elem(g)
            kid == KidOf(RD, 1)
<1>1. Pointing(H, i, g, h, p, e, kid) /\ Skip
  BY DEF SkipPointer, Pointing
<1>. HIDE DEF g, h, p, e, kid
<1>2. /\ Standing(H, i) /\ g = H[i] /\ h = H[i + 1] /\ i + 1 \in 1 .. Len(H)
      /\ WInv(H, wire, wtab, drop, todo, strs, claims) /\ todo = <<>>
      /\ expect # <<>> /\ p.k = "body" /\ NoSlots(g.a) /\ Kind[p.d] = "ptr" /\ p.d \in Descs
      /\ e \in Descs /\ (IfaceElem <=> Kind[e] = "iface")
      /\ Stage(wire, wtab, h) /\ h.c \in Nat /\ h.n \in Nat
      /\ h.n <= Len(wire) /\ g.a # <<>> /\ g.a \in Seq(Position)
      /\ g.c \in Nat /\ Len(rtab) = g.c /\ g.n \in Nat /\ pos = g.n /\ Len(wire) \in Nat
  BY <1>1, PointerAt
<1>3. \/ StepNil(wire, drop, g, h) \/ StepRepeat(wire, wtab, g, h) \/ StepRecord(wtab, g, h)
      \/ StepTag(g, h) \/ StepPath(wire, wtab, drop, g, h)
  BY <1>1, PointerAt
<1>0. drop # {}
  BY <1>1, PointerAt
<1>4. kid = KidOf(RD, 1) /\ e = Elem(g) /\ p = Head(g.a)
  BY DEF kid, e, p
<1>5. CASE StepNil(wire, drop, g, h)
  <2>1. /\ Class = "nil" /\ (Step(1, rtab, <<>>) => Good(H))
    BY <1>2, <1>4, <1>5, NilGood
  <2>2. Step(1, rtab, <<>>)
    BY <2>1 DEF SkipPointer
  <2>. QED
    BY <2>1, <2>2
<1>6. CASE StepRepeat(wire, wtab, g, h)
  <2>1. PICK id \in 0 .. g.c - 1 : Again(wire, wtab, g, Ref(id, "value", e))
    BY <1>4, <1>6 DEF StepRepeat
  <2>. DEFINE tk == Ref(id, "value", e)
  <2>2. Turn(g, h, <<>>, 1, 0)
    BY <1>6 DEF StepRepeat
  <2>3. h.n = g.n + 1
    BY <2>2, TurnForm
  <2>4. Tok = wire[g.n + 1] /\ Class = Tok.t
    BY SMTT(30), <1>2, <2>3, TokAt
  <2>5. tk.sort = "value" /\ tk.of = e /\ tk.t = "ref"
    BY DEF Ref
  <2>. HIDE DEF tk
  <2>6. Known /\ Tok = tk /\ Named.sort = tk.sort
    BY SMTT(30), <1>2, <2>1, <2>4, NamedAt DEF tk
  <2>7. Step(1, rtab, <<>>)
    BY <2>4, <2>5, <2>6 DEF SkipPointer
  <2>8. Turn(H[i], H[i + 1], <<>>, 1, 0) /\ NoSlots(H[i].a)
    BY <1>2, <2>2
  <2>. QED
    BY <1>2, <2>7, <2>8, StepSame0
<1>7. CASE StepPath(wire, wtab, drop, g, h)
  BY <1>0, <1>7 DEF StepPath
<1>8. CASE StepTag(g, h)
  <2>1. Kind[e] = "ptr" /\ Turn(g, h, <<DescAt(e, "open")>>, 0, 0)
    BY <1>4, <1>8 DEF StepTag
  <2>. DEFINE q == DescAt(e, "open")
              q2 == RDesc(0, "open", TRUE)
              k == i + 1
              f == H[k + 1]
  <2>2. q \in Position /\ ~Slot(q) /\ q.k = "desc" /\ q.d = e /\ q2 \in RPosition
    <3>1. e \in Descs
      BY <1>2
    <3>2. q \in Position
      BY <3>1, PositionMade
    <3>3. ~Slot(q) /\ q.k = "desc" /\ q.d = e
      BY MadeForm
    <3>4. q2 \in RPosition
      BY RMade
    <3>. QED
      BY <3>2, <3>3, <3>4
  <2>3. Fits(wtab, drop, h.c, q2, q)
    BY <1>0, FitsMade
  <2>4. Turn(g, h, <<q>>, 0, 0)
    BY <2>1
  <2>a. Behind(q) = <<Open(e), Held(e)>>
    <3>1. q.k = "desc" /\ q.d = e /\ q.then = "open"
      BY MadeForm
    <3>. HIDE DEF q
    <3>. QED
      BY <3>1 DEF Behind, After
  <2>. HIDE DEF q
  <2>5. h.a # <<>> /\ Head(h.a) = q /\ Tail(h.a) = Tail(g.a) /\ h.n = g.n + 0 /\ h.c = g.c + 0
    BY SMTT(30), <1>2, <2>2, <2>4, TurnOne
  <2>6. Abreast(H, i, g, h)
    BY <1>2, <2>5 DEF Abreast
  <2>7. k \in 1 .. Len(H) /\ h = H[k] /\ f = H[k + 1]
    BY <1>2
  <2>. HIDE DEF k, f
  <2>8. h.a # <<>> /\ Head(h.a).k = "desc" /\ e = Head(h.a).d
    BY <2>2, <2>5
  <2>9. /\ k + 1 \in 1 .. Len(H)
        /\ \/ Class = "desc"
           \/ /\ Class = "ref" /\ ~IsPath /\ Known /\ Named.sort = "desc" /\ Tok.x \in Nat
              /\ Names(wtab, g.c, Tok.x, e) /\ Turn(h, f, Behind(Head(h.a)), 1, 0)
    BY ZenonT(40), <2>6, <2>7, <2>8, DescHere
  <2>10. CASE Class = "desc"
    <3>1. ~IfaceElem
      BY <1>2, <2>1
    <3>2. Step(0, rtab, <<q2>>)
      BY <2>10, <3>1 DEF SkipPointer
    <3>. HIDE DEF q2
    <3>3. Turn(H[i], H[i + 1], <<q>>, 0, 0) /\ NoSlots(H[i].a) /\ Fits(wtab, drop, H[i + 1].c, q2, q)
      BY <1>2, <2>3, <2>4
    <3>. QED
      BY <1>2, <2>2, <3>2, <3>3, StepSame1
  <2>11. CASE /\ Class = "ref" /\ Known /\ Named.sort = "desc" /\ Tok.x \in Nat
              /\ Names(wtab, g.c, Tok.x, e) /\ Turn(h, f, Behind(Head(h.a)), 1, 0)
    <3>. DEFINE rest == Tail(g.a)
                b == H[(k + 1) + 1]
                c == Held(e)
                id == Tok.x
    <3>1. f = [a |-> <<Open(e), Held(e)>> \o rest, n |-> h.n + 1, c |-> h.c + 0]
      BY <2>5, <2>11, <2>a DEF Turn
    <3>2. f.a = <<Open(e), Held(e)>> \o rest /\ f.n = g.n + 1 /\ f.c = g.c
      BY SMTT(30), <1>2, <2>5, <3>1
    <3>3. rest \in Seq(Position)
      BY <1>2, TailFacts
    <3>4. /\ (k + 1) + 1 \in 1 .. Len(H) /\ b = [a |-> <<Held(e)>> \o rest, n |-> f.n, c |-> f.c + 1]
          /\ wtab[f.c + 1] = Entry("value", e)
      <4>. DEFINE m == k + 1
      <4>1. m \in 1 .. Len(H) /\ f = H[m] /\ b = H[m + 1]
        BY <2>7, <2>9
      <4>. HIDE DEF m, b, rest, e
      <4>1a. Opening(H, m, f, e, rest, b)
        BY <1>2, <3>2, <3>3, <4>1 DEF Opening
      <4>2. /\ m + 1 \in 1 .. Len(H) /\ b = [a |-> <<Held(e)>> \o rest, n |-> f.n, c |-> f.c + 1]
            /\ wtab[f.c + 1] = Entry("value", e)
        BY <4>1a, OpenNext
      <4>. QED
        BY <4>2 DEF m
    <3>5. Turn(g, b, <<c>>, 1, 1)
      BY <3>2, <3>4 DEF Turn
    <3>6. c \in Position /\ ~Slot(c)
      BY <1>2, PositionMade, MadeForm
    <3>7. Step(1, Append(rtab, Rec("value", id, FALSE)), <<RBody(id, TRUE)>>)
      BY <2>11 DEF SkipPointer
    <3>8. wtab[g.c + 1] = Entry("value", e) /\ c = Held(e) /\ id \in Nat /\ Names(wtab, g.c, id, e)
      BY <2>11, <3>2, <3>4
    <3>. DEFINE m == (k + 1) + 1
    <3>9. m \in 1 .. Len(H) /\ b = H[m]
      BY <3>4
    <3>. HIDE DEF b, c, id, m
    <3>. QED
      BY <1>0, <1>2, <3>5, <3>6, <3>7, <3>8, <3>9, SkippedRef
  <2>. QED
    BY <2>9, <2>10, <2>11
<1>9. CASE StepRecord(wtab, g, h)
  <2>. DEFINE f == H[i + 2]
  <2>1. Turn(g, h, <<Held(e)>>, 0, 1) /\ wtab[g.c + 1] = Entry("value", e)
    BY ZenonT(40), <1>1, <1>9, HeldNext
  <2>2. \/ Class \in {"str", "struct", "map", "array", "view"}
        \/ Class = "nil" /\ Tok.x # "ptr" /\ drop = {}
        \/ Class = "ref" /\ ~IsPath /\ Known /\ Named.sort \in {"str", "map", "array"} /\ drop = {}
        \/ Kind[e] = "iface" /\ StepIface(h, f)
    BY <1>1, <1>9, HeldNext
  <2>3. Elided => Good(H)
    BY <1>1, <2>1, ElidedGood
  <2>4. CASE Class \in {"str", "struct", "map", "array", "view"}
    <3>1. Elided
      BY <2>4 DEF SkipPointer
    <3>. QED
      BY <2>3, <3>1
  <2>5. CASE Kind[e] = "iface" /\ StepIface(h, f)
    <3>1. IfaceElem
      BY <1>2, <2>5
    <3>2. \/ Class = "desc"
          \/ /\ Class = "ref" /\ ~IsPath /\ Known /\ Named.sort = "desc" /\ Tok.x \in Nat
             /\ i + 3 \in 1 .. Len(H)
             /\ \E d \in Descs : Names(wtab, g.c, Tok.x, d) /\ Turn(g, H[i + 3], <<Body(d)>>, 1, 1)
      BY <1>1, <1>9, <2>5, IfaceNext
    <3>3. CASE Class = "desc"
      <4>1. Elided
        BY <3>1, <3>3 DEF SkipPointer
      <4>. QED
        BY <2>3, <4>1
    <3>4. CASE /\ Class = "ref" /\ Known /\ Named.sort = "desc" /\ Tok.x \in Nat
               /\ i + 3 \in 1 .. Len(H)
               /\ \E d \in Descs : Names(wtab, g.c, Tok.x, d) /\ Turn(g, H[i + 3], <<Body(d)>>, 1, 1)
      <4>1. PICK d \in Descs : Names(wtab, g.c, Tok.x, d) /\ Turn(g, H[i + 3], <<Body(d)>>, 1, 1)
        BY <3>4
      <4>. DEFINE c == Body(d)
                  id == Tok.x
                  m == i + 3
                  b == H[m]
      <4>2. c \in Position /\ ~Slot(c)
        BY PositionMade, MadeForm
      <4>3. Step(1, Append(rtab, Rec("value", id, FALSE)), <<RBody(id, TRUE)>>)
        BY <3>4 DEF SkipPointer
      <4>4. /\ c = Body(d) /\ id \in Nat /\ Names(wtab, g.c, id, d) /\ m \in 1 .. Len(H) /\ b = H[m]
            /\ Turn(g, b, <<c>>, 1, 1)
        BY <3>4, <4>1
      <4>. HIDE DEF b, c, id, m
      <4>. QED
        BY <1>0, <1>2, <2>1, <4>2, <4>3, <4>4, SkippedRef
    <3>. QED
      BY <3>2, <3>3, <3>4
  <2>. QED
    BY <1>0, <2>2, <2>4, <2>5
<1>. QED
  BY <1>3, <1>5, <1>6, <1>7, <1>8, <1>9

-----------------------------------------------------------------------------
(***************************************************************************)
(* The parts of a descriptor, taken one at a time.                         *)
(***************************************************************************)

(* The next position is taken; the parts put in front belong to the record *)
(* of id m.                                                                *)
SlotTurn(a, p, more, m, b) ==
  /\ a \in Seq(Position) /\ a # <<>> /\ InTurn(a) /\ p = Head(a)
  /\ more \in Seq(Position) /\ \A x \in 1 .. Len(more) : Slot(more[x]) => more[x].of = m
  /\ b = more \o Tail(a)

(* A part is outstanding afterwards if it was before and was not the one   *)
(* taken, which was the first of its kind.                                 *)
LEMMA Shifts ==
  ASSUME NEW a, NEW p, NEW more, NEW m, NEW b, SlotTurn(a, p, more, m, b)
  PROVE  /\ \A k \in {"name", "kid"} : \A o, j : o # m =>
              (Pending(b, k, o, j) <=> Pending(a, k, o, j) /\ ~(k = p.k /\ o = p.of /\ j = p.j))
         /\ Slot(p) => /\ Pending(a, p.k, p.of, p.j)
                       /\ \A j : Pending(a, p.k, p.of, j) => j = p.j \/ p.j < j
<1>. DEFINE t == Tail(a)
            n == Len(more)
<1>0. /\ a \in Seq(Position) /\ a # <<>> /\ InTurn(a) /\ p = Head(a)
      /\ more \in Seq(Position) /\ \A x \in 1 .. Len(more) : Slot(more[x]) => more[x].of = m
      /\ b = more \o Tail(a)
  BY DEF SlotTurn
<1>1. /\ t \in Seq(Position) /\ Len(t) = Len(a) - 1 /\ Len(a) \in Nat /\ Len(a) >= 1
      /\ \A x \in 1 .. Len(t) : t[x] = a[x + 1]
      /\ p = a[1]
  BY <1>0, TailFacts
<1>2. /\ n \in Nat /\ Len(t) \in Nat /\ Len(b) = n + Len(t)
      /\ \A x \in 1 .. n : b[x] = more[x]
      /\ \A x \in 1 .. Len(t) : b[n + x] = t[x]
  BY <1>0, <1>1, ConcatFacts
<1>. HIDE DEF t, n
<1>3. ASSUME NEW x \in 2 .. Len(a), Slot(a[x]), a[x].k = p.k, a[x].of = p.of PROVE p.j < a[x].j
  <2>1. 1 \in 1 .. Len(a) /\ x \in 1 .. Len(a) /\ 1 < x
    BY <1>1
  <2>2. Slot(a[1]) /\ a[1].k = a[x].k /\ a[1].of = a[x].of
    BY <1>1, <1>3 DEF Slot
  <2>3. a[1].j < a[x].j
    BY <1>0, <2>1, <2>2 DEF InTurn
  <2>. QED
    BY <1>1, <2>3
<1>4. ASSUME Slot(p)
      PROVE  /\ Pending(a, p.k, p.of, p.j)
             /\ \A j : Pending(a, p.k, p.of, j) => j = p.j \/ p.j < j
  <2>1. 1 \in 1 .. Len(a)
    BY <1>1
  <2>2. Pending(a, p.k, p.of, p.j)
    BY <1>1, <2>1 DEF Pending
  <2>3. ASSUME NEW j, NEW x \in 1 .. Len(a), a[x].k = p.k, a[x].of = p.of, a[x].j = j
        PROVE  j = p.j \/ p.j < j
    <3>1. x = 1 \/ x \in 2 .. Len(a)
      BY <1>1
    <3>2. Slot(a[x])
      BY <1>4, <2>3 DEF Slot
    <3>. QED
      BY <1>1, <1>3, <2>3, <3>1, <3>2
  <2>. QED
    BY <2>2, <2>3 DEF Pending
<1>5. ASSUME NEW k \in {"name", "kid"}, NEW o, NEW j, o # m
      PROVE  Pending(b, k, o, j) <=> Pending(a, k, o, j) /\ ~(k = p.k /\ o = p.of /\ j = p.j)
  <2>1. ASSUME NEW x \in 1 .. Len(b), b[x].k = k, b[x].of = o, b[x].j = j
        PROVE  Pending(a, k, o, j) /\ ~(k = p.k /\ o = p.of /\ j = p.j)
    <3>1. Slot(b[x])
      BY <2>1 DEF Slot
    <3>2. x > n
      <4>1. SUFFICES ASSUME ~(x > n) PROVE FALSE
        OBVIOUS
      <4>2. x \in 1 .. n /\ b[x] = more[x]
        BY <1>2, <4>1
      <4>3. more[x].of = m
        BY <1>0, <3>1, <4>2 DEF n
      <4>. QED
        BY <1>5, <2>1, <4>2, <4>3
    <3>3. x - n \in 1 .. Len(t) /\ n + (x - n) = x /\ (x - n) + 1 \in 2 .. Len(a)
      BY <1>1, <1>2, <3>2
    <3>4. b[x] = a[(x - n) + 1]
      BY <1>1, <1>2, <3>3
    <3>. DEFINE y == (x - n) + 1
    <3>5. y \in 2 .. Len(a) /\ y \in 1 .. Len(a) /\ a[y] = b[x]
      BY <1>1, <3>3, <3>4
    <3>. HIDE DEF y
    <3>6. Pending(a, k, o, j)
      BY <2>1, <3>5 DEF Pending
    <3>7. ASSUME k = p.k, o = p.of, j = p.j PROVE FALSE
      <4>1. p.j < a[y].j
        BY <1>3, <2>1, <3>1, <3>5, <3>7
      <4>2. a[y].j = p.j
        BY <2>1, <3>5, <3>7
      <4>3. p \in Position
        BY <1>0, <1>1
      <4>4. p.j \in Nat
        BY <4>3, PositionForm, <3>7 DEF Slot
      <4>. QED
        BY <4>1, <4>2, <4>4
    <3>. QED
      BY <3>6, <3>7
  <2>2. ASSUME NEW x \in 1 .. Len(a), a[x].k = k, a[x].of = o, a[x].j = j, ~(k = p.k /\ o = p.of /\ j = p.j)
        PROVE  Pending(b, k, o, j)
    <3>1. x # 1
      BY <1>1, <2>2
    <3>. DEFINE y == n + (x - 1)
    <3>2. x - 1 \in 1 .. Len(t) /\ (x - 1) + 1 = x /\ y \in 1 .. Len(b)
      BY <1>1, <1>2, <3>1
    <3>3. b[y] = t[x - 1] /\ t[x - 1] = a[x]
      BY <1>1, <1>2, <3>2
    <3>. HIDE DEF y
    <3>. QED
      BY <2>2, <3>2, <3>3 DEF Pending
  <2>. QED
    BY <2>1, <2>2 DEF Pending
<1>. QED
  BY <1>4, <1>5

(* The entry of a record that the part taken is not of.                    *)
Bystands(tab, dr, c, c2, a, p, more, b, i, e) ==
  /\ SlotTurn(a, p, more, c, b) /\ c \in Nat /\ c2 \in Nat /\ c <= c2
  /\ Holds(tab, dr, c, a, i, e) /\ i \in 1 .. c /\ (Slot(p) => p.of # i - 1)

(* It is the same afterwards. *)
LEMMA Bystander ==
  ASSUME NEW tab, NEW dr, NEW c, NEW c2, NEW a, NEW p, NEW more, NEW b, NEW i, NEW e,
         Bystands(tab, dr, c, c2, a, p, more, b, i, e)
  PROVE  Holds(tab, dr, c2, b, i, e)
<1>0. /\ SlotTurn(a, p, more, c, b) /\ c \in Nat /\ c2 \in Nat /\ c <= c2
      /\ Holds(tab, dr, c, a, i, e) /\ i \in 1 .. c /\ (Slot(p) => p.of # i - 1)
  BY DEF Bystands
<1>1. \A k \in {"name", "kid"} : \A o, j : o # c =>
        (Pending(b, k, o, j) <=> Pending(a, k, o, j) /\ ~(k = p.k /\ o = p.of /\ j = p.j))
  BY <1>0, Shifts
<1>2. i - 1 # c
  BY <1>0
<1>3. \A k \in {"name", "kid"} : \A j : Pending(b, k, i - 1, j) <=> Pending(a, k, i - 1, j)
  BY <1>0, <1>1, <1>2 DEF Slot
<1>4. \A id, d : Names(tab, c, id, d) => Names(tab, c2, id, d)
  BY <1>0, NamesLater
<1>5. ASSUME e.sort = "desc" PROVE HoldsDesc(tab, c2, b, i, e)
  <2>1. HoldsDesc(tab, c, a, i, e)
    BY <1>0, <1>5 DEF Holds
  <2>2. HasParts(tab, c, a, i, e, tab[i].of)
    BY <2>1, DescForm
  <2>3. /\ \A j : Pending(b, "name", i - 1, j) <=> Pending(a, "name", i - 1, j)
        /\ \A j : Pending(b, "kid", i - 1, j) <=> Pending(a, "kid", i - 1, j)
    BY <1>3
  <2>4. HasParts(tab, c2, b, i, e, tab[i].of)
    BY <1>4, <2>2, <2>3 DEF HasParts
  <2>. QED
    BY <2>4, DescForm
<1>6. ASSUME e.sort \in {"map", "array", "value"}
      PROVE  IF e.live THEN Names(tab, c2, e.of, tab[i].of) /\ ~Pending(b, "name", e.of, 0) ELSE dr # {}
  <2>1. IF e.live THEN Names(tab, c, e.of, tab[i].of) /\ ~Pending(a, "name", e.of, 0) ELSE dr # {}
    BY <1>0, <1>6 DEF Holds
  <2>2. CASE e.live
    <3>1. Names(tab, c, e.of, tab[i].of) /\ ~Pending(a, "name", e.of, 0)
      BY <2>1, <2>2
    <3>2. e.of # c
      BY <1>0, <3>1 DEF Names, Owned
    <3>3. ~Pending(b, "name", e.of, 0)
      BY <1>1, <3>1, <3>2
    <3>. QED
      BY <1>4, <2>2, <3>1, <3>3
  <2>. QED
    BY <2>1, <2>2
<1>7. e \in REntry /\ e.sort = tab[i].sort /\ (e.sort = "str" => e.s = tab[i].of)
  BY <1>0 DEF Holds
<1>. QED
  BY <1>5, <1>6, <1>7 DEF Holds

LEMMA DescEntry ==
  ASSUME NEW e \in REntry, e.sort = "desc"
  PROVE  /\ e = [sort |-> "desc", kind |-> e.kind, name |-> e.name, fields |-> e.fields, kids |-> e.kids]
         /\ e.kind \in Kinds /\ e.name \in DOMAIN Hash \cup {""} /\ e.fields \in Seq(DOMAIN Hash) /\ e.kids \in Seq(Nat)
<1>1. e \in [sort : {"desc"}, kind : Kinds, name : DOMAIN Hash \cup {""}, fields : Seq(DOMAIN Hash), kids : Seq(Nat)]
  BY DEF REntry
<1>. QED
  BY <1>1

LEMMA DescMade ==
  ASSUME NEW e \in REntry, e.sort = "desc"
  PROVE  /\ \A id \in Nat : \A e2 : e2 = [e EXCEPT !.kids = Append(@, id)] =>
              /\ e2 \in REntry /\ e2.sort = "desc" /\ e2.kind = e.kind /\ e2.name = e.name
              /\ e2.fields = e.fields /\ e2.kids = Append(e.kids, id)
         /\ \A s \in DOMAIN Hash : \A e2 : e2 = [e EXCEPT !.fields = Append(@, s)] =>
              /\ e2 \in REntry /\ e2.sort = "desc" /\ e2.kind = e.kind /\ e2.name = e.name
              /\ e2.fields = Append(e.fields, s) /\ e2.kids = e.kids
         /\ \A s \in DOMAIN Hash : \A e2 : e2 = [e EXCEPT !.name = s] =>
              /\ e2 \in REntry /\ e2.sort = "desc" /\ e2.kind = e.kind /\ e2.name = s
              /\ e2.fields = e.fields /\ e2.kids = e.kids
<1>. DEFINE Made == [sort : {"desc"}, kind : Kinds, name : DOMAIN Hash \cup {""}, fields : Seq(DOMAIN Hash), kids : Seq(Nat)]
<1>1. e \in Made /\ Made \subseteq REntry
  BY DEF REntry
<1>2. e.kids \in Seq(Nat) /\ e.fields \in Seq(DOMAIN Hash)
  BY <1>1
<1>3. ASSUME NEW id \in Nat, NEW e2, e2 = [e EXCEPT !.kids = Append(@, id)]
      PROVE  /\ e2 \in REntry /\ e2.sort = "desc" /\ e2.kind = e.kind /\ e2.name = e.name
             /\ e2.fields = e.fields /\ e2.kids = Append(e.kids, id)
  <2>. DEFINE u == Append(e.kids, id)
  <2>1. u \in Seq(Nat)
    BY <1>2, <1>3, AppendFacts
  <2>2. e2 = [e EXCEPT !.kids = u]
    BY <1>3
  <2>. HIDE DEF u
  <2>3. /\ e2 \in Made /\ e2.sort = "desc" /\ e2.kind = e.kind /\ e2.name = e.name
        /\ e2.fields = e.fields /\ e2.kids = u
    BY <1>1, <2>1, <2>2
  <2>. QED
    BY <1>1, <2>3 DEF u
<1>4. ASSUME NEW s \in DOMAIN Hash, NEW e2, e2 = [e EXCEPT !.fields = Append(@, s)]
      PROVE  /\ e2 \in REntry /\ e2.sort = "desc" /\ e2.kind = e.kind /\ e2.name = e.name
             /\ e2.fields = Append(e.fields, s) /\ e2.kids = e.kids
  <2>. DEFINE u == Append(e.fields, s)
  <2>1. u \in Seq(DOMAIN Hash)
    BY <1>2, <1>4, AppendFacts
  <2>2. e2 = [e EXCEPT !.fields = u]
    BY <1>4
  <2>. HIDE DEF u
  <2>3. /\ e2 \in Made /\ e2.sort = "desc" /\ e2.kind = e.kind /\ e2.name = e.name
        /\ e2.fields = u /\ e2.kids = e.kids
    BY <1>1, <2>1, <2>2
  <2>. QED
    BY <1>1, <2>3 DEF u
<1>5. ASSUME NEW s \in DOMAIN Hash, NEW e2, e2 = [e EXCEPT !.name = s]
      PROVE  /\ e2 \in REntry /\ e2.sort = "desc" /\ e2.kind = e.kind /\ e2.name = s
             /\ e2.fields = e.fields /\ e2.kids = e.kids
  <2>1. /\ e2 \in Made /\ e2.sort = "desc" /\ e2.kind = e.kind /\ e2.name = s
        /\ e2.fields = e.fields /\ e2.kids = e.kids
    BY <1>1, <1>5
  <2>. QED
    BY <1>1, <2>1
<1>. QED
  BY <1>3, <1>4, <1>5

(* The part taken is of this record. *)
TakesPart(tab, dr, c, c2, a, p, more, b, e, d) ==
  /\ SlotTurn(a, p, more, c, b) /\ c \in Nat /\ c2 \in Nat /\ c <= c2
  /\ p \in Position /\ Slot(p) /\ PosOK(tab, c, p) /\ Holds(tab, dr, c, a, p.of + 1, e)
  /\ d \in Descs /\ tab[p.of + 1].of = d

LEMMA PartFacts ==
  ASSUME NEW tab, NEW dr, NEW c, NEW c2, NEW a, NEW p, NEW more, NEW b, NEW e, NEW d,
         TakesPart(tab, dr, c, c2, a, p, more, b, e, d)
  PROVE  /\ p.of \in Nat /\ p.j \in Nat /\ p.of < c /\ tab[p.of + 1].sort = "desc"
         /\ e \in REntry /\ e.sort = "desc" /\ HasParts(tab, c, a, p.of + 1, e, d)
         /\ Pending(a, p.k, p.of, p.j) /\ \A j : Pending(a, p.k, p.of, j) => j = p.j \/ p.j < j
         /\ p.k = "name" => p.j <= Len(Fields[d])
         /\ p.k = "kid" => p.j \in 1 .. Len(Kids[d])
         /\ \A id, x : Names(tab, c, id, x) => Names(tab, c2, id, x)
<1>0. /\ SlotTurn(a, p, more, c, b) /\ c \in Nat /\ c2 \in Nat /\ c <= c2
      /\ p \in Position /\ Slot(p) /\ PosOK(tab, c, p) /\ Holds(tab, dr, c, a, p.of + 1, e)
      /\ d \in Descs /\ tab[p.of + 1].of = d
  BY DEF TakesPart
<1>1. p.of \in Nat /\ p.j \in Nat
  BY <1>0, PositionForm
<1>2. /\ p.of < c /\ tab[p.of + 1].sort = "desc"
      /\ (p.k = "name" => p.j <= Len(Fields[d])) /\ (p.k = "kid" => p.j \in 1 .. Len(Kids[d]))
  BY <1>0 DEF PosOK, Owned
<1>3. /\ \A k \in {"name", "kid"} : \A o, j : o # c =>
           (Pending(b, k, o, j) <=> Pending(a, k, o, j) /\ ~(k = p.k /\ o = p.of /\ j = p.j))
      /\ Pending(a, p.k, p.of, p.j) /\ \A j : Pending(a, p.k, p.of, j) => j = p.j \/ p.j < j
  BY <1>0, Shifts
<1>4. p.of # c
  BY <1>0, <1>1, <1>2
<1>5. e \in REntry /\ e.sort = "desc" /\ HoldsDesc(tab, c, a, p.of + 1, e)
  BY <1>0, <1>2 DEF Holds
<1>6. HasParts(tab, c, a, p.of + 1, e, d)
  BY <1>0, <1>5, DescForm
<1>7. \A id, x : Names(tab, c, id, x) => Names(tab, c2, id, x)
  BY <1>0, NamesLater
<1>. QED
  BY <1>1, <1>2, <1>3, <1>4, <1>5, <1>6, <1>7

LEMMA PartGone ==
  ASSUME NEW tab, NEW dr, NEW c, NEW c2, NEW a, NEW p, NEW more, NEW b, NEW e, NEW d,
         TakesPart(tab, dr, c, c2, a, p, more, b, e, d), NEW k \in {"name", "kid"}, NEW j
  PROVE  Pending(b, k, p.of, j) <=> Pending(a, k, p.of, j) /\ ~(k = p.k /\ j = p.j)
<1>0. /\ SlotTurn(a, p, more, c, b) /\ c \in Nat
      /\ p \in Position /\ Slot(p) /\ PosOK(tab, c, p)
  BY DEF TakesPart
<1>1. p.of # c
  BY <1>0 DEF PosOK, Owned
<1>2. \A kk \in {"name", "kid"} : \A o, jj : o # c =>
        (Pending(b, kk, o, jj) <=> Pending(a, kk, o, jj) /\ ~(kk = p.k /\ o = p.of /\ jj = p.j))
  BY <1>0, Shifts
<1>3. Pending(b, k, p.of, j) <=> Pending(a, k, p.of, j) /\ ~(k = p.k /\ p.of = p.of /\ j = p.j)
  BY <1>1, <1>2, Zenon
<1>. QED
  BY <1>3

(* The type-ref read goes to its parent, as its next. *)
LEMMA KidTaken ==
  ASSUME NEW tab, NEW dr, NEW c, NEW c2, NEW a, NEW p, NEW more, NEW b, NEW e, NEW d,
         TakesPart(tab, dr, c, c2, a, p, more, b, e, d), p.k = "kid",
         NEW id \in Nat, Names(tab, c2, id, Kids[d][p.j]),
         NEW e2, e2 = [e EXCEPT !.kids = Append(@, id)]
  PROVE  Holds(tab, dr, c2, b, p.of + 1, e2)
<1>. DEFINE o == p.of
            n == Len(e.kids)
            l == Len(Kids[d])
<1>. HIDE DEF o, n, l
<1>0. /\ o \in Nat /\ p.j \in 1 .. l /\ tab[o + 1].sort = "desc"
      /\ e \in REntry /\ e.sort = "desc" /\ HasParts(tab, c, a, o + 1, e, d)
      /\ tab[o + 1].of = d /\ d \in Descs /\ (o + 1) - 1 = o
  <2>1. TakesPart(tab, dr, c, c2, a, p, more, b, e, d)
    OBVIOUS
  <2>2. /\ p.of \in Nat /\ p.j \in Nat /\ p.of < c /\ tab[p.of + 1].sort = "desc"
        /\ e \in REntry /\ e.sort = "desc" /\ HasParts(tab, c, a, p.of + 1, e, d)
        /\ p.k = "kid" => p.j \in 1 .. Len(Kids[d])
    BY <2>1, PartFacts
  <2>3. tab[p.of + 1].of = d /\ d \in Descs
    BY <2>1 DEF TakesPart
  <2>4. (p.of + 1) - 1 = p.of
    BY <2>2
  <2>. QED
    BY <2>2, <2>3, <2>4 DEF o, l
<1>1. /\ \A j : Pending(b, "name", o, j) <=> Pending(a, "name", o, j)
      /\ \A j : Pending(b, "kid", o, j) <=> Pending(a, "kid", o, j) /\ j # p.j
      /\ Pending(a, "kid", o, p.j) /\ \A j : Pending(a, "kid", o, j) => j = p.j \/ p.j < j
      /\ \A x, y : Names(tab, c, x, y) => Names(tab, c2, x, y)
  <2>0. TakesPart(tab, dr, c, c2, a, p, more, b, e, d)
    OBVIOUS
  <2>1. ASSUME NEW k \in {"name", "kid"}, NEW j
        PROVE  Pending(b, k, p.of, j) <=> Pending(a, k, p.of, j) /\ ~(k = p.k /\ j = p.j)
    BY <2>0, PartGone
  <2>4. Pending(a, p.k, p.of, p.j) /\ \A j : Pending(a, p.k, p.of, j) => j = p.j \/ p.j < j
    BY <2>0, PartFacts, Zenon
  <2>5. \A x, y : Names(tab, c, x, y) => Names(tab, c2, x, y)
    BY <2>0, PartFacts
  <2>2. \A j : Pending(b, "name", o, j) <=> Pending(a, "name", o, j) /\ ~("name" = p.k /\ j = p.j)
    BY <2>1, Zenon DEF o
  <2>3. \A j : Pending(b, "kid", o, j) <=> Pending(a, "kid", o, j) /\ ~("kid" = p.k /\ j = p.j)
    BY <2>1, Zenon DEF o
  <2>. QED
    BY <2>2, <2>3, <2>4, <2>5 DEF o
<1>2. /\ e2 \in REntry /\ e2.sort = "desc" /\ e2.kind = e.kind /\ e2.name = e.name
      /\ e2.fields = e.fields /\ e2.kids = Append(e.kids, id)
  BY <1>0, DescMade
<1>3. e.kids \in Seq(Nat) /\ n \in Nat /\ l \in Nat
  <2>1. e.kids \in Seq(Nat)
    BY <1>0, DescEntry
  <2>. QED
    BY <1>0, <2>1, KidFacts DEF n, l
<1>4. /\ Append(e.kids, id) \in Seq(Nat) /\ Len(Append(e.kids, id)) = n + 1 /\ Append(e.kids, id)[n + 1] = id
      /\ \A j \in 1 .. n : Append(e.kids, id)[j] = e.kids[j]
  BY <1>3, AppendFacts DEF n
<1>5. /\ e.kind = Kind[d] /\ e.name = IF Pending(a, "name", o, 0) THEN "" ELSE Name[d]
      /\ Len(e.fields) <= Len(Fields[d]) /\ \A j \in 1 .. Len(e.fields) : e.fields[j] = Fields[d][j]
      /\ \A j \in 1 .. Len(Fields[d]) : Pending(a, "name", o, j) <=> j > Len(e.fields)
      /\ n <= l /\ \A j \in 1 .. n : Names(tab, c, e.kids[j], Kids[d][j])
      /\ \A j \in 1 .. l : Pending(a, "kid", o, j) <=> j > n
  BY <1>0, Zenon DEF HasParts, n, l
<1>6. p.j = n + 1
  <2>1. p.j > n
    BY <1>0, <1>1, <1>5
  <2>2. n + 1 \in 1 .. l /\ n + 1 > n
    BY <1>0, <1>3, <2>1
  <2>3. Pending(a, "kid", o, n + 1)
    BY <1>5, <2>2
  <2>4. n + 1 = p.j \/ p.j < n + 1
    BY <1>1, <2>3
  <2>. QED
    BY <1>0, <1>3, <2>1, <2>4
<1>7. ASSUME NEW j \in 1 .. l PROVE Pending(b, "kid", o, j) <=> j > n + 1
  <2>1. Pending(b, "kid", o, j) <=> j > n /\ j # n + 1
    BY <1>1, <1>5, <1>6
  <2>2. j > n /\ j # n + 1 <=> j > n + 1
    BY <1>3
  <2>. QED
    BY <2>1, <2>2
<1>8. ASSUME NEW j \in 1 .. n + 1 PROVE Names(tab, c2, e2.kids[j], Kids[d][j])
  <2>1. CASE j \in 1 .. n
    <3>1. Names(tab, c, e.kids[j], Kids[d][j])
      BY <1>5, <2>1
    <3>2. e2.kids[j] = e.kids[j]
      BY <1>2, <1>4, <2>1
    <3>. QED
      BY <1>1, <3>1, <3>2
  <2>2. CASE j = n + 1
    BY <1>2, <1>4, <1>6, <2>2
  <2>3. j \in 1 .. n \/ j = n + 1
    BY <1>3
  <2>. QED
    BY <2>1, <2>2, <2>3
<1>9. Len(e2.kids) = n + 1 /\ n + 1 <= l
  BY <1>0, <1>2, <1>4, <1>6
<1>10. HasParts(tab, c2, b, o + 1, e2, d)
  <2>1. e2.kind = Kind[d] /\ e2.name = IF Pending(b, "name", o, 0) THEN "" ELSE Name[d]
    BY <1>1, <1>2, <1>5
  <2>2. /\ Len(e2.fields) <= Len(Fields[d]) /\ \A j \in 1 .. Len(e2.fields) : e2.fields[j] = Fields[d][j]
        /\ \A j \in 1 .. Len(Fields[d]) : Pending(b, "name", o, j) <=> j > Len(e2.fields)
    BY <1>1, <1>2, <1>5, Zenon
  <2>3. /\ Len(e2.kids) <= l /\ \A j \in 1 .. Len(e2.kids) : Names(tab, c2, e2.kids[j], Kids[d][j])
        /\ \A j \in 1 .. l : Pending(b, "kid", o, j) <=> j > Len(e2.kids)
    BY <1>7, <1>8, <1>9
  <2>. QED
    BY <1>0, <2>1, <2>2, <2>3, Zenon DEF HasParts, l
<1>11. HoldsDesc(tab, c2, b, o + 1, e2)
  BY <1>0, <1>10, DescForm
<1>. QED
  BY <1>0, <1>2, <1>11 DEF Holds, o

(* The name read is that of the descriptor. *)
OwnName(tab, dr, c, c2, a, p, more, b, e, d, e2) ==
  /\ TakesPart(tab, dr, c, c2, a, p, more, b, e, d) /\ p.k = "name" /\ p.j = 0
  /\ e2 = [e EXCEPT !.name = Name[d]]

LEMMA OwnNameTaken ==
  ASSUME NEW tab, NEW dr, NEW c, NEW c2, NEW a, NEW p, NEW more, NEW b, NEW e, NEW d, NEW e2,
         OwnName(tab, dr, c, c2, a, p, more, b, e, d, e2)
  PROVE  Holds(tab, dr, c2, b, p.of + 1, e2)
<1>. DEFINE o == p.of
<1>. HIDE DEF o
<1>t. TakesPart(tab, dr, c, c2, a, p, more, b, e, d) /\ p.k = "name" /\ p.j = 0
  BY DEF OwnName
<1>0. /\ o \in Nat /\ tab[o + 1].sort = "desc"
      /\ e \in REntry /\ e.sort = "desc" /\ HasParts(tab, c, a, o + 1, e, d)
      /\ tab[o + 1].of = d /\ d \in Descs /\ (o + 1) - 1 = o
  <2>2. /\ p.of \in Nat /\ tab[p.of + 1].sort = "desc"
        /\ e \in REntry /\ e.sort = "desc" /\ HasParts(tab, c, a, p.of + 1, e, d)
    BY <1>t, PartFacts
  <2>3. tab[p.of + 1].of = d /\ d \in Descs
    BY <1>t DEF TakesPart
  <2>4. (p.of + 1) - 1 = p.of
    BY <2>2
  <2>. QED
    BY <2>2, <2>3, <2>4 DEF o
<1>1. /\ \A j : Pending(b, "kid", o, j) <=> Pending(a, "kid", o, j)
      /\ ~Pending(b, "name", o, 0)
      /\ \A j \in Nat \ {0} : Pending(b, "name", o, j) <=> Pending(a, "name", o, j)
      /\ \A x, y : Names(tab, c, x, y) => Names(tab, c2, x, y)
  <2>1. \A j : Pending(b, "kid", o, j) <=> Pending(a, "kid", o, j) /\ ~("kid" = p.k /\ j = p.j)
    BY <1>t, PartGone DEF o
  <2>2. \A j : Pending(b, "name", o, j) <=> Pending(a, "name", o, j) /\ ~("name" = p.k /\ j = p.j)
    BY <1>t, PartGone DEF o
  <2>3. \A x, y : Names(tab, c, x, y) => Names(tab, c2, x, y)
    BY <1>t, PartFacts
  <2>. QED
    BY <1>t, <2>1, <2>2, <2>3
<1>2. /\ e2 \in REntry /\ e2.sort = "desc" /\ e2.kind = e.kind /\ e2.name = Name[d]
      /\ e2.fields = e.fields /\ e2.kids = e.kids
  <2>1. Name[d] \in DOMAIN Hash
    BY <1>0, DescFacts
  <2>2. e2 = [e EXCEPT !.name = Name[d]]
    BY DEF OwnName
  <2>. QED
    BY <1>0, <2>1, <2>2, DescMade
<1>5. /\ e.kind = Kind[d]
      /\ Len(e.fields) <= Len(Fields[d]) /\ \A j \in 1 .. Len(e.fields) : e.fields[j] = Fields[d][j]
      /\ \A j \in 1 .. Len(Fields[d]) : Pending(a, "name", o, j) <=> j > Len(e.fields)
      /\ Len(e.kids) <= Len(Kids[d]) /\ \A j \in 1 .. Len(e.kids) : Names(tab, c, e.kids[j], Kids[d][j])
      /\ \A j \in 1 .. Len(Kids[d]) : Pending(a, "kid", o, j) <=> j > Len(e.kids)
  BY <1>0, Zenon DEF HasParts
<1>6. \A j \in 1 .. Len(Fields[d]) : Pending(b, "name", o, j) <=> j > Len(e.fields)
  <2>1. \A j \in 1 .. Len(Fields[d]) : j \in Nat \ {0}
    BY <1>0, KidFacts
  <2>. QED
    BY <1>1, <1>5, <2>1, Zenon
<1>7. /\ \A j \in 1 .. Len(e.kids) : Names(tab, c2, e.kids[j], Kids[d][j])
      /\ \A j \in 1 .. Len(Kids[d]) : Pending(b, "kid", o, j) <=> j > Len(e.kids)
  BY <1>1, <1>5, Zenon
<1>8. e2.name = IF Pending(b, "name", o, 0) THEN "" ELSE Name[d]
  BY <1>1, <1>2
<1>10. HasParts(tab, c2, b, o + 1, e2, d)
  BY <1>0, <1>2, <1>5, <1>6, <1>7, <1>8, Zenon DEF HasParts
<1>11. HoldsDesc(tab, c2, b, o + 1, e2)
  BY <1>0, <1>10, DescForm
<1>. QED
  BY <1>0, <1>2, <1>11 DEF Holds, o

(* The name read is that of its next field. *)
FieldName(tab, dr, c, c2, a, p, more, b, e, d, e2) ==
  /\ TakesPart(tab, dr, c, c2, a, p, more, b, e, d) /\ p.k = "name" /\ p.j # 0
  /\ e2 = [e EXCEPT !.fields = Append(@, Fields[d][p.j])]

LEMMA FieldNameTaken ==
  ASSUME NEW tab, NEW dr, NEW c, NEW c2, NEW a, NEW p, NEW more, NEW b, NEW e, NEW d, NEW e2,
         FieldName(tab, dr, c, c2, a, p, more, b, e, d, e2)
  PROVE  Holds(tab, dr, c2, b, p.of + 1, e2)
<1>. DEFINE o == p.of
            n == Len(e.fields)
            l == Len(Fields[d])
            s == Fields[d][p.j]
<1>. HIDE DEF o, n, l, s
<1>t. TakesPart(tab, dr, c, c2, a, p, more, b, e, d) /\ p.k = "name" /\ p.j # 0
  BY DEF FieldName
<1>0. /\ o \in Nat /\ p.j \in 1 .. l /\ l \in Nat /\ s \in DOMAIN Hash /\ tab[o + 1].sort = "desc"
      /\ e \in REntry /\ e.sort = "desc" /\ HasParts(tab, c, a, o + 1, e, d)
      /\ tab[o + 1].of = d /\ d \in Descs /\ (o + 1) - 1 = o
  <2>2. /\ p.of \in Nat /\ tab[p.of + 1].sort = "desc" /\ p.j \in Nat /\ p.j <= Len(Fields[d])
        /\ e \in REntry /\ e.sort = "desc" /\ HasParts(tab, c, a, p.of + 1, e, d)
    BY <1>t, PartFacts
  <2>3. tab[p.of + 1].of = d /\ d \in Descs
    BY <1>t DEF TakesPart
  <2>4. (p.of + 1) - 1 = p.of
    BY <2>2
  <2>5. l \in Nat
    BY <2>3, KidFacts DEF l
  <2>6. p.j \in 1 .. l
    BY <1>t, <2>2, <2>5 DEF l
  <2>7. s \in DOMAIN Hash
    BY <2>3, <2>6, KidFacts DEF l, s
  <2>. QED
    BY <2>2, <2>3, <2>4, <2>5, <2>6, <2>7 DEF o
<1>1. /\ \A j : Pending(b, "kid", o, j) <=> Pending(a, "kid", o, j)
      /\ Pending(b, "name", o, 0) <=> Pending(a, "name", o, 0)
      /\ \A j : Pending(b, "name", o, j) <=> Pending(a, "name", o, j) /\ j # p.j
      /\ Pending(a, "name", o, p.j) /\ \A j : Pending(a, "name", o, j) => j = p.j \/ p.j < j
      /\ \A x, y : Names(tab, c, x, y) => Names(tab, c2, x, y)
  <2>1. \A j : Pending(b, "kid", o, j) <=> Pending(a, "kid", o, j) /\ ~("kid" = p.k /\ j = p.j)
    BY <1>t, PartGone DEF o
  <2>2. \A j : Pending(b, "name", o, j) <=> Pending(a, "name", o, j) /\ ~("name" = p.k /\ j = p.j)
    BY <1>t, PartGone DEF o
  <2>3. \A x, y : Names(tab, c, x, y) => Names(tab, c2, x, y)
    BY <1>t, PartFacts
  <2>4. Pending(a, p.k, p.of, p.j) /\ \A j : Pending(a, p.k, p.of, j) => j = p.j \/ p.j < j
    BY <1>t, PartFacts, Zenon
  <2>5. Pending(b, "name", o, 0) <=> Pending(a, "name", o, 0)
    BY <1>t, <2>2
  <2>6. \A j : Pending(b, "kid", o, j) <=> Pending(a, "kid", o, j)
    BY <1>t, <2>1
  <2>. QED
    BY <1>t, <2>2, <2>3, <2>4, <2>5, <2>6 DEF o
<1>2. /\ e2 \in REntry /\ e2.sort = "desc" /\ e2.kind = e.kind /\ e2.name = e.name
      /\ e2.fields = Append(e.fields, s) /\ e2.kids = e.kids
  <2>2. e2 = [e EXCEPT !.fields = Append(@, s)]
    BY DEF FieldName, s
  <2>. QED
    BY <1>0, <2>2, DescMade
<1>3. e.fields \in Seq(DOMAIN Hash) /\ n \in Nat
  <2>1. e.fields \in Seq(DOMAIN Hash)
    BY <1>0, DescEntry
  <2>. QED
    BY <2>1 DEF n
<1>4. /\ Len(Append(e.fields, s)) = n + 1 /\ Append(e.fields, s)[n + 1] = s
      /\ \A j \in 1 .. n : Append(e.fields, s)[j] = e.fields[j]
  BY <1>0, <1>3, AppendFacts DEF n
<1>5. /\ e.kind = Kind[d] /\ e.name = IF Pending(a, "name", o, 0) THEN "" ELSE Name[d]
      /\ n <= l /\ \A j \in 1 .. n : e.fields[j] = Fields[d][j]
      /\ \A j \in 1 .. l : Pending(a, "name", o, j) <=> j > n
      /\ Len(e.kids) <= Len(Kids[d]) /\ \A j \in 1 .. Len(e.kids) : Names(tab, c, e.kids[j], Kids[d][j])
      /\ \A j \in 1 .. Len(Kids[d]) : Pending(a, "kid", o, j) <=> j > Len(e.kids)
  BY <1>0, Zenon DEF HasParts, n, l
<1>6. p.j = n + 1
  <2>1. p.j > n
    BY <1>0, <1>1, <1>5
  <2>2. n + 1 \in 1 .. l /\ n + 1 > n
    BY <1>0, <1>3, <2>1
  <2>3. Pending(a, "name", o, n + 1)
    BY <1>5, <2>2
  <2>4. n + 1 = p.j \/ p.j < n + 1
    BY <1>1, <2>3
  <2>. QED
    BY <1>0, <1>3, <2>1, <2>4
<1>7. ASSUME NEW j \in 1 .. l PROVE Pending(b, "name", o, j) <=> j > n + 1
  <2>1. Pending(b, "name", o, j) <=> j > n /\ j # n + 1
    BY <1>1, <1>5, <1>6
  <2>2. j > n /\ j # n + 1 <=> j > n + 1
    BY <1>3
  <2>. QED
    BY <2>1, <2>2
<1>8. ASSUME NEW j \in 1 .. n + 1 PROVE e2.fields[j] = Fields[d][j]
  <2>1. CASE j \in 1 .. n
    BY <1>2, <1>4, <1>5, <2>1
  <2>2. CASE j = n + 1
    BY <1>2, <1>4, <1>6, <2>2 DEF s
  <2>3. j \in 1 .. n \/ j = n + 1
    BY <1>3
  <2>. QED
    BY <2>1, <2>2, <2>3
<1>9. Len(e2.fields) = n + 1 /\ n + 1 <= l
  BY <1>0, <1>2, <1>4, <1>6
<1>10. HasParts(tab, c2, b, o + 1, e2, d)
  <2>1. e2.kind = Kind[d] /\ e2.name = IF Pending(b, "name", o, 0) THEN "" ELSE Name[d]
    BY <1>1, <1>2, <1>5
  <2>2. /\ Len(e2.kids) <= Len(Kids[d]) /\ \A j \in 1 .. Len(e2.kids) : Names(tab, c2, e2.kids[j], Kids[d][j])
        /\ \A j \in 1 .. Len(Kids[d]) : Pending(b, "kid", o, j) <=> j > Len(e2.kids)
    BY <1>1, <1>2, <1>5, Zenon
  <2>3. /\ Len(e2.fields) <= l /\ \A j \in 1 .. Len(e2.fields) : e2.fields[j] = Fields[d][j]
        /\ \A j \in 1 .. l : Pending(b, "name", o, j) <=> j > Len(e2.fields)
    BY <1>7, <1>8, <1>9
  <2>. QED
    BY <1>0, <2>1, <2>2, <2>3, Zenon DEF HasParts, l
<1>11. HoldsDesc(tab, c2, b, o + 1, e2)
  BY <1>0, <1>10, DescForm
<1>. QED
  BY <1>0, <1>2, <1>11 DEF Holds, o

(* The entry of a descriptor that was just opened. *)
Opened(tab, c, c2, a, d, rest, b) ==
  /\ c \in Nat /\ d \in Descs /\ tab[c + 1] = Entry("desc", d) /\ a \in Seq(Position) /\ a # <<>>
  /\ rest \in Seq(Position) /\ b = (Parts(c, d) \o rest) \o Tail(a)

(* It has none of its parts yet. *)
LEMMA OpenedHolds ==
  ASSUME NEW tab, NEW dr, NEW c, NEW c2, NEW a, NEW d, NEW rest, NEW b, Opened(tab, c, c2, a, d, rest, b)
  PROVE  Desc(Kind[d]) \in REntry /\ Holds(tab, dr, c2, b, c + 1, Desc(Kind[d]))
<1>. DEFINE u == Parts(c, d)
            more == u \o rest
            e == Desc(Kind[d])
<1>0. /\ c \in Nat /\ d \in Descs /\ tab[c + 1] = Entry("desc", d) /\ a \in Seq(Position) /\ a # <<>>
      /\ rest \in Seq(Position) /\ b = more \o Tail(a)
  BY DEF Opened
<1>1. /\ u \in Seq(Position)
      /\ \A j \in 0 .. Len(Fields[d]) : \E x \in 1 .. Len(u) : u[x] = NameAt(c, j)
      /\ \A j \in 1 .. Len(Kids[d]) : \E x \in 1 .. Len(u) : u[x] = KidAt(c, j)
  BY <1>0, PartsFacts, PartsSlots
<1>. HIDE DEF u
<1>2. /\ more \in Seq(Position) /\ Len(u) \in Nat /\ Len(rest) \in Nat /\ Len(more) = Len(u) + Len(rest)
      /\ \A x \in 1 .. Len(u) : more[x] = u[x]
  BY <1>0, <1>1, ConcatFacts
<1>3. \A x \in 1 .. Len(u) : x \in 1 .. Len(more)
  BY <1>2
<1>. HIDE DEF more
<1>4. \A k, o, j : Pending(more, k, o, j) => Pending(b, k, o, j)
  BY <1>0, <1>2, PendingTurn
<1>5. ASSUME NEW j \in 0 .. Len(Fields[d]) PROVE Pending(b, "name", c, j)
  <2>1. PICK x \in 1 .. Len(u) : u[x] = NameAt(c, j)
    BY <1>1
  <2>2. x \in 1 .. Len(more) /\ more[x] = NameAt(c, j)
    BY <1>2, <1>3, <2>1
  <2>3. more[x].k = "name" /\ more[x].of = c /\ more[x].j = j
    BY <2>2, PartForm
  <2>4. Pending(more, "name", c, j)
    BY <2>2, <2>3 DEF Pending
  <2>. QED
    BY <1>4, <2>4
<1>6. ASSUME NEW j \in 1 .. Len(Kids[d]) PROVE Pending(b, "kid", c, j)
  <2>1. PICK x \in 1 .. Len(u) : u[x] = KidAt(c, j)
    BY <1>1
  <2>2. x \in 1 .. Len(more) /\ more[x] = KidAt(c, j)
    BY <1>2, <1>3, <2>1
  <2>3. more[x].k = "kid" /\ more[x].of = c /\ more[x].j = j
    BY <2>2, PartForm
  <2>4. Pending(more, "kid", c, j)
    BY <2>2, <2>3 DEF Pending
  <2>. QED
    BY <1>4, <2>4
<1>7. Kind[d] \in Kinds /\ Len(Fields[d]) \in Nat /\ Len(Kids[d]) \in Nat
  BY <1>0, DescFacts, KidFacts
<1>8. e \in REntry /\ e.sort = "desc" /\ e.kind = Kind[d] /\ e.name = "" /\ e.fields = <<>> /\ e.kids = <<>>
  <2>1. e = [sort |-> "desc", kind |-> Kind[d], name |-> "", fields |-> <<>>, kids |-> <<>>]
    BY DEF Desc
  <2>. HIDE DEF e
  <2>a. e.sort = "desc" /\ e.kind = Kind[d] /\ e.name = "" /\ e.fields = <<>> /\ e.kids = <<>>
    BY <2>1
  <2>. DEFINE f0 == e.fields
              k0 == e.kids
              kd == Kind[d]
  <2>b. f0 = <<>> /\ k0 = <<>>
    BY <2>a
  <2>c. \A S : <<>> \in Seq(S)
    OBVIOUS
  <2>3. f0 \in Seq(DOMAIN Hash) /\ k0 \in Seq(Nat) /\ kd \in Kinds
    BY <1>7, <2>b, <2>c
  <2>. HIDE DEF f0, k0, kd
  <2>2. e = [sort |-> "desc", kind |-> kd, name |-> "", fields |-> f0, kids |-> k0]
    BY <2>1, <2>b DEF kd
  <2>4. e \in [sort : {"desc"}, kind : Kinds, name : DOMAIN Hash \cup {""}, fields : Seq(DOMAIN Hash), kids : Seq(Nat)]
    BY <2>2, <2>3
  <2>5. e \in REntry
    BY <2>4 DEF REntry
  <2>. QED
    BY <2>a, <2>5
<1>. HIDE DEF e
<1>9. HasParts(tab, c2, b, c + 1, e, d)
  <2>1. (c + 1) - 1 = c /\ 0 \in 0 .. Len(Fields[d]) /\ \A j \in 1 .. Len(Fields[d]) : j \in 0 .. Len(Fields[d])
    BY <1>0, <1>7
  <2>2. Pending(b, "name", c, 0)
    BY <1>5, <2>1
  <2>3. \A j \in 1 .. Len(Fields[d]) : Pending(b, "name", c, j) <=> j > 0
    BY <1>5, <1>7, <2>1
  <2>4. \A j \in 1 .. Len(Kids[d]) : Pending(b, "kid", c, j) <=> j > 0
    BY <1>6, <1>7
  <2>5. Len(e.fields) = 0 /\ Len(e.kids) = 0
    BY <1>8
  <2>6. /\ \A j \in 1 .. Len(e.fields) : e.fields[j] = Fields[d][j]
        /\ \A j \in 1 .. Len(e.kids) : Names(tab, c2, e.kids[j], Kids[d][j])
    BY <2>5
  <2>7. Len(e.fields) <= Len(Fields[d]) /\ Len(e.kids) <= Len(Kids[d])
    BY <1>7, <2>5
  <2>8. e.name = IF Pending(b, "name", c, 0) THEN "" ELSE Name[d]
    BY <1>8, <2>2
  <2>9. /\ \A j \in 1 .. Len(Fields[d]) : Pending(b, "name", c, j) <=> j > Len(e.fields)
        /\ \A j \in 1 .. Len(Kids[d]) : Pending(b, "kid", c, j) <=> j > Len(e.kids)
    BY <2>3, <2>4, <2>5
  <2>. QED
    BY <1>8, <2>1, <2>6, <2>7, <2>8, <2>9, Zenon DEF HasParts
<1>10. HoldsDesc(tab, c2, b, c + 1, e)
  <2>1. tab[c + 1].of = d
    BY <1>0 DEF Entry
  <2>. QED
    BY <1>9, <2>1, DescForm
<1>11. tab[c + 1].sort = "desc"
  BY <1>0 DEF Entry
<1>12. Holds(tab, dr, c2, b, c + 1, e)
  BY <1>8, <1>10, <1>11 DEF Holds
<1>. QED
  BY <1>8, <1>12 DEF e

LEMMA EntryPut ==
  ASSUME NEW t \in Seq(REntry), NEW k \in 1 .. Len(t), NEW e \in REntry, NEW t2, t2 = [t EXCEPT ![k] = e]
  PROVE  /\ t2 \in Seq(REntry) /\ Len(t2) = Len(t) /\ t2[k] = e
         /\ \A x \in 1 .. Len(t) : x # k => t2[x] = t[x]
  OBVIOUS

(* What the Reader expects behind a descriptor, by its id. *)
Trails(tab, dr, c, c2, it, p, id, u, v) ==
  /\ it \in RPosition /\ p \in Position /\ p.k \in {"kid", "desc"} /\ Fits(tab, dr, c, it, p)
  /\ id \in Nat /\ Names(tab, c2, id, DescOf(tab, p)) /\ DescOf(tab, p) \in Descs
  /\ u = Behind(p) /\ v = RAfter(id, it.then, it.skip)

LEMMA BehindFits ==
  ASSUME NEW tab, NEW dr, NEW c, NEW c2, NEW it, NEW p, NEW id, NEW u, NEW v,
         Trails(tab, dr, c, c2, it, p, id, u, v)
  PROVE  /\ u \in Seq(Position) /\ NoSlots(u) /\ v \in Seq(RPosition) /\ Len(v) = Len(u)
         /\ \A x \in 1 .. Len(u) : Fits(tab, dr, c2, v[x], u[x])
         /\ \A x \in 1 .. Len(u) : u[x].k # "view"
<1>z. /\ it \in RPosition /\ p \in Position /\ p.k \in {"kid", "desc"} /\ Fits(tab, dr, c, it, p)
      /\ id \in Nat /\ Names(tab, c2, id, DescOf(tab, p)) /\ DescOf(tab, p) \in Descs
      /\ u = Behind(p) /\ v = RAfter(id, it.then, it.skip)
  BY DEF Trails
<1>0. it.k = "desc" /\ (it.skip => dr # {}) /\ (p.k = "kid" => it.then = "kid") /\ (p.k = "desc" => it.then = p.then)
  BY <1>z DEF Fits
<1>s. it.skip \in BOOLEAN
  BY <1>z, <1>0 DEF RPosition
<1>1. CASE p.k = "kid"
  <2>1. u = <<>> /\ v = <<>>
    BY <1>z, <1>0, <1>1 DEF Behind, RAfter
  <2>. QED
    BY <2>1, EmptyFacts
<1>2. CASE p.k = "desc"
  <2>. DEFINE d == p.d
              s == it.skip
  <2>0. DescOf(tab, p) = d
    BY <1>2 DEF DescOf
  <2>1. d \in Descs /\ p.then \in {"open", "body"} /\ Names(tab, c2, id, d)
    BY <1>z, <1>2, <2>0, PositionForm
  <2>2. /\ Body(d) \in Position /\ Held(d) \in Position /\ Open(d) \in Position
        /\ ~Slot(Body(d)) /\ ~Slot(Held(d)) /\ ~Slot(Open(d))
        /\ Body(d).k = "body" /\ Held(d).k = "body" /\ Open(d).k = "open"
    BY <2>1, PositionMade, MadeForm
  <2>3. RBody(id, s) \in RPosition /\ ROpen(id, s) \in RPosition
    BY <1>z, <1>s, RMade
  <2>4. /\ Fits(tab, dr, c2, RBody(id, s), Body(d)) /\ Fits(tab, dr, c2, RBody(id, s), Held(d))
        /\ Fits(tab, dr, c2, ROpen(id, s), Open(d))
    BY <1>0, <2>1, FitsMade
  <2>5. CASE p.then = "open"
    <3>. DEFINE b1 == Open(d)
                b2 == Held(d)
                r1 == ROpen(id, s)
                r2 == RBody(id, s)
    <3>1. u = <<b1, b2>> /\ v = <<r1, r2>>
      BY <1>z, <1>0, <1>2, <2>5 DEF Behind, RAfter, After
    <3>2. /\ b1 \in Position /\ b2 \in Position /\ r1 \in RPosition /\ r2 \in RPosition
          /\ Fits(tab, dr, c2, r1, b1) /\ Fits(tab, dr, c2, r2, b2) /\ ~Slot(b1) /\ ~Slot(b2)
          /\ b1.k # "view" /\ b2.k # "view"
      BY <2>2, <2>3, <2>4
    <3>. HIDE DEF b1, b2, r1, r2
    <3>3. /\ u \in Seq(Position) /\ v \in Seq(RPosition) /\ Len(u) = 2 /\ Len(v) = 2
          /\ u[1] = b1 /\ u[2] = b2 /\ v[1] = r1 /\ v[2] = r2 /\ \A x \in 1 .. Len(u) : x = 1 \/ x = 2
      BY <3>1, <3>2
    <3>4. NoSlots(u)
      BY <3>2, <3>3 DEF NoSlots
    <3>. QED
      BY <3>2, <3>3, <3>4
  <2>6. CASE p.then = "body"
    <3>. DEFINE b1 == Body(d)
                r1 == RBody(id, s)
    <3>1. u = <<b1>> /\ v = <<r1>>
      BY <1>z, <1>0, <1>2, <2>6 DEF Behind, RAfter, After
    <3>2. /\ b1 \in Position /\ r1 \in RPosition /\ Fits(tab, dr, c2, r1, b1) /\ ~Slot(b1) /\ b1.k # "view"
      BY <2>2, <2>3, <2>4
    <3>. HIDE DEF b1, r1
    <3>3. /\ u \in Seq(Position) /\ v \in Seq(RPosition) /\ Len(u) = 1 /\ Len(v) = 1
          /\ u[1] = b1 /\ v[1] = r1 /\ \A x \in 1 .. Len(u) : x = 1
      BY <3>1, <3>2
    <3>4. NoSlots(u)
      BY <3>2, <3>3 DEF NoSlots
    <3>. QED
      BY <3>2, <3>3, <3>4
  <2>. QED
    BY <2>1, <2>5, <2>6
<1>. QED
  BY <1>z, <1>1, <1>2

(* A step of the Reader over any position. *)
SlotStep(H, i, g, h, more, n, c, rt2, more2) ==
  /\ Standing(H, i) /\ expect # <<>> /\ g = H[i] /\ h = H[i + 1] /\ Turn(g, h, more, n, c) /\ n \in Nat /\ c \in Nat
  /\ more \in Seq(Position) /\ more2 \in Seq(RPosition) /\ Len(more2) = Len(more)
  /\ \A x \in 1 .. Len(more) : Fits(wtab, drop, h.c, more2[x], more[x])
  /\ rt2 \in Seq(REntry) /\ Len(rt2) = h.c
  /\ \A k \in 1 .. Len(rt2) : Holds(wtab, drop, h.c, h.a, k, rt2[k])
  /\ Step(n, rt2, more2)

LEMMA SlotGood ==
  ASSUME NEW H, NEW i, NEW g, NEW h, NEW more, NEW n, NEW c, NEW rt2, NEW more2,
         SlotStep(H, i, g, h, more, n, c, rt2, more2)
  PROVE  Good(H)
<1>0. /\ Standing(H, i) /\ expect # <<>> /\ g = H[i] /\ h = H[i + 1] /\ Turn(g, h, more, n, c)
      /\ n \in Nat /\ c \in Nat
      /\ more \in Seq(Position) /\ more2 \in Seq(RPosition) /\ Len(more2) = Len(more)
      /\ \A x \in 1 .. Len(more) : Fits(wtab, drop, h.c, more2[x], more[x])
      /\ rt2 \in Seq(REntry) /\ Len(rt2) = h.c
      /\ \A k \in 1 .. Len(rt2) : Holds(wtab, drop, h.c, h.a, k, rt2[k])
      /\ Step(n, rt2, more2)
  BY DEF SlotStep
<1>1. /\ expect \in Seq(RPosition) /\ g.a \in Seq(Position) /\ g.c \in Nat /\ g.n \in Nat
      /\ Match(wtab, drop, rtab, expect, pos, g) /\ g \in Moment /\ pos = g.n
  BY <1>0, StandTypes
<1>2. i + 1 \in 1 .. Len(H) /\ g.a # <<>>
  BY <1>0, StandFacts
<1>3. h.a = more \o Tail(g.a) /\ h.n = g.n + n /\ h.c = g.c + c
  <2>1. Turn(g, h, more, n, c)
    BY <1>0
  <2>. QED
    BY <2>1 DEF Turn
<1>4. /\ Len(expect) = Len(g.a) /\ \A x \in 1 .. Len(expect) : Fits(wtab, drop, g.c, expect[x], g.a[x])
  BY <1>1, MatchForm
<1>5. h.c \in Nat /\ g.c <= h.c
  BY <1>0, <1>1, <1>3
<1>6. Fronts(wtab, drop, g.c, h.c, expect, g.a, more, more2)
  BY <1>0, <1>1, <1>2, <1>4, <1>5 DEF Fronts
<1>. DEFINE ex2 == more2 \o Tail(expect)
<1>7. /\ ex2 \in Seq(RPosition) /\ Len(ex2) = Len(h.a)
      /\ \A x \in 1 .. Len(ex2) : Fits(wtab, drop, h.c, ex2[x], h.a[x])
  <2>1. /\ more2 \o Tail(expect) \in Seq(RPosition) /\ Len(more2 \o Tail(expect)) = Len(more \o Tail(g.a))
        /\ \A x \in 1 .. Len(more2 \o Tail(expect)) :
              Fits(wtab, drop, h.c, (more2 \o Tail(expect))[x], (more \o Tail(g.a))[x])
    BY <1>6, FitsTurn
  <2>. QED
    BY <1>3, <2>1
<1>8. /\ rtab' = rt2 /\ expect' = ex2 /\ pos' = pos + n
      /\ err' = err /\ UNCHANGED <<wvars, drop>>
  BY <1>0 DEF Step
<1>. HIDE DEF ex2
<1>9. Match(wtab, drop, rt2, ex2, pos + n, h)
  BY <1>0, <1>1, <1>3, <1>7 DEF Match
<1>10. Match(wtab, drop, rtab', expect', pos', H[i + 1])
  BY <1>0, <1>8, <1>9
<1>. QED
  BY <1>2, <1>8, <1>10 DEF Good, Reached

(* The Reader stands at a part of a descriptor and takes one entry more at *)
(* most: rt is its table but for what the part itself changes.             *)
AtSlot(H, i, g, h, p, it, more, n, c, rt, d) ==
  /\ Standing(H, i) /\ expect # <<>> /\ g = H[i] /\ h = H[i + 1] /\ p = Head(g.a) /\ it = Head(expect)
  /\ Slot(p) /\ n \in Nat /\ c \in {0, 1} /\ Turn(g, h, more, n, c)
  /\ more \in Seq(Position) /\ \A x \in 1 .. Len(more) : Slot(more[x]) => more[x].of = g.c
  /\ rt \in Seq(REntry) /\ Len(rt) = h.c /\ \A k \in 1 .. g.c : rt[k] = rtab[k]
  /\ \A k \in 1 .. h.c : k > g.c => Holds(wtab, drop, h.c, h.a, k, rt[k])
  /\ d = wtab[p.of + 1].of

(* The entry the part belongs to, and the other entries. *)
LEMMA SlotFacts ==
  ASSUME NEW H, NEW i, NEW g, NEW h, NEW p, NEW it, NEW more, NEW n, NEW c, NEW rt, NEW d,
         AtSlot(H, i, g, h, p, it, more, n, c, rt, d)
  PROVE  /\ TakesPart(wtab, drop, g.c, h.c, g.a, p, more, h.a, rt[p.of + 1], d)
         /\ p.of + 1 \in 1 .. Len(rt) /\ p.of + 1 \in 1 .. g.c /\ d \in Descs
         /\ Fits(wtab, drop, g.c, it, p) /\ it \in RPosition /\ p.of \in Nat /\ p.j \in Nat
         /\ g.c \in Nat /\ h.c \in Nat /\ g.c <= h.c /\ p \in Position
         /\ \A k \in 1 .. h.c : k # p.of + 1 => Holds(wtab, drop, h.c, h.a, k, rt[k])
<1>0. /\ Standing(H, i) /\ expect # <<>> /\ g = H[i] /\ h = H[i + 1] /\ p = Head(g.a) /\ it = Head(expect)
      /\ Slot(p) /\ n \in Nat /\ c \in {0, 1} /\ Turn(g, h, more, n, c)
      /\ more \in Seq(Position) /\ \A x \in 1 .. Len(more) : Slot(more[x]) => more[x].of = g.c
      /\ rt \in Seq(REntry) /\ Len(rt) = h.c /\ \A k \in 1 .. g.c : rt[k] = rtab[k]
      /\ \A k \in 1 .. h.c : k > g.c => Holds(wtab, drop, h.c, h.a, k, rt[k])
      /\ d = wtab[p.of + 1].of
  BY ZenonT(30) DEF AtSlot
<1>1. /\ g.a \in Seq(Position) /\ g.c \in Nat /\ Len(rtab) = g.c /\ Stage(wire, wtab, g) /\ g.c <= Len(wtab)
      /\ wtab \in Seq(TabEntry) /\ Match(wtab, drop, rtab, expect, pos, g) /\ g \in Moment /\ Len(wtab) \in Nat
  BY SMTT(30), <1>0, StandTypes
<1>2. /\ g.a # <<>> /\ p \in Position /\ PosOK(wtab, g.c, p) /\ it \in RPosition /\ Fits(wtab, drop, g.c, it, p)
      /\ h.c \in Nat
  BY SMTT(30), <1>0, StandFacts
<1>3. h.a = more \o Tail(g.a) /\ h.c = g.c + c
  <2>1. Turn(g, h, more, n, c)
    BY <1>0
  <2>. QED
    BY <2>1 DEF Turn
<1>4. g.c <= h.c
  BY SMTT(30), <1>0, <1>1, <1>3
<1>5. SlotTurn(g.a, p, more, g.c, h.a)
  BY ZenonT(30), <1>0, <1>1, <1>2, <1>3 DEF SlotTurn, Stage
<1>6. p.of \in Nat /\ p.j \in Nat /\ p.of < g.c /\ wtab[p.of + 1].sort = "desc"
  <2>1. p.of \in Nat /\ p.j \in Nat
    BY <1>0, <1>2, PositionForm
  <2>. QED
    BY ZenonT(40), <1>0, <1>2, <2>1 DEF PosOK, Owned
<1>7. p.of + 1 \in 1 .. g.c /\ p.of + 1 \in 1 .. Len(wtab) /\ p.of + 1 \in 1 .. Len(rt)
  <2>1. Len(rt) = h.c
    BY ZenonT(30), <1>0
  <2>. QED
    BY <1>1, <1>2, <1>4, <1>6, <2>1
<1>8. d \in Descs
  <2>1. wtab[p.of + 1] \in TabEntry
    BY <1>1, <1>7
  <2>. QED
    BY <1>0, <1>6, <2>1, EntryForm
<1>9. \A k \in 1 .. Len(rtab) : Holds(wtab, drop, g.c, g.a, k, rtab[k])
  BY SMTT(30), <1>1, MatchForm
<1>10. Holds(wtab, drop, g.c, g.a, p.of + 1, rt[p.of + 1])
  BY ZenonT(40), <1>0, <1>1, <1>7, <1>9
<1>11. TakesPart(wtab, drop, g.c, h.c, g.a, p, more, h.a, rt[p.of + 1], d)
  BY ZenonT(40), <1>0, <1>1, <1>2, <1>4, <1>5, <1>8, <1>10 DEF TakesPart
<1>12. ASSUME NEW k \in 1 .. h.c, k # p.of + 1 PROVE Holds(wtab, drop, h.c, h.a, k, rt[k])
  <2>1. CASE k > g.c
    BY <1>0, <2>1
  <2>2. CASE k \in 1 .. g.c
    <3>1. Holds(wtab, drop, g.c, g.a, k, rt[k])
      BY <1>0, <1>1, <1>9, <2>2
    <3>2. p.of # k - 1
      BY <1>6, <1>12, <2>2
    <3>3. Bystands(wtab, drop, g.c, h.c, g.a, p, more, h.a, k, rt[k])
      BY <1>1, <1>2, <1>4, <1>5, <2>2, <3>1, <3>2 DEF Bystands
    <3>. QED
      BY <3>3, Bystander
  <2>3. k > g.c \/ k \in 1 .. g.c
    BY <1>1, <1>2
  <2>. QED
    BY ZenonT(30), <2>1, <2>2, <2>3
<1>. QED
  BY <1>1, <1>2, <1>4, <1>6, <1>7, <1>8, <1>11, <1>12

(* The name goes to its descriptor. *)
LEMMA NameDone ==
  ASSUME NEW H, NEW i, NEW g, NEW h, NEW p, NEW it, NEW c, NEW rt, NEW d, NEW s,
         AtSlot(H, i, g, h, p, it, <<>>, 1, c, rt, d), p.k = "name", s = TextOf(d, p.j),
         Step(1, Label(rt, it, s), <<>>)
  PROVE  Good(H)
<1>. DEFINE k0 == p.of + 1
            e == rt[k0]
            e2 == IF p.j = 0 THEN [e EXCEPT !.name = Name[d]] ELSE [e EXCEPT !.fields = Append(@, Fields[d][p.j])]
            rt2 == Label(rt, it, s)
            more == <<>>
<1>1. /\ TakesPart(wtab, drop, g.c, h.c, g.a, p, more, h.a, e, d)
      /\ k0 \in 1 .. Len(rt) /\ k0 \in 1 .. g.c /\ d \in Descs
      /\ Fits(wtab, drop, g.c, it, p) /\ it \in RPosition /\ p.of \in Nat /\ p.j \in Nat
      /\ g.c \in Nat /\ h.c \in Nat /\ g.c <= h.c /\ p \in Position
      /\ \A k \in 1 .. h.c : k # k0 => Holds(wtab, drop, h.c, h.a, k, rt[k])
  BY ZenonT(30), SlotFacts
<1>2. /\ Standing(H, i) /\ expect # <<>> /\ g = H[i] /\ h = H[i + 1] /\ Turn(g, h, more, 1, c) /\ c \in Nat
      /\ rt \in Seq(REntry) /\ Len(rt) = h.c
  BY DEF AtSlot
<1>3. it.of = p.of /\ (it.part = "name" <=> p.j = 0)
  BY <1>1 DEF Fits
<1>4. Holds(wtab, drop, h.c, h.a, k0, e2)
  <2>. HIDE DEF e, more
  <2>1. CASE p.j = 0
    <3>1. OwnName(wtab, drop, g.c, h.c, g.a, p, more, h.a, e, d, e2)
      BY <1>1, <2>1 DEF OwnName
    <3>. HIDE DEF e2
    <3>. QED
      BY <3>1, OwnNameTaken
  <2>2. CASE p.j # 0
    <3>1. FieldName(wtab, drop, g.c, h.c, g.a, p, more, h.a, e, d, e2)
      BY <1>1, <2>2 DEF FieldName
    <3>. HIDE DEF e2
    <3>. QED
      BY <3>1, FieldNameTaken
  <2>. QED
    BY <2>1, <2>2
<1>5. rt2 = [rt EXCEPT ![k0] = e2]
  <2>1. rt2 = [rt EXCEPT ![it.of + 1] = IF it.part = "name" THEN [rt[it.of + 1] EXCEPT !.name = s]
                                        ELSE [rt[it.of + 1] EXCEPT !.fields = Append(@, s)]]
    BY DEF Label
  <2>2. CASE p.j = 0
    <3>1. s = Name[d] /\ it.part = "name"
      BY <1>3, <2>2 DEF TextOf
    <3>. QED
      BY <1>3, <2>1, <2>2, <3>1
  <2>3. CASE p.j # 0
    <3>1. s = Fields[d][p.j] /\ it.part # "name"
      BY <1>3, <2>3 DEF TextOf
    <3>. QED
      BY <1>3, <2>1, <2>3, <3>1
  <2>. QED
    BY <2>2, <2>3
<1>6. e2 \in REntry
  <2>. HIDE DEF e2
  <2>. QED
    BY <1>4 DEF Holds
<1>. HIDE DEF e, e2, rt2, more, k0
<1>7. rt2 \in Seq(REntry) /\ Len(rt2) = Len(rt) /\ rt2[k0] = e2 /\ \A x \in 1 .. Len(rt) : x # k0 => rt2[x] = rt[x]
  BY <1>1, <1>2, <1>5, <1>6, EntryPut
<1>8. ASSUME NEW k \in 1 .. Len(rt2) PROVE Holds(wtab, drop, h.c, h.a, k, rt2[k])
  <2>1. CASE k = k0
    BY <1>4, <1>7, <2>1
  <2>2. CASE k # k0
    BY <1>1, <1>2, <1>7, <2>2
  <2>. QED
    BY <2>1, <2>2
<1>9. /\ more \in Seq(Position) /\ more \in Seq(RPosition) /\ Len(more) = 0 /\ \A x \in 1 .. Len(more) : FALSE
      /\ Step(1, rt2, more) /\ 1 \in Nat
  BY DEF more, rt2
<1>10. SlotStep(H, i, g, h, more, 1, c, rt2, more)
  BY <1>2, <1>7, <1>8, <1>9 DEF SlotStep
<1>. QED
  BY <1>10, SlotGood

-----------------------------------------------------------------------------
(***************************************************************************)
(* The Reader's actions: names and descriptors.                            *)
(***************************************************************************)

LEMMA SlotHead ==
  ASSUME NEW H, NEW i, Standing(H, i), expect # <<>>, NEW k, Head(expect).k = k, k \in {"str", "desc"},
         NEW g, g = H[i], NEW p, p = Head(g.a)
  PROVE  /\ k = "str" => p.k = "name" /\ Slot(p)
         /\ k = "desc" => p.k \in {"kid", "desc"}
         /\ (Slot(p) \/ NoSlots(g.a)) /\ p \in Position
<1>1. p \in Position /\ Fits(wtab, drop, g.c, Head(expect), p) /\ (Slot(p) \/ NoSlots(g.a))
  BY StandFacts
<1>2. p.k \in {"name", "kid", "desc", "body", "open", "view"}
  BY <1>1, PositionForm
<1>3. /\ p.k = "name" => k = "str"
      /\ p.k \in {"kid", "desc"} => k = "desc"
      /\ p.k \in {"body", "open", "view"} => k = p.k
  BY <1>1 DEF Fits
<1>. QED
  BY <1>1, <1>2, <1>3 DEF Slot

(* The Writer's step there wrote a name. *)
LEMMA NameMoves ==
  ASSUME NEW w, NEW tab, NEW dr, NEW g, NEW h, Onward(w, tab, dr, g, h), Head(g.a).k = "name"
  PROVE  StepName(w, tab, g, h)
<1>. DEFINE p == Head(g.a)
<1>0. p.k = "name"
  OBVIOUS
<1>1. ~StepDescLit(w, tab, g, h) /\ ~StepDescRef(w, tab, g, h)
  BY <1>0, Zenon DEF StepDescLit, StepDescRef
<1>2. ~StepOpen(tab, g, h) /\ ~StepView(w, tab, g, h)
  BY <1>0 DEF StepOpen, StepView
<1>3. /\ ~StepText(w, tab, dr, g, h) /\ ~StepStruct(w, g, h) /\ ~StepNil(w, dr, g, h)
      /\ ~StepMap(w, tab, dr, g, h) /\ ~StepSlice(w, tab, g, h) /\ ~StepIface(g, h)
      /\ ~StepRepeat(w, tab, g, h) /\ ~StepRecord(tab, g, h) /\ ~StepTag(g, h)
      /\ ~StepPath(w, tab, dr, g, h)
  BY <1>0 DEF StepText, StepStruct, StepNil, StepMap, StepSlice, StepIface, StepRepeat, StepRecord, StepTag, StepPath, BodyIs
<1>. QED
  BY <1>1, <1>2, <1>3 DEF Onward

(* readName: both tables take a name written out, or neither. *)
LEMMA ReadNameGood ==
  ASSUME NEW H, NEW i, Standing(H, i), ReadName
  PROVE  Good(H)
<1>. DEFINE g == H[i]
            h == H[i + 1]
            p == Head(g.a)
            it == Head(expect)
            d == wtab[p.of + 1].of
            s == TextOf(d, p.j)
            more == <<>>
<1>0. expect # <<>> /\ Head(expect).k = "str"
  BY DEF ReadName
<1>1. p.k = "name" /\ Slot(p) /\ p \in Position
  BY <1>0, SlotHead
<1>2. /\ i + 1 \in 1 .. Len(H) /\ Onward(wire, wtab, drop, g, h) /\ h.n <= Len(wire) /\ h.n \in Nat
      /\ h.c \in Nat
  BY <1>0, StandFacts
<1>3. /\ g.c \in Nat /\ g.n \in Nat /\ Len(rtab) = g.c /\ rtab \in Seq(REntry) /\ pos = g.n
  BY StandTypes
<1>4. StepName(wire, wtab, g, h)
  BY <1>1, <1>2, NameMoves
<1>5. TextLit(wire, wtab, g, h, s) \/ TextRef(wire, wtab, g, h, s)
  BY <1>4 DEF StepName
<1>6. more \in Seq(Position) /\ Len(more) = 0 /\ \A x \in 1 .. Len(more) : FALSE
  OBVIOUS
<1>. HIDE DEF g, h, p, it, d, s, more
<1>7. /\ Standing(H, i) /\ g = H[i] /\ h = H[i + 1] /\ p = Head(g.a) /\ it = Head(expect)
      /\ d = wtab[p.of + 1].of /\ s = TextOf(d, p.j) /\ more = <<>>
  BY ZenonT(30) DEF g, h, p, it, d, s, more
<1>8. CASE TextLit(wire, wtab, g, h, s)
  <2>. DEFINE e == Str(s)
              rt == Append(rtab, e)
  <2>1. /\ wire[g.n + 1] = Lit("str", s) /\ wtab[g.c + 1] = Entry("str", s) /\ Turn(g, h, more, 1, 1)
    BY <1>7, <1>8 DEF TextLit
  <2>2. h.n = g.n + 1 /\ h.c = g.c + 1
    BY <2>1 DEF Turn
  <2>3. Tok = Lit("str", s) /\ Class = "str" /\ Tok \in Token
    <3>1. Tok = wire[g.n + 1] /\ Class = Tok.t /\ Tok \in Token
      BY SMTT(30), <1>2, <1>3, <1>7, <2>2, TokAt
    <3>. QED
      BY <2>1, <3>1 DEF Lit
  <2>4. Tok.x = s /\ s \in DOMAIN Hash
    BY <2>3 DEF Lit, Token
  <2>5. Step(1, Label(rt, it, s), <<>>)
    BY ZenonT(40), <1>7, <2>3, <2>4 DEF ReadName
  <2>6. e \in REntry /\ Holds(wtab, drop, h.c, h.a, g.c + 1, e)
    BY <2>1, <2>4, NewStr
  <2>. HIDE DEF e
  <2>7. /\ rt \in Seq(REntry) /\ Len(rt) = g.c + 1 /\ rt[g.c + 1] = e /\ \A k \in 1 .. g.c : rt[k] = rtab[k]
    BY <1>3, <2>6, AppendFacts
  <2>. HIDE DEF rt
  <2>8. ASSUME NEW k \in 1 .. h.c, k > g.c PROVE Holds(wtab, drop, h.c, h.a, k, rt[k])
    <3>1. k = g.c + 1
      BY SMTT(30), <1>3, <2>2, <2>8
    <3>. QED
      BY <2>6, <2>7, <3>1
  <2>9. AtSlot(H, i, g, h, p, it, <<>>, 1, 1, rt, d)
    <3>1. AtSlot(H, i, g, h, p, it, more, 1, 1, rt, d)
      BY <1>0, <1>1, <1>6, <1>7, <2>1, <2>2, <2>7, <2>8 DEF AtSlot
    <3>. QED
      BY ZenonT(30), <1>7, <3>1
  <2>. QED
    BY <1>1, <1>7, <2>5, <2>9, NameDone
<1>9. CASE TextRef(wire, wtab, g, h, s)
  <2>1. PICK id \in 0 .. g.c - 1 : Again(wire, wtab, g, Ref(id, "str", s))
    BY ZenonT(30), <1>9 DEF TextRef
  <2>. DEFINE tk == Ref(id, "str", s)
  <2>2. Turn(g, h, more, 1, 0)
    BY <1>7, <1>9 DEF TextRef
  <2>3. h.n = g.n + 1 /\ h.c = g.c + 0
    BY <2>2 DEF Turn
  <2>4. Tok = wire[g.n + 1] /\ Class = Tok.t
    BY SMTT(30), <1>2, <1>3, <1>7, <2>3, TokAt
  <2>5. tk.sort = "str" /\ tk.of = s /\ tk.t = "ref"
    BY DEF Ref
  <2>a. Again(wire, wtab, g, tk) /\ Standing(H, i) /\ g = H[i] /\ Tok = wire[g.n + 1]
    BY <1>7, <2>1, <2>4
  <2>. HIDE DEF tk
  <2>6. /\ Known /\ Tok = tk /\ Named.sort = tk.sort /\ Holds(wtab, drop, g.c, g.a, tk.x + 1, Named)
        /\ wtab[tk.x + 1] = Entry(tk.sort, tk.of)
    BY SMTT(30), <2>a, NamedAt
  <2>7. Named.s = s
    BY SMTT(30), <2>5, <2>6 DEF Holds, Entry
  <2>8. Step(1, Label(rtab, it, s), <<>>)
    BY ZenonT(40), <1>7, <2>4, <2>5, <2>6, <2>7 DEF ReadName
  <2>9. h.c = g.c /\ \A k \in 1 .. h.c : ~(k > g.c)
    BY SMTT(30), <1>3, <2>3
  <2>10. AtSlot(H, i, g, h, p, it, <<>>, 1, 0, rtab, d)
    <3>1. AtSlot(H, i, g, h, p, it, more, 1, 0, rtab, d)
      BY <1>0, <1>1, <1>3, <1>6, <1>7, <2>2, <2>9 DEF AtSlot
    <3>. QED
      BY <1>7, <3>1
  <2>. QED
    BY <1>1, <1>7, <2>8, <2>10, NameDone
<1>. QED
  BY <1>5, <1>8, <1>9 DEF s

(* What the Reader expects of a descriptor written out. *)
Unfolds(tab, dr, c, c2, it, p, d, more, more2) ==
  /\ c \in Nat /\ c2 = c + 1 /\ it \in RPosition /\ p \in Position /\ p.k \in {"kid", "desc"}
  /\ Fits(tab, dr, c, it, p) /\ d = DescOf(tab, p) /\ d \in Descs /\ tab[c + 1] = Entry("desc", d)
  /\ more = Parts(c, d) \o Behind(p)
  /\ more2 = RChildren(c, Kind[d], Len(Kids[d]), it.skip) \o RAfter(c, it.then, it.skip)

LEMMA OwnId ==
  ASSUME NEW tab, NEW c \in Nat, NEW d \in Descs, tab[c + 1] = Entry("desc", d)
  PROVE  Names(tab, c + 1, c, d)
<1>1. tab[c + 1].sort = "desc" /\ tab[c + 1].of = d
  BY DEF Entry
<1>2. Alike(d, d)
  BY AlikeSelf
<1>. QED
  BY <1>1, <1>2 DEF Names, Owned

LEMMA PartFits ==
  ASSUME NEW tab, NEW dr, NEW c2, NEW c \in Nat, NEW skip \in BOOLEAN, skip => dr # {}
  PROVE  /\ \A j : Fits(tab, dr, c2, RStr(c, IF j = 0 THEN "name" ELSE "field"), NameAt(c, j))
         /\ \A j : Fits(tab, dr, c2, RDesc(c, "kid", skip), KidAt(c, j))
<1>1. ASSUME NEW j PROVE Fits(tab, dr, c2, RStr(c, IF j = 0 THEN "name" ELSE "field"), NameAt(c, j))
  <2>. DEFINE e == RStr(c, IF j = 0 THEN "name" ELSE "field")
              p == NameAt(c, j)
  <2>1. e.k = "str" /\ e.of = c /\ e.part = IF j = 0 THEN "name" ELSE "field"
    BY DEF RStr
  <2>2. p.k = "name" /\ p.of = c /\ p.j = j
    BY PartForm
  <2>. HIDE DEF e, p
  <2>3. Fits(tab, dr, c2, e, p)
    BY <2>1, <2>2 DEF Fits
  <2>. QED
    BY <2>3 DEF e, p
<1>2. ASSUME NEW j PROVE Fits(tab, dr, c2, RDesc(c, "kid", skip), KidAt(c, j))
  <2>. DEFINE e == RDesc(c, "kid", skip)
              p == KidAt(c, j)
  <2>1. e.k = "desc" /\ e.kid = c /\ e.then = "kid" /\ (e.skip => dr # {})
    BY DEF RDesc
  <2>2. p.k = "kid" /\ p.of = c /\ p.j = j
    BY PartForm
  <2>. HIDE DEF e, p
  <2>3. Fits(tab, dr, c2, e, p)
    BY <2>1, <2>2 DEF Fits
  <2>. QED
    BY <2>3 DEF e, p
<1>. QED
  BY <1>1, <1>2

(* Part by part it is what the Writer wrote. *)
LEMMA UnfoldFits ==
  ASSUME NEW tab, NEW dr, NEW c, NEW c2, NEW it, NEW p, NEW d, NEW more, NEW more2,
         Unfolds(tab, dr, c, c2, it, p, d, more, more2)
  PROVE  /\ more \in Seq(Position) /\ more2 \in Seq(RPosition) /\ Len(more2) = Len(more)
         /\ \A x \in 1 .. Len(more) : Fits(tab, dr, c2, more2[x], more[x])
         /\ \A x \in 1 .. Len(more) : Slot(more[x]) => more[x].of = c
         /\ Behind(p) \in Seq(Position) /\ Names(tab, c2, c, d)
<1>. DEFINE u == Parts(c, d)
            v == Behind(p)
            R == RChildren(c, Kind[d], Len(Kids[d]), it.skip)
            S == RAfter(c, it.then, it.skip)
<1>0. /\ c \in Nat /\ c2 = c + 1 /\ it \in RPosition /\ p \in Position /\ p.k \in {"kid", "desc"}
      /\ Fits(tab, dr, c, it, p) /\ d = DescOf(tab, p) /\ d \in Descs /\ tab[c + 1] = Entry("desc", d)
      /\ more = u \o v /\ more2 = R \o S
  BY DEF Unfolds
<1>d. /\ u = Parts(c, d) /\ v = Behind(p)
      /\ R = RChildren(c, Kind[d], Len(Kids[d]), it.skip) /\ S = RAfter(c, it.then, it.skip)
  OBVIOUS
<1>. HIDE DEF u, v, R, S
<1>1. it.skip \in BOOLEAN /\ (it.skip => dr # {})
  <2>1. it.k = "desc" /\ (it.skip => dr # {})
    BY <1>0 DEF Fits
  <2>2. it.skip \in BOOLEAN
    BY <1>0, <2>1 DEF RPosition
  <2>. QED
    BY <2>1, <2>2
<1>2. Names(tab, c2, c, d)
  BY <1>0, OwnId
<1>3. /\ v \in Seq(Position) /\ NoSlots(v) /\ S \in Seq(RPosition) /\ Len(S) = Len(v)
      /\ \A x \in 1 .. Len(v) : Fits(tab, dr, c2, S[x], v[x])
      /\ \A x \in 1 .. Len(v) : v[x].k # "view"
  <2>1. /\ it \in RPosition /\ p \in Position /\ p.k \in {"kid", "desc"} /\ Fits(tab, dr, c, it, p)
        /\ c \in Nat /\ Names(tab, c2, c, DescOf(tab, p)) /\ DescOf(tab, p) \in Descs
    BY <1>0, <1>2
  <2>2. Trails(tab, dr, c, c2, it, p, c, v, S)
    BY <1>d, <2>1 DEF Trails
  <2>. QED
    BY <2>2, BehindFits
<1>4. /\ R \in Seq(RPosition) /\ Len(R) = Len(u)
      /\ \A x \in 1 .. Len(R) :
           /\ u[x].k = "name" => R[x] = RStr(c, IF u[x].j = 0 THEN "name" ELSE "field")
           /\ u[x].k = "kid" => R[x] = RDesc(c, "kid", it.skip)
  <2>1. c \in Nat /\ d \in Descs /\ it.skip \in BOOLEAN
    BY <1>0, <1>1
  <2>2. /\ R \in Seq(RPosition) /\ Len(R) = Len(Parts(c, d))
        /\ \A x \in 1 .. Len(R) :
             /\ Parts(c, d)[x].k = "name" => R[x] = RStr(c, IF Parts(c, d)[x].j = 0 THEN "name" ELSE "field")
             /\ Parts(c, d)[x].k = "kid" => R[x] = RDesc(c, "kid", it.skip)
    BY SMTT(30), <1>d, <2>1, RChildrenFacts
  <2>. QED
    BY <1>d, <2>2
<1>5. /\ u \in Seq(Position) /\ Len(u) \in Nat
      /\ \A x \in 1 .. Len(u) :
           (\E j \in 0 .. Len(Fields[d]) : u[x] = NameAt(c, j)) \/ (\E j \in 1 .. Len(Kids[d]) : u[x] = KidAt(c, j))
  <2>1. c \in Nat /\ d \in Descs
    BY <1>0
  <2>2. Parts(c, d) \in Seq(Position)
    BY <2>1, PartsFacts
  <2>3. \A x \in 1 .. Len(Parts(c, d)) :
          \/ \E j \in 0 .. Len(Fields[d]) : Parts(c, d)[x] = NameAt(c, j)
          \/ \E j \in 1 .. Len(Kids[d]) : Parts(c, d)[x] = KidAt(c, j)
    BY <2>1, PartsSlots
  <2>. QED
    BY <1>d, <2>2, <2>3
<1>6. /\ \A j : Fits(tab, dr, c2, RStr(c, IF j = 0 THEN "name" ELSE "field"), NameAt(c, j))
      /\ \A j : Fits(tab, dr, c2, RDesc(c, "kid", it.skip), KidAt(c, j))
  BY <1>0, <1>1, PartFits
<1>7. ASSUME NEW x \in 1 .. Len(u) PROVE Fits(tab, dr, c2, R[x], u[x]) /\ u[x].of = c
  <2>1. CASE \E j \in 0 .. Len(Fields[d]) : u[x] = NameAt(c, j)
    <3>1. PICK j \in 0 .. Len(Fields[d]) : u[x] = NameAt(c, j)
      BY <2>1
    <3>2. u[x].k = "name" /\ u[x].j = j /\ u[x].of = c
      BY <3>1, PartForm
    <3>3. R[x] = RStr(c, IF j = 0 THEN "name" ELSE "field")
      BY <1>4, <3>2
    <3>. QED
      BY <1>6, <3>1, <3>2, <3>3
  <2>2. CASE \E j \in 1 .. Len(Kids[d]) : u[x] = KidAt(c, j)
    <3>1. PICK j \in 1 .. Len(Kids[d]) : u[x] = KidAt(c, j)
      BY <2>2
    <3>2. u[x].k = "kid" /\ u[x].of = c
      BY <3>1, PartForm
    <3>3. R[x] = RDesc(c, "kid", it.skip)
      BY <1>4, <3>2
    <3>. QED
      BY <1>6, <3>1, <3>2, <3>3
  <2>. QED
    BY <1>5, <2>1, <2>2
<1>8. /\ more \in Seq(Position) /\ Len(u) \in Nat /\ Len(v) \in Nat /\ Len(more) = Len(u) + Len(v)
      /\ \A x \in 1 .. Len(more) :
           \/ x \in 1 .. Len(u) /\ more[x] = u[x]
           \/ x - Len(u) \in 1 .. Len(v) /\ more[x] = v[x - Len(u)]
  <2>1. u \in Seq(Position) /\ v \in Seq(Position)
    BY <1>3, <1>5
  <2>. QED
    BY <1>0, <2>1, ConcatFacts
<1>9. /\ more2 \in Seq(RPosition) /\ Len(more2) = Len(u) + Len(v)
      /\ \A x \in 1 .. Len(u) : more2[x] = R[x]
      /\ \A x \in 1 .. Len(v) : more2[Len(u) + x] = S[x]
  <2>1. R \in Seq(RPosition) /\ S \in Seq(RPosition)
    BY <1>3, <1>4
  <2>2. /\ R \o S \in Seq(RPosition) /\ Len(R \o S) = Len(R) + Len(S)
        /\ \A x \in 1 .. Len(R) : (R \o S)[x] = R[x]
        /\ \A x \in 1 .. Len(S) : (R \o S)[Len(R) + x] = S[x]
    BY <2>1, ConcatFacts
  <2>. QED
    BY <1>0, <1>3, <1>4, <2>2
<1>10. ASSUME NEW x \in 1 .. Len(more)
       PROVE  Fits(tab, dr, c2, more2[x], more[x]) /\ (Slot(more[x]) => more[x].of = c)
  <2>1. CASE x \in 1 .. Len(u) /\ more[x] = u[x]
    <3>1. more2[x] = R[x]
      BY <1>9, <2>1
    <3>. QED
      BY <1>7, <2>1, <3>1
  <2>2. CASE x - Len(u) \in 1 .. Len(v) /\ more[x] = v[x - Len(u)]
    <3>. DEFINE y == x - Len(u)
    <3>1. y \in 1 .. Len(v) /\ Len(u) + y = x /\ more[x] = v[y]
      BY <1>8, <2>2
    <3>. HIDE DEF y
    <3>2. more2[x] = S[y]
      BY <1>9, <3>1
    <3>3. ~Slot(v[y])
      BY <1>3, <3>1 DEF NoSlots
    <3>. QED
      BY <1>3, <3>1, <3>2, <3>3
  <2>. QED
    BY <1>8, <2>1, <2>2
<1>. QED
  BY <1>2, <1>3, <1>8, <1>9, <1>10 DEF v

(* The kid positions of both sides, once the part is taken. *)
KidStep(H, i, g, h, p, it, more, n, c, rt, d, id, more2) ==
  /\ AtSlot(H, i, g, h, p, it, more, n, c, rt, d) /\ p.k = "kid"
  /\ id \in Nat /\ Names(wtab, h.c, id, Kids[d][p.j])
  /\ more2 \in Seq(RPosition) /\ Len(more2) = Len(more)
  /\ \A x \in 1 .. Len(more) : Fits(wtab, drop, h.c, more2[x], more[x])
  /\ Step(n, Adopt(rt, it, id), more2)

(* The type-ref goes to its parent. *)
LEMMA KidDone ==
  ASSUME NEW H, NEW i, NEW g, NEW h, NEW p, NEW it, NEW more, NEW n, NEW c, NEW rt, NEW d, NEW id, NEW more2,
         KidStep(H, i, g, h, p, it, more, n, c, rt, d, id, more2)
  PROVE  Good(H)
<1>. DEFINE k0 == p.of + 1
            e == rt[k0]
            e2 == [e EXCEPT !.kids = Append(@, id)]
            rt2 == Adopt(rt, it, id)
<1>0. /\ AtSlot(H, i, g, h, p, it, more, n, c, rt, d) /\ p.k = "kid"
      /\ id \in Nat /\ Names(wtab, h.c, id, Kids[d][p.j])
      /\ more2 \in Seq(RPosition) /\ Len(more2) = Len(more)
      /\ \A x \in 1 .. Len(more) : Fits(wtab, drop, h.c, more2[x], more[x])
      /\ Step(n, rt2, more2)
  BY DEF KidStep
<1>1. /\ TakesPart(wtab, drop, g.c, h.c, g.a, p, more, h.a, e, d)
      /\ k0 \in 1 .. Len(rt) /\ k0 \in 1 .. g.c /\ d \in Descs
      /\ Fits(wtab, drop, g.c, it, p) /\ it \in RPosition /\ p.of \in Nat /\ p.j \in Nat
      /\ g.c \in Nat /\ h.c \in Nat /\ g.c <= h.c /\ p \in Position
      /\ \A k \in 1 .. h.c : k # k0 => Holds(wtab, drop, h.c, h.a, k, rt[k])
  BY <1>0, SlotFacts
<1>2. /\ Standing(H, i) /\ expect # <<>> /\ g = H[i] /\ h = H[i + 1] /\ Turn(g, h, more, n, c)
      /\ n \in Nat /\ c \in Nat /\ rt \in Seq(REntry) /\ Len(rt) = h.c /\ more \in Seq(Position)
  <2>1. AtSlot(H, i, g, h, p, it, more, n, c, rt, d)
    BY <1>0
  <2>2. /\ Standing(H, i) /\ expect # <<>> /\ g = H[i] /\ h = H[i + 1] /\ Turn(g, h, more, n, c)
        /\ n \in Nat /\ c \in {0, 1} /\ rt \in Seq(REntry) /\ Len(rt) = h.c /\ more \in Seq(Position)
    BY <2>1, Zenon DEF AtSlot
  <2>. QED
    BY <2>2
<1>3. it.kid = p.of /\ it.then = "kid"
  BY <1>0, <1>1 DEF Fits
<1>4. Holds(wtab, drop, h.c, h.a, k0, e2)
  <2>1. e2 = [e EXCEPT !.kids = Append(@, id)]
    OBVIOUS
  <2>. HIDE DEF e, e2
  <2>. QED
    BY <1>0, <1>1, <2>1, KidTaken
<1>5. rt2 = [rt EXCEPT ![k0] = e2]
  BY <1>3 DEF Adopt
<1>6. e2 \in REntry
  <2>. HIDE DEF e2
  <2>. QED
    BY <1>4 DEF Holds
<1>. HIDE DEF e, e2, rt2, k0
<1>7. rt2 \in Seq(REntry) /\ Len(rt2) = Len(rt) /\ rt2[k0] = e2 /\ \A x \in 1 .. Len(rt) : x # k0 => rt2[x] = rt[x]
  BY <1>1, <1>2, <1>5, <1>6, EntryPut
<1>8. ASSUME NEW k \in 1 .. Len(rt2) PROVE Holds(wtab, drop, h.c, h.a, k, rt2[k])
  <2>1. CASE k = k0
    BY <1>4, <1>7, <2>1
  <2>2. CASE k # k0
    BY <1>1, <1>2, <1>7, <2>2
  <2>. QED
    BY <2>1, <2>2
<1>10. SlotStep(H, i, g, h, more, n, c, rt2, more2)
  BY <1>0, <1>2, <1>7, <1>8 DEF SlotStep
<1>. QED
  BY <1>10, SlotGood

(* The Reader stands at a descriptor.                                      *)
AtDesc(H, i, g, h, p, it, d) ==
  /\ Standing(H, i) /\ expect # <<>> /\ g = H[i] /\ h = H[i + 1] /\ p = Head(g.a) /\ it = Head(expect)
  /\ p.k \in {"kid", "desc"} /\ d = DescOf(wtab, p)

LEMMA DescFact ==
  ASSUME NEW H, NEW i, NEW g, NEW h, NEW p, NEW it, NEW d, AtDesc(H, i, g, h, p, it, d)
  PROVE  /\ d \in Descs /\ p \in Position /\ it \in RPosition /\ Fits(wtab, drop, g.c, it, p)
         /\ p.k = "kid" => Slot(p) /\ d = Kids[wtab[p.of + 1].of][p.j]
         /\ p.k = "desc" => ~Slot(p) /\ NoSlots(g.a) /\ it.then # "kid"
         /\ StepDescLit(wire, wtab, g, h) \/ StepDescRef(wire, wtab, g, h)
         /\ g.c \in Nat /\ g.n \in Nat /\ h.n \in Nat /\ h.c \in Nat /\ h.n <= Len(wire) /\ h.c <= Len(wtab)
         /\ Len(wtab) \in Nat /\ Len(rtab) = g.c /\ rtab \in Seq(REntry) /\ pos = g.n /\ g.a # <<>>
         /\ i + 1 \in 1 .. Len(H) /\ g.a \in Seq(Position)
<1>0. /\ Standing(H, i) /\ expect # <<>> /\ g = H[i] /\ h = H[i + 1] /\ p = Head(g.a) /\ it = Head(expect)
      /\ p.k \in {"kid", "desc"} /\ d = DescOf(wtab, p)
  BY DEF AtDesc
<1>1. /\ g.a # <<>> /\ p \in Position /\ PosOK(wtab, g.c, p) /\ it \in RPosition /\ Fits(wtab, drop, g.c, it, p)
      /\ h.c \in Nat /\ h.n \in Nat /\ h.n <= Len(wire) /\ h.c <= Len(wtab) /\ (Slot(p) \/ NoSlots(g.a))
      /\ i + 1 \in 1 .. Len(H)
  BY <1>0, StandFacts
<1>2. /\ g.c \in Nat /\ g.n \in Nat /\ Len(wtab) \in Nat /\ wtab \in Seq(TabEntry) /\ g.c <= Len(wtab)
      /\ Len(rtab) = g.c /\ rtab \in Seq(REntry) /\ pos = g.n /\ i \in Nat /\ g.a \in Seq(Position)
  BY ZenonT(30), <1>0, StandTypes
<1>3. WInv(H, wire, wtab, drop, todo, strs, claims) /\ todo = <<>> /\ i \in 1 .. Len(H)
  BY <1>0 DEF Standing
<1>4. StepDescLit(wire, wtab, g, h) \/ StepDescRef(wire, wtab, g, h)
  BY <1>0, <1>1, <1>3, DescNext
<1>5. p.k = "kid" => Slot(p) /\ d = Kids[wtab[p.of + 1].of][p.j]
  BY ZenonT(40), <1>0 DEF DescOf, Slot
<1>6. p.k = "desc" => ~Slot(p) /\ NoSlots(g.a) /\ it.then # "kid"
  <2>1. p.k = "desc" => p.then \in {"open", "body"} /\ it.then = p.then
    BY <1>1, PositionForm DEF Fits
  <2>2. p.k = "desc" => ~Slot(p)
    BY DEF Slot
  <2>. QED
    BY <1>1, <2>1, <2>2
<1>7. d \in Descs
  <2>1. CASE p.k = "desc"
    BY ZenonT(40), <1>0, <1>1, <2>1, PositionForm DEF DescOf
  <2>2. CASE p.k = "kid"
    <3>. DEFINE o == p.of + 1
                b == wtab[o].of
    <3>1. p.of \in Nat /\ p.of < g.c /\ wtab[o].sort = "desc" /\ p.j \in 1 .. Len(Kids[b])
      BY <1>1, <2>2 DEF PosOK, Owned, Slot
    <3>2. o \in 1 .. Len(wtab)
      BY <1>2, <3>1
    <3>3. wtab[o] \in TabEntry
      BY <1>2, <3>2
    <3>4. b \in Descs
      BY <3>1, <3>3, EntryForm
    <3>5. Kids[b][p.j] \in Descs
      BY <3>1, <3>4, KidFacts
    <3>. QED
      BY <1>5, <2>2, <3>5
  <2>. QED
    BY ZenonT(30), <1>0, <2>1, <2>2
<1>. QED
  BY <1>1, <1>2, <1>4, <1>5, <1>6, <1>7

(* A descriptor of a position that is no part of another. *)
TopStep(H, i, g, h, p, it, more, n, c, rt, id, more2) ==
  /\ Standing(H, i) /\ expect # <<>> /\ g = H[i] /\ h = H[i + 1] /\ p = Head(g.a) /\ it = Head(expect)
  /\ p.k = "desc" /\ it.then # "kid" /\ n \in Nat /\ c \in {0, 1} /\ Turn(g, h, more, n, c)
  /\ more \in Seq(Position) /\ \A x \in 1 .. Len(more) : Slot(more[x]) => more[x].of = g.c
  /\ rt \in Seq(REntry) /\ Len(rt) = h.c /\ \A k \in 1 .. g.c : rt[k] = rtab[k]
  /\ \A k \in 1 .. h.c : k > g.c => Holds(wtab, drop, h.c, h.a, k, rt[k])
  /\ more2 \in Seq(RPosition) /\ Len(more2) = Len(more)
  /\ \A x \in 1 .. Len(more) : Fits(wtab, drop, h.c, more2[x], more[x])
  /\ Step(n, Adopt(rt, it, id), more2)

(* No entry changes but the new one. *)
LEMMA TopDone ==
  ASSUME NEW H, NEW i, NEW g, NEW h, NEW p, NEW it, NEW more, NEW n, NEW c, NEW rt, NEW id, NEW more2,
         TopStep(H, i, g, h, p, it, more, n, c, rt, id, more2)
  PROVE  Good(H)
<1>0. /\ Standing(H, i) /\ expect # <<>> /\ g = H[i] /\ h = H[i + 1] /\ p = Head(g.a) /\ it = Head(expect)
      /\ p.k = "desc" /\ it.then # "kid" /\ n \in Nat /\ c \in {0, 1} /\ Turn(g, h, more, n, c)
      /\ more \in Seq(Position) /\ \A x \in 1 .. Len(more) : Slot(more[x]) => more[x].of = g.c
      /\ rt \in Seq(REntry) /\ Len(rt) = h.c /\ \A k \in 1 .. g.c : rt[k] = rtab[k]
      /\ \A k \in 1 .. h.c : k > g.c => Holds(wtab, drop, h.c, h.a, k, rt[k])
      /\ more2 \in Seq(RPosition) /\ Len(more2) = Len(more)
      /\ \A x \in 1 .. Len(more) : Fits(wtab, drop, h.c, more2[x], more[x])
      /\ Step(n, Adopt(rt, it, id), more2)
  BY DEF TopStep
<1>1. Step(n, rt, more2)
  BY <1>0 DEF Adopt
<1>2. /\ g.a \in Seq(Position) /\ g.c \in Nat /\ Len(rtab) = g.c /\ Stage(wire, wtab, g) /\ g \in Moment
      /\ Match(wtab, drop, rtab, expect, pos, g)
  BY SMTT(30), <1>0, StandTypes
<1>3. g.a # <<>> /\ h.c \in Nat
  BY <1>0, StandFacts
<1>4. h.a = more \o Tail(g.a) /\ h.c = g.c + c
  <2>1. Turn(g, h, more, n, c)
    BY <1>0
  <2>. QED
    BY <2>1 DEF Turn
<1>5. g.c <= h.c /\ c \in Nat
  BY <1>0, <1>2, <1>4
<1>6. SlotTurn(g.a, p, more, g.c, h.a)
  BY <1>0, <1>2, <1>3, <1>4 DEF SlotTurn, Stage
<1>7. \A k \in 1 .. Len(rtab) : Holds(wtab, drop, g.c, g.a, k, rtab[k])
  BY <1>2, MatchForm
<1>8. ASSUME NEW k \in 1 .. Len(rt) PROVE Holds(wtab, drop, h.c, h.a, k, rt[k])
  <2>0. k \in 1 .. h.c
    BY <1>0
  <2>1. CASE k > g.c
    BY <1>0, <2>0, <2>1
  <2>2. CASE k \in 1 .. g.c
    <3>1. Holds(wtab, drop, g.c, g.a, k, rt[k])
      BY <1>0, <1>2, <1>7, <2>2
    <3>2. ~Slot(p)
      BY <1>0 DEF Slot
    <3>3. Bystands(wtab, drop, g.c, h.c, g.a, p, more, h.a, k, rt[k])
      BY <1>2, <1>3, <1>5, <1>6, <2>2, <3>1, <3>2 DEF Bystands
    <3>. QED
      BY <3>3, Bystander
  <2>3. k > g.c \/ k \in 1 .. g.c
    BY <1>2, <1>3, <2>0
  <2>. QED
    BY <2>1, <2>2, <2>3
<1>9. SlotStep(H, i, g, h, more, n, c, rt, more2)
  BY <1>0, <1>1, <1>5, <1>8 DEF SlotStep
<1>. QED
  BY <1>9, SlotGood

(* A descriptor written out is built part by part. *)
LEMMA ReadDescLit ==
  ASSUME NEW H, NEW i, NEW g, NEW h, NEW p, NEW it, NEW d, AtDesc(H, i, g, h, p, it, d),
         StepDescLit(wire, wtab, g, h), ReadDesc
  PROVE  Good(H)
<1>. DEFINE c == g.c
            v == Behind(p)
            more == Parts(c, d) \o v
            more2 == RChildren(c, Kind[d], Len(Kids[d]), it.skip) \o RAfter(c, it.then, it.skip)
            e == Desc(Kind[d])
            rt == Append(rtab, e)
<1>0. /\ Standing(H, i) /\ expect # <<>> /\ g = H[i] /\ h = H[i + 1] /\ p = Head(g.a) /\ it = Head(expect)
      /\ p.k \in {"kid", "desc"} /\ d = DescOf(wtab, p)
  BY DEF AtDesc
<1>1. /\ d \in Descs /\ p \in Position /\ it \in RPosition /\ Fits(wtab, drop, c, it, p)
      /\ p.k = "kid" => Slot(p) /\ d = Kids[wtab[p.of + 1].of][p.j]
      /\ p.k = "desc" => ~Slot(p) /\ NoSlots(g.a) /\ it.then # "kid"
      /\ c \in Nat /\ g.n \in Nat /\ h.n \in Nat /\ h.c \in Nat /\ h.n <= Len(wire)
      /\ Len(rtab) = c /\ rtab \in Seq(REntry) /\ pos = g.n /\ g.a # <<>> /\ g.a \in Seq(Position)
  BY DescFact
<1>2. /\ wire[g.n + 1] = [t |-> "desc", x |-> Kind[d], n |-> Len(Kids[d])]
      /\ wtab[c + 1] = Entry("desc", d) /\ Turn(g, h, more, 1, 1)
  BY <1>0, Zenon DEF StepDescLit
<1>3. h.n = g.n + 1 /\ h.c = c + 1 /\ h.a = more \o Tail(g.a)
  <2>1. Turn(g, h, more, 1, 1)
    BY ZenonT(30), <1>2
  <2>. HIDE DEF more
  <2>. QED
    BY ZenonT(30), <2>1 DEF Turn
<1>4. Tok = wire[g.n + 1] /\ Class = Tok.t
  BY <1>0, <1>1, <1>3, TokAt
<1>5. Tok.t = "desc" /\ Tok.x = Kind[d] /\ Tok.n = Len(Kids[d]) /\ Class = "desc"
  BY <1>2, <1>4
<1>6. Step(1, Adopt(rt, it, c), more2)
  <2>1. Step(1, Adopt(Append(rtab, Desc(Tok.x)), it, Len(rtab)),
             RChildren(Len(rtab), Tok.x, Tok.n, it.skip) \o RAfter(Len(rtab), it.then, it.skip))
    BY ZenonT(30), <1>0, <1>5 DEF ReadDesc
  <2>. QED
    BY ZenonT(30), <1>1, <1>5, <2>1
<1>d. v = Behind(p) /\ more = Parts(c, d) \o v
      /\ more2 = RChildren(c, Kind[d], Len(Kids[d]), it.skip) \o RAfter(c, it.then, it.skip) /\ e = Desc(Kind[d])
  OBVIOUS
<1>. HIDE DEF more2, more, v, e, c
<1>7. /\ more \in Seq(Position) /\ more2 \in Seq(RPosition) /\ Len(more2) = Len(more)
      /\ \A x \in 1 .. Len(more) : Fits(wtab, drop, h.c, more2[x], more[x])
      /\ \A x \in 1 .. Len(more) : Slot(more[x]) => more[x].of = c
      /\ v \in Seq(Position) /\ Names(wtab, h.c, c, d)
  <2>1. Unfolds(wtab, drop, c, h.c, it, p, d, more, more2)
    BY ZenonT(40), <1>0, <1>1, <1>2, <1>3, <1>d DEF Unfolds
  <2>2. /\ more \in Seq(Position) /\ more2 \in Seq(RPosition) /\ Len(more2) = Len(more)
        /\ \A x \in 1 .. Len(more) : Fits(wtab, drop, h.c, more2[x], more[x])
        /\ \A x \in 1 .. Len(more) : Slot(more[x]) => more[x].of = c
        /\ Behind(p) \in Seq(Position) /\ Names(wtab, h.c, c, d)
    BY <2>1, UnfoldFits
  <2>. QED
    BY ZenonT(30), <1>d, <2>2
<1>8. e \in REntry /\ Holds(wtab, drop, h.c, h.a, c + 1, e)
  <2>1. Opened(wtab, c, h.c, g.a, d, v, h.a)
    BY <1>1, <1>2, <1>3, <1>7, <1>d DEF Opened
  <2>2. Desc(Kind[d]) \in REntry /\ Holds(wtab, drop, h.c, h.a, c + 1, Desc(Kind[d]))
    BY <2>1, OpenedHolds
  <2>. QED
    BY <1>d, <2>2
<1>9. rt \in Seq(REntry) /\ Len(rt) = c + 1 /\ rt[c + 1] = e /\ \A k \in 1 .. c : rt[k] = rtab[k]
  BY <1>1, <1>8, AppendFacts
<1>. HIDE DEF rt
<1>10. ASSUME NEW k \in 1 .. h.c, k > c PROVE Holds(wtab, drop, h.c, h.a, k, rt[k])
  <2>1. k = c + 1
    BY <1>1, <1>3, <1>10
  <2>. QED
    BY <1>8, <1>9, <2>1
<1>11. CASE p.k = "kid"
  <2>. DEFINE b == wtab[p.of + 1].of
  <2>0. b = wtab[p.of + 1].of
    OBVIOUS
  <2>. HIDE DEF b
  <2>1. AtSlot(H, i, g, h, p, it, more, 1, 1, rt, b)
    <3>1. /\ Slot(p) /\ 1 \in Nat /\ 1 \in {0, 1} /\ \A x \in 1 .. Len(more) : Slot(more[x]) => more[x].of = g.c
          /\ rt \in Seq(REntry) /\ Len(rt) = h.c /\ \A k \in 1 .. g.c : rt[k] = rtab[k]
          /\ \A k \in 1 .. h.c : k > g.c => Holds(wtab, drop, h.c, h.a, k, rt[k])
      BY <1>1, <1>3, <1>7, <1>9, <1>10, <1>11 DEF c
    <3>. QED
      BY <1>0, <1>2, <1>7, <2>0, <3>1 DEF AtSlot
  <2>2. Names(wtab, h.c, c, Kids[b][p.j])
    BY <1>1, <1>7, <1>11, <2>0
  <2>3. KidStep(H, i, g, h, p, it, more, 1, 1, rt, b, c, more2)
    BY <1>1, <1>6, <1>7, <1>11, <2>1, <2>2 DEF KidStep
  <2>. QED
    BY <2>3, KidDone
<1>12. CASE p.k = "desc"
  <2>1. /\ 1 \in Nat /\ 1 \in {0, 1} /\ \A x \in 1 .. Len(more) : Slot(more[x]) => more[x].of = g.c
        /\ rt \in Seq(REntry) /\ Len(rt) = h.c /\ \A k \in 1 .. g.c : rt[k] = rtab[k]
        /\ \A k \in 1 .. h.c : k > g.c => Holds(wtab, drop, h.c, h.a, k, rt[k])
        /\ it.then # "kid"
    BY <1>1, <1>3, <1>7, <1>9, <1>10, <1>12 DEF c
  <2>2. TopStep(H, i, g, h, p, it, more, 1, 1, rt, c, more2)
    BY <1>0, <1>2, <1>6, <1>7, <1>12, <2>1 DEF TopStep
  <2>. QED
    BY <2>2, TopDone
<1>. QED
  BY <1>0, <1>11, <1>12

(* A descriptor named again is the one claimed for its name. *)
LEMMA ReadDescRef ==
  ASSUME NEW H, NEW i, NEW g, NEW h, NEW p, NEW it, NEW d, AtDesc(H, i, g, h, p, it, d),
         StepDescRef(wire, wtab, g, h), ReadDesc
  PROVE  Good(H)
<1>. DEFINE c == g.c
            more == Behind(p)
<1>0. /\ Standing(H, i) /\ expect # <<>> /\ g = H[i] /\ h = H[i + 1] /\ p = Head(g.a) /\ it = Head(expect)
      /\ p.k \in {"kid", "desc"} /\ d = DescOf(wtab, p)
  BY DEF AtDesc
<1>1. /\ d \in Descs /\ p \in Position /\ it \in RPosition /\ Fits(wtab, drop, c, it, p)
      /\ p.k = "kid" => Slot(p) /\ d = Kids[wtab[p.of + 1].of][p.j]
      /\ p.k = "desc" => ~Slot(p) /\ NoSlots(g.a) /\ it.then # "kid"
      /\ c \in Nat /\ g.n \in Nat /\ h.n \in Nat /\ h.c \in Nat /\ h.n <= Len(wire)
      /\ Len(rtab) = c /\ rtab \in Seq(REntry) /\ pos = g.n /\ g.a # <<>> /\ g.a \in Seq(Position)
  BY DescFact
<1>2. (\E id \in 0 .. c - 1 : Names(wtab, c, id, d) /\ wire[g.n + 1] = Ref(id, "desc", d)) /\ Turn(g, h, more, 1, 0)
  BY <1>0, Zenon DEF StepDescRef
<1>a. PICK id \in 0 .. c - 1 : Names(wtab, c, id, d) /\ wire[g.n + 1] = Ref(id, "desc", d)
  BY <1>2
<1>. DEFINE more2 == RAfter(id, it.then, it.skip)
<1>3. h.n = g.n + 1 /\ h.c = c + 0
  BY SMTT(30), <1>2, TurnForm
<1>b. h.c = c /\ id \in Nat /\ id < c
  BY SMTT(30), <1>1, <1>3
<1>4. Tok = wire[g.n + 1] /\ Class = Tok.t
  BY <1>0, <1>1, <1>3, TokAt
<1>5. Tok.t = "ref" /\ Tok.x = id /\ Class = "ref"
  BY <1>a, <1>4 DEF Ref
<1>6. Named = rtab[id + 1] /\ Named.sort = "desc" /\ Known
  <2>1. Match(wtab, drop, rtab, expect, pos, g) /\ g \in Moment
    BY <1>0, StandTypes
  <2>2. id + 1 \in 1 .. Len(rtab)
    BY <1>1, <1>b
  <2>3. Holds(wtab, drop, g.c, g.a, id + 1, rtab[id + 1])
    BY <2>1, <2>2, MatchForm
  <2>4. rtab[id + 1].sort = wtab[id + 1].sort
    BY <2>3 DEF Holds
  <2>5. wtab[id + 1].sort = "desc"
    BY <1>a DEF Names, Owned
  <2>6. Named = rtab[id + 1]
    BY <1>5 DEF Named
  <2>7. Known
    BY <1>1, <1>5, <1>b DEF Known
  <2>. QED
    BY <2>4, <2>5, <2>6, <2>7
<1>7. Step(1, Adopt(rtab, it, id), more2)
  <2>1. Step(1, Adopt(rtab, it, Tok.x), RAfter(Tok.x, it.then, it.skip))
    BY <1>0, <1>5, <1>6 DEF ReadDesc
  <2>. QED
    BY <1>5, <2>1
<1>d. more = Behind(p) /\ more2 = RAfter(id, it.then, it.skip) /\ c = g.c
  OBVIOUS
<1>. HIDE DEF more2, more, c
<1>8. /\ more \in Seq(Position) /\ NoSlots(more) /\ more2 \in Seq(RPosition) /\ Len(more2) = Len(more)
      /\ \A x \in 1 .. Len(more) : Fits(wtab, drop, h.c, more2[x], more[x])
  <2>0. Names(wtab, h.c, id, d)
    BY ZenonT(30), <1>a, <1>b
  <2>1. /\ it \in RPosition /\ p \in Position /\ p.k \in {"kid", "desc"} /\ Fits(wtab, drop, c, it, p)
        /\ id \in Nat /\ Names(wtab, h.c, id, DescOf(wtab, p)) /\ DescOf(wtab, p) \in Descs
    BY <1>0, <1>1, <1>b, <2>0
  <2>2. Trails(wtab, drop, c, h.c, it, p, id, more, more2)
    BY <1>d, <2>1 DEF Trails
  <2>. QED
    BY SMTT(30), <2>2, BehindFits
<1>9. /\ \A x \in 1 .. Len(more) : Slot(more[x]) => more[x].of = g.c
      /\ Len(rtab) = h.c /\ \A k \in 1 .. h.c : ~(k > g.c)
  BY <1>1, <1>8, <1>b, <1>d DEF NoSlots
<1>11. CASE p.k = "kid"
  <2>. DEFINE b == wtab[p.of + 1].of
  <2>0. b = wtab[p.of + 1].of
    BY SMTT(30)
  <2>. HIDE DEF b
  <2>1. AtSlot(H, i, g, h, p, it, more, 1, 0, rtab, b)
    <3>1. Slot(p) /\ 1 \in Nat /\ 0 \in {0, 1}
      BY <1>1, <1>11
    <3>. QED
      BY <1>0, <1>1, <1>2, <1>8, <1>9, <2>0, <3>1 DEF AtSlot
  <2>2. Names(wtab, h.c, id, Kids[b][p.j])
    BY <1>1, <1>a, <1>b, <1>11, <2>0
  <2>3. KidStep(H, i, g, h, p, it, more, 1, 0, rtab, b, id, more2)
    BY <1>b, <1>7, <1>8, <1>11, <2>1, <2>2 DEF KidStep
  <2>. QED
    BY <2>3, KidDone
<1>12. CASE p.k = "desc"
  <2>1. 1 \in Nat /\ 0 \in {0, 1} /\ it.then # "kid"
    BY ZenonT(30), <1>1, <1>12
  <2>2. TopStep(H, i, g, h, p, it, more, 1, 0, rtab, id, more2)
    BY <1>0, <1>1, <1>2, <1>7, <1>8, <1>9, <1>12, <2>1 DEF TopStep
  <2>. QED
    BY ZenonT(30), <2>2, TopDone
<1>. QED
  BY <1>0, <1>11, <1>12

(* readDesc: the structure built is the Writer's, whether it is written    *)
(* out or named by its id.                                                 *)
LEMMA ReadDescGood ==
  ASSUME NEW H, NEW i, Standing(H, i), ReadDesc
  PROVE  Good(H)
<1>. DEFINE g == H[i]
            h == H[i + 1]
            p == Head(g.a)
            it == Head(expect)
            d == DescOf(wtab, p)
<1>0. expect # <<>> /\ it.k = "desc"
  BY DEF ReadDesc
<1>1. p.k \in {"kid", "desc"}
  BY <1>0, SlotHead
<1>2. AtDesc(H, i, g, h, p, it, d)
  BY <1>0, <1>1 DEF AtDesc
<1>. HIDE DEF g, h, p, it, d
<1>3. StepDescLit(wire, wtab, g, h) \/ StepDescRef(wire, wtab, g, h)
  BY <1>2, DescFact
<1>. QED
  BY <1>2, <1>3, ReadDescLit, ReadDescRef

-----------------------------------------------------------------------------
(***************************************************************************)
(* Every step of both sides, and the invariant.                            *)
(***************************************************************************)

(* What follows a value is the descriptor of the next. *)
LEMMA ValueNext ==
  ASSUME NEW H, NEW i, Standing(H, i), expect = <<>>, i # Len(H), NEW g, g = H[i], NEW h, h = H[i + 1]
  PROVE  /\ i + 1 \in 1 .. Len(H) /\ g.a = <<>>
         /\ \E d \in Descs : h = [a |-> <<DescAt(d, "body")>>, n |-> g.n, c |-> g.c]
<1>1. /\ H \in Seq(Moment) /\ Len(H) \in Nat /\ i \in Nat /\ (expect = <<>> <=> g.a = <<>>)
  BY StandTypes
<1>2. i \in 1 .. Len(H) /\ Past(H, wire, wtab, drop)
  BY DEF Standing, WInv
<1>3. i \in 1 .. Len(H) - 1 /\ i + 1 \in 1 .. Len(H)
  BY <1>1, <1>2
<1>4. Goes(wire, wtab, drop, g, h)
  BY <1>2, <1>3 DEF Past
<1>5. StepValue(g, h)
  BY <1>1, <1>4 DEF Goes
<1>. QED
  BY <1>1, <1>3, <1>5 DEF StepValue

(* The next top-level value begins where the Writer's does. *)
LEMMA ReadValueGood ==
  ASSUME NEW H, NEW i, Standing(H, i), ReadValue
  PROVE  Good(H)
<1>. DEFINE g == H[i]
            h == H[i + 1]
            e == RDesc(0, "body", FALSE)
            ex == <<e>>
<1>0. /\ expect = <<>> /\ More /\ expect' = ex /\ err' = err /\ UNCHANGED <<wvars, drop>>
      /\ rtab' = rtab /\ pos' = pos
  BY DEF ReadValue
<1>1. /\ pos = g.n /\ g.n \in Nat /\ g.c \in Nat /\ Len(rtab) = g.c /\ rtab \in Seq(REntry) /\ g \in Moment
      /\ Match(wtab, drop, rtab, expect, pos, g) /\ Len(wire) \in Nat /\ i \in Nat
  BY StandTypes
<1>2. i # Len(H)
  <2>1. H[Len(H)].n = Len(wire)
    BY DEF Standing, WInv, Past
  <2>2. g.n < Len(wire)
    BY <1>0, <1>1 DEF More
  <2>. QED
    BY <1>1, <2>1, <2>2
<1>. HIDE DEF g, h
<1>d. g = H[i] /\ h = H[i + 1]
  BY DEF g, h
<1>3. /\ i + 1 \in 1 .. Len(H) /\ g.a = <<>>
      /\ \E d \in Descs : h = [a |-> <<DescAt(d, "body")>>, n |-> g.n, c |-> g.c]
  BY <1>0, <1>2, <1>d, ValueNext
<1>4. PICK d \in Descs : h = [a |-> <<DescAt(d, "body")>>, n |-> g.n, c |-> g.c]
  BY <1>3
<1>. DEFINE p == DescAt(d, "body")
            b == <<p>>
<1>5. h.a = b /\ h.n = g.n /\ h.c = g.c
  BY <1>4
<1>6. p \in Position /\ ~Slot(p)
  BY PositionMade, MadeForm
<1>7. Fits(wtab, drop, h.c, e, p) /\ e \in RPosition
  BY FitsMade, RMade
<1>. HIDE DEF p, e
<1>8. /\ b \in Seq(Position) /\ Len(b) = 1 /\ b[1] = p /\ ex \in Seq(RPosition) /\ Len(ex) = 1 /\ ex[1] = e
  BY <1>6, <1>7
<1>. HIDE DEF b, ex
<1>9. NoSlots(b)
  BY <1>6, <1>8 DEF NoSlots
<1>10. \A k \in {"name", "kid"} : \A o, j : ~Pending(b, k, o, j)
  BY <1>9, NonePending
<1>11. \A k \in {"name", "kid"} : \A o, j : ~Pending(g.a, k, o, j)
  <2>1. NoSlots(g.a)
    BY <1>3 DEF NoSlots
  <2>. QED
    BY <2>1, NonePending
<1>12. \A k \in 1 .. Len(rtab) : Holds(wtab, drop, g.c, g.a, k, rtab[k])
  BY <1>1, MatchForm
<1>13. ASSUME NEW k \in 1 .. Len(rtab) PROVE Holds(wtab, drop, h.c, h.a, k, rtab[k])
  <2>1. Holds(wtab, drop, g.c, g.a, k, rtab[k])
    BY <1>12
  <2>2. g.c <= h.c /\ h.c \in Nat
    BY <1>1, <1>5
  <2>3. Untouched(wtab, drop, g.c, h.c, g.a, h.a, k, rtab[k])
    BY <1>1, <1>5, <1>10, <1>11, <2>1, <2>2 DEF Untouched
  <2>. QED
    BY <2>3, HoldsLater
<1>14. \A x \in 1 .. Len(ex) : Fits(wtab, drop, h.c, ex[x], h.a[x])
  BY <1>5, <1>7, <1>8
<1>15. Match(wtab, drop, rtab, ex, pos, h)
  BY <1>1, <1>5, <1>8, <1>13, <1>14 DEF Match
<1>16. Match(wtab, drop, rtab', expect', pos', H[i + 1])
  BY <1>0, <1>15, <1>d
<1>. QED
  BY <1>0, <1>3, <1>16 DEF Good, Reached

(* A step of the Reader keeps it at a moment of the Writer's past, or      *)
(* refuses a record its target lacks.                                      *)
LEMMA ReaderStep ==
  ASSUME NEW H, NEW i, Standing(H, i), Reads
  PROVE  Good(H)
<1>1. CASE ReadValue \/ ReadDesc \/ ReadName \/ ReadOpen \/ ReadString \/ ReadStruct
  BY <1>1, ReadValueGood, ReadDescGood, ReadNameGood, ReadOpenGood, ReadStringGood, ReadStructGood
<1>2. CASE ReadMap \/ ReadSlice \/ ReadView \/ ReadIface \/ ReadPointer \/ SkipPointer
  BY <1>2, ReadMapGood, ReadSliceGood, ReadViewGood, ReadIfaceGood, ReadPointerGood, SkipPointerGood
<1>. QED
  BY <1>1, <1>2 DEF Reads

Fresh == rtab = <<>> /\ expect = <<>> /\ pos = 0 /\ err = "none"

Closed == todo = <<>> /\ values = MaxValues

LEMMA PutFrame ==
  ASSUME NEW toks, NEW recs, NEW more, Put(toks, recs, more)
  PROVE  refused' = refused /\ values' = values /\ drop' = drop /\ UNCHANGED rvars
  BY DEF Put

(* A step of the Writer leaves the Reader as it is, and ends with the      *)
(* stream.                                                                 *)
LEMMA WriteFrame ==
  ASSUME Writes
  PROVE  /\ UNCHANGED rvars /\ drop' = drop
         /\ todo # <<>> \/ (values < MaxValues /\ ~refused)
         /\ WriteDesc \/ refused' = refused
<1>1. CASE WriteValue
  BY <1>1 DEF WriteValue
<1>2. CASE WriteDesc
  <2>1. todo # <<>>
    BY <1>2 DEF WriteDesc
  <2>2. UNCHANGED rvars /\ drop' = drop
    BY <1>2, PutFrame DEF WriteDesc
  <2>. QED
    BY <1>2, <2>1, <2>2
<1>3. CASE WriteString
  BY <1>3, PutFrame DEF WriteString, PutString
<1>4. CASE WriteOpen
  BY <1>4, PutFrame DEF WriteOpen
<1>5. CASE WriteStringBody
  BY <1>5, PutFrame DEF WriteStringBody, PutString, At
<1>6. CASE WriteStruct
  BY <1>6, PutFrame DEF WriteStruct, At
<1>7. CASE WriteNil
  BY <1>7, PutFrame DEF WriteNil, At
<1>8. CASE WriteMap
  BY <1>8, PutFrame DEF WriteMap, At
<1>9. CASE WriteSlice
  BY <1>9, PutFrame DEF WriteSlice, At
<1>10. CASE WriteView
  BY <1>10, PutFrame DEF WriteView
<1>11. CASE WriteIface
  BY <1>11, PutFrame DEF WriteIface, At
<1>12. CASE WriteRepeat
  BY <1>12, PutFrame DEF WriteRepeat, At
<1>13. CASE WriteRecord
  BY <1>13, PutFrame DEF WriteRecord, At
<1>14. CASE WriteNilRecord
  BY <1>14, PutFrame DEF WriteNilRecord, At
<1>15. CASE WritePath
  <2>1. todo # <<>>
    BY <1>15 DEF WritePath, At
  <2>2. \E toks, recs, more : Put(toks, recs, more)
    BY <1>15, Zenon DEF WritePath
  <2>. QED
    BY <2>1, <2>2, PutFrame
<1>. QED
  BY <1>1, <1>2, <1>3, <1>4, <1>5, <1>6, <1>7, <1>8, <1>9, <1>10, <1>11, <1>12, <1>13, <1>14, <1>15 DEF Writes

(* Every step of the Writer adds a moment to the past, or refuses.         *)
LEMMA WriterStep ==
  ASSUME NEW H, WInv(H, wire, wtab, drop, todo, strs, claims), Gaps = {}, Writes
  PROVE  \/ Ends(wire', wtab', drop', todo', strs', claims') /\ refused' = refused
         \/ refused' = TRUE /\ todo' = <<>>
<1>1. CASE WriteDesc
  BY <1>1, DescWritten
<1>2. CASE ~WriteDesc
  <2>1. refused' = refused
    BY <1>2, WriteFrame
  <2>2. Ends(wire', wtab', drop', todo', strs', claims')
    <3>1. CASE WriteValue \/ WriteString \/ WriteOpen \/ WriteStringBody \/ WriteStruct
      BY <3>1, ValueWritten, NameWritten, OpenWritten, StringBodyWritten, StructWritten
    <3>2. CASE WriteNil \/ WriteMap \/ WriteSlice \/ WriteView \/ WriteIface
      BY <3>2, NilWritten, MapWritten, SliceWritten, ViewWritten, IfaceWritten
    <3>3. CASE WriteRepeat \/ WriteRecord \/ WriteNilRecord \/ WritePath
      BY <3>3, RepeatWritten, RecordWritten, NilRecordWritten, PathWritten
    <3>. QED
      BY <1>2, <3>1, <3>2, <3>3 DEF Writes
  <2>. QED
    BY <2>1, <2>2
<1>. QED
  BY <1>1, <1>2

(* The Reader of a stream not read stands at its first moment. *)
LEMMA PastFirst ==
  ASSUME NEW H, NEW w, NEW tab, NEW dr, NEW td, NEW st, NEW cl, WInv(H, w, tab, dr, td, st, cl)
  PROVE  /\ H \in Seq(Moment) /\ 1 \in 1 .. Len(H)
         /\ Match(tab, dr, <<>>, <<>>, 0, H[1])
<1>1. H \in Seq(Moment) /\ H # <<>> /\ H[1] = [a |-> <<>>, n |-> 0, c |-> 0]
  BY DEF WInv, Past
<1>2. 1 \in 1 .. Len(H)
  BY <1>1
<1>3. H[1].a = <<>> /\ H[1].n = 0 /\ H[1].c = 0
  BY <1>1
<1>4. <<>> \in Seq(REntry) /\ <<>> \in Seq(RPosition) /\ Len(<<>>) = 0
  OBVIOUS
<1>. QED
  BY <1>1, <1>2, <1>3, <1>4 DEF Match

(* The past of a stream not begun. *)
LEMMA PastInit ==
  ASSUME NEW dr
  PROVE  \E H \in Seq(Moment) : WInv(H, <<>>, <<>>, dr, <<>>, EmptyTable, [n \in {} |-> 0])
<1>. DEFINE h0 == [a |-> <<>>, n |-> 0, c |-> 0]
            H == <<h0>>
            tab == <<>>
            a == <<>>
            cl == [n \in {} |-> 0]
<1>1. h0 \in Moment /\ h0.a = a /\ h0.n = 0 /\ h0.c = 0
  BY DEF Moment
<1>. HIDE DEF h0
<1>2. H \in Seq(Moment) /\ Len(H) = 1 /\ H[1] = h0 /\ H # <<>> /\ \A k \in 1 .. Len(H) : k = 1
  BY <1>1
<1>3. tab \in Seq(Token) /\ tab \in Seq(TabEntry) /\ Len(tab) = 0 /\ a \in Seq(Position) /\ Len(a) = 0
  OBVIOUS
<1>a. /\ \A i, j : i \in 1 .. Len(tab) => FALSE
      /\ \A i \in 1 .. Len(tab) : FALSE
      /\ \A x \in 1 .. Len(a) : FALSE
  BY <1>3
<1>d. tab = <<>> /\ a = <<>>
  OBVIOUS
<1>. HIDE DEF tab, a
<1>4. Stage(tab, tab, h0)
  <2>1. InTurn(h0.a) /\ SlotsFirst(h0.a)
    BY <1>1, <1>3 DEF InTurn, SlotsFirst
  <2>2. \A x \in 1 .. Len(h0.a) : PosOK(tab, h0.c, h0.a[x])
    BY <1>1, <1>a
  <2>3. \A i \in 1 .. h0.n : TokOK(tab, h0.c, tab[i])
    BY <1>1
  <2>4. h0.n <= Len(tab) /\ h0.c <= Len(tab) /\ ~(h0.n < Len(tab))
    BY <1>1, <1>3
  <2>. QED
    BY <1>1, <2>1, <2>2, <2>3, <2>4 DEF Stage
<1>. HIDE DEF H
<1>5. Past(H, tab, tab, dr)
  <2>1. \A k \in 1 .. Len(H) : Stage(tab, tab, H[k])
    BY <1>2, <1>4
  <2>2. \A k \in 1 .. Len(H) - 1 : FALSE
    BY <1>2
  <2>3. H[1] = [a |-> <<>>, n |-> 0, c |-> 0]
    BY <1>2 DEF h0
  <2>4. H[Len(H)].n = Len(tab) /\ H[Len(H)].c = Len(tab)
    BY <1>1, <1>2, <1>3
  <2>. QED
    BY <1>2, <1>3, <2>1, <2>2, <2>3, <2>4 DEF Past
<1>6. H[Len(H)].a = a
  BY <1>1, <1>2
<1>7. Image(tab, a) = <<>>
  <2>1. Len(Image(tab, a)) = 0 /\ Image(tab, a) \in Seq({Plain(tab, p) : p \in Position})
    BY <1>3, ImageForm
  <2>. QED
    BY <2>1
<1>8. WriterOK(tab, a, EmptyTable, cl)
  <2>1. OneName(tab)
    BY <1>a DEF OneName
  <2>2. StrsOK(tab, EmptyTable)
    BY EmptyTableFacts DEF StrsOK
  <2>3. ClaimsOK(tab, cl)
    BY <1>a DEF ClaimsOK
  <2>4. LabelsOK(tab, a, EmptyTable)
    BY <1>a DEF LabelsOK
  <2>5. PartsOK(tab, a) /\ RecordsOK(tab, EmptyTable)
    BY <1>a DEF PartsOK, RecordsOK
  <2>6. BodiesOK(tab, a)
    BY <1>a DEF BodiesOK
  <2>. QED
    BY <2>1, <2>2, <2>3, <2>4, <2>5, <2>6 DEF WriterOK
<1>9. WInv(H, tab, tab, dr, <<>>, EmptyTable, cl)
  BY <1>5, <1>6, <1>7, <1>8 DEF WInv
<1>. QED
  BY <1>2, <1>9, <1>d

InPace(w, tab, dr, td, st, cl, rt, ex, ps) ==
  \E H \in Seq(Moment) :
    WInv(H, w, tab, dr, td, st, cl) /\ \E i \in 1 .. Len(H) : Match(tab, dr, rt, ex, ps, H[i])

Paired == InPace(wire, wtab, drop, todo, strs, claims, rtab, expect, pos)

IInv ==
  /\ Closed \/ Fresh
  /\ refused => todo = <<>> /\ Fresh
  /\ refused \/ Paired
  /\ err # "none" => LeftOut /\ err = IF narrowed THEN "evolution" ELSE "bad_ref"

LEMMA LeftOutStays ==
  ASSUME wire' = wire, rtab' = rtab, pos' = pos, drop' = drop
  PROVE  LeftOut' <=> LeftOut
  BY DEF LeftOut, Class, Known, Named, Tok, More

(* The invariant holds at first, and each side's steps keep it. *)
LEMMA IInvInit == Init => IInv
<1>. SUFFICES ASSUME Init PROVE IInv
  OBVIOUS
<1>1. /\ strs = EmptyTable /\ claims = [n \in {} |-> 0] /\ wtab = <<>> /\ todo = <<>> /\ refused = FALSE
      /\ wire = <<>> /\ rtab = <<>> /\ expect = <<>> /\ pos = 0 /\ err = "none"
  BY DEF Init
<1>2. PICK H \in Seq(Moment) : WInv(H, wire, wtab, drop, todo, strs, claims)
  BY <1>1, PastInit
<1>3. 1 \in 1 .. Len(H) /\ Match(wtab, drop, rtab, expect, pos, H[1])
  BY <1>1, <1>2, PastFirst
<1>4. Paired
  BY <1>2, <1>3 DEF Paired, InPace
<1>. QED
  BY <1>1, <1>4 DEF IInv, Fresh

LEMMA IInvWrites ==
  ASSUME IInv, Writes, Gaps = {}
  PROVE  IInv'
<1>1. /\ UNCHANGED rvars /\ drop' = drop /\ (todo # <<>> \/ (values < MaxValues /\ ~refused))
  BY WriteFrame
<1>2. MaxValues \in Nat
  BY DescAssumption
<1>3. ~Closed /\ ~refused
  BY <1>1, <1>2 DEF Closed, IInv
<1>4. Fresh /\ Paired
  BY <1>3 DEF IInv
<1>5. Fresh'
  BY <1>1, <1>4 DEF Fresh, rvars
<1>6. err' = "none"
  BY <1>5 DEF Fresh
<1>7. PICK H \in Seq(Moment) : WInv(H, wire, wtab, drop, todo, strs, claims)
  BY <1>4 DEF Paired, InPace
<1>8. \/ Ends(wire', wtab', drop', todo', strs', claims') /\ refused' = refused
      \/ refused' = TRUE /\ todo' = <<>>
  BY <1>7, WriterStep
<1>9. CASE Ends(wire', wtab', drop', todo', strs', claims') /\ refused' = refused
  <2>1. PICK G \in Seq(Moment) : WInv(G, wire', wtab', drop', todo', strs', claims')
    BY <1>9 DEF Ends
  <2>2. rtab' = <<>> /\ expect' = <<>> /\ pos' = 0
    BY <1>5 DEF Fresh
  <2>3. 1 \in 1 .. Len(G) /\ Match(wtab', drop', rtab', expect', pos', G[1])
    BY <2>1, <2>2, PastFirst
  <2>4. Paired'
    BY <2>1, <2>3 DEF Paired, InPace
  <2>5. ~refused'
    BY <1>3, <1>9
  <2>. QED
    BY <1>5, <1>6, <2>4, <2>5 DEF IInv
<1>10. CASE refused' = TRUE /\ todo' = <<>>
  BY <1>5, <1>6, <1>10 DEF IInv
<1>. QED
  BY <1>8, <1>9, <1>10

LEMMA IInvReads ==
  ASSUME IInv, Reads
  PROVE  IInv'
<1>1. Reading
  BY DEF Reads, ReadValue, ReadDesc, ReadName, ReadOpen, ReadString, ReadStruct, ReadMap, ReadSlice,
         ReadView, ReadIface, ReadPointer, SkipPointer, RAt
<1>2. Paired /\ Closed /\ ~refused /\ err = "none" /\ todo = <<>>
  BY <1>1 DEF IInv, Reading, Closed
<1>3. PICK H \in Seq(Moment) :
        /\ WInv(H, wire, wtab, drop, todo, strs, claims)
        /\ \E i \in 1 .. Len(H) : Match(wtab, drop, rtab, expect, pos, H[i])
  BY <1>2 DEF Paired, InPace
<1>4. PICK i \in 1 .. Len(H) : Match(wtab, drop, rtab, expect, pos, H[i])
  BY <1>3
<1>5. Standing(H, i)
  BY <1>2, <1>3, <1>4 DEF Standing
<1>6. Good(H)
  BY <1>5, ReaderStep
<1>7. UNCHANGED <<wvars, drop>>
  BY <1>6 DEF Good, ErrEvolutionRef, Fail
<1>8. /\ strs' = strs /\ claims' = claims /\ wtab' = wtab /\ todo' = todo /\ values' = values
      /\ refused' = refused /\ wire' = wire /\ drop' = drop
  BY <1>7 DEF wvars
<1>9. Closed' /\ ~refused'
  BY <1>2, <1>8 DEF Closed
<1>10. WInv(H, wire', wtab', drop', todo', strs', claims')
  BY <1>3, <1>8
<1>11. CASE err' = err /\ UNCHANGED <<wvars, drop>> /\ Reached(H)
  <2>1. PICK j \in 1 .. Len(H) : Match(wtab, drop, rtab', expect', pos', H[j])
    BY <1>11 DEF Reached
  <2>2. Match(wtab', drop', rtab', expect', pos', H[j])
    BY <1>8, <2>1
  <2>3. Paired'
    BY <1>3, <1>10, <2>2 DEF Paired, InPace
  <2>4. err' = "none"
    BY <1>2, <1>11
  <2>. QED
    BY <1>9, <2>3, <2>4 DEF IInv
<1>12. CASE LeftOut /\ ErrEvolutionRef
  <2>1. /\ rtab' = rtab /\ expect' = expect /\ pos' = pos /\ narrowed' = narrowed
        /\ err' = IF narrowed THEN "evolution" ELSE "bad_ref"
    BY <1>12 DEF ErrEvolutionRef, Fail
  <2>2. Match(wtab', drop', rtab', expect', pos', H[i])
    BY <1>4, <1>8, <2>1
  <2>3. Paired'
    BY <1>3, <1>4, <1>10, <2>2 DEF Paired, InPace
  <2>4. LeftOut'
    BY <1>8, <1>12, <2>1, LeftOutStays
  <2>. QED
    BY <1>9, <2>1, <2>3, <2>4 DEF IInv
<1>. QED
  BY <1>6, <1>11, <1>12 DEF Good

LEMMA IInvStutter ==
  ASSUME IInv, UNCHANGED vars
  PROVE  IInv'
<1>1. /\ strs' = strs /\ claims' = claims /\ wtab' = wtab /\ todo' = todo /\ values' = values
      /\ refused' = refused /\ wire' = wire /\ drop' = drop
      /\ rtab' = rtab /\ expect' = expect /\ pos' = pos
      /\ narrowed' = narrowed /\ err' = err
  BY DEF vars, wvars, rvars
<1>2. Fresh' <=> Fresh
  BY <1>1 DEF Fresh
<1>3. Closed' <=> Closed
  BY <1>1 DEF Closed
<1>4. Paired' <=> Paired
  BY <1>1 DEF Paired
<1>5. LeftOut' <=> LeftOut
  BY <1>1, LeftOutStays
<1>. QED
  BY <1>1, <1>2, <1>3, <1>4, <1>5 DEF IInv

(* The two sides keep pace in every state: the Reader stands where the     *)
(* Writer once stood, with the same ids behind it and the same positions   *)
(* ahead, or it has refused a record its target lacks.                     *)
THEOREM KeepPace ==
  ASSUME Gaps = {}
  PROVE  Spec => []IInv
<1>1. Init => IInv
  BY IInvInit
<1>2. IInv /\ [Next]_vars => IInv'
  BY IInvWrites, IInvReads, IInvStutter DEF Next
<1>. QED
  BY <1>1, <1>2, PTL DEF Spec

-----------------------------------------------------------------------------
(***************************************************************************)
(* The properties.                                                         *)
(***************************************************************************)

(* The Reader at a moment of the Writer's past. *)
Beside(H, i, g) ==
  /\ WInv(H, wire, wtab, drop, todo, strs, claims) /\ i \in 1 .. Len(H) /\ g = H[i]
  /\ Match(wtab, drop, rtab, expect, pos, g)

LEMMA BesideFacts ==
  ASSUME NEW H, NEW i, NEW g, Beside(H, i, g)
  PROVE  /\ Stage(wire, wtab, g) /\ g \in Moment /\ pos = g.n /\ Len(rtab) = g.c /\ rtab \in Seq(REntry)
         /\ g.c \in Nat /\ g.n \in Nat /\ wire \in Seq(Token) /\ wtab \in Seq(TabEntry) /\ g.n <= Len(wire)
         /\ g.c <= Len(wtab) /\ Len(wire) \in Nat /\ Len(wtab) \in Nat
         /\ \A k \in 1 .. Len(rtab) : Holds(wtab, drop, g.c, g.a, k, rtab[k])
         /\ (expect = <<>> <=> g.a = <<>>)
<1>1. Past(H, wire, wtab, drop) /\ Match(wtab, drop, rtab, expect, pos, g)
  BY DEF Beside, WInv
<1>2. wire \in Seq(Token) /\ wtab \in Seq(TabEntry) /\ Stage(wire, wtab, g)
  BY <1>1 DEF Past, Beside
<1>3. g \in Moment /\ g.n <= Len(wire) /\ g.c <= Len(wtab)
  BY <1>2 DEF Stage
<1>4. Len(wire) \in Nat /\ Len(wtab) \in Nat
  BY <1>2
<1>. QED
  BY <1>1, <1>2, <1>3, <1>4, MatchForm

(* A reference taken names an entry that says what the Writer meant by     *)
(* it.                                                                     *)
LEMMA RefMeans ==
  ASSUME NEW H, NEW i, NEW g, Beside(H, i, g), NEW k \in 1 .. pos, NEW tk, tk = wire[k], tk.t \in {"ref", "view"}
  PROVE  tk.x < Len(rtab) /\ Means(rtab[tk.x + 1], tk)
<1>. DEFINE x == tk.x + 1
            e == rtab[x]
            d == wtab[x].of
<1>1. /\ Stage(wire, wtab, g) /\ g \in Moment /\ pos = g.n /\ Len(rtab) = g.c
      /\ g.c \in Nat /\ g.n \in Nat /\ wire \in Seq(Token) /\ g.n <= Len(wire) /\ Len(wire) \in Nat
      /\ \A y \in 1 .. Len(rtab) : Holds(wtab, drop, g.c, g.a, y, rtab[y])
  BY BesideFacts
<1>2. TokOK(wtab, g.c, tk)
  BY <1>1 DEF Stage
<1>3. tk \in Token
  BY <1>1
<1>4. tk.x \in Nat /\ tk.sort \in Sorts
  BY <1>3, TokenForm
<1>5. /\ tk.x < g.c /\ wtab[x].sort = tk.sort
      /\ IF tk.sort = "desc" THEN Alike(d, tk.of) ELSE d = tk.of
  BY <1>2 DEF TokOK
<1>6. x \in 1 .. Len(rtab) /\ x - 1 = tk.x
  BY <1>1, <1>4, <1>5
<1>7. Holds(wtab, drop, g.c, g.a, x, e)
  BY <1>1, <1>6
<1>d. d = wtab[x].of
  OBVIOUS
<1>. HIDE DEF x, e, d
<1>8. /\ e.sort = tk.sort
      /\ e.sort = "str" => e.s = d
      /\ e.sort = "desc" => HoldsDesc(wtab, g.c, g.a, x, e)
      /\ e.sort \in {"map", "array", "value"} => (e.live => Names(wtab, g.c, e.of, d) /\ ~Pending(g.a, "name", e.of, 0))
  BY <1>5, <1>7, <1>d DEF Holds
<1>9. CASE tk.sort = "str"
  <2>1. e.s = tk.of
    BY <1>5, <1>8, <1>9
  <2>2. Means(e, tk)
    BY <1>8, <1>9, <2>1 DEF Means
  <2>. QED
    BY <1>1, <1>5, <2>2 DEF e, x
<1>10. CASE tk.sort = "desc"
  <2>1. HasParts(wtab, g.c, g.a, x, e, d)
    BY <1>8, <1>10, <1>d, DescForm
  <2>2. e.kind = Kind[d] /\ e.name \in {"", Name[d]}
    BY <2>1 DEF HasParts
  <2>3. Same(d, tk.of)
    BY <1>5, <1>10, AlikeType
  <2>4. e.kind = Kind[tk.of] /\ e.name \in {"", Name[tk.of]}
    BY <2>2, <2>3 DEF Same
  <2>5. Means(e, tk)
    BY <1>8, <1>10, <2>4 DEF Means
  <2>. QED
    BY <1>1, <1>5, <2>5 DEF e, x
<1>11. CASE tk.sort \in {"map", "array", "value"}
  <2>1. ASSUME e.live PROVE rtab[e.of + 1].name = Name[tk.of]
    <3>. DEFINE y == e.of + 1
                b == wtab[y].of
    <3>1. Names(wtab, g.c, e.of, d) /\ ~Pending(g.a, "name", e.of, 0)
      BY <1>8, <1>11, <2>1
    <3>2. e.of \in Nat /\ e.of < g.c /\ wtab[y].sort = "desc" /\ Alike(b, d)
      BY <3>1 DEF Names, Owned
    <3>3. y \in 1 .. Len(rtab) /\ y - 1 = e.of
      BY <1>1, <3>2
    <3>4. Holds(wtab, drop, g.c, g.a, y, rtab[y])
      BY <1>1, <3>3
    <3>b. b = wtab[y].of
      OBVIOUS
    <3>y. y = e.of + 1
      OBVIOUS
    <3>. HIDE DEF y, b
    <3>5. HoldsDesc(wtab, g.c, g.a, y, rtab[y])
      BY <3>2, <3>4 DEF Holds
    <3>6. HasParts(wtab, g.c, g.a, y, rtab[y], b)
      BY <3>5, <3>b, DescForm
    <3>7. rtab[y].name = Name[b]
      BY <3>1, <3>3, <3>6 DEF HasParts
    <3>8. Same(b, d)
      BY <3>2, AlikeType
    <3>9. d = tk.of
      BY <1>5, <1>11
    <3>. QED
      BY <3>7, <3>8, <3>9, <3>y DEF Same
  <2>2. Means(e, tk)
    BY <1>8, <1>11, <2>1 DEF Means
  <2>. QED
    BY <1>1, <1>5, <2>2 DEF e, x
<1>. QED
  BY <1>4, <1>9, <1>10, <1>11 DEF Sorts

KnownAs(g, id, d, r) ==
  /\ Match(wtab, drop, rtab, expect, pos, g) /\ g \in Moment /\ NoSlots(g.a)
  /\ Names(wtab, g.c, id, d) /\ r = rtab[id + 1]

LEMMA KnownFacts ==
  ASSUME NEW g, NEW id, NEW d, NEW r, KnownAs(g, id, d, r)
  PROVE  /\ id + 1 \in 1 .. Len(rtab) /\ r.kind = Kind[d] /\ r.name = Name[d]
         /\ r.fields = Fields[d] /\ DOMAIN r.kids = 1 .. Len(Kids[d]) /\ r.kids \in Seq(Nat)
         /\ \A j \in 1 .. Len(Kids[d]) : Names(wtab, g.c, r.kids[j], Kids[d][j])
<1>1. /\ Match(wtab, drop, rtab, expect, pos, g) /\ g \in Moment /\ NoSlots(g.a)
      /\ Names(wtab, g.c, id, d) /\ r = rtab[id + 1]
  BY DEF KnownAs
<1>. QED
  BY <1>1, BodyKnown

(* An id that names a structure has an entry that describes it. *)
LEMMA NamedDescribes ==
  ASSUME NEW H, NEW i, NEW g, Beside(H, i, g), expect = <<>>, NEW id, NEW d, Names(wtab, g.c, id, d)
  PROVE  Describes(rtab[id + 1], d)
<1>. DEFINE r == rtab[id + 1]
<1>1. Match(wtab, drop, rtab, expect, pos, g) /\ g \in Moment
  BY BesideFacts DEF Beside
<1>2. NoSlots(g.a)
  <2>1. g.a = <<>>
    BY BesideFacts
  <2>. QED
    BY <2>1 DEF NoSlots
<1>r. r = rtab[id + 1]
  OBVIOUS
<1>. HIDE DEF r
<1>d. d \in Descs
  BY AlikeType DEF Names
<1>3. /\ id + 1 \in 1 .. Len(rtab) /\ r.kind = Kind[d] /\ r.name = Name[d]
      /\ r.fields = Fields[d] /\ DOMAIN r.kids = 1 .. Len(Kids[d]) /\ r.kids \in Seq(Nat)
      /\ \A j \in 1 .. Len(Kids[d]) : Names(wtab, g.c, r.kids[j], Kids[d][j])
  <2>1. /\ Match(wtab, drop, rtab, expect, pos, g) /\ g \in Moment /\ NoSlots(g.a)
        /\ Names(wtab, g.c, id, d) /\ r = rtab[id + 1]
    BY <1>1, <1>2, <1>r
  <2>2. KnownAs(g, id, d, r)
    BY <2>1 DEF KnownAs
  <2>. QED
    BY <2>2, KnownFacts
<1>s. r.sort = "desc"
  <2>1. id \in Nat /\ id < g.c /\ wtab[id + 1].sort = "desc"
    BY DEF Names, Owned
  <2>2. id + 1 \in 1 .. Len(rtab) /\ \A k \in 1 .. Len(rtab) : Holds(wtab, drop, g.c, g.a, k, rtab[k])
    BY <1>3, BesideFacts
  <2>3. Holds(wtab, drop, g.c, g.a, id + 1, r)
    BY <1>r, <2>2
  <2>. QED
    BY <2>1, <2>3 DEF Holds
<1>4. ASSUME NEW j \in 1 .. Len(Kids[d]) PROVE rtab[r.kids[j] + 1].name = Name[Kids[d][j]]
  <2>. DEFINE o == r.kids[j]
              b == Kids[d][j]
              q == rtab[o + 1]
  <2>1. Names(wtab, g.c, o, b)
    BY <1>3
  <2>q. q = rtab[o + 1]
    OBVIOUS
  <2>. HIDE DEF o, b, q
  <2>2. /\ Match(wtab, drop, rtab, expect, pos, g) /\ g \in Moment /\ NoSlots(g.a)
        /\ Names(wtab, g.c, o, b) /\ q = rtab[o + 1]
    BY <1>1, <1>2, <2>1, <2>q
  <2>3. /\ o + 1 \in 1 .. Len(rtab) /\ q.kind = Kind[b] /\ q.name = Name[b]
        /\ q.fields = Fields[b] /\ DOMAIN q.kids = 1 .. Len(Kids[b]) /\ q.kids \in Seq(Nat)
        /\ \A m \in 1 .. Len(Kids[b]) : Names(wtab, g.c, q.kids[m], Kids[b][m])
    BY <2>2, BodyKnown
  <2>. QED
    BY <2>3 DEF o, b, q
<1>5. DOMAIN Kids[d] = 1 .. Len(Kids[d])
  BY <1>d, KidFacts
<1>6. [j \in DOMAIN r.kids |-> rtab[r.kids[j] + 1].name] = [j \in DOMAIN Kids[d] |-> Name[Kids[d][j]]]
  BY <1>3, <1>4, <1>5, Zenon
<1>. QED
  BY <1>3, <1>6, <1>r, <1>s DEF Describes

LEMMA NotPaired ==
  ASSUME IInv, refused
  PROVE  rtab = <<>> /\ expect = <<>> /\ pos = 0
  BY DEF IInv, Fresh

LEMMA PairedBeside ==
  ASSUME IInv, ~refused
  PROVE  \E H \in Seq(Moment) : \E i \in 1 .. Len(H) : Beside(H, i, H[i])
<1>1. Paired
  BY DEF IInv
<1>2. PICK H \in Seq(Moment) :
        /\ WInv(H, wire, wtab, drop, todo, strs, claims)
        /\ \E i \in 1 .. Len(H) : Match(wtab, drop, rtab, expect, pos, H[i])
  BY <1>1 DEF Paired, InPace
<1>. QED
  BY <1>2 DEF Beside

LEMMA IInvRefs == IInv => RefsResolve
<1>. SUFFICES ASSUME IInv, NEW k \in 1 .. pos, wire[k].t \in {"ref", "view"}
              PROVE  wire[k].x < Len(rtab) /\ Means(rtab[wire[k].x + 1], wire[k])
  BY DEF RefsResolve
<1>1. ~refused
  BY NotPaired
<1>2. PICK H \in Seq(Moment) : \E i \in 1 .. Len(H) : Beside(H, i, H[i])
  BY <1>1, PairedBeside
<1>3. PICK i \in 1 .. Len(H) : Beside(H, i, H[i])
  BY <1>2
<1>. QED
  BY <1>3, RefMeans

LEMMA IInvDescs == IInv => DescsRebuilt
<1>. SUFFICES ASSUME IInv, expect = <<>>
              PROVE  /\ \A k \in DOMAIN rtab : rtab[k].sort = "desc" => Describes(rtab[k], wtab[k].of)
                     /\ \A k \in 1 .. pos :
                          wire[k].t = "ref" /\ wire[k].sort = "desc" => Describes(rtab[wire[k].x + 1], wire[k].of)
  BY DEF DescsRebuilt
<1>1. CASE refused
  BY <1>1, NotPaired
<1>2. CASE ~refused
  <2>2. PICK H \in Seq(Moment) : \E i \in 1 .. Len(H) : Beside(H, i, H[i])
    BY <1>2, PairedBeside
  <2>3. PICK i \in 1 .. Len(H) : Beside(H, i, H[i])
    BY <2>2
  <2>. DEFINE g == H[i]
  <2>4. Beside(H, i, g)
    BY <2>3
  <2>. HIDE DEF g
  <2>5. /\ Stage(wire, wtab, g) /\ pos = g.n /\ Len(rtab) = g.c /\ rtab \in Seq(REntry) /\ wtab \in Seq(TabEntry)
        /\ g.c \in Nat /\ g.n \in Nat /\ wire \in Seq(Token) /\ g.n <= Len(wire) /\ Len(wire) \in Nat
        /\ \A y \in 1 .. Len(rtab) : Holds(wtab, drop, g.c, g.a, y, rtab[y])
        /\ g.c <= Len(wtab) /\ Len(wtab) \in Nat
    BY <2>4, BesideFacts
  <2>6. ASSUME NEW k \in DOMAIN rtab, rtab[k].sort = "desc" PROVE Describes(rtab[k], wtab[k].of)
    <3>. DEFINE d == wtab[k].of
                id == k - 1
    <3>1. k \in 1 .. g.c /\ k \in 1 .. Len(wtab) /\ id \in Nat /\ id < g.c /\ id + 1 = k
      BY <2>5
    <3>2. wtab[k].sort = "desc"
      <4>1. Holds(wtab, drop, g.c, g.a, k, rtab[k])
        BY <2>5, <3>1
      <4>. QED
        BY <2>6, <4>1 DEF Holds
    <3>3. d \in Descs
      <4>1. wtab[k] \in TabEntry
        BY <2>5, <3>1
      <4>. QED
        BY <3>2, <4>1, EntryForm
    <3>4. Names(wtab, g.c, id, d)
      BY <3>1, <3>2, <3>3, AlikeSelf DEF Names, Owned
    <3>. HIDE DEF d, id
    <3>5. Describes(rtab[id + 1], d)
      BY <2>4, <3>4, NamedDescribes
    <3>. QED
      BY <3>1, <3>5 DEF d
  <2>7. ASSUME NEW k \in 1 .. pos, wire[k].t = "ref", wire[k].sort = "desc"
        PROVE  Describes(rtab[wire[k].x + 1], wire[k].of)
    <3>. DEFINE tk == wire[k]
    <3>1. TokOK(wtab, g.c, tk)
      BY <2>5 DEF Stage
    <3>2. tk \in Token
      BY <2>5
    <3>3. tk.x \in Nat
      BY <2>7, <3>2, TokenForm
    <3>4. tk.x < g.c /\ wtab[tk.x + 1].sort = "desc" /\ Alike(wtab[tk.x + 1].of, tk.of)
      BY <2>7, <3>1 DEF TokOK
    <3>5. Names(wtab, g.c, tk.x, tk.of)
      BY <3>3, <3>4 DEF Names, Owned
    <3>. QED
      BY <2>4, <3>5, NamedDescribes
  <2>. QED
    BY <2>6, <2>7
<1>. QED
  BY <1>1, <1>2

(* The Reader at the end of the wire stands at the last moment. *)
LEMMA LastMoment ==
  ASSUME NEW H, NEW i, Standing(H, i), expect = <<>>, ~More
  PROVE  Len(rtab) = Len(wtab)
<1>. DEFINE g == H[i]
            h == H[i + 1]
<1>1. /\ pos = g.n /\ g.n \in Nat /\ g.c \in Nat /\ Len(rtab) = g.c /\ g.n <= Len(wire)
      /\ Len(wire) \in Nat /\ i \in Nat
  BY StandTypes
<1>2. g.n = Len(wire)
  BY <1>1 DEF More
<1>3. H[Len(H)].c = Len(wtab)
  BY DEF Standing, WInv, Past
<1>4. ASSUME i # Len(H) PROVE FALSE
  <2>. HIDE DEF g, h
  <2>d. g = H[i] /\ h = H[i + 1]
    BY DEF g, h
  <2>1. i + 1 \in 1 .. Len(H) /\ \E d \in Descs : h = [a |-> <<DescAt(d, "body")>>, n |-> g.n, c |-> g.c]
    BY <1>4, <2>d, ValueNext
  <2>2. PICK d \in Descs : h = [a |-> <<DescAt(d, "body")>>, n |-> g.n, c |-> g.c]
    BY <2>1
  <2>. DEFINE q == DescAt(d, "body")
  <2>3. h.a = <<q>> /\ h.n = g.n
    BY <2>2
  <2>4. q.k = "desc"
    BY MadeForm
  <2>. HIDE DEF q
  <2>5. h.a # <<>> /\ Head(h.a) = q
    BY <2>3
  <2>6. WInv(H, wire, wtab, drop, todo, strs, claims) /\ todo = <<>>
    BY DEF Standing
  <2>7. Head(h.a).k \in {"kid", "desc"}
    BY <2>4, <2>5
  <2>8. h.n + 1 <= Len(wire)
    BY <2>1, <2>5, <2>6, <2>7, <2>d, DescNext
  <2>. QED
    BY <1>1, <1>2, <2>3, <2>8
<1>. QED
  BY <1>1, <1>3, <1>4

LEMMA IInvBack == IInv => ReadsBack
<1>. SUFFICES ASSUME IInv, Reading, expect = <<>>, ~More
              PROVE  Len(rtab) = Len(wtab)
  BY DEF ReadsBack, IInv
<1>1. ~refused /\ todo = <<>>
  BY DEF Reading
<1>2. PICK H \in Seq(Moment) : \E i \in 1 .. Len(H) : Beside(H, i, H[i])
  BY <1>1, PairedBeside
<1>3. PICK i \in 1 .. Len(H) : Beside(H, i, H[i])
  BY <1>2
<1>4. Standing(H, i)
  BY <1>1, <1>3 DEF Standing, Beside
<1>. QED
  BY <1>4, LastMoment

(* Every REF and VIEW the Reader takes resolves to the record the Writer   *)
(* meant, in values it keeps and in values it skips, for any program's     *)
(* types, values of any shape and length, and any fields a target lacks    *)
(* (allocID, allocEntry, skipValue).                                       *)
THEOREM RefsResolveAlways ==
  ASSUME Gaps = {}
  PROVE  Spec => []RefsResolve
  BY KeepPace, IInvRefs, PTL

(* Between values every descriptor the Reader built has the Writer's       *)
(* kind, name, fields and type-refs, cycles included, and so has the one   *)
(* a reference names (writeDescOf, descEqual, readDescLit).                *)
THEOREM DescsRebuiltAlways ==
  ASSUME Gaps = {}
  PROVE  Spec => []DescsRebuilt
  BY KeepPace, IInvDescs, PTL

(* A completed stream is read to its end with every record registered,     *)
(* and no error but the refusal of a record the target left out, at the    *)
(* token that names it: of the narrowing class if the same value had a     *)
(* field skipped by then, bad_ref if not (errEvolutionRef).                *)
THEOREM ReadsBackAlways ==
  ASSUME Gaps = {}
  PROVE  Spec => []ReadsBack
  BY KeepPace, IInvBack, PTL
=============================================================================
