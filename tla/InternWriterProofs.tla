------------------------ MODULE InternWriterProofs -------------------------
(***************************************************************************)
(* Proofs for the Writer's half of InternSpace: the string table finds     *)
(* what was bound, descEqual equates only descriptors of one structure,    *)
(* and after every step of the Writer there is a past of the stream that   *)
(* explains the wire.                                                      *)
(*                                                                         *)
(* A past is a sequence of moments, each with the positions that were left *)
(* to write and the tokens and ids there were (Past); the Writer's tables  *)
(* agree with its last (WriterOK), and a step of the Writer appends one.   *)
(* The Writer keeps to the shapes the Reader counts alike (Gaps = {})      *)
(* wherever a step could leave them.                                       *)
(***************************************************************************)
EXTENDS InternSpace, WellFoundedInduction, FiniteSetTheorems, SequenceTheorems, TLAPS

-----------------------------------------------------------------------------
(***************************************************************************)
(* Arithmetic and the string table (internTable): what a search, an        *)
(* insertion and a growth leave.                                           *)
(***************************************************************************)

(* A set of naturals has a least member. *)
LEMMA LeastOf ==
  ASSUME NEW T, T \subseteq Nat, T # {}
  PROVE  \E x \in T : \A y \in T : x <= y
<1>1. PICK x \in T : \A y \in T : <<y, x>> \notin OpToRel(<, Nat)
  BY NatLessThanWellFounded, WFMin
<1>2. \A y \in T : ~(y < x)
  BY <1>1, Zenon DEF OpToRel
<1>. QED
  BY <1>2

(* Induction over the naturals, for a set. *)
LEMMA Induction ==
  ASSUME NEW S, 0 \in S, \A n \in Nat : n \in S => n + 1 \in S
  PROVE  Nat \subseteq S
<1>. SUFFICES ASSUME ~(Nat \subseteq S) PROVE FALSE
  OBVIOUS
<1>1. PICK x \in Nat \ S : \A y \in Nat \ S : x <= y
  BY LeastOf
<1>2. x # 0 /\ x - 1 \in Nat /\ x - 1 < x /\ x = (x - 1) + 1
  BY <1>1
<1>3. x - 1 \in S
  BY <1>1, <1>2
<1>. QED
  BY <1>1, <1>2, <1>3

(* Remainders *)

LEMMA Multiples ==
  ASSUME NEW n \in Nat \ {0}, NEW a \in Int, a > 0
  PROVE  n * a >= n
  OBVIOUS

LEMMA ModFacts ==
  ASSUME NEW m \in Nat, NEW n \in Nat \ {0}
  PROVE  /\ m % n \in 0 .. n - 1
         /\ m \div n \in Nat
         /\ m = n * (m \div n) + (m % n)
<1>1. m % n \in 0 .. n - 1
  OBVIOUS
<1>2. m \div n \in Int /\ m % n \in Int
  OBVIOUS
<1>3. m = n * (m \div n) + (m % n)
  OBVIOUS
<1>. DEFINE q == m \div n  r == m % n
<1>. HIDE DEF q, r
<1>4. q >= 0
  <2>. SUFFICES ASSUME q < 0 PROVE FALSE
    BY <1>2 DEF q
  <2>1. q \in Int /\ -q > 0 /\ m = n * q + r /\ r \in 0 .. n - 1
    BY <1>1, <1>2, <1>3 DEF q, r
  <2>2. n * (-q) >= n
    BY <2>1, Multiples
  <2>3. n * (-q) = -(n * q)
    BY <2>1
  <2>. QED
    BY <2>1, <2>2, <2>3
<1>. QED
  BY <1>1, <1>2, <1>3, <1>4 DEF q

LEMMA ModIs ==
  ASSUME NEW n \in Nat \ {0}, NEW c \in Nat, NEW i \in 0 .. n - 1
  PROVE  (n * c + i) % n = i
<1>. DEFINE m == n * c + i  q == m \div n  r == m % n
<1>1. n * c \in Nat
  OBVIOUS
<1>2. m \in Nat
  BY <1>1
<1>3. r \in 0 .. n - 1 /\ q \in Nat /\ m = n * q + r
  BY <1>2, ModFacts
<1>. HIDE DEF q, r
<1>4. n * (q - c) = i - r /\ n * (c - q) = r - i
  BY <1>3
<1>5. ~(q - c > 0)
  <2>. SUFFICES ASSUME q - c > 0 PROVE FALSE
    OBVIOUS
  <2>1. n * (q - c) >= n
    BY <1>3, Multiples
  <2>. QED
    BY <2>1, <1>4, <1>3
<1>6. ~(c - q > 0)
  <2>. SUFFICES ASSUME c - q > 0 PROVE FALSE
    OBVIOUS
  <2>1. n * (c - q) >= n
    BY <1>3, Multiples
  <2>. QED
    BY <2>1, <1>4, <1>3
<1>7. q = c
  BY <1>3, <1>5, <1>6
<1>8. r = i
  BY <1>7, <1>3, <1>1
<1>. QED
  BY <1>8 DEF r

(* A search from any slot on comes to every slot.                          *)
LEMMA Around ==
  ASSUME NEW h \in Nat, NEW n \in Nat \ {0}, NEW i \in 0 .. n - 1
  PROVE  \E j \in 0 .. n - 1 : (h + j) % n = i
<1>. DEFINE q == h \div n  r == h % n
<1>1. r \in 0 .. n - 1 /\ q \in Nat /\ h = n * q + r
  BY ModFacts
<1>. HIDE DEF q, r
<1>2. CASE i >= r
  <2>1. i - r \in 0 .. n - 1 /\ h + (i - r) = n * q + i
    BY <1>1, <1>2
  <2>2. (n * q + i) % n = i
    BY <1>1, ModIs
  <2>. QED
    BY <2>1, <2>2
<1>3. CASE i < r
  <2>1. n * (q + 1) = n * q + n
    BY <1>1
  <2>2. i - r + n \in 0 .. n - 1 /\ h + (i - r + n) = n * (q + 1) + i
    BY <1>1, <1>3, <2>1
  <2>3. (n * (q + 1) + i) % n = i
    BY <1>1, ModIs
  <2>. QED
    BY <2>2, <2>3
<1>. QED
  BY <1>1, <1>2, <1>3

LEMMA Quarter ==
  ASSUME NEW m \in Nat, NEW n \in Nat \ {0}, m >= n
  PROVE  m \div n >= 1 /\ m \div n \in Nat
<1>1. m % n \in 0 .. n - 1 /\ m \div n \in Nat /\ m = n * (m \div n) + (m % n)
  BY ModFacts
<1>2. m \div n # 0
  BY <1>1
<1>. QED
  BY <1>1, <1>2

(* The string table.  A slot in use is reached by the search for its       *)
(* string: the slots before it on the way are in use, by other strings.    *)

Used(t) == {i \in DOMAIN t : t[i].idPlus1 # 0}

Place(n, s, j) == (Hash[s] + j) % n

Passed(t, n, s, j) ==
  \A k \in 0 .. j - 1 :
    t[Place(n, s, k)].idPlus1 # 0 /\ t[Place(n, s, k)].s # s

Sits(t, n, s, i) ==
  \E j \in 0 .. n - 1 : i = Place(n, s, j) /\ Passed(t, n, s, j)

IsTable(t, n) ==
  /\ n \in Nat
  /\ t = [i \in 0 .. n - 1 |-> t[i]]
  /\ \A i \in 0 .. n - 1 :
       /\ t[i].idPlus1 \in Nat
       /\ t[i].idPlus1 # 0 => t[i].s \in DOMAIN Hash /\ Sits(t, n, t[i].s, i)

Bound(t) == {<<t[i].s, t[i].idPlus1>> : i \in Used(t)}

LEMMA HashFacts ==
  /\ \A s \in DOMAIN Hash : Hash[s] \in Nat
  /\ InitSlots \in Nat /\ InitSlots >= 2 /\ LoadDiv \in Nat \ {0} /\ LoadDiv <= InitSlots
  BY TableAssumption DEF TableAssumption

(* A table of n slots has no more entries than slots. *)
LEMMA SizeFacts ==
  ASSUME NEW t, NEW n, IsTable(t, n)
  PROVE  /\ n \in Nat /\ DOMAIN t = 0 .. n - 1 /\ Size(t) = n
         /\ IsFiniteSet(Used(t)) /\ Used(t) \subseteq 0 .. n - 1
         /\ Count(t) = Cardinality(Used(t)) /\ Count(t) \in Nat /\ Count(t) <= n
<1>1. n \in Nat /\ DOMAIN t = 0 .. n - 1
  BY DEF IsTable
<1>2. IsFiniteSet(0 .. n - 1) /\ Cardinality(0 .. n - 1) = n
  BY <1>1, FS_Interval
<1>3. Size(t) = n
  BY <1>1, <1>2 DEF Size
<1>4. Used(t) \subseteq 0 .. n - 1
  BY <1>1 DEF Used
<1>5. IsFiniteSet(Used(t)) /\ Cardinality(Used(t)) <= n
  BY ZenonT(40), <1>2, <1>4, FS_Subset
<1>6. Count(t) = Cardinality(Used(t))
  BY DEF Count, Used
<1>7. Count(t) \in Nat
  BY <1>5, <1>6, FS_CardinalityType
<1>. QED
  BY <1>1, <1>3, <1>4, <1>5, <1>6, <1>7

LEMMA PlaceFacts ==
  ASSUME NEW n \in Nat \ {0}, NEW s \in DOMAIN Hash, NEW j \in Nat
  PROVE  Place(n, s, j) \in 0 .. n - 1
<1>1. Hash[s] + j \in Nat
  BY HashFacts
<1>. QED
  BY <1>1, ModFacts DEF Place

(* The search ends where the string is, or on the first free slot.         *)
Stops(t, n, s, j) == t[Place(n, s, j)].idPlus1 = 0 \/ t[Place(n, s, j)].s = s

LEMMA ProbeFacts ==
  ASSUME NEW t, NEW n, IsTable(t, n), NEW s \in DOMAIN Hash,
         NEW i \in 0 .. n - 1, t[i].idPlus1 = 0 \/ t[i].s = s
  PROVE  \E j \in 0 .. n - 1 :
           /\ Probe(t, s) = Place(n, s, j) /\ Probe(t, s) \in 0 .. n - 1
           /\ Stops(t, n, s, j) /\ Passed(t, n, s, j)
<1>1. n \in Nat \ {0} /\ Size(t) = n
  BY SizeFacts
<1>. DEFINE J == {j \in 0 .. n - 1 : Stops(t, n, s, j)}
<1>2a. Hash[s] \in Nat
  BY HashFacts
<1>2b. \E j \in 0 .. n - 1 : (Hash[s] + j) % n = i
  BY <1>1, <1>2a, Around
<1>2. PICK j0 \in 0 .. n - 1 : Place(n, s, j0) = i
  BY <1>2b DEF Place
<1>3. J # {} /\ J \subseteq Nat
  BY <1>1, <1>2 DEF Stops
<1>4. PICK m \in J : \A y \in J : m <= y
  BY <1>3, LeastOf
<1>5. m \in 0 .. n - 1 /\ Stops(t, n, s, m)
  OBVIOUS
<1>6. \A k \in 0 .. m - 1 : ~Stops(t, n, s, k)
  <2>. TAKE k \in 0 .. m - 1
  <2>1. k \in 0 .. n - 1 /\ ~(m <= k)
    BY <1>1, <1>5
  <2>. QED
    BY <2>1, <1>4
<1>. HIDE DEF J
<1>. DEFINE P(j) == Stops(t, n, s, j) /\ \A k \in 0 .. j - 1 : ~Stops(t, n, s, k)
            c == CHOOSE j \in 0 .. n - 1 : P(j)
<1>7. c \in 0 .. n - 1 /\ P(c)
  BY <1>5, <1>6
<1>8. Probe(t, s) = Place(n, s, c)
  BY <1>1, Zenon DEF Probe, Place, Stops
<1>9. Place(n, s, c) \in 0 .. n - 1
  <2>1. c \in Nat
    BY <1>1, <1>7
  <2>. QED
    BY <2>1, <1>1, PlaceFacts
<1>10. Passed(t, n, s, c)
  BY <1>7 DEF Passed, Stops
<1>. HIDE DEF c
<1>. QED
  BY <1>7, <1>8, <1>9, <1>10

(* No string has two slots.                                                *)
LEMMA OneSlot ==
  ASSUME NEW t, NEW n, IsTable(t, n), NEW s,
         NEW j \in 0 .. n - 1, NEW k \in 0 .. n - 1,
         Passed(t, n, s, j), Passed(t, n, s, k),
         Stops(t, n, s, j), Stops(t, n, s, k)
  PROVE  j = k
<1>1. n \in Nat
  BY SizeFacts
<1>2. ~(j < k)
  <2>. SUFFICES ASSUME j < k PROVE FALSE
    OBVIOUS
  <2>1. j \in 0 .. k - 1
    BY <1>1
  <2>. QED
    BY <2>1 DEF Passed, Stops
<1>3. ~(k < j)
  <2>. SUFFICES ASSUME k < j PROVE FALSE
    OBVIOUS
  <2>1. k \in 0 .. j - 1
    BY <1>1
  <2>. QED
    BY <2>1 DEF Passed, Stops
<1>. QED
  BY <1>1, <1>2, <1>3

(* What Get answers. *)
LEMMA GetFacts ==
  ASSUME NEW t, NEW n, IsTable(t, n), NEW s \in DOMAIN Hash,
         Count(t) = 0 \/ Used(t) # DOMAIN t
  PROVE  /\ \A x : <<s, x>> \in Bound(t) => Get(t, s) = x
         /\ Get(t, s) # 0 => <<s, Get(t, s)>> \in Bound(t)
         /\ Get(t, s) \in Nat
<1>1. n \in Nat /\ DOMAIN t = 0 .. n - 1
  BY SizeFacts
<1>2. CASE Count(t) = 0
  <2>1. Used(t) = {}
    <3>1. IsFiniteSet(Used(t)) /\ Cardinality(Used(t)) = 0
      BY <1>2, SizeFacts
    <3>. QED
      BY <3>1, FS_EmptySet
  <2>2. Bound(t) = {}
    BY <2>1 DEF Bound
  <2>3. Get(t, s) = 0
    BY <1>2 DEF Get
  <2>. QED
    BY <2>2, <2>3
<1>3. CASE Count(t) # 0
  <2>1. Get(t, s) = t[Probe(t, s)].idPlus1
    BY <1>3 DEF Get
  <2>2. PICK f \in 0 .. n - 1 : t[f].idPlus1 = 0
    BY <1>1, <1>3 DEF Used
  <2>3. PICK j \in 0 .. n - 1 :
           /\ Probe(t, s) = Place(n, s, j) /\ Probe(t, s) \in 0 .. n - 1
           /\ Stops(t, n, s, j) /\ Passed(t, n, s, j)
    BY <2>2, ProbeFacts
  <2>4. Get(t, s) \in Nat
    BY <2>1, <2>3 DEF IsTable
  <2>5. ASSUME NEW x, <<s, x>> \in Bound(t) PROVE Get(t, s) = x
    <3>1. PICK i \in Used(t) : t[i].s = s /\ t[i].idPlus1 = x
      BY <2>5 DEF Bound
    <3>2. i \in 0 .. n - 1 /\ t[i].idPlus1 # 0
      BY <1>1 DEF Used
    <3>3. PICK k \in 0 .. n - 1 : i = Place(n, s, k) /\ Passed(t, n, s, k)
      BY <3>1, <3>2 DEF IsTable, Sits
    <3>4. Stops(t, n, s, k)
      BY <3>1, <3>3 DEF Stops
    <3>5. j = k
      BY <2>3, <3>3, <3>4, OneSlot
    <3>. QED
      BY <2>1, <2>3, <3>1, <3>3, <3>5
  <2>6. ASSUME Get(t, s) # 0 PROVE <<s, Get(t, s)>> \in Bound(t)
    <3>1. Probe(t, s) \in Used(t)
      BY <1>1, <2>1, <2>3, <2>6 DEF Used
    <3>2. t[Probe(t, s)].s = s
      BY <2>1, <2>3, <2>6 DEF Stops
    <3>. QED
      BY <2>1, <3>1, <3>2 DEF Bound
  <2>. QED
    BY <2>4, <2>5, <2>6
<1>. QED
  BY <1>2, <1>3

(* What Insert leaves, given a free slot or one of the string.             *)
LEMMA InsertFacts ==
  ASSUME NEW t, NEW n, IsTable(t, n), NEW s \in DOMAIN Hash, NEW x \in Nat, x # 0,
         Used(t) # DOMAIN t
  PROVE  /\ IsTable(Insert(t, s, x), n)
         /\ Bound(Insert(t, s, x)) = {p \in Bound(t) : p[1] # s} \cup {<<s, x>>}
         /\ Count(Insert(t, s, x)) <= Count(t) + 1
<1>1. n \in Nat /\ DOMAIN t = 0 .. n - 1 /\ IsFiniteSet(Used(t))
      /\ Count(t) = Cardinality(Used(t)) /\ Count(t) \in Nat
  BY SizeFacts
<1>2. PICK f \in 0 .. n - 1 : t[f].idPlus1 = 0
  BY <1>1 DEF Used
<1>3. PICK j \in 0 .. n - 1 :
         /\ Probe(t, s) = Place(n, s, j) /\ Probe(t, s) \in 0 .. n - 1
         /\ Stops(t, n, s, j) /\ Passed(t, n, s, j)
  BY <1>2, ProbeFacts
<1>. DEFINE p == Probe(t, s)
            u == Insert(t, s, x)
<1>4. /\ u = [i \in 0 .. n - 1 |-> u[i]]
      /\ DOMAIN u = 0 .. n - 1
      /\ u[p] = [s |-> s, idPlus1 |-> x]
      /\ \A i \in 0 .. n - 1 : i # p => u[i] = t[i]
      /\ p \in 0 .. n - 1 /\ p = Place(n, s, j)
  BY <1>1, <1>3 DEF Insert, IsTable
<1>. HIDE DEF p, u
<1>5. u[p].s = s /\ u[p].idPlus1 = x
  BY <1>4
<1>6. t[p].idPlus1 = 0 \/ t[p].s = s
  BY <1>3, <1>4 DEF Stops
<1>7. ASSUME NEW r, NEW k \in 0 .. n - 1, Passed(t, n, r, k), r \in DOMAIN Hash, r # s \/ k = j
      PROVE  Passed(u, n, r, k)
  <2>. SUFFICES ASSUME NEW l \in 0 .. k - 1
                PROVE  u[Place(n, r, l)].idPlus1 # 0 /\ u[Place(n, r, l)].s # r
    BY DEF Passed
  <2>0. n \in Nat \ {0} /\ l \in Nat
    BY <1>1
  <2>1. Place(n, r, l) \in 0 .. n - 1
    BY <2>0, <1>7, PlaceFacts
  <2>2. t[Place(n, r, l)].idPlus1 # 0 /\ t[Place(n, r, l)].s # r
    BY <1>7 DEF Passed
  <2>3. CASE Place(n, r, l) # p
    BY <2>1, <2>2, <2>3, <1>4
  <2>4. CASE Place(n, r, l) = p /\ r # s
    BY <2>4, <1>5
  <2>5. CASE Place(n, r, l) = p /\ r = s
    <3>1. t[p].idPlus1 = 0
      BY <2>2, <2>5, <1>6
    <3>. QED
      BY <3>1, <2>2, <2>5
  <2>. QED
    BY <2>3, <2>4, <2>5
<1>8. ASSUME NEW i \in 0 .. n - 1
      PROVE  /\ u[i].idPlus1 \in Nat
             /\ u[i].idPlus1 # 0 => u[i].s \in DOMAIN Hash /\ Sits(u, n, u[i].s, i)
  <2>1. CASE i = p
    <3>1. Passed(u, n, s, j)
      BY <1>3, <1>7
    <3>2. Sits(u, n, s, i)
      BY <3>1, <2>1, <1>4 DEF Sits
    <3>. QED
      BY <3>2, <2>1, <1>5
  <2>2. CASE i # p
    <3>1. u[i] = t[i] /\ t[i].idPlus1 \in Nat
      BY <2>2, <1>4 DEF IsTable
    <3>2. ASSUME t[i].idPlus1 # 0
          PROVE  t[i].s \in DOMAIN Hash /\ Sits(u, n, t[i].s, i)
      <4>1. t[i].s \in DOMAIN Hash /\ Sits(t, n, t[i].s, i)
        BY <3>2 DEF IsTable
      <4>2. PICK k \in 0 .. n - 1 : i = Place(n, t[i].s, k) /\ Passed(t, n, t[i].s, k)
        BY <4>1 DEF Sits
      <4>3. t[i].s # s
        <5>. SUFFICES ASSUME t[i].s = s PROVE FALSE
          OBVIOUS
        <5>1. Stops(t, n, s, k)
          BY <4>2 DEF Stops
        <5>2. j = k
          BY <5>1, <4>2, <1>3, OneSlot
        <5>. QED
          BY <5>2, <4>2, <1>4, <2>2
      <4>4. Passed(u, n, t[i].s, k)
        BY <4>1, <4>2, <4>3, <1>7
      <4>. QED
        BY <4>1, <4>2, <4>4 DEF Sits
    <3>. QED
      BY <3>1, <3>2
  <2>. QED
    BY <2>1, <2>2
<1>9. IsTable(u, n)
  BY <1>1, <1>4, <1>8 DEF IsTable
<1>10. Used(u) = Used(t) \cup {p}
  BY <1>1, <1>4, <1>5 DEF Used
<1>11. Count(u) <= Count(t) + 1
  <2>1. Count(u) = Cardinality(Used(u))
    BY <1>9, SizeFacts
  <2>2. Cardinality(Used(t) \cup {p})
          = IF p \in Used(t) THEN Cardinality(Used(t)) ELSE Cardinality(Used(t)) + 1
    BY <1>1, FS_AddElement
  <2>. QED
    BY <2>1, <2>2, <1>1, <1>10
<1>12. Bound(u) = {q \in Bound(t) : q[1] # s} \cup {<<s, x>>}
  <2>1. ASSUME NEW q \in Bound(u) PROVE q \in {r \in Bound(t) : r[1] # s} \cup {<<s, x>>}
    <3>1. PICK i \in Used(u) : q = <<u[i].s, u[i].idPlus1>>
      BY DEF Bound
    <3>2. CASE i = p
      BY <3>1, <3>2, <1>5
    <3>3. CASE i # p
      <4>1. i \in Used(t) /\ i \in 0 .. n - 1 /\ u[i] = t[i]
        BY <3>3, <1>1, <1>4, <1>10 DEF Used
      <4>2. q \in Bound(t) /\ q[1] = t[i].s
        BY <4>1, <3>1 DEF Bound
      <4>3. t[i].s # s
        <5>. SUFFICES ASSUME t[i].s = s PROVE FALSE
          OBVIOUS
        <5>1. PICK k \in 0 .. n - 1 : i = Place(n, s, k) /\ Passed(t, n, s, k)
          BY <4>1 DEF IsTable, Sits, Used
        <5>2. Stops(t, n, s, k)
          BY <5>1 DEF Stops
        <5>3. j = k
          BY <5>1, <5>2, <1>3, OneSlot
        <5>. QED
          BY <5>3, <5>1, <1>4, <3>3
      <4>. QED
        BY <4>2, <4>3
    <3>. QED
      BY <3>2, <3>3
  <2>2. <<s, x>> \in Bound(u)
    BY <1>5, <1>10 DEF Bound
  <2>3. ASSUME NEW q \in Bound(t), q[1] # s PROVE q \in Bound(u)
    <3>1. PICK i \in Used(t) : q = <<t[i].s, t[i].idPlus1>>
      BY DEF Bound
    <3>2. i # p
      BY <3>1, <2>3, <1>6 DEF Used
    <3>3. u[i] = t[i] /\ i \in Used(u)
      BY <3>2, <1>1, <1>4, <1>10 DEF Used
    <3>. QED
      BY <3>1, <3>3 DEF Bound
  <2>. QED
    BY <2>1, <2>2, <2>3
<1>. QED
  BY <1>9, <1>11, <1>12 DEF u

LEMMA SlotsFacts ==
  ASSUME NEW n \in Nat
  PROVE  IsTable(Slots(n), n) /\ Bound(Slots(n)) = {} /\ Count(Slots(n)) = 0
<1>1. /\ Slots(n) = [i \in 0 .. n - 1 |-> Slots(n)[i]]
      /\ DOMAIN Slots(n) = 0 .. n - 1
      /\ \A i \in 0 .. n - 1 : Slots(n)[i].idPlus1 = 0
  BY DEF Slots, EmptySlot
<1>2. IsTable(Slots(n), n)
  BY <1>1 DEF IsTable
<1>3. Used(Slots(n)) = {}
  BY <1>1 DEF Used
<1>4. Count(Slots(n)) = 0
  BY <1>2, <1>3, SizeFacts, FS_EmptySet
<1>. QED
  BY <1>2, <1>3, <1>4 DEF Bound

(* The rounds of a growth. *)
Moves(f, t, n, m) ==
  f = [k \in 0 .. m |->
         IF k = 0 THEN Slots(n)
         ELSE IF t[k - 1].idPlus1 = 0 THEN f[k - 1]
              ELSE Insert(f[k - 1], t[k - 1].s, t[k - 1].idPlus1)]

(* The function a growth fills the new slots by exists. *)
LEMMA MovesExist ==
  ASSUME NEW t, NEW n
  PROVE  \A m \in Nat : \E f : Moves(f, t, n, m)
<1>. DEFINE S == {m \in Nat : \E f : Moves(f, t, n, m)}
            Then(k, y) == IF t[k - 1].idPlus1 = 0 THEN y
                          ELSE Insert(y, t[k - 1].s, t[k - 1].idPlus1)
<1>1. 0 \in S
  <2>. DEFINE f == [k \in 0 .. 0 |-> Slots(n)]
  <2>1. Moves(f, t, n, 0)
    BY DEF Moves
  <2>. HIDE DEF f
  <2>. QED
    BY <2>1
<1>2. ASSUME NEW m \in Nat, m \in S PROVE m + 1 \in S
  <2>1. PICK f : Moves(f, t, n, m)
    BY <1>2
  <2>2. \A k \in 0 .. m : f[k] = IF k = 0 THEN Slots(n) ELSE Then(k, f[k - 1])
    BY <2>1 DEF Moves
  <2>. DEFINE g == [k \in 0 .. m + 1 |-> IF k <= m THEN f[k] ELSE Then(m + 1, f[m])]
  <2>. HIDE DEF Then
  <2>3. /\ \A k \in 0 .. m : g[k] = f[k]
        /\ g[m + 1] = Then(m + 1, f[m])
        /\ g = [k \in 0 .. m + 1 |-> g[k]]
    OBVIOUS
  <2>. HIDE DEF g
  <2>4. ASSUME NEW k \in 0 .. m + 1
        PROVE  g[k] = IF k = 0 THEN Slots(n) ELSE Then(k, g[k - 1])
    <3>1. CASE k = m + 1
      <4>1. k # 0 /\ k - 1 = m /\ m \in 0 .. m
        BY <3>1
      <4>. QED
        BY <4>1, <3>1, <2>3
    <3>2. CASE k \in 0 .. m
      <4>1. f[k] = IF k = 0 THEN Slots(n) ELSE Then(k, f[k - 1])
        BY <3>2, <2>2
      <4>2. k # 0 => k - 1 \in 0 .. m
        BY <3>2
      <4>. QED
        BY <3>2, <4>1, <4>2, <2>3
    <3>. QED
      BY <3>1, <3>2
  <2>5. g = [k \in 0 .. m + 1 |-> IF k = 0 THEN Slots(n) ELSE Then(k, g[k - 1])]
    BY <2>3, <2>4
  <2>6. Moves(g, t, n, m + 1)
    BY <2>5 DEF Moves, Then
  <2>. QED
    BY <2>6
<1>3. Nat \subseteq S
  BY <1>1, <1>2, Induction
<1>. QED
  BY <1>3

(* A growth keeps every entry.                                             *)
LEMMA RehashFacts ==
  ASSUME NEW t, NEW l, IsTable(t, l), NEW n \in Nat, l < n
  PROVE  /\ IsTable(Rehash(t, n), n)
         /\ Bound(Rehash(t, n)) = Bound(t)
         /\ Count(Rehash(t, n)) <= l
<1>1. l \in Nat /\ DOMAIN t = 0 .. l - 1 /\ Size(t) = l
  BY SizeFacts
<1>2. PICK f : f = CHOOSE g : Moves(g, t, n, l)
  OBVIOUS
<1>3. Moves(f, t, n, l)
  BY <1>1, <1>2, MovesExist, Zenon
<1>4. Rehash(t, n) = f[l]
  <2>1. Rehash(t, n) = (CHOOSE g : Moves(g, t, n, Size(t)))[Size(t)]
    BY Zenon DEF Rehash, Moves
  <2>. QED
    BY <2>1, <1>1, <1>2
<1>. DEFINE Old(k) == {<<t[i].s, t[i].idPlus1>> : i \in {j \in 0 .. k - 1 : t[j].idPlus1 # 0}}
            Fine(k) == /\ IsTable(f[k], n) /\ Bound(f[k]) = Old(k)
                       /\ Count(f[k]) <= k
            S == {k \in Nat : k <= l => Fine(k)}
<1>5. 0 \in S
  <2>1. f[0] = Slots(n)
    BY <1>1, <1>3, 0 \in 0 .. l DEF Moves
  <2>2. Old(0) = {}
    OBVIOUS
  <2>. QED
    BY <2>1, <2>2, SlotsFacts
<1>6. ASSUME NEW k \in Nat, k \in S PROVE k + 1 \in S
  <2>. SUFFICES ASSUME k + 1 <= l PROVE Fine(k + 1)
    OBVIOUS
  <2>1. k + 1 \in 0 .. l /\ k + 1 # 0 /\ (k + 1) - 1 = k /\ k <= l /\ k \in 0 .. l - 1
    BY <1>1
  <2>2. f[k + 1] = IF t[k].idPlus1 = 0 THEN f[k] ELSE Insert(f[k], t[k].s, t[k].idPlus1)
    BY <2>1, <1>3 DEF Moves
  <2>3. IsTable(f[k], n) /\ Bound(f[k]) = Old(k) /\ Count(f[k]) <= k
    BY <1>6, <2>1
  <2>4. Count(f[k]) \in Nat /\ DOMAIN f[k] = 0 .. n - 1 /\ IsFiniteSet(Used(f[k]))
        /\ Count(f[k]) = Cardinality(Used(f[k]))
    BY <2>3, SizeFacts
  <2>5. CASE t[k].idPlus1 = 0
    <3>1. Old(k + 1) = Old(k)
      <4>1. {j \in 0 .. (k + 1) - 1 : t[j].idPlus1 # 0} = {j \in 0 .. k - 1 : t[j].idPlus1 # 0}
        BY <2>5
      <4>. QED
        BY <4>1
    <3>. QED
      BY <3>1, <2>2, <2>3, <2>4, <2>5
  <2>6. CASE t[k].idPlus1 # 0
    <3>. DEFINE s == t[k].s  x == t[k].idPlus1
    <3>1. s \in DOMAIN Hash /\ x \in Nat /\ x # 0 /\ Sits(t, l, s, k)
      BY <2>1, <2>6 DEF IsTable
    <3>2. Used(f[k]) # DOMAIN f[k]
      <4>1. Cardinality(0 .. n - 1) = n
        BY FS_Interval
      <4>. QED
        BY <4>1, <2>3, <2>4, <2>1, <1>1
    <3>3. /\ IsTable(Insert(f[k], s, x), n)
          /\ Bound(Insert(f[k], s, x)) = {p \in Bound(f[k]) : p[1] # s} \cup {<<s, x>>}
          /\ Count(Insert(f[k], s, x)) <= Count(f[k]) + 1
      <4>. HIDE DEF s, x
      <4>. QED
        BY <3>1, <3>2, <2>3, InsertFacts
    <3>4. ASSUME NEW i \in 0 .. k - 1, t[i].idPlus1 # 0 PROVE t[i].s # s
      <4>. SUFFICES ASSUME t[i].s = s PROVE FALSE
        OBVIOUS
      <4>1. i \in 0 .. l - 1
        BY <1>1, <2>1
      <4>2. PICK a \in 0 .. l - 1 : i = Place(l, s, a) /\ Passed(t, l, s, a)
        BY <3>4, <4>1 DEF IsTable, Sits
      <4>3. PICK b \in 0 .. l - 1 : k = Place(l, s, b) /\ Passed(t, l, s, b)
        BY <3>1, Zenon DEF Sits
      <4>4. Stops(t, l, s, a) /\ Stops(t, l, s, b)
        BY <4>2, <4>3 DEF Stops
      <4>5. a = b
        BY <4>2, <4>3, <4>4, OneSlot
      <4>. QED
        BY <4>2, <4>3, <4>5
    <3>5. Old(k + 1) = Old(k) \cup {<<s, x>>}
      <4>1. {j \in 0 .. (k + 1) - 1 : t[j].idPlus1 # 0}
              = {j \in 0 .. k - 1 : t[j].idPlus1 # 0} \cup {k}
        BY <2>6
      <4>. QED
        BY <4>1
    <3>6. {p \in Old(k) : p[1] # s} = Old(k)
      BY <3>4
    <3>7. f[k + 1] = Insert(f[k], s, x)
      BY <2>2, <2>6
    <3>8. Bound(f[k + 1]) = Old(k + 1)
      <4>1. Bound(f[k + 1]) = {p \in Bound(f[k]) : p[1] # s} \cup {<<s, x>>}
        BY <3>3, <3>7
      <4>. HIDE DEF Old, s, x
      <4>. QED
        BY <4>1, <3>5, <3>6, <2>3
    <3>9. Count(f[k + 1]) <= k + 1
      <4>1. Count(f[k + 1]) \in Nat
        BY <3>3, <3>7, SizeFacts
      <4>. QED
        BY <4>1, <3>3, <3>7, <2>3, <2>4
    <3>. QED
      BY <3>3, <3>7, <3>8, <3>9
  <2>. QED
    BY <2>5, <2>6
<1>7. Nat \subseteq S
  <2>. HIDE DEF S
  <2>. QED
    BY <1>5, <1>6, Induction
<1>8. Fine(l)
  <2>1. l \in Nat /\ l <= l
    BY <1>1
  <2>2. l \in S
    <3>. HIDE DEF S
    <3>. QED
      BY <2>1, <1>7
  <2>. HIDE DEF Fine
  <2>. QED
    BY <2>1, <2>2
<1>9. Old(l) = Bound(t)
  BY <1>1 DEF Bound, Used
<1>. QED
  BY <1>4, <1>8, <1>9

(* A table with room for a free slot, which ends every search.             *)
StrTable(t) ==
  \/ t = EmptyTable
  \/ \E n \in Nat : IsTable(t, n) /\ n >= InitSlots /\ Count(t) < n

LEMMA EmptyTableFacts ==
  StrTable(EmptyTable) /\ Bound(EmptyTable) = {} /\ Count(EmptyTable) = 0
    /\ IsTable(EmptyTable, 0)
<1>1. DOMAIN EmptyTable = {} /\ EmptyTable = [i \in {} |-> EmptyTable[i]]
  BY DEF EmptyTable
<1>2. {} = 0 .. 0 - 1
  OBVIOUS
<1>3. IsTable(EmptyTable, 0)
  BY <1>1, <1>2 DEF IsTable
<1>4. Used(EmptyTable) = {}
  BY <1>1 DEF Used
<1>5. Count(EmptyTable) = 0
  BY <1>3, <1>4, SizeFacts, FS_EmptySet
<1>. QED
  BY <1>3, <1>4, <1>5 DEF Bound, StrTable

(* Some slot of a table is free, or the table is empty. *)
LEMMA StrTableFacts ==
  ASSUME NEW t, StrTable(t)
  PROVE  \E n \in Nat : IsTable(t, n) /\ (Count(t) = 0 \/ Used(t) # DOMAIN t)
<1>1. CASE t = EmptyTable
  BY <1>1, EmptyTableFacts
<1>2. CASE \E n \in Nat : IsTable(t, n) /\ n >= InitSlots /\ Count(t) < n
  <2>1. PICK n \in Nat : IsTable(t, n) /\ n >= InitSlots /\ Count(t) < n
    BY <1>2
  <2>2. Cardinality(0 .. n - 1) = n
    BY FS_Interval
  <2>3. Used(t) # DOMAIN t
    BY <2>1, <2>2, SizeFacts
  <2>. QED
    BY <2>1, <2>3
<1>. QED
  BY <1>1, <1>2 DEF StrTable

(* The table answers a search with the id bound last, whatever strings of  *)
(* its hash or growths came between (internTable.get, set).                *)
THEOREM TableGet ==
  ASSUME NEW t, StrTable(t), NEW s \in DOMAIN Hash
  PROVE  /\ \A x : <<s, x>> \in Bound(t) => Get(t, s) = x
         /\ Get(t, s) # 0 => <<s, Get(t, s)>> \in Bound(t)
         /\ Get(t, s) \in Nat
  BY StrTableFacts, GetFacts

(* A string that is set is bound to its id, every other string to the id   *)
(* it had: growth and collisions lose no entry (internTable.set, grow).    *)
THEOREM TableSet ==
  ASSUME NEW t, StrTable(t), NEW s \in DOMAIN Hash, NEW id \in Nat
  PROVE  /\ StrTable(Set(t, s, id))
         /\ Bound(Set(t, s, id)) = {p \in Bound(t) : p[1] # s} \cup {<<s, id + 1>>}
<1>1. InitSlots \in Nat /\ InitSlots >= 2 /\ LoadDiv \in Nat \ {0} /\ LoadDiv <= InitSlots
  BY HashFacts
<1>. DEFINE g == Grown(t)
<1>2. PICK n \in Nat : /\ IsTable(g, n) /\ n >= InitSlots /\ Count(g) + 1 < n
                      /\ Bound(g) = Bound(t)
  <2>1. CASE t = EmptyTable
    <3>1. Size(t) = 0 /\ IsTable(t, 0) /\ Bound(t) = {}
      BY <2>1, EmptyTableFacts, SizeFacts
    <3>2. g = Rehash(t, InitSlots)
      BY <3>1 DEF Grown
    <3>3. IsTable(g, InitSlots) /\ Bound(g) = Bound(t) /\ Count(g) <= 0
      BY <1>1, <3>1, <3>2, RehashFacts
    <3>4. Count(g) \in Nat
      BY <3>3, SizeFacts
    <3>. QED
      BY <1>1, <3>3, <3>4
  <2>2. CASE \E n \in Nat : IsTable(t, n) /\ n >= InitSlots /\ Count(t) < n
    <3>1. PICK n \in Nat : IsTable(t, n) /\ n >= InitSlots /\ Count(t) < n
      BY <2>2
    <3>2. Size(t) = n /\ Count(t) \in Nat
      BY <3>1, SizeFacts
    <3>3. n \div LoadDiv >= 1 /\ n \div LoadDiv \in Nat
      BY <1>1, <3>1, Quarter
    <3>4. CASE Count(t) + 1 > Size(t) - Size(t) \div LoadDiv
      <4>1. g = Rehash(t, 2 * n)
        BY <1>1, <3>1, <3>2, <3>4 DEF Grown
      <4>2. 2 * n \in Nat /\ n < 2 * n
        BY <1>1, <3>1
      <4>3. IsTable(g, 2 * n) /\ Bound(g) = Bound(t) /\ Count(g) <= n
        BY <4>1, <4>2, <3>1, RehashFacts
      <4>4. Count(g) \in Nat
        BY <4>3, SizeFacts
      <4>. QED
        BY <1>1, <3>1, <4>2, <4>3, <4>4
    <3>5. CASE ~(Count(t) + 1 > Size(t) - Size(t) \div LoadDiv)
      <4>1. g = t
        BY <1>1, <3>1, <3>2, <3>5 DEF Grown
      <4>2. Count(t) + 1 < n
        BY <3>2, <3>3, <3>5
      <4>. QED
        BY <3>1, <4>1, <4>2
    <3>. QED
      BY <3>4, <3>5
  <2>. QED
    BY <2>1, <2>2 DEF StrTable
<1>. HIDE DEF g
<1>3. Used(g) # DOMAIN g
  <2>1. Cardinality(0 .. n - 1) = n
    BY FS_Interval
  <2>2. Count(g) \in Nat
    BY <1>2, SizeFacts
  <2>. QED
    BY <1>2, <2>1, <2>2, SizeFacts
<1>. DEFINE x == id + 1
<1>4. x \in Nat /\ x # 0
  OBVIOUS
<1>. HIDE DEF x
<1>5. /\ IsTable(Insert(g, s, x), n)
      /\ Bound(Insert(g, s, x)) = {p \in Bound(g) : p[1] # s} \cup {<<s, x>>}
      /\ Count(Insert(g, s, x)) <= Count(g) + 1
  BY <1>2, <1>3, <1>4, InsertFacts
<1>6. Set(t, s, id) = Insert(g, s, x)
  BY DEF Set, g, x
<1>7. StrTable(Insert(g, s, x))
  <2>1. Count(Insert(g, s, x)) \in Nat /\ Count(g) \in Nat
    BY <1>2, <1>5, SizeFacts
  <2>2. Count(Insert(g, s, x)) < n
    BY <2>1, <1>2, <1>5
  <2>. QED
    BY <2>2, <1>2, <1>5 DEF StrTable
<1>8. Bound(Insert(g, s, x)) = {p \in Bound(t) : p[1] # s} \cup {<<s, id + 1>>}
  BY <1>2, <1>5 DEF x
<1>. QED
  BY <1>6, <1>7, <1>8

-----------------------------------------------------------------------------
(***************************************************************************)
(* Descriptor identity (descEqual, descEq).                                *)
(***************************************************************************)

(* Descriptors of one structure: some relation that holds them is closed   *)
(* under the parts and relates like with like.                             *)

Pairs == Descs \X Descs

Relates(R) ==
  \A p \in R :
    /\ Same(p[1], p[2])
    /\ \A i \in DOMAIN Kids[p[1]] : <<Kids[p[1]][i], Kids[p[2]][i]>> \in R

Alike(a, b) == \E R \in SUBSET Pairs : <<a, b>> \in R /\ Relates(R)

LEMMA DescFacts ==
  /\ IsFiniteSet(Descs)
  /\ \A d \in Descs :
       /\ Kind[d] \in Kinds /\ Name[d] \in DOMAIN Hash
       /\ Fields[d] \in Seq(DOMAIN Hash) /\ Kids[d] \in Seq(Descs)
       /\ Len(Fields[d]) = IF Kind[d] = "struct" THEN Len(Kids[d]) ELSE 0
       /\ Kind[d] \in {"ptr", "slice"} => Len(Kids[d]) = 1
       /\ Kind[d] = "map" => Len(Kids[d]) = 2
  /\ Texts \subseteq DOMAIN Hash /\ Roots \subseteq Descs /\ Dyn \subseteq Descs
  BY DescAssumption DEF DescAssumption

LEMMA KidFacts ==
  ASSUME NEW d \in Descs
  PROVE  /\ Len(Kids[d]) \in Nat /\ DOMAIN Kids[d] = 1 .. Len(Kids[d])
         /\ \A i \in 1 .. Len(Kids[d]) : Kids[d][i] \in Descs
         /\ Len(Fields[d]) \in Nat /\ DOMAIN Fields[d] = 1 .. Len(Fields[d])
         /\ \A i \in 1 .. Len(Fields[d]) : Fields[d][i] \in DOMAIN Hash
<1>1. Fields[d] \in Seq(DOMAIN Hash) /\ Kids[d] \in Seq(Descs)
  BY DescFacts
<1>. QED
  BY <1>1

(* Descriptors of one structure agree in themselves. *)
LEMMA AlikeType ==
  ASSUME NEW a, NEW b, Alike(a, b)
  PROVE  a \in Descs /\ b \in Descs /\ Same(a, b)
<1>1. PICK R \in SUBSET Pairs : <<a, b>> \in R /\ Relates(R)
  BY DEF Alike
<1>2. <<a, b>> \in Pairs
  BY <1>1
<1>3. Same(<<a, b>>[1], <<a, b>>[2])
  BY <1>1 DEF Relates
<1>. QED
  BY <1>2, <1>3 DEF Pairs

(* Likeness is reflexive and transitive, and goes on to the parts. *)
LEMMA AlikeSelf ==
  ASSUME NEW a \in Descs
  PROVE  Alike(a, a)
<1>. DEFINE R == {<<d, d>> : d \in Descs}
<1>1. R \in SUBSET Pairs /\ <<a, a>> \in R
  BY DEF Pairs
<1>2. Relates(R)
  <2>. SUFFICES ASSUME NEW d \in Descs
                PROVE  /\ Same(d, d)
                       /\ \A i \in DOMAIN Kids[d] : <<Kids[d][i], Kids[d][i]>> \in R
    BY DEF Relates
  <2>1. \A i \in DOMAIN Kids[d] : Kids[d][i] \in Descs
    BY KidFacts
  <2>. QED
    BY <2>1 DEF Same
<1>. QED
  BY <1>1, <1>2 DEF Alike

LEMMA AlikeOn ==
  ASSUME NEW a, NEW b, NEW c, Alike(a, b), Alike(b, c)
  PROVE  Alike(a, c)
<1>1. PICK R \in SUBSET Pairs : <<a, b>> \in R /\ Relates(R)
  BY DEF Alike
<1>2. PICK S \in SUBSET Pairs : <<b, c>> \in S /\ Relates(S)
  BY DEF Alike
<1>. DEFINE Q == {p \in Pairs : \E m \in Descs : <<p[1], m>> \in R /\ <<m, p[2]>> \in S}
<1>3. Q \in SUBSET Pairs /\ <<a, c>> \in Q
  <2>1. a \in Descs /\ b \in Descs /\ c \in Descs
    BY AlikeType
  <2>. QED
    BY <1>1, <1>2, <2>1 DEF Pairs
<1>4. Relates(Q)
  <2>. SUFFICES ASSUME NEW p \in Q
                PROVE  /\ Same(p[1], p[2])
                       /\ \A i \in DOMAIN Kids[p[1]] : <<Kids[p[1]][i], Kids[p[2]][i]>> \in Q
    BY DEF Relates
  <2>1. PICK m \in Descs : <<p[1], m>> \in R /\ <<m, p[2]>> \in S
    OBVIOUS
  <2>2. p[1] \in Descs /\ p[2] \in Descs
    BY DEF Pairs
  <2>3. /\ Same(p[1], m) /\ Same(m, p[2])
        /\ \A i \in DOMAIN Kids[p[1]] : <<Kids[p[1]][i], Kids[m][i]>> \in R
        /\ \A i \in DOMAIN Kids[m] : <<Kids[m][i], Kids[p[2]][i]>> \in S
    BY <1>1, <1>2, <2>1 DEF Relates
  <2>4. Same(p[1], p[2])
    BY <2>3 DEF Same
  <2>5. DOMAIN Kids[p[1]] = DOMAIN Kids[m] /\ DOMAIN Kids[p[1]] = DOMAIN Kids[p[2]]
    BY <2>2, <2>3, KidFacts DEF Same
  <2>6. ASSUME NEW i \in DOMAIN Kids[p[1]] PROVE <<Kids[p[1]][i], Kids[p[2]][i]>> \in Q
    <3>1. <<Kids[p[1]][i], Kids[m][i]>> \in R /\ <<Kids[m][i], Kids[p[2]][i]>> \in S
      BY <2>3, <2>5
    <3>2. Kids[p[1]][i] \in Descs /\ Kids[m][i] \in Descs /\ Kids[p[2]][i] \in Descs
      BY <2>2, <2>5, KidFacts
    <3>. QED
      BY <3>1, <3>2 DEF Pairs
  <2>. QED
    BY <2>4, <2>6
<1>. QED
  BY <1>3, <1>4 DEF Alike

LEMMA AlikeKids ==
  ASSUME NEW a, NEW b, Alike(a, b), NEW i \in 1 .. Len(Kids[a])
  PROVE  Alike(Kids[a][i], Kids[b][i]) /\ Len(Kids[b]) = Len(Kids[a])
<1>1. PICK R \in SUBSET Pairs : <<a, b>> \in R /\ Relates(R)
  BY DEF Alike
<1>2. a \in Descs /\ Same(a, b)
  BY AlikeType
<1>3. i \in DOMAIN Kids[a]
  BY <1>2, KidFacts
<1>4. <<Kids[a][i], Kids[b][i]>> \in R
  BY <1>1, <1>3 DEF Relates
<1>. QED
  BY <1>1, <1>2, <1>4 DEF Alike, Same

(* descEq's walk ends on a closed relation, since there are only so many   *)
(* pairs of descriptors to meet.                                           *)
Reach(met) == met \cup UNION {PairsUnder(p) : p \in met}

LEMMA PairsUnderType ==
  ASSUME NEW p \in Pairs
  PROVE  PairsUnder(p) \subseteq Pairs
<1>1. p[1] \in Descs /\ p[2] \in Descs
  BY DEF Pairs
<1>2. CASE Same(p[1], p[2])
  <2>1. DOMAIN Kids[p[1]] = DOMAIN Kids[p[2]]
    BY <1>1, <1>2, KidFacts DEF Same
  <2>2. \A i \in DOMAIN Kids[p[1]] : <<Kids[p[1]][i], Kids[p[2]][i]>> \in Pairs
    BY <1>1, <2>1, KidFacts DEF Pairs
  <2>. QED
    BY <1>2, <2>2 DEF PairsUnder
<1>. QED
  BY <1>2 DEF PairsUnder

LEMMA MoreType ==
  ASSUME NEW m \in SUBSET Pairs
  PROVE  Reach(m) \in SUBSET Pairs /\ m \subseteq Reach(m)
  BY PairsUnderType DEF Reach

Walks(f) == f = [met \in SUBSET (Descs \X Descs) |->
                   LET more == met \cup UNION {PairsUnder(p) : p \in met}
                   IN  IF more = met THEN met ELSE f[more]]

(* The walk is defined: its rounds grow in a finite set of pairs. *)
LEMMA WalkExists == \E f : Walks(f)
<1>. DEFINE Over(m) == {c \in SUBSET Pairs : m \subseteq c /\ Reach(c) = c}
            f == [m \in SUBSET Pairs |-> {p \in Pairs : \A c \in Over(m) : p \in c}]
<1>1. ASSUME NEW m \in SUBSET Pairs PROVE f[m] = IF Reach(m) = m THEN m ELSE f[Reach(m)]
  <2>1. CASE Reach(m) = m
    <3>1. m \in Over(m)
      BY <2>1
    <3>2. f[m] = m
      BY <3>1
    <3>. QED
      BY <2>1, <3>2
  <2>2. CASE Reach(m) # m
    <3>1. Reach(m) \in SUBSET Pairs /\ m \subseteq Reach(m)
      BY MoreType
    <3>2. ASSUME NEW c \in Over(m) PROVE Reach(m) \subseteq c
      <4>1. Reach(m) \subseteq Reach(c)
        BY DEF Reach
      <4>. QED
        BY <4>1
    <3>3. Over(m) = Over(Reach(m))
      BY <3>1, <3>2
    <3>. HIDE DEF Over
    <3>4. f[m] = f[Reach(m)]
      BY <3>1, <3>3
    <3>. QED
      BY <2>2, <3>4
  <2>. QED
    BY <2>1, <2>2
<1>2. f = [m \in SUBSET Pairs |-> f[m]]
  OBVIOUS
<1>. HIDE DEF f
<1>3. f = [m \in SUBSET Pairs |-> IF Reach(m) = m THEN m ELSE f[Reach(m)]]
  BY <1>1, <1>2
<1>4. Walks(f)
  BY <1>3, Zenon DEF Walks, Reach, Pairs
<1>. QED
  BY <1>4

(* It ends on a set of pairs that nothing is missing from. *)
LEMMA WalkEnds ==
  ASSUME NEW f, Walks(f), NEW m \in SUBSET Pairs
  PROVE  f[m] \in SUBSET Pairs /\ m \subseteq f[m] /\ Reach(f[m]) = f[m]
<1>. DEFINE Good(s) == f[s] \in SUBSET Pairs /\ s \subseteq f[s] /\ Reach(f[s]) = f[s]
            Bad == {s \in SUBSET Pairs : ~Good(s)}
            Rest(s) == Cardinality(Pairs \ s)
            T == {Rest(s) : s \in Bad}
<1>1. IsFiniteSet(Pairs)
  BY DescFacts, FS_Product DEF Pairs
<1>2. \A s : IsFiniteSet(Pairs \ s) /\ Rest(s) \in Nat
  BY <1>1, FS_Difference, FS_CardinalityType
<1>3. \A s \in SUBSET Pairs : f[s] = IF Reach(s) = s THEN s ELSE f[Reach(s)]
  BY Zenon DEF Walks, Reach, Pairs
<1>4. Bad = {}
  <2>. SUFFICES ASSUME Bad # {} PROVE FALSE
    OBVIOUS
  <2>1. T \subseteq Nat /\ T # {}
    BY <1>2
  <2>2. PICK x \in T : \A y \in T : x <= y
    BY <2>1, LeastOf
  <2>3. PICK s \in Bad : x = Rest(s)
    OBVIOUS
  <2>4. s \in SUBSET Pairs /\ ~Good(s)
    BY <2>3
  <2>5. CASE Reach(s) = s
    BY <2>4, <2>5, <1>3
  <2>6. CASE Reach(s) # s
    <3>. DEFINE n == Reach(s)
    <3>1. n \in SUBSET Pairs /\ s \subseteq n /\ n # s /\ f[s] = f[n]
      BY <2>4, <2>6, <1>3, MoreType
    <3>. HIDE DEF n
    <3>2. Pairs \ n \subseteq Pairs \ s /\ Pairs \ n # Pairs \ s
      BY <3>1, <2>4
    <3>3. Rest(n) < Rest(s)
      <4>1. Cardinality(Pairs \ n) <= Cardinality(Pairs \ s)
            /\ (Cardinality(Pairs \ n) = Cardinality(Pairs \ s) => Pairs \ n = Pairs \ s)
        BY <3>2, <1>2, FS_Subset
      <4>. QED
        BY <4>1, <3>2, <1>2
    <3>4. n \notin Bad
      <4>. SUFFICES ASSUME n \in Bad PROVE FALSE
        OBVIOUS
      <4>1. Rest(n) \in T
        OBVIOUS
      <4>2. x <= Rest(n)
        BY <4>1, <2>2
      <4>3. Rest(n) \in Nat /\ Rest(s) \in Nat
        BY <1>2
      <4>4. x = Rest(s)
        BY <2>3
      <4>. HIDE DEF Rest
      <4>. QED
        BY <4>2, <4>3, <4>4, <3>3
    <3>5. Good(n)
      BY <3>1, <3>4
    <3>6. Good(s)
      BY <3>1, <3>5
    <3>. QED
      BY <3>6, <2>4
  <2>. QED
    BY <2>5, <2>6
<1>. QED
  BY <1>4

(* A name whose claim descEqual lets pass is that of one structure.        *)
THEOREM EqualAlike ==
  ASSUME NEW a \in Descs, NEW b \in Descs, DescEqual(a, b)
  PROVE  Alike(a, b)
<1>1. CASE a = b
  BY <1>1, AlikeSelf
<1>2. CASE a # b
  <2>1. PICK f : f = CHOOSE g : Walks(g)
    OBVIOUS
  <2>2. Walks(f)
    BY <2>1, WalkExists, Zenon
  <2>3. Met(a, b) = f[{<<a, b>>}]
    <3>1. Met(a, b) = (CHOOSE g : Walks(g))[{<<a, b>>}]
      BY Zenon DEF Met, Walks
    <3>. QED
      BY <3>1, <2>1
  <2>4. {<<a, b>>} \in SUBSET Pairs
    BY DEF Pairs
  <2>. DEFINE R == Met(a, b)
  <2>. DEFINE z == {<<a, b>>}
  <2>5a. z \in SUBSET Pairs /\ <<a, b>> \in z /\ R = f[z]
    BY <2>3, <2>4
  <2>. HIDE DEF R, z
  <2>5b. f[z] \in SUBSET Pairs /\ z \subseteq f[z] /\ Reach(f[z]) = f[z]
    BY <2>2, <2>5a, WalkEnds
  <2>5. R \in SUBSET Pairs /\ <<a, b>> \in R /\ Reach(R) = R
    BY <2>5a, <2>5b
  <2>6. \A p \in R : p[1] = p[2] \/ Same(p[1], p[2])
    BY <1>2 DEF DescEqual, R
  <2>7. Relates(R)
    <3>. SUFFICES ASSUME NEW p \in R
                  PROVE  /\ Same(p[1], p[2])
                         /\ \A i \in DOMAIN Kids[p[1]] : <<Kids[p[1]][i], Kids[p[2]][i]>> \in R
      BY DEF Relates
    <3>1. Same(p[1], p[2])
      BY <2>6 DEF Same
    <3>2. PairsUnder(p) \subseteq R
      BY <2>5 DEF Reach
    <3>. QED
      BY <3>1, <3>2 DEF PairsUnder
  <2>. QED
    BY <2>5, <2>7 DEF Alike
<1>. QED
  BY <1>1, <1>2

-----------------------------------------------------------------------------
(***************************************************************************)
(* The past of a stream, what the Writer keeps next to it, and how the     *)
(* Reader's state goes with one of its moments.                            *)
(***************************************************************************)

(* The past of a stream.  A moment is what the Writer has left to write,   *)
(* with the tokens and the ids there were; a position that names a part of *)
(* a descriptor names it by the id of the descriptor it is a part of.      *)

Sorts == {"str", "desc", "map", "array", "value"}

Token ==
  [t : {"str"}, x : DOMAIN Hash] \cup [t : {"struct"}, x : {0}]
  \cup [t : {"nil"}, x : Kinds] \cup [t : {"map", "array"}, x : 0 .. 1]
  \cup [t : {"desc"}, x : Kinds, n : Nat]
  \cup [t : {"ref", "view"}, x : Nat, sort : Sorts, of : DOMAIN Hash \cup Descs]
  \cup [t : {"path"}, x : Nat, of : DOMAIN Hash]

TabEntry ==
  [sort : {"str"}, of : DOMAIN Hash] \cup [sort : Sorts \ {"str"}, of : Descs]

Position ==
  [k : {"name", "kid"}, of : Nat, j : Nat]
  \cup [k : {"desc"}, d : Descs, then : {"open", "body"}]
  \cup [k : {"body"}, d : Descs, held : BOOLEAN]
  \cup [k : {"open"}, d : Descs] \cup [k : {"view"}, id : Nat]

Moment == [a : Seq(Position), n : Nat, c : Nat]

NameAt(o, j)  == [k |-> "name", of |-> o, j |-> j]
KidAt(o, j)   == [k |-> "kid", of |-> o, j |-> j]

Slot(p) == p.k \in {"name", "kid"}

NoSlots(a) == \A x \in 1 .. Len(a) : ~Slot(a[x])

(* The text of a name position, 0 the descriptor's own. *)
TextOf(d, j) == IF j = 0 THEN Name[d] ELSE Fields[d][j]

DescOf(tab, p) == IF p.k = "kid" THEN Kids[tab[p.of + 1].of][p.j] ELSE p.d
Behind(p) == IF p.k = "kid" THEN <<>> ELSE After(p.d, p.then)

(* The Writer's position of one of these. *)
Plain(tab, p) ==
  IF p.k = "name" THEN StrAt(TextOf(tab[p.of + 1].of, p.j))
  ELSE IF p.k = "kid" THEN DescAt(DescOf(tab, p), "kid") ELSE p

KidParts(o, d) ==
  IF Kind[d] = "struct"
  THEN [q \in 1 .. 2 * Len(Kids[d]) |->
         IF q % 2 = 1 THEN NameAt(o, (q + 1) \div 2) ELSE KidAt(o, q \div 2)]
  ELSE [i \in 1 .. Len(Kids[d]) |-> KidAt(o, i)]

Parts(o, d) == <<NameAt(o, 0)>> \o KidParts(o, d)

Owned(tab, c, o) == o \in Nat /\ o < c /\ tab[o + 1].sort = "desc"

PosOK(tab, c, p) ==
  /\ Slot(p) => Owned(tab, c, p.of)
  /\ p.k = "name" => p.j <= Len(Fields[tab[p.of + 1].of])
  /\ p.k = "kid" => p.j \in 1 .. Len(Kids[tab[p.of + 1].of])
  /\ p.k = "view" => p.id < c /\ tab[p.id + 1].sort = "array"

InTurn(a) == \A x, y \in 1 .. Len(a) :
  x < y /\ Slot(a[x]) /\ a[x].k = a[y].k /\ a[x].of = a[y].of => a[x].j < a[y].j

SlotsFirst(a) == \A x, y \in 1 .. Len(a) : x < y /\ Slot(a[y]) => Slot(a[x])

(* What a REF or VIEW names. *)
TokOK(tab, c, tk) ==
  tk.t \in {"ref", "view"} =>
    /\ tk.x < c /\ tab[tk.x + 1].sort = tk.sort
    /\ IF tk.sort = "desc" THEN Alike(tab[tk.x + 1].of, tk.of)
       ELSE tab[tk.x + 1].of = tk.of

Stage(w, tab, h) ==
  /\ h \in Moment /\ h.n <= Len(w) /\ h.c <= Len(tab)
  /\ \A x \in 1 .. Len(h.a) : PosOK(tab, h.c, h.a[x])
  /\ InTurn(h.a) /\ SlotsFirst(h.a)
  /\ \A i \in 1 .. h.n : TokOK(tab, h.c, w[i])
  /\ h.n < Len(w) => w[h.n + 1].t # "path"

(* The steps from one moment to the next. *)
Turn(g, h, more, n, c) ==
  h = [a |-> more \o Tail(g.a), n |-> g.n + n, c |-> g.c + c]

StepValue(g, h) ==
  \E d \in Descs : g.a = <<>> /\ h = [a |-> <<DescAt(d, "body")>>, n |-> g.n, c |-> g.c]

StepDescLit(w, tab, g, h) ==
  LET p == Head(g.a)
      d == DescOf(tab, p)
  IN  /\ p.k \in {"kid", "desc"}
      /\ w[g.n + 1] = [t |-> "desc", x |-> Kind[d], n |-> Len(Kids[d])]
      /\ tab[g.c + 1] = Entry("desc", d)
      /\ Turn(g, h, Parts(g.c, d) \o Behind(p), 1, 1)

Names(tab, c, id, d) == Owned(tab, c, id) /\ Alike(tab[id + 1].of, d)

StepDescRef(w, tab, g, h) ==
  LET p == Head(g.a)
      d == DescOf(tab, p)
  IN  /\ p.k \in {"kid", "desc"}
      /\ \E id \in 0 .. g.c - 1 : Names(tab, g.c, id, d) /\ w[g.n + 1] = Ref(id, "desc", d)
      /\ Turn(g, h, Behind(p), 1, 0)

(* A repeat of the record of an id, and a fresh record. *)
Again(w, tab, g, tk) ==
  /\ tk.x \in 0 .. g.c - 1 /\ w[g.n + 1] = tk
  /\ tab[tk.x + 1] = Entry(tk.sort, tk.of)

TextLit(w, tab, g, h, s) ==
  /\ w[g.n + 1] = Lit("str", s) /\ tab[g.c + 1] = Entry("str", s) /\ Turn(g, h, <<>>, 1, 1)

TextRef(w, tab, g, h, s) ==
  /\ \E id \in 0 .. g.c - 1 : Again(w, tab, g, Ref(id, "str", s))
  /\ Turn(g, h, <<>>, 1, 0)

StepName(w, tab, g, h) ==
  LET p == Head(g.a)
      s == TextOf(tab[p.of + 1].of, p.j)
  IN  p.k = "name" /\ (TextLit(w, tab, g, h, s) \/ TextRef(w, tab, g, h, s))

StepOpen(tab, g, h) ==
  LET p == Head(g.a)
  IN  p.k = "open" /\ tab[g.c + 1] = Entry("value", p.d) /\ Turn(g, h, <<>>, 0, 1)

StepView(w, tab, g, h) ==
  LET p == Head(g.a)
  IN  p.k = "view" /\ w[g.n + 1] = View(p.id, tab[p.id + 1].of) /\ Turn(g, h, <<>>, 1, 0)

BodyIs(g, kind) == Head(g.a).k = "body" /\ Kind[Head(g.a).d] = kind

StepText(w, tab, dr, g, h) ==
  /\ BodyIs(g, "string")
  /\ \E s \in DOMAIN Hash :
       \/ TextLit(w, tab, g, h, s)
       \/ TextRef(w, tab, g, h, s) /\ (Head(g.a).held => dr = {})

StepStruct(w, g, h) ==
  LET d == Head(g.a).d
  IN  /\ BodyIs(g, "struct") /\ w[g.n + 1] = Lit("struct", 0)
      /\ Turn(g, h, [i \in 1 .. Len(Kids[d]) |-> Body(Kids[d][i])], 1, 0)

StepNil(w, dr, g, h) ==
  LET p == Head(g.a)
  IN  /\ p.k = "body" /\ Kind[p.d] \in {"ptr", "map", "slice", "iface"}
      /\ p.held => dr = {} /\ Kind[p.d] # "ptr"
      /\ w[g.n + 1] = Lit("nil", Kind[p.d]) /\ Turn(g, h, <<>>, 1, 0)

StepMap(w, tab, dr, g, h) ==
  LET d == Head(g.a).d
  IN  /\ BodyIs(g, "map")
      /\ \/ /\ Head(g.a).held => dr = {}
            /\ \E id \in 0 .. g.c - 1 : Again(w, tab, g, Ref(id, "map", d))
            /\ Turn(g, h, <<>>, 1, 0)
         \/ \E n \in 0 .. 1 :
              /\ w[g.n + 1] = Lit("map", n) /\ tab[g.c + 1] = Entry("map", d)
              /\ Turn(g, h, IF n = 0 THEN <<>> ELSE <<Body(Kids[d][1]), Body(Kids[d][2])>>, 1, 1)

StepSlice(w, tab, g, h) ==
  LET d == Head(g.a).d
  IN  /\ BodyIs(g, "slice")
      /\ \/ /\ \E id \in 0 .. g.c - 1 : Again(w, tab, g, View(id, d))
            /\ Turn(g, h, <<>>, 1, 0)
         \/ \E n \in 0 .. 1 :
              /\ w[g.n + 1] = Lit("array", n) /\ tab[g.c + 1] = Entry("array", d)
              /\ Turn(g, h, [i \in 1 .. n |-> Body(Kids[d][1])] \o <<ViewOf(g.c)>>, 1, 1)

StepIface(g, h) ==
  BodyIs(g, "iface") /\ \E d \in Descs : Turn(g, h, <<DescAt(d, "body")>>, 0, 0)

Elem(g) == Kids[Head(g.a).d][1]

StepRepeat(w, tab, g, h) ==
  /\ BodyIs(g, "ptr")
  /\ \E id \in 0 .. g.c - 1 : Again(w, tab, g, Ref(id, "value", Elem(g)))
  /\ Turn(g, h, <<>>, 1, 0)

StepRecord(tab, g, h) ==
  /\ BodyIs(g, "ptr") /\ Kind[Elem(g)] # "ptr"
  /\ tab[g.c + 1] = Entry("value", Elem(g)) /\ Turn(g, h, <<Held(Elem(g))>>, 0, 1)

StepTag(g, h) ==
  /\ BodyIs(g, "ptr") /\ Kind[Elem(g)] = "ptr"
  /\ Turn(g, h, <<DescAt(Elem(g), "open")>>, 0, 0)

StepPath(w, tab, dr, g, h) ==
  /\ BodyIs(g, "ptr") /\ dr = {}
  /\ \E id \in 0 .. g.c - 1, x \in 0 .. g.c - 1, d \in Descs :
       /\ Again(w, tab, g, Ref(id, "value", d))
       /\ \E f \in 1 .. Len(Fields[d]) :
            /\ w[g.n + 2] = [t |-> "path", x |-> x, of |-> Fields[d][f]]
            /\ tab[x + 1] = Entry("str", Fields[d][f])
  /\ tab[g.c + 1] = Entry("value", Elem(g)) /\ Turn(g, h, <<>>, 2, 1)

Onward(w, tab, dr, g, h) ==
  \/ StepDescLit(w, tab, g, h) \/ StepDescRef(w, tab, g, h)
  \/ StepName(w, tab, g, h) \/ StepOpen(tab, g, h) \/ StepView(w, tab, g, h)
  \/ StepText(w, tab, dr, g, h) \/ StepStruct(w, g, h) \/ StepNil(w, dr, g, h)
  \/ StepMap(w, tab, dr, g, h) \/ StepSlice(w, tab, g, h) \/ StepIface(g, h)
  \/ StepRepeat(w, tab, g, h) \/ StepRecord(tab, g, h) \/ StepTag(g, h)
  \/ StepPath(w, tab, dr, g, h)

Goes(w, tab, dr, g, h) ==
  StepValue(g, h) \/ (g.a # <<>> /\ Onward(w, tab, dr, g, h))

Past(H, w, tab, dr) ==
  /\ w \in Seq(Token) /\ tab \in Seq(TabEntry)
  /\ H \in Seq(Moment) /\ H # <<>> /\ H[1] = [a |-> <<>>, n |-> 0, c |-> 0]
  /\ \A k \in 1 .. Len(H) : Stage(w, tab, H[k])
  /\ \A k \in 1 .. Len(H) - 1 : Goes(w, tab, dr, H[k], H[k + 1])
  /\ H[Len(H)].n = Len(w) /\ H[Len(H)].c = Len(tab)

(* What the Writer keeps, next to the past. *)

Pending(a, k, o, j) == \E x \in 1 .. Len(a) : a[x].k = k /\ a[x].of = o /\ a[x].j = j

OneName(tab) ==
  \A i, j \in 1 .. Len(tab) :
    tab[i].sort = "desc" /\ tab[j].sort = "desc" /\ Name[tab[i].of] = Name[tab[j].of] => i = j

Written(tab, d) == \E id \in 0 .. Len(tab) - 1 : Names(tab, Len(tab), id, d)

Has(st, s) == \E p \in Bound(st) : p[1] = s

StrsOK(tab, st) ==
  /\ StrTable(st)
  /\ \A p \in Bound(st) : p[2] \in 1 .. Len(tab) /\ tab[p[2]] = Entry("str", p[1])

ClaimsOK(tab, cl) ==
  /\ \A nm \in DOMAIN cl :
       /\ cl[nm].d \in Descs /\ Name[cl[nm].d] = nm
       /\ cl[nm].id \in 0 .. Len(tab) - 1 /\ tab[cl[nm].id + 1] = Entry("desc", cl[nm].d)
  /\ \A i \in 1 .. Len(tab) : tab[i].sort = "desc" => Name[tab[i].of] \in DOMAIN cl

LabelsOK(tab, a, st) ==
  \A i \in 1 .. Len(tab) : tab[i].sort = "desc" =>
    \A j \in 0 .. Len(Fields[tab[i].of]) :
      Pending(a, "name", i - 1, j) \/ Has(st, TextOf(tab[i].of, j))

PartsOK(tab, a) ==
  \A i \in 1 .. Len(tab) : tab[i].sort = "desc" =>
    \A j \in 1 .. Len(Kids[tab[i].of]) :
      Pending(a, "kid", i - 1, j) \/ Written(tab, Kids[tab[i].of][j])

RecordsOK(tab, st) ==
  \A i \in 1 .. Len(tab) : tab[i].sort = "value" =>
    \A j \in 1 .. Len(Fields[tab[i].of]) : Has(st, Fields[tab[i].of][j])

BodiesOK(tab, a) == \A x \in 1 .. Len(a) : a[x].k \in {"body", "open"} => Written(tab, a[x].d)

WriterOK(tab, a, st, cl) ==
  /\ OneName(tab) /\ StrsOK(tab, st) /\ ClaimsOK(tab, cl) /\ LabelsOK(tab, a, st)
  /\ PartsOK(tab, a) /\ RecordsOK(tab, st) /\ BodiesOK(tab, a)

(* How the Reader's state goes with a moment. *)

REntry ==
  [sort : {"str"}, s : DOMAIN Hash]
  \cup [sort : {"desc"}, kind : Kinds, name : DOMAIN Hash \cup {""}, fields : Seq(DOMAIN Hash), kids : Seq(Nat)]
  \cup [sort : {"map", "array", "value"}, of : Nat, live : BOOLEAN]

RPosition ==
  [k : {"desc"}, kid : Nat, then : {"kid", "open", "body"}, skip : BOOLEAN]
  \cup [k : {"str"}, of : Nat, part : {"name", "field"}]
  \cup [k : {"body", "open"}, d : Nat, skip : BOOLEAN] \cup [k : {"view"}]

Fits(tab, dr, c, e, p) ==
  /\ p.k = "name" => e.k = "str" /\ e.of = p.of /\ e.part = IF p.j = 0 THEN "name" ELSE "field"
  /\ p.k = "kid" => e.k = "desc" /\ e.kid = p.of /\ e.then = "kid" /\ (e.skip => dr # {})
  /\ p.k = "desc" => e.k = "desc" /\ e.then = p.then /\ (e.skip => dr # {})
  /\ p.k \in {"body", "open"} => e.k = p.k /\ Names(tab, c, e.d, p.d) /\ (e.skip => dr # {})
  /\ p.k = "view" => e.k = "view"

HoldsDesc(tab, c, a, i, e) ==
  LET d == tab[i].of
  IN  /\ e.kind = Kind[d]
      /\ e.name = IF Pending(a, "name", i - 1, 0) THEN "" ELSE Name[d]
      /\ Len(e.fields) <= Len(Fields[d])
      /\ \A j \in 1 .. Len(e.fields) : e.fields[j] = Fields[d][j]
      /\ \A j \in 1 .. Len(Fields[d]) : Pending(a, "name", i - 1, j) <=> j > Len(e.fields)
      /\ Len(e.kids) <= Len(Kids[d])
      /\ \A j \in 1 .. Len(e.kids) : Names(tab, c, e.kids[j], Kids[d][j])
      /\ \A j \in 1 .. Len(Kids[d]) : Pending(a, "kid", i - 1, j) <=> j > Len(e.kids)

Holds(tab, dr, c, a, i, e) ==
  /\ e \in REntry /\ e.sort = tab[i].sort
  /\ e.sort = "str" => e.s = tab[i].of
  /\ e.sort = "desc" => HoldsDesc(tab, c, a, i, e)
  /\ e.sort \in {"map", "array", "value"} =>
       IF e.live THEN Names(tab, c, e.of, tab[i].of) /\ ~Pending(a, "name", e.of, 0)
       ELSE dr # {}

Match(tab, dr, rt, ex, ps, h) ==
  /\ ps = h.n /\ rt \in Seq(REntry) /\ Len(rt) = h.c
  /\ ex \in Seq(RPosition) /\ Len(ex) = Len(h.a)
  /\ \A x \in 1 .. Len(ex) : Fits(tab, dr, h.c, ex[x], h.a[x])
  /\ \A i \in 1 .. Len(rt) : Holds(tab, dr, h.c, h.a, i, rt[i])

(* The forms of a position. *)
LEMMA PositionForm ==
  ASSUME NEW p \in Position
  PROVE  /\ p.k \in {"name", "kid", "desc", "body", "open", "view"}
         /\ Slot(p) => p.of \in Nat /\ p.j \in Nat
         /\ p.k = "desc" => p.d \in Descs /\ p.then \in {"open", "body"}
         /\ p.k = "body" => p.d \in Descs /\ p.held \in BOOLEAN
         /\ p.k = "open" => p.d \in Descs
         /\ p.k = "view" => p.id \in Nat
  BY DEF Position, Slot

LEMMA PositionMade ==
  /\ \A o, j \in Nat : NameAt(o, j) \in Position /\ KidAt(o, j) \in Position
  /\ \A d \in Descs : /\ Body(d) \in Position /\ Held(d) \in Position /\ Open(d) \in Position
                      /\ DescAt(d, "open") \in Position /\ DescAt(d, "body") \in Position
  /\ \A id \in Nat : ViewOf(id) \in Position
  BY DEF Position, NameAt, KidAt, Body, Held, Open, DescAt, ViewOf

LEMMA PartForm ==
  /\ \A o, j : NameAt(o, j).k = "name" /\ NameAt(o, j).of = o /\ NameAt(o, j).j = j
  /\ \A o, j : KidAt(o, j).k = "kid" /\ KidAt(o, j).of = o /\ KidAt(o, j).j = j
  BY DEF NameAt, KidAt

LEMMA Halves ==
  ASSUME NEW n \in Nat
  PROVE  /\ \A x \in 1 .. 2 * n : x % 2 = 1 => /\ (x + 1) \div 2 \in 1 .. n
                                               /\ x = 2 * ((x + 1) \div 2) - 1
         /\ \A x \in 1 .. 2 * n : x % 2 # 1 => x \div 2 \in 1 .. n /\ x = 2 * (x \div 2)
         /\ \A j \in 1 .. n : /\ 2 * j - 1 \in 1 .. 2 * n /\ (2 * j - 1) % 2 = 1
                              /\ ((2 * j - 1) + 1) \div 2 = j
         /\ \A j \in 1 .. n : 2 * j \in 1 .. 2 * n /\ (2 * j) % 2 # 1 /\ (2 * j) \div 2 = j
  OBVIOUS

LEMMA ConcatFacts ==
  ASSUME NEW S, NEW u \in Seq(S), NEW v \in Seq(S)
  PROVE  /\ u \o v \in Seq(S) /\ Len(u) \in Nat /\ Len(v) \in Nat /\ Len(u \o v) = Len(u) + Len(v)
         /\ \A x \in 1 .. Len(u) : (u \o v)[x] = u[x]
         /\ \A x \in 1 .. Len(v) : (u \o v)[Len(u) + x] = v[x]
         /\ \A x \in 1 .. Len(u \o v) :
              \/ x \in 1 .. Len(u) /\ (u \o v)[x] = u[x]
              \/ x - Len(u) \in 1 .. Len(v) /\ (u \o v)[x] = v[x - Len(u)]
  OBVIOUS

LEMMA TailFacts ==
  ASSUME NEW S, NEW u \in Seq(S), u # <<>>
  PROVE  /\ Tail(u) \in Seq(S) /\ Len(u) \in Nat /\ Len(u) >= 1 /\ Len(Tail(u)) = Len(u) - 1
         /\ \A x \in 1 .. Len(Tail(u)) : Tail(u)[x] = u[x + 1]
         /\ Head(u) = u[1] /\ Head(u) \in S
  OBVIOUS

LEMMA KidPartsFacts ==
  ASSUME NEW o \in Nat, NEW d \in Descs
  PROVE  /\ KidParts(o, d) \in Seq(Position)
         /\ Len(KidParts(o, d)) = IF Kind[d] = "struct" THEN 2 * Len(Kids[d]) ELSE Len(Kids[d])
         /\ \A x \in 1 .. Len(KidParts(o, d)) :
              \/ \E j \in 1 .. Len(Fields[d]) : KidParts(o, d)[x] = NameAt(o, j)
              \/ \E j \in 1 .. Len(Kids[d]) : KidParts(o, d)[x] = KidAt(o, j)
         /\ \A j \in 1 .. Len(Fields[d]) :
              \E x \in 1 .. Len(KidParts(o, d)) : KidParts(o, d)[x] = NameAt(o, j)
         /\ \A j \in 1 .. Len(Kids[d]) :
              \E x \in 1 .. Len(KidParts(o, d)) : KidParts(o, d)[x] = KidAt(o, j)
         /\ InTurn(KidParts(o, d))
<1>. DEFINE n == Len(Kids[d])
            K == KidParts(o, d)
<1>1. n \in Nat /\ Len(Fields[d]) = IF Kind[d] = "struct" THEN n ELSE 0
  BY KidFacts, DescFacts
<1>2. CASE Kind[d] = "struct"
  <2>1. K = [q \in 1 .. 2 * n |->
              IF q % 2 = 1 THEN NameAt(o, (q + 1) \div 2) ELSE KidAt(o, q \div 2)]
    BY <1>2 DEF KidParts
  <2>2. /\ \A x \in 1 .. 2 * n : x % 2 = 1 => /\ (x + 1) \div 2 \in 1 .. n
                                               /\ x = 2 * ((x + 1) \div 2) - 1
        /\ \A x \in 1 .. 2 * n : x % 2 # 1 => x \div 2 \in 1 .. n /\ x = 2 * (x \div 2)
        /\ \A j \in 1 .. n : /\ 2 * j - 1 \in 1 .. 2 * n /\ (2 * j - 1) % 2 = 1
                              /\ ((2 * j - 1) + 1) \div 2 = j
        /\ \A j \in 1 .. n : 2 * j \in 1 .. 2 * n /\ (2 * j) % 2 # 1 /\ (2 * j) \div 2 = j
    BY <1>1, Halves
  <2>. HIDE DEF n, K
  <2>3. /\ \A x \in 1 .. 2 * n : x % 2 = 1 => K[x] = NameAt(o, (x + 1) \div 2)
        /\ \A x \in 1 .. 2 * n : x % 2 # 1 => K[x] = KidAt(o, x \div 2)
    BY <2>1
  <2>4. \A x \in 1 .. 2 * n : K[x] \in Position
    BY <2>2, <2>3, PositionMade
  <2>5. 2 * n \in Nat /\ K = [x \in 1 .. 2 * n |-> K[x]]
    BY <1>1, <2>1
  <2>6. K \in Seq(Position) /\ Len(K) = 2 * n
    BY <2>4, <2>5
  <2>7. ASSUME NEW j \in 1 .. n PROVE K[2 * j - 1] = NameAt(o, j) /\ K[2 * j] = KidAt(o, j)
    <3>1. 2 * j - 1 \in 1 .. 2 * n /\ 2 * j \in 1 .. 2 * n
      BY <2>2
    <3>2. K[2 * j - 1] = NameAt(o, ((2 * j - 1) + 1) \div 2)
      BY <2>2, <2>3, <3>1
    <3>3. K[2 * j] = KidAt(o, (2 * j) \div 2)
      BY <2>2, <2>3, <3>1
    <3>. QED
      BY <3>2, <3>3, <2>2
  <2>8. InTurn(K)
    <3>. SUFFICES ASSUME NEW x \in 1 .. 2 * n, NEW y \in 1 .. 2 * n, x < y, K[x].k = K[y].k
                  PROVE  K[x].j < K[y].j
      BY <2>6 DEF InTurn
    <3>1. ASSUME NEW z \in 1 .. 2 * n, z % 2 = 1
          PROVE  K[z].k = "name" /\ z = 2 * K[z].j - 1 /\ K[z].j \in Nat
      <4>1. K[z] = NameAt(o, (z + 1) \div 2)
        BY <2>3, <3>1
      <4>2. K[z].k = "name" /\ K[z].j = (z + 1) \div 2
        BY <4>1, PartForm
      <4>. QED
        BY <2>2, <3>1, <4>2
    <3>2. ASSUME NEW z \in 1 .. 2 * n, z % 2 # 1
          PROVE  K[z].k = "kid" /\ z = 2 * K[z].j /\ K[z].j \in Nat
      <4>1. K[z] = KidAt(o, z \div 2)
        BY <2>3, <3>2
      <4>2. K[z].k = "kid" /\ K[z].j = z \div 2
        BY <4>1, PartForm
      <4>. QED
        BY <2>2, <3>2, <4>2
    <3>3. (x % 2 = 1) <=> (y % 2 = 1)
      BY <3>1, <3>2
    <3>4. CASE x % 2 = 1
      BY <3>1, <3>3, <3>4
    <3>5. CASE x % 2 # 1
      BY <3>2, <3>3, <3>5
    <3>. QED
      BY <3>4, <3>5
  <2>9. \A x \in 1 .. Len(K) : \/ \E j \in 1 .. n : K[x] = NameAt(o, j)
                               \/ \E j \in 1 .. n : K[x] = KidAt(o, j)
    BY <2>2, <2>3, <2>6
  <2>10. \A j \in 1 .. n : 2 * j \in 1 .. Len(K) /\ 2 * j - 1 \in 1 .. Len(K)
    BY <2>2, <2>6
  <2>11. Len(Fields[d]) = n
    BY <1>1, <1>2 DEF n
  <2>12. \A j \in 1 .. n : \E x \in 1 .. Len(K) : K[x] = NameAt(o, j)
    BY <2>7, <2>10
  <2>13. \A j \in 1 .. n : \E x \in 1 .. Len(K) : K[x] = KidAt(o, j)
    BY <2>7, <2>10
  <2>. QED
    BY <1>2, <2>6, <2>8, <2>9, <2>11, <2>12, <2>13 DEF n, K
<1>3. CASE Kind[d] # "struct"
  <2>1. K = [i \in 1 .. n |-> KidAt(o, i)]
    BY <1>3 DEF KidParts
  <2>. HIDE DEF n, K
  <2>2. \A x \in 1 .. n : K[x] = KidAt(o, x) /\ K[x] \in Position
    BY <2>1, <1>1, PositionMade
  <2>3. K = [x \in 1 .. n |-> K[x]]
    BY <2>1
  <2>4. K \in Seq(Position) /\ Len(K) = n
    BY <1>1, <2>2, <2>3
  <2>5. InTurn(K)
    BY <2>2, <2>4 DEF InTurn, KidAt
  <2>6. 1 .. Len(Fields[d]) = {}
    BY <1>1, <1>3
  <2>. QED
    BY <1>3, <2>2, <2>4, <2>5, <2>6 DEF n, K
<1>. QED
  BY <1>2, <1>3

-----------------------------------------------------------------------------
(***************************************************************************)
(* The positions of the Writer at a moment.                                *)
(***************************************************************************)

Image(tab, a) == [x \in 1 .. Len(a) |-> Plain(tab, a[x])]

(* The Writer's positions, one for each of the moment's. *)
LEMMA ImageForm ==
  ASSUME NEW tab, NEW a \in Seq(Position)
  PROVE  /\ Image(tab, a) \in Seq({Plain(tab, p) : p \in Position})
         /\ Len(Image(tab, a)) = Len(a) /\ Len(a) \in Nat
         /\ \A x \in 1 .. Len(a) : Image(tab, a)[x] = Plain(tab, a[x])
<1>1. \A x \in 1 .. Len(a) : a[x] \in Position
  OBVIOUS
<1>2. Len(a) \in Nat
  OBVIOUS
<1>. QED
  BY <1>1, <1>2 DEF Image

LEMMA ImageConcat ==
  ASSUME NEW tab, NEW u \in Seq(Position), NEW v \in Seq(Position)
  PROVE  Image(tab, u \o v) = Image(tab, u) \o Image(tab, v)
<1>. DEFINE S == {Plain(tab, p) : p \in Position}
            i == Image(tab, u)
            j == Image(tab, v)
            k == Image(tab, u \o v)
<1>1. /\ i \in Seq(S) /\ Len(i) = Len(u) /\ j \in Seq(S) /\ Len(j) = Len(v)
      /\ k \in Seq(S) /\ Len(k) = Len(u) + Len(v) /\ Len(u) \in Nat /\ Len(v) \in Nat
  <2>1. u \o v \in Seq(Position) /\ Len(u \o v) = Len(u) + Len(v)
    BY ConcatFacts
  <2>. QED
    BY <2>1, ImageForm
<1>2. \A x \in 1 .. Len(u) + Len(v) : k[x] = (i \o j)[x]
  <2>. SUFFICES ASSUME NEW x \in 1 .. Len(u) + Len(v)
                PROVE  k[x] = (i \o j)[x]
    OBVIOUS
  <2>0. u \o v \in Seq(Position) /\ Len(u \o v) = Len(u) + Len(v)
    BY ConcatFacts
  <2>1. k[x] = Plain(tab, (u \o v)[x])
    BY <2>0, ImageForm
  <2>2. CASE x <= Len(u)
    <3>1. x \in 1 .. Len(u)
      BY <2>2, <1>1
    <3>2. (u \o v)[x] = u[x]
      BY <3>1, ConcatFacts
    <3>3. i[x] = Plain(tab, u[x])
      BY <3>1, ImageForm
    <3>4. (i \o j)[x] = i[x]
      BY <3>1, <1>1, ConcatFacts
    <3>. QED
      BY <2>1, <3>2, <3>3, <3>4
  <2>3. CASE x > Len(u)
    <3>1. x - Len(u) \in 1 .. Len(v) /\ x = Len(u) + (x - Len(u))
      BY <2>3, <1>1
    <3>2. (u \o v)[x] = v[x - Len(u)]
      BY <3>1, ConcatFacts
    <3>3. j[x - Len(u)] = Plain(tab, v[x - Len(u)])
      BY <3>1, ImageForm
    <3>4. (i \o j)[x] = j[x - Len(u)]
      <4>1. x - Len(u) \in 1 .. Len(j) /\ x = Len(i) + (x - Len(u))
        BY <3>1, <1>1
      <4>. QED
        BY <4>1, <1>1, ConcatFacts
    <3>. QED
      BY <2>1, <3>2, <3>3, <3>4
  <2>. QED
    BY <2>2, <2>3, <1>1
<1>. HIDE DEF S, i, j, k
<1>3. i \o j \in Seq(S) /\ Len(i \o j) = Len(u) + Len(v)
  <2>1. i \in Seq(S) /\ j \in Seq(S)
    BY <1>1
  <2>2. i \o j \in Seq(S) /\ Len(i \o j) = Len(i) + Len(j)
    BY <2>1, ConcatFacts
  <2>. QED
    BY <1>1, <2>2
<1>4. k = i \o j
  BY SMTT(30), <1>1, <1>2, <1>3
<1>. QED
  BY <1>4 DEF i, j, k

LEMMA ImageTail ==
  ASSUME NEW tab, NEW u \in Seq(Position), u # <<>>
  PROVE  /\ Tail(Image(tab, u)) = Image(tab, Tail(u)) /\ Image(tab, u) # <<>>
         /\ Head(Image(tab, u)) = Plain(tab, Head(u))
<1>. DEFINE S == {Plain(tab, p) : p \in Position}
            i == Image(tab, u)
            k == Image(tab, Tail(u))
<1>1. /\ Tail(u) \in Seq(Position) /\ Len(u) \in Nat /\ Len(u) >= 1 /\ Len(Tail(u)) = Len(u) - 1
      /\ \A x \in 1 .. Len(Tail(u)) : Tail(u)[x] = u[x + 1]
      /\ Head(u) = u[1]
  BY TailFacts
<1>2. /\ i \in Seq(S) /\ Len(i) = Len(u) /\ k \in Seq(S) /\ Len(k) = Len(u) - 1
      /\ \A x \in 1 .. Len(u) : i[x] = Plain(tab, u[x])
      /\ \A x \in 1 .. Len(u) - 1 : k[x] = Plain(tab, u[x + 1])
  <2>1. /\ i \in Seq(S) /\ Len(i) = Len(u)
        /\ \A x \in 1 .. Len(u) : i[x] = Plain(tab, u[x])
    BY ZenonT(30), ImageForm
  <2>2. /\ k \in Seq(S) /\ Len(k) = Len(Tail(u))
        /\ \A x \in 1 .. Len(Tail(u)) : k[x] = Plain(tab, Tail(u)[x])
    BY ZenonT(40), <1>1, ImageForm
  <2>. HIDE DEF S, i, k
  <2>. QED
    BY <1>1, <2>1, <2>2
<1>. HIDE DEF S, i, k
<1>3. i # <<>>
  BY <1>1, <1>2
<1>4. Tail(i) \in Seq(S) /\ Len(Tail(i)) = Len(u) - 1 /\ \A x \in 1 .. Len(u) - 1 : Tail(i)[x] = i[x + 1]
  BY <1>1, <1>2, <1>3
<1>5. \A x \in 1 .. Len(u) - 1 : x + 1 \in 1 .. Len(u)
  BY <1>1
<1>6. Tail(i) = k
  BY SMTT(30), <1>1, <1>2, <1>4, <1>5
<1>7. Head(i) = Plain(tab, Head(u))
  BY <1>1, <1>2, <1>3
<1>. QED
  BY <1>3, <1>6, <1>7 DEF i, k

LEMMA ImageNoSlots ==
  ASSUME NEW tab, NEW u \in Seq(Position), NoSlots(u)
  PROVE  Image(tab, u) = u
<1>1. \A x \in 1 .. Len(u) : Plain(tab, u[x]) = u[x]
  BY DEF NoSlots, Slot, Plain
<1>2. Image(tab, u) \in Seq({Plain(tab, p) : p \in Position}) /\ Len(Image(tab, u)) = Len(u)
  BY ImageForm
<1>3. \A x \in 1 .. Len(u) : Image(tab, u)[x] = u[x]
  BY <1>1, ImageForm
<1>. QED
  BY <1>2, <1>3

(* The parts of a descriptor: its name, its fields' names and its type-    *)
(* refs.                                                                   *)
LEMMA PartsFacts ==
  ASSUME NEW o \in Nat, NEW d \in Descs
  PROVE  /\ Parts(o, d) \in Seq(Position) /\ KidParts(o, d) \in Seq(Position)
         /\ Len(Parts(o, d)) = 1 + Len(KidParts(o, d)) /\ Len(KidParts(o, d)) \in Nat
         /\ Parts(o, d)[1] = NameAt(o, 0)
         /\ \A x \in 1 .. Len(KidParts(o, d)) : Parts(o, d)[1 + x] = KidParts(o, d)[x]
<1>. DEFINE z == <<NameAt(o, 0)>>
<1>1. z \in Seq(Position) /\ Len(z) = 1 /\ z[1] = NameAt(o, 0)
  BY PositionMade
<1>2. KidParts(o, d) \in Seq(Position)
  BY KidPartsFacts
<1>. HIDE DEF z
<1>3. /\ z \o KidParts(o, d) \in Seq(Position) /\ Len(KidParts(o, d)) \in Nat
      /\ Len(z \o KidParts(o, d)) = 1 + Len(KidParts(o, d))
      /\ \A x \in 1 .. 1 : (z \o KidParts(o, d))[x] = z[x]
      /\ \A x \in 1 .. Len(KidParts(o, d)) : (z \o KidParts(o, d))[1 + x] = KidParts(o, d)[x]
  BY <1>1, <1>2, ConcatFacts
<1>4. Parts(o, d) = z \o KidParts(o, d)
  BY DEF Parts, z
<1>. QED
  BY <1>1, <1>2, <1>3, <1>4

LEMMA PartsSlots ==
  ASSUME NEW o \in Nat, NEW d \in Descs
  PROVE  /\ \A x \in 1 .. Len(Parts(o, d)) :
              \/ \E j \in 0 .. Len(Fields[d]) : Parts(o, d)[x] = NameAt(o, j)
              \/ \E j \in 1 .. Len(Kids[d]) : Parts(o, d)[x] = KidAt(o, j)
         /\ \A j \in 0 .. Len(Fields[d]) :
              \E x \in 1 .. Len(Parts(o, d)) : Parts(o, d)[x] = NameAt(o, j)
         /\ \A j \in 1 .. Len(Kids[d]) :
              \E x \in 1 .. Len(Parts(o, d)) : Parts(o, d)[x] = KidAt(o, j)
         /\ InTurn(Parts(o, d))
<1>. DEFINE P == Parts(o, d)
            K == KidParts(o, d)
<1>1. /\ Len(P) = 1 + Len(K) /\ Len(K) \in Nat /\ P[1] = NameAt(o, 0)
      /\ \A x \in 1 .. Len(K) : P[1 + x] = K[x]
  BY PartsFacts
<1>2. /\ \A x \in 1 .. Len(K) : \/ \E j \in 1 .. Len(Fields[d]) : K[x] = NameAt(o, j)
                                \/ \E j \in 1 .. Len(Kids[d]) : K[x] = KidAt(o, j)
      /\ \A j \in 1 .. Len(Fields[d]) : \E x \in 1 .. Len(K) : K[x] = NameAt(o, j)
      /\ \A j \in 1 .. Len(Kids[d]) : \E x \in 1 .. Len(K) : K[x] = KidAt(o, j)
      /\ InTurn(K)
  BY KidPartsFacts
<1>3. Len(Fields[d]) \in Nat /\ Len(Kids[d]) \in Nat
  BY KidFacts
<1>. HIDE DEF P, K
<1>4. \A x \in 1 .. Len(P) : x = 1 \/ (x - 1 \in 1 .. Len(K) /\ P[x] = K[x - 1])
  <2>1. ASSUME NEW x \in 1 .. Len(P), x # 1 PROVE x - 1 \in 1 .. Len(K) /\ P[x] = K[x - 1]
    <3>1. x - 1 \in 1 .. Len(K) /\ x = 1 + (x - 1)
      BY <1>1, <2>1
    <3>. QED
      BY <1>1, <3>1
  <2>. QED
    BY <2>1
<1>5. \A x \in 1 .. Len(K) : 1 + x \in 1 .. Len(P)
  BY <1>1
<1>6. \A x \in 1 .. Len(P) : \/ \E j \in 0 .. Len(Fields[d]) : P[x] = NameAt(o, j)
                             \/ \E j \in 1 .. Len(Kids[d]) : P[x] = KidAt(o, j)
  <2>1. \A j \in 1 .. Len(Fields[d]) : j \in 0 .. Len(Fields[d])
    BY <1>3
  <2>2. 0 \in 0 .. Len(Fields[d])
    BY <1>3
  <2>. QED
    BY ZenonT(40), <1>1, <1>2, <1>4, <2>1, <2>2
<1>7. \A j \in 0 .. Len(Fields[d]) : \E x \in 1 .. Len(P) : P[x] = NameAt(o, j)
  <2>1. 1 \in 1 .. Len(P)
    BY <1>1
  <2>2. \A j \in 0 .. Len(Fields[d]) : j = 0 \/ j \in 1 .. Len(Fields[d])
    BY <1>3
  <2>. QED
    BY ZenonT(40), <1>1, <1>2, <1>5, <2>1, <2>2
<1>8. \A j \in 1 .. Len(Kids[d]) : \E x \in 1 .. Len(P) : P[x] = KidAt(o, j)
  BY ZenonT(40), <1>1, <1>2, <1>5
<1>9. InTurn(P)
  <2>. SUFFICES ASSUME NEW x \in 1 .. Len(P), NEW y \in 1 .. Len(P), x < y, Slot(P[x]),
                       P[x].k = P[y].k, P[x].of = P[y].of
                PROVE  P[x].j < P[y].j
    BY DEF InTurn
  <2>1. y - 1 \in 1 .. Len(K) /\ P[y] = K[y - 1] /\ y # 1
    BY <1>1, <1>4
  <2>2. CASE x = 1
    <3>1. P[x].k = "name" /\ P[x].j = 0
      BY <1>1, <2>2, PartForm
    <3>2. P[y].k # "kid"
      BY <3>1
    <3>3. \E j \in 1 .. Len(Fields[d]) : P[y] = NameAt(o, j)
      BY <1>2, <2>1, <3>2, PartForm
    <3>4. PICK j \in 1 .. Len(Fields[d]) : P[y] = NameAt(o, j)
      BY <3>3
    <3>5. P[y].j = j
      BY <3>4, PartForm
    <3>. QED
      BY <3>1, <3>5, <1>3
  <2>3. CASE x # 1
    <3>1. x - 1 \in 1 .. Len(K) /\ P[x] = K[x - 1] /\ x - 1 < y - 1
      BY <1>1, <1>4, <2>3
    <3>. QED
      BY <1>2, <2>1, <3>1 DEF InTurn
  <2>. QED
    BY <2>2, <2>3
<1>. QED
  BY <1>6, <1>7, <1>8, <1>9 DEF P, K

-----------------------------------------------------------------------------
(***************************************************************************)
(* The parts of a descriptor, as both sides list them.                     *)
(***************************************************************************)

(* The Writer lists the parts (writeDescOf) ... *)
LEMMA ChildrenImage ==
  ASSUME NEW tab, NEW o \in Nat, NEW d \in Descs, tab[o + 1].of = d
  PROVE  Image(tab, Parts(o, d)) = <<StrAt(Name[d])>> \o Children(d)
<1>. DEFINE n == Len(Kids[d])
            K == KidParts(o, d)
            z == <<NameAt(o, 0)>>
<1>0. n \in Nat
  BY KidFacts
<1>1. Image(tab, K) = Children(d)
  <2>1. CASE Kind[d] = "struct"
    <3>1. K = [q \in 1 .. 2 * n |->
                IF q % 2 = 1 THEN NameAt(o, (q + 1) \div 2) ELSE KidAt(o, q \div 2)]
      BY <2>1 DEF KidParts
    <3>2. Children(d) = [q \in 1 .. 2 * n |->
                          IF q % 2 = 1 THEN StrAt(Fields[d][(q + 1) \div 2])
                          ELSE DescAt(Kids[d][q \div 2], "kid")]
      BY <2>1 DEF Children
    <3>3. Len(K) = 2 * n
      BY <2>1, KidPartsFacts
    <3>4. /\ \A x \in 1 .. 2 * n : x % 2 = 1 => (x + 1) \div 2 \in 1 .. n
          /\ \A x \in 1 .. 2 * n : x % 2 # 1 => x \div 2 \in 1 .. n
      BY <1>0, Halves
    <3>. HIDE DEF n, K
    <3>5. ASSUME NEW q \in 1 .. 2 * n
          PROVE  Plain(tab, K[q]) = IF q % 2 = 1 THEN StrAt(Fields[d][(q + 1) \div 2])
                                    ELSE DescAt(Kids[d][q \div 2], "kid")
      <4>1. CASE q % 2 = 1
        <5>1. PICK j \in 1 .. n : j = (q + 1) \div 2
          BY <3>4, <4>1
        <5>2. K[q] = NameAt(o, j)
          BY <3>1, <4>1, <5>1
        <5>3. Plain(tab, K[q]) = StrAt(Fields[d][j])
          BY <5>2, PartForm, <1>0 DEF Plain, TextOf
        <5>. QED
          BY <4>1, <5>1, <5>3
      <4>2. CASE q % 2 # 1
        <5>1. PICK j \in 1 .. n : j = q \div 2
          BY <3>4, <4>2
        <5>2. K[q] = KidAt(o, j)
          BY <3>1, <4>2, <5>1
        <5>3. Plain(tab, K[q]) = DescAt(Kids[d][j], "kid")
          BY <5>2, PartForm DEF Plain, DescOf
        <5>. QED
          BY <4>2, <5>1, <5>3
      <4>. QED
        BY <4>1, <4>2
    <3>. QED
      BY <3>2, <3>3, <3>5 DEF Image
  <2>2. CASE Kind[d] # "struct"
    <3>1. K = [i \in 1 .. n |-> KidAt(o, i)] /\ Children(d) = [i \in 1 .. n |-> DescAt(Kids[d][i], "kid")]
      BY <2>2 DEF KidParts, Children
    <3>2. Len(K) = n
      BY <2>2, KidPartsFacts
    <3>. HIDE DEF n, K
    <3>3. \A q \in 1 .. n : Plain(tab, K[q]) = DescAt(Kids[d][q], "kid")
      BY <3>1, PartForm DEF Plain, DescOf
    <3>. QED
      BY <3>1, <3>2, <3>3 DEF Image
  <2>. QED
    BY <2>1, <2>2
<1>2. Image(tab, z) = <<StrAt(Name[d])>>
  <2>1. Plain(tab, NameAt(o, 0)) = StrAt(Name[d])
    BY PartForm DEF Plain, TextOf
  <2>2. Len(z) = 1 /\ z[1] = NameAt(o, 0)
    OBVIOUS
  <2>. HIDE DEF z
  <2>3. Image(tab, z) = [x \in 1 .. 1 |-> StrAt(Name[d])]
    BY <2>1, <2>2 DEF Image
  <2>. QED
    BY <2>3
<1>3. z \in Seq(Position) /\ K \in Seq(Position)
  BY PositionMade, KidPartsFacts
<1>4. Parts(o, d) = z \o K
  BY DEF Parts
<1>. HIDE DEF z, K
<1>5. Image(tab, z \o K) = Image(tab, z) \o Image(tab, K)
  BY <1>3, ImageConcat
<1>. QED
  BY <1>1, <1>2, <1>4, <1>5

(* ... and the Reader expects them in the same order (readDescLit). *)
LEMMA RChildrenFacts ==
  ASSUME NEW o \in Nat, NEW d \in Descs, NEW skip \in BOOLEAN,
         NEW R, R = RChildren(o, Kind[d], Len(Kids[d]), skip)
  PROVE  /\ R \in Seq(RPosition) /\ Len(R) = Len(Parts(o, d))
         /\ \A x \in 1 .. Len(R) :
              LET p == Parts(o, d)[x]
              IN  /\ p.k = "name" => R[x] = RStr(o, IF p.j = 0 THEN "name" ELSE "field")
                  /\ p.k = "kid" => R[x] = RDesc(o, "kid", skip)
<1>. DEFINE n == Len(Kids[d])
            K == KidParts(o, d)
            z == <<RStr(o, "name")>>
            T == IF Kind[d] = "struct"
                 THEN [q \in 1 .. 2 * n |-> IF q % 2 = 1 THEN RStr(o, "field")
                                            ELSE RDesc(o, "kid", skip)]
                 ELSE [i \in 1 .. n |-> RDesc(o, "kid", skip)]
<1>0. n \in Nat
  BY KidFacts
<1>1. RStr(o, "field") \in RPosition /\ RStr(o, "name") \in RPosition
        /\ RDesc(o, "kid", skip) \in RPosition
  BY DEF RPosition, RStr, RDesc
<1>2. T \in Seq(RPosition) /\ Len(T) = Len(K)
  <2>1. CASE Kind[d] = "struct"
    <3>1. Len(K) = 2 * n /\ 2 * n \in Nat
      BY <1>0, <2>1, KidPartsFacts
    <3>. HIDE DEF n, K
    <3>. QED
      BY <1>1, <2>1, <3>1
  <2>2. CASE Kind[d] # "struct"
    <3>1. Len(K) = n
      BY <2>2, KidPartsFacts
    <3>. HIDE DEF n, K
    <3>. QED
      BY <1>0, <1>1, <2>2, <3>1
  <2>. QED
    BY <2>1, <2>2
<1>3. \A x \in 1 .. Len(K) :
        /\ K[x].k = "name" => K[x].j # 0 /\ T[x] = RStr(o, "field")
        /\ K[x].k = "kid" => T[x] = RDesc(o, "kid", skip)
  <2>1. CASE Kind[d] = "struct"
    <3>1. K = [q \in 1 .. 2 * n |->
                IF q % 2 = 1 THEN NameAt(o, (q + 1) \div 2) ELSE KidAt(o, q \div 2)]
      BY <2>1 DEF KidParts
    <3>2. T = [q \in 1 .. 2 * n |-> IF q % 2 = 1 THEN RStr(o, "field")
                                   ELSE RDesc(o, "kid", skip)]
      BY <2>1
    <3>3. Len(K) = 2 * n
      BY <2>1, KidPartsFacts
    <3>4. /\ \A x \in 1 .. 2 * n : x % 2 = 1 => (x + 1) \div 2 \in 1 .. n
          /\ \A x \in 1 .. 2 * n : x % 2 # 1 => x \div 2 \in 1 .. n
      BY <1>0, Halves
    <3>. HIDE DEF n, K, T
    <3>. SUFFICES ASSUME NEW q \in 1 .. 2 * n
                  PROVE  /\ K[q].k = "name" => K[q].j # 0 /\ T[q] = RStr(o, "field")
                         /\ K[q].k = "kid" => T[q] = RDesc(o, "kid", skip)
      BY <3>3
    <3>5. CASE q % 2 = 1
      <4>1. PICK j \in 1 .. n : j = (q + 1) \div 2
        BY <3>4, <3>5
      <4>2. K[q] = NameAt(o, j) /\ T[q] = RStr(o, "field")
        BY <3>1, <3>2, <3>5, <4>1
      <4>3. K[q].k = "name" /\ K[q].j = j
        BY <4>2, PartForm
      <4>. QED
        BY <4>2, <4>3
    <3>6. CASE q % 2 # 1
      <4>1. PICK j \in 1 .. n : j = q \div 2
        BY <3>4, <3>6
      <4>2. K[q] = KidAt(o, j) /\ T[q] = RDesc(o, "kid", skip)
        BY <3>1, <3>2, <3>6, <4>1
      <4>3. K[q].k = "kid"
        BY <4>2, PartForm
      <4>. QED
        BY <4>2, <4>3
    <3>. QED
      BY <3>5, <3>6
  <2>2. CASE Kind[d] # "struct"
    <3>1. K = [i \in 1 .. n |-> KidAt(o, i)] /\ T = [i \in 1 .. n |-> RDesc(o, "kid", skip)]
      BY <2>2 DEF KidParts
    <3>2. Len(K) = n
      BY <2>2, KidPartsFacts
    <3>. HIDE DEF n, K, T
    <3>. QED
      BY <3>1, <3>2, PartForm
  <2>. QED
    BY <2>1, <2>2
<1>4. z \in Seq(RPosition) /\ Len(z) = 1 /\ z[1] = RStr(o, "name")
  BY <1>1
<1>5. R = z \o T
  BY DEF RChildren
<1>. HIDE DEF z, T
<1>6. /\ R \in Seq(RPosition) /\ Len(R) = 1 + Len(T) /\ Len(T) \in Nat
      /\ \A x \in 1 .. 1 : R[x] = z[x]
      /\ \A x \in 1 .. Len(T) : R[1 + x] = T[x]
  <2>1. z \in Seq(RPosition) /\ T \in Seq(RPosition)
    BY <1>2, <1>4
  <2>2. /\ z \o T \in Seq(RPosition) /\ Len(z \o T) = Len(z) + Len(T) /\ Len(T) \in Nat
        /\ \A x \in 1 .. Len(z) : (z \o T)[x] = z[x]
        /\ \A x \in 1 .. Len(T) : (z \o T)[Len(z) + x] = T[x]
    BY <2>1, ConcatFacts
  <2>. QED
    BY <1>4, <1>5, <2>2
<1>7. /\ Len(Parts(o, d)) = 1 + Len(K) /\ Parts(o, d)[1] = NameAt(o, 0)
      /\ \A x \in 1 .. Len(K) : Parts(o, d)[1 + x] = K[x]
  BY PartsFacts
<1>. HIDE DEF K
<1>8. ASSUME NEW x \in 1 .. Len(R)
      PROVE  /\ Parts(o, d)[x].k = "name" =>
                  R[x] = RStr(o, IF Parts(o, d)[x].j = 0 THEN "name" ELSE "field")
             /\ Parts(o, d)[x].k = "kid" => R[x] = RDesc(o, "kid", skip)
  <2>1. CASE x = 1
    <3>1. Parts(o, d)[x].k = "name" /\ Parts(o, d)[x].j = 0 /\ R[x] = RStr(o, "name")
      BY <1>4, <1>6, <1>7, <2>1, PartForm
    <3>. QED
      BY <3>1
  <2>2. CASE x # 1
    <3>1. x - 1 \in 1 .. Len(K) /\ x = 1 + (x - 1)
      BY <1>2, <1>6, <2>2
    <3>2. Parts(o, d)[x] = K[x - 1] /\ R[x] = T[x - 1]
      BY <1>2, <1>6, <1>7, <3>1
    <3>. QED
      BY <1>3, <3>1, <3>2
  <2>. QED
    BY <2>1, <2>2
<1>. QED
  BY <1>2, <1>6, <1>7, <1>8

-----------------------------------------------------------------------------
(***************************************************************************)
(* A past stays one when tokens and ids are added.                         *)
(***************************************************************************)

Grows(s, s2) == Len(s) <= Len(s2) /\ \A i \in 1 .. Len(s) : s2[i] = s[i]

LEMMA TokenForm ==
  ASSUME NEW tk \in Token
  PROVE  tk.t \in {"ref", "view"} => tk.x \in Nat /\ tk.sort \in Sorts
  BY DEF Token

LEMMA PosGrows ==
  ASSUME NEW tab \in Seq(TabEntry), NEW tab2 \in Seq(TabEntry), Grows(tab, tab2),
         NEW c \in Nat, NEW c2 \in Nat, c <= Len(tab), c <= c2, NEW p \in Position, PosOK(tab, c, p)
  PROVE  /\ PosOK(tab2, c2, p)
         /\ Plain(tab2, p) = Plain(tab, p)
         /\ p.k = "kid" => DescOf(tab2, p) = DescOf(tab, p)
         /\ p.k = "name" => tab2[p.of + 1] = tab[p.of + 1]
         /\ p.k = "view" => tab2[p.id + 1] = tab[p.id + 1]
<1>1. /\ Slot(p) => p.of \in Nat /\ p.j \in Nat
      /\ p.k = "view" => p.id \in Nat
  BY PositionForm
<1>2. Len(tab) \in Nat
  OBVIOUS
<1>3. Slot(p) => p.of < c /\ p.of + 1 \in 1 .. Len(tab)
  BY <1>1, <1>2 DEF PosOK, Owned
<1>4. Slot(p) => tab2[p.of + 1] = tab[p.of + 1]
  BY <1>3 DEF Grows
<1>5. p.k = "view" => p.id + 1 \in 1 .. Len(tab)
  BY <1>1, <1>2 DEF PosOK
<1>6. p.k = "view" => tab2[p.id + 1] = tab[p.id + 1]
  BY <1>5 DEF Grows
<1>7. PosOK(tab2, c2, p)
  BY SMTT(30), <1>1, <1>3, <1>4, <1>6 DEF PosOK, Owned, Slot
<1>. QED
  BY <1>4, <1>6, <1>7 DEF Plain, DescOf, Slot

LEMMA NamesGrows ==
  ASSUME NEW tab \in Seq(TabEntry), NEW tab2 \in Seq(TabEntry), Grows(tab, tab2),
         NEW c \in Nat, NEW c2 \in Nat, c <= Len(tab), c <= c2, NEW id, NEW d, Names(tab, c, id, d)
  PROVE  Names(tab2, c2, id, d)
<1>1. id \in Nat /\ id < c /\ Len(tab) \in Nat
  BY DEF Names, Owned
<1>2. id + 1 \in 1 .. Len(tab)
  BY <1>1
<1>3. tab2[id + 1] = tab[id + 1]
  BY <1>2 DEF Grows
<1>. QED
  BY <1>1, <1>3 DEF Names, Owned

LEMMA TokGrows ==
  ASSUME NEW tab \in Seq(TabEntry), NEW tab2 \in Seq(TabEntry), Grows(tab, tab2),
         NEW c \in Nat, NEW c2 \in Nat, c <= Len(tab), c <= c2, NEW tk \in Token, TokOK(tab, c, tk)
  PROVE  TokOK(tab2, c2, tk)
<1>. SUFFICES ASSUME tk.t \in {"ref", "view"} PROVE TokOK(tab2, c2, tk)
  BY DEF TokOK
<1>1. tk.x \in Nat /\ tk.x < c /\ Len(tab) \in Nat
  BY TokenForm DEF TokOK
<1>2. tk.x + 1 \in 1 .. Len(tab)
  BY <1>1
<1>3. tab2[tk.x + 1] = tab[tk.x + 1]
  BY <1>2 DEF Grows
<1>. QED
  BY <1>1, <1>3 DEF TokOK

LEMMA MomentForm ==
  ASSUME NEW h \in Moment
  PROVE  /\ h.a \in Seq(Position) /\ h.n \in Nat /\ h.c \in Nat /\ Len(h.a) \in Nat
         /\ \A x \in 1 .. Len(h.a) : h.a[x] \in Position
<1>1. h.a \in Seq(Position) /\ h.n \in Nat /\ h.c \in Nat
  BY DEF Moment
<1>. QED
  BY <1>1

(* A moment and a step of a past are one of a longer past. *)
LEMMA StageGrows ==
  ASSUME NEW w \in Seq(Token), NEW w2 \in Seq(Token), Grows(w, w2),
         NEW tab \in Seq(TabEntry), NEW tab2 \in Seq(TabEntry), Grows(tab, tab2),
         NEW h, Stage(w, tab, h),
         h.n = Len(w) /\ Len(w) < Len(w2) => w2[Len(w) + 1].t # "path"
  PROVE  Stage(w2, tab2, h)
<1>1. /\ h \in Moment /\ h.n <= Len(w) /\ h.c <= Len(tab) /\ Len(w) \in Nat /\ Len(tab) \in Nat
      /\ Len(w2) \in Nat /\ Len(tab2) \in Nat
  BY DEF Stage
<1>2. /\ h.a \in Seq(Position) /\ h.n \in Nat /\ h.c \in Nat
      /\ \A x \in 1 .. Len(h.a) : h.a[x] \in Position
  BY <1>1, MomentForm
<1>3. h.n <= Len(w2) /\ h.c <= Len(tab2)
  BY <1>1, <1>2 DEF Grows
<1>4. \A x \in 1 .. Len(h.a) : PosOK(tab2, h.c, h.a[x])
  <2>1. ASSUME NEW x \in 1 .. Len(h.a) PROVE PosOK(tab2, h.c, h.a[x])
    <3>1. h.a[x] \in Position /\ PosOK(tab, h.c, h.a[x])
      BY <1>2 DEF Stage
    <3>. QED
      BY <1>1, <1>2, <3>1, PosGrows
  <2>. QED
    BY <2>1
<1>5. \A i \in 1 .. h.n : TokOK(tab2, h.c, w2[i])
  <2>1. ASSUME NEW i \in 1 .. h.n PROVE TokOK(tab2, h.c, w2[i])
    <3>1. i \in 1 .. Len(w) /\ w2[i] = w[i] /\ w[i] \in Token
      BY <1>1, <1>2 DEF Grows
    <3>2. TokOK(tab, h.c, w[i])
      BY DEF Stage
    <3>3. TokOK(tab2, h.c, w[i])
      BY <1>1, <1>2, <3>1, <3>2, TokGrows
    <3>. QED
      BY <3>1, <3>3
  <2>. QED
    BY <2>1
<1>6. h.n < Len(w2) => w2[h.n + 1].t # "path"
  <2>1. CASE h.n < Len(w)
    <3>1. h.n + 1 \in 1 .. Len(w)
      BY <1>1, <1>2, <2>1
    <3>2. w2[h.n + 1] = w[h.n + 1]
      BY <3>1 DEF Grows
    <3>. QED
      BY <2>1, <3>2 DEF Stage
  <2>2. CASE h.n = Len(w)
    BY <2>2
  <2>. QED
    BY <1>1, <1>2, <2>1, <2>2
<1>. QED
  BY <1>1, <1>3, <1>4, <1>5, <1>6 DEF Stage

LEMMA TurnForm ==
  ASSUME NEW g, NEW h, NEW more, NEW n, NEW c, Turn(g, h, more, n, c)
  PROVE  h.a = more \o Tail(g.a) /\ h.n = g.n + n /\ h.c = g.c + c
  BY DEF Turn

LEMMA GoesGrows ==
  ASSUME NEW w \in Seq(Token), NEW w2 \in Seq(Token), Grows(w, w2),
         NEW tab \in Seq(TabEntry), NEW tab2 \in Seq(TabEntry), Grows(tab, tab2),
         NEW g, Stage(w, tab, g), NEW h, Stage(w, tab, h), NEW dr, Goes(w, tab, dr, g, h)
  PROVE  Goes(w2, tab2, dr, g, h)
<1>1. /\ g \in Moment /\ h \in Moment /\ h.n <= Len(w) /\ h.c <= Len(tab) /\ g.c <= Len(tab)
      /\ g.n \in Nat /\ g.c \in Nat /\ h.n \in Nat /\ h.c \in Nat /\ Len(w) \in Nat /\ Len(tab) \in Nat
      /\ g.a \in Seq(Position)
  BY MomentForm DEF Stage
<1>2. CASE StepValue(g, h)
  BY <1>2 DEF Goes
<1>3. CASE g.a # <<>> /\ Onward(w, tab, dr, g, h)
  <2>0. Head(g.a) \in Position /\ PosOK(tab, g.c, Head(g.a))
    <3>1. Head(g.a) = g.a[1] /\ Head(g.a) \in Position /\ 1 \in 1 .. Len(g.a)
      BY <1>1, <1>3, TailFacts
    <3>. QED
      BY <3>1 DEF Stage
  <2>. DEFINE p == Head(g.a)
  <2>1. /\ p.k = "kid" => DescOf(tab2, p) = DescOf(tab, p)
        /\ p.k = "name" => tab2[p.of + 1] = tab[p.of + 1]
        /\ p.k = "view" => tab2[p.id + 1] = tab[p.id + 1]
    BY SMTT(30), <1>1, <2>0, PosGrows
  <2>2. p.k = "desc" => DescOf(tab2, p) = DescOf(tab, p)
    BY DEF DescOf
  <2>3. /\ h.n = g.n + 1 => w2[g.n + 1] = w[g.n + 1]
        /\ h.n = g.n + 2 => w2[g.n + 1] = w[g.n + 1] /\ w2[g.n + 2] = w[g.n + 2]
        /\ h.c = g.c + 1 => tab2[g.c + 1] = tab[g.c + 1]
        /\ \A id \in 0 .. g.c - 1 : tab2[id + 1] = tab[id + 1]
    <3>1. \A i \in 1 .. h.n : i \in 1 .. Len(w)
      BY <1>1
    <3>2. \A i \in 1 .. h.c : i \in 1 .. Len(tab)
      BY <1>1
    <3>3. \A id \in 0 .. g.c - 1 : id + 1 \in 1 .. Len(tab)
      BY <1>1
    <3>4. /\ h.n = g.n + 1 => g.n + 1 \in 1 .. h.n
          /\ h.n = g.n + 2 => g.n + 1 \in 1 .. h.n /\ g.n + 2 \in 1 .. h.n
          /\ h.c = g.c + 1 => g.c + 1 \in 1 .. h.c
      <4>1. \A i, j \in Nat : /\ j = i + 1 => i + 1 \in 1 .. j
                              /\ j = i + 2 => i + 1 \in 1 .. j /\ i + 2 \in 1 .. j
        OBVIOUS
      <4>2. g.n \in Nat /\ h.n \in Nat /\ g.c \in Nat /\ h.c \in Nat
        BY <1>1
      <4>. QED
        BY <4>1, <4>2
    <3>. QED
      BY <3>1, <3>2, <3>3, <3>4 DEF Grows
  <2>4. \A n, m \in 0 .. 2 : \A more : Turn(g, h, more, n, m) => h.n = g.n + n /\ h.c = g.c + m
    BY TurnForm
  <2>. HIDE DEF p
  <2>5. CASE StepDescLit(w, tab, g, h)
    <3>1. StepDescLit(w2, tab2, g, h)
      BY <2>1, <2>2, <2>3, <2>4, <2>5 DEF StepDescLit, p
    <3>. QED
      BY <1>3, <3>1 DEF Goes, Onward
  <2>6. CASE StepDescRef(w, tab, g, h)
    <3>1. /\ p.k \in {"kid", "desc"} /\ Turn(g, h, Behind(p), 1, 0)
          /\ \E id \in 0 .. g.c - 1 : Names(tab, g.c, id, DescOf(tab, p)) /\ w[g.n + 1] = Ref(id, "desc", DescOf(tab, p))
      BY <2>6 DEF StepDescRef, p
    <3>2. PICK id \in 0 .. g.c - 1 : Names(tab, g.c, id, DescOf(tab, p)) /\ w[g.n + 1] = Ref(id, "desc", DescOf(tab, p))
      BY <3>1
    <3>3. Names(tab2, g.c, id, DescOf(tab, p))
      BY <1>1, <3>2, NamesGrows
    <3>4. DescOf(tab2, p) = DescOf(tab, p) /\ w2[g.n + 1] = w[g.n + 1]
      BY <2>1, <2>2, <2>3, <2>4, <3>1
    <3>5. StepDescRef(w2, tab2, g, h)
      BY <3>1, <3>2, <3>3, <3>4 DEF StepDescRef, p
    <3>. QED
      BY <1>3, <3>5 DEF Goes, Onward
  <2>7. ASSUME NEW tk, Again(w, tab, g, tk), h.n = g.n + 1 \/ h.n = g.n + 2
        PROVE Again(w2, tab2, g, tk)
    BY <2>3, <2>7 DEF Again
  <2>8. ASSUME NEW s, TextLit(w, tab, g, h, s) PROVE TextLit(w2, tab2, g, h, s)
    BY <2>3, <2>4, <2>8 DEF TextLit
  <2>9. ASSUME NEW s, TextRef(w, tab, g, h, s) PROVE TextRef(w2, tab2, g, h, s)
    BY <2>4, <2>7, <2>9 DEF TextRef
  <2>10. CASE StepName(w, tab, g, h)
    <3>1. StepName(w2, tab2, g, h)
      BY <2>1, <2>8, <2>9, <2>10 DEF StepName, p
    <3>. QED
      BY <1>3, <3>1 DEF Goes, Onward
  <2>11. CASE StepOpen(tab, g, h)
    <3>1. StepOpen(tab2, g, h)
      BY <2>3, <2>4, <2>11 DEF StepOpen
    <3>. QED
      BY <1>3, <3>1 DEF Goes, Onward
  <2>12. CASE StepView(w, tab, g, h)
    <3>1. StepView(w2, tab2, g, h)
      BY <2>1, <2>3, <2>4, <2>12 DEF StepView, p
    <3>. QED
      BY <1>3, <3>1 DEF Goes, Onward
  <2>13. CASE StepText(w, tab, dr, g, h)
    <3>1. StepText(w2, tab2, dr, g, h)
      BY ZenonT(30), <2>8, <2>9, <2>13 DEF StepText
    <3>. QED
      BY <1>3, <3>1 DEF Goes, Onward
  <2>14. CASE StepStruct(w, g, h)
    <3>1. StepStruct(w2, g, h)
      BY <2>3, <2>4, <2>14 DEF StepStruct
    <3>. QED
      BY <1>3, <3>1 DEF Goes, Onward
  <2>15. CASE StepNil(w, dr, g, h)
    <3>1. StepNil(w2, dr, g, h)
      BY <2>3, <2>4, <2>15 DEF StepNil
    <3>. QED
      BY <1>3, <3>1 DEF Goes, Onward
  <2>16. CASE StepMap(w, tab, dr, g, h)
    <3>1. StepMap(w2, tab2, dr, g, h)
      BY <2>3, <2>4, <2>7, <2>16 DEF StepMap
    <3>. QED
      BY <1>3, <3>1 DEF Goes, Onward
  <2>17. CASE StepSlice(w, tab, g, h)
    <3>1. StepSlice(w2, tab2, g, h)
      BY <2>3, <2>4, <2>7, <2>17 DEF StepSlice
    <3>. QED
      BY <1>3, <3>1 DEF Goes, Onward
  <2>18. CASE StepIface(g, h)
    BY <1>3, <2>18 DEF Goes, Onward
  <2>19. CASE StepRepeat(w, tab, g, h)
    <3>1. StepRepeat(w2, tab2, g, h)
      BY <2>4, <2>7, <2>19 DEF StepRepeat
    <3>. QED
      BY <1>3, <3>1 DEF Goes, Onward
  <2>20. CASE StepRecord(tab, g, h)
    <3>1. StepRecord(tab2, g, h)
      BY <2>3, <2>4, <2>20 DEF StepRecord
    <3>. QED
      BY <1>3, <3>1 DEF Goes, Onward
  <2>21. CASE StepTag(g, h)
    BY <1>3, <2>21 DEF Goes, Onward
  <2>22. CASE StepPath(w, tab, dr, g, h)
    <3>1. h.n = g.n + 2 /\ h.c = g.c + 1
      BY <2>4, <2>22 DEF StepPath
    <3>2. PICK id \in 0 .. g.c - 1, x \in 0 .. g.c - 1, d \in Descs :
            /\ Again(w, tab, g, Ref(id, "value", d))
            /\ \E f \in 1 .. Len(Fields[d]) :
                 /\ w[g.n + 2] = [t |-> "path", x |-> x, of |-> Fields[d][f]]
                 /\ tab[x + 1] = Entry("str", Fields[d][f])
      BY <2>22 DEF StepPath
    <3>3. Again(w2, tab2, g, Ref(id, "value", d)) /\ w2[g.n + 2] = w[g.n + 2] /\ tab2[x + 1] = tab[x + 1]
            /\ tab2[g.c + 1] = tab[g.c + 1]
      BY <2>3, <2>7, <3>1, <3>2
    <3>4. StepPath(w2, tab2, dr, g, h)
      BY ZenonT(40), <2>22, <3>2, <3>3 DEF StepPath
    <3>. QED
      BY <1>3, <3>4 DEF Goes, Onward
  <2>. QED
    BY <1>3, <2>5, <2>6, <2>10, <2>11, <2>12, <2>13, <2>14, <2>15, <2>16, <2>17, <2>18, <2>19,
       <2>20, <2>21, <2>22 DEF Onward
<1>. QED
  BY <1>2, <1>3 DEF Goes

-----------------------------------------------------------------------------
(***************************************************************************)
(* The next moment of a past.                                              *)
(***************************************************************************)

LEMMA HeadSlots ==
  ASSUME NEW a \in Seq(Position), a # <<>>, SlotsFirst(a), ~Slot(Head(a))
  PROVE  NoSlots(a)
<1>1. Head(a) = a[1] /\ 1 \in 1 .. Len(a) /\ Len(a) \in Nat
  BY TailFacts
<1>2. \A y \in 1 .. Len(a) : y = 1 \/ 1 < y
  BY <1>1
<1>. QED
  BY <1>1, <1>2 DEF SlotsFirst, NoSlots

LEMMA TailSlots ==
  ASSUME NEW a \in Seq(Position), a # <<>>, NoSlots(a)
  PROVE  NoSlots(Tail(a))
<1>1. Len(a) \in Nat /\ Len(Tail(a)) = Len(a) - 1 /\ \A x \in 1 .. Len(Tail(a)) : Tail(a)[x] = a[x + 1]
  BY TailFacts
<1>2. \A x \in 1 .. Len(Tail(a)) : x + 1 \in 1 .. Len(a)
  BY <1>1
<1>. QED
  BY <1>1, <1>2 DEF NoSlots

LEMMA ConcatSlots ==
  ASSUME NEW u \in Seq(Position), NEW v \in Seq(Position), NoSlots(u), NoSlots(v)
  PROVE  NoSlots(u \o v)
  BY ConcatFacts DEF NoSlots

LEMMA NoSlotsOrder ==
  ASSUME NEW a, NoSlots(a)
  PROVE  InTurn(a) /\ SlotsFirst(a)
  BY DEF NoSlots, InTurn, SlotsFirst

(* The parts outstanding stay in their order, in front of everything       *)
(* else.                                                                   *)
LEMMA TurnOrder ==
  ASSUME NEW tab, NEW c \in Nat, NEW a \in Seq(Position), a # <<>>, InTurn(a), SlotsFirst(a),
         \A x \in 1 .. Len(a) : PosOK(tab, c, a[x]),
         NEW more \in Seq(Position), InTurn(more), SlotsFirst(more),
         \A x \in 1 .. Len(more) : Slot(more[x]) => more[x].of >= c,
         NoSlots(Tail(a)) \/ \A x \in 1 .. Len(more) : Slot(more[x])
  PROVE  InTurn(more \o Tail(a)) /\ SlotsFirst(more \o Tail(a))
<1>. DEFINE t == Tail(a)
            b == more \o t
            m == Len(more)
<1>1. /\ t \in Seq(Position) /\ Len(t) = Len(a) - 1 /\ Len(a) \in Nat /\ Len(a) >= 1
      /\ \A x \in 1 .. Len(t) : t[x] = a[x + 1]
  BY TailFacts
<1>2. /\ m \in Nat /\ Len(t) \in Nat /\ Len(b) = m + Len(t)
      /\ \A x \in 1 .. m : b[x] = more[x]
      /\ \A x \in 1 .. Len(t) : b[m + x] = t[x]
  BY <1>1, ConcatFacts
<1>. HIDE DEF t, b, m
<1>3. \A x \in 1 .. Len(b) : x > m => /\ x - m + 1 \in 1 .. Len(a) /\ b[x] = a[x - m + 1]
                                      /\ x - m \in 1 .. Len(t) /\ b[x] = t[x - m]
  <2>1. ASSUME NEW x \in 1 .. Len(b), x > m
        PROVE  /\ x - m + 1 \in 1 .. Len(a) /\ b[x] = a[x - m + 1]
               /\ x - m \in 1 .. Len(t) /\ b[x] = t[x - m]
    <3>1. x - m \in 1 .. Len(t) /\ x = m + (x - m) /\ x - m + 1 \in 1 .. Len(a)
      BY <1>1, <1>2, <2>1
    <3>2. b[x] = t[x - m]
      BY <1>2, <3>1
    <3>. QED
      BY <1>1, <3>1, <3>2
  <2>. QED
    BY <2>1
<1>4. \A x \in 1 .. Len(b) : x <= m => x \in 1 .. m /\ b[x] = more[x]
  BY <1>2
<1>5. \A x \in 1 .. Len(a) : Slot(a[x]) => a[x].of \in Nat /\ a[x].of < c
  BY DEF PosOK, Owned
<1>6. InTurn(b)
  <2>. SUFFICES ASSUME NEW x \in 1 .. Len(b), NEW y \in 1 .. Len(b), x < y, Slot(b[x]),
                       b[x].k = b[y].k, b[x].of = b[y].of
                PROVE  b[x].j < b[y].j
    BY DEF InTurn
  <2>0. Slot(b[y])
    BY DEF Slot
  <2>1. CASE y <= m
    <3>1. x <= m
      BY <2>1, <1>2
    <3>. QED
      BY ZenonT(30), <1>4, <2>1, <3>1 DEF InTurn, m
  <2>2. CASE x > m
    <3>1. y > m /\ x - m + 1 < y - m + 1
      BY <1>2, <2>2
    <3>. QED
      BY <1>3, <2>2, <3>1 DEF InTurn
  <2>3. CASE x <= m /\ y > m
    <3>1. b[x] = more[x] /\ x \in 1 .. m
      BY <1>4, <2>3
    <3>2. b[x].of >= c
      BY <3>1 DEF m
    <3>3. b[y].of < c /\ b[y].of \in Nat
      BY <1>3, <1>5, <2>0, <2>3
    <3>. QED
      BY <3>2, <3>3
  <2>. QED
    BY <1>2, <2>1, <2>2, <2>3
<1>7. SlotsFirst(b)
  <2>. SUFFICES ASSUME NEW x \in 1 .. Len(b), NEW y \in 1 .. Len(b), x < y, Slot(b[y])
                PROVE  Slot(b[x])
    BY DEF SlotsFirst
  <2>1. CASE y <= m
    <3>1. x <= m
      BY <2>1, <1>2
    <3>. QED
      BY <1>4, <2>1, <3>1 DEF SlotsFirst, m
  <2>2. CASE x > m
    <3>1. y > m /\ x - m + 1 < y - m + 1
      BY <1>2, <2>2
    <3>. QED
      BY <1>3, <2>2, <3>1 DEF SlotsFirst
  <2>3. CASE x <= m /\ y > m
    <3>1. ~NoSlots(t)
      BY <1>3, <2>3 DEF NoSlots
    <3>. QED
      BY <1>4, <2>3, <3>1 DEF t, m
  <2>. QED
    BY <1>2, <2>1, <2>2, <2>3
<1>. QED
  BY <1>6, <1>7 DEF b, t

LEMMA TurnStage ==
  ASSUME NEW w \in Seq(Token), NEW tab \in Seq(TabEntry), NEW g, Stage(w, tab, g), g.a # <<>>,
         NEW more \in Seq(Position), InTurn(more), SlotsFirst(more),
         g.c <= Len(tab), g.n <= Len(w),
         \A x \in 1 .. Len(more) : PosOK(tab, Len(tab), more[x]),
         \A x \in 1 .. Len(more) : Slot(more[x]) => more[x].of >= g.c,
         NoSlots(Tail(g.a)) \/ \A x \in 1 .. Len(more) : Slot(more[x]),
         \A i \in g.n + 1 .. Len(w) : TokOK(tab, Len(tab), w[i]),
         NEW h, h = [a |-> more \o Tail(g.a), n |-> Len(w), c |-> Len(tab)]
  PROVE  Stage(w, tab, h)
<1>1. /\ g \in Moment /\ g.a \in Seq(Position) /\ g.n \in Nat /\ g.c \in Nat
      /\ Len(w) \in Nat /\ Len(tab) \in Nat
  BY MomentForm DEF Stage
<1>2. /\ Tail(g.a) \in Seq(Position) /\ Len(Tail(g.a)) = Len(g.a) - 1
      /\ \A x \in 1 .. Len(Tail(g.a)) : Tail(g.a)[x] = g.a[x + 1]
      /\ Len(g.a) \in Nat
  BY <1>1, TailFacts
<1>3. /\ h.a \in Seq(Position) /\ h.n = Len(w) /\ h.c = Len(tab) /\ h.a = more \o Tail(g.a)
      /\ h \in Moment
  <2>1. more \o Tail(g.a) \in Seq(Position)
    BY <1>2, ConcatFacts
  <2>. QED
    BY <1>1, <2>1 DEF Moment
<1>4. \A x \in 1 .. Len(h.a) : PosOK(tab, h.c, h.a[x])
  <2>1. \A x \in 1 .. Len(Tail(g.a)) : PosOK(tab, Len(tab), Tail(g.a)[x])
    <3>1. ASSUME NEW x \in 1 .. Len(Tail(g.a)) PROVE PosOK(tab, Len(tab), Tail(g.a)[x])
      <4>1. x + 1 \in 1 .. Len(g.a)
        BY <1>2
      <4>2. PosOK(tab, g.c, g.a[x + 1]) /\ g.a[x + 1] \in Position
        BY <1>1, <4>1, MomentForm DEF Stage
      <4>3. Grows(tab, tab)
        BY <1>1 DEF Grows
      <4>. QED
        BY <1>1, <1>2, <4>2, <4>3, PosGrows
    <3>. QED
      BY <3>1
  <2>2. \A x \in 1 .. Len(h.a) : \/ x \in 1 .. Len(more) /\ h.a[x] = more[x]
                                 \/ x - Len(more) \in 1 .. Len(Tail(g.a)) /\ h.a[x] = Tail(g.a)[x - Len(more)]
    BY SMTT(30), <1>2, <1>3, ConcatFacts
  <2>. QED
    BY <1>3, <2>1, <2>2
<1>5. InTurn(h.a) /\ SlotsFirst(h.a)
  BY <1>1, <1>3, TurnOrder DEF Stage
<1>6. \A i \in 1 .. h.n : TokOK(tab, h.c, w[i])
  <2>1. ASSUME NEW i \in 1 .. Len(w) PROVE TokOK(tab, Len(tab), w[i])
    <3>1. CASE i \in 1 .. g.n
      <4>1. TokOK(tab, g.c, w[i]) /\ w[i] \in Token /\ Grows(tab, tab)
        BY <1>1, <3>1 DEF Stage, Grows
      <4>. QED
        BY <1>1, <4>1, TokGrows
    <3>2. CASE i \in g.n + 1 .. Len(w)
      BY <3>2
    <3>. QED
      BY <1>1, <3>1, <3>2
  <2>. QED
    BY <1>3, <2>1
<1>. QED
  BY <1>1, <1>3, <1>4, <1>5, <1>6 DEF Stage

LEMMA Longer ==
  ASSUME NEW S, NEW u \in Seq(S), NEW v \in Seq(S)
  PROVE  /\ u \o v \in Seq(S) /\ Grows(u, u \o v) /\ Len(u) \in Nat /\ Len(v) \in Nat
         /\ Len(u \o v) = Len(u) + Len(v)
         /\ \A i \in Len(u) + 1 .. Len(u \o v) :
              i - Len(u) \in 1 .. Len(v) /\ (u \o v)[i] = v[i - Len(u)]
<1>1. /\ u \o v \in Seq(S) /\ Len(u) \in Nat /\ Len(v) \in Nat /\ Len(u \o v) = Len(u) + Len(v)
      /\ \A x \in 1 .. Len(u) : (u \o v)[x] = u[x]
      /\ \A x \in 1 .. Len(v) : (u \o v)[Len(u) + x] = v[x]
  BY ConcatFacts
<1>2. ASSUME NEW i \in Len(u) + 1 .. Len(u \o v)
      PROVE i - Len(u) \in 1 .. Len(v) /\ (u \o v)[i] = v[i - Len(u)]
  <2>1. i - Len(u) \in 1 .. Len(v) /\ i = Len(u) + (i - Len(u))
    BY <1>1
  <2>. QED
    BY <1>1, <2>1
<1>. QED
  BY <1>1, <1>2 DEF Grows

LEMMA AppendFacts ==
  ASSUME NEW S, NEW s \in Seq(S), NEW x \in S
  PROVE  /\ Append(s, x) \in Seq(S) /\ Len(s) \in Nat /\ Len(Append(s, x)) = Len(s) + 1
         /\ Append(s, x)[Len(s) + 1] = x /\ Append(s, x) # <<>>
         /\ \A i \in 1 .. Len(s) : Append(s, x)[i] = s[i]
  OBVIOUS

(* A past with one more moment. *)
LEMMA PastGrows ==
  ASSUME NEW H, NEW w, NEW tab, NEW dr, Past(H, w, tab, dr),
         NEW w2 \in Seq(Token), Grows(w, w2), NEW tab2 \in Seq(TabEntry), Grows(tab, tab2),
         Len(w) < Len(w2) => w2[Len(w) + 1].t # "path",
         NEW h, Stage(w2, tab2, h), h.n = Len(w2), h.c = Len(tab2), Goes(w2, tab2, dr, H[Len(H)], h)
  PROVE  Past(Append(H, h), w2, tab2, dr)
<1>1. /\ w \in Seq(Token) /\ tab \in Seq(TabEntry) /\ H \in Seq(Moment) /\ H # <<>>
      /\ \A k \in 1 .. Len(H) : Stage(w, tab, H[k])
      /\ h \in Moment
  BY DEF Past, Stage
<1>. DEFINE G == Append(H, h)
<1>2. /\ G \in Seq(Moment) /\ Len(H) \in Nat /\ Len(G) = Len(H) + 1 /\ G[Len(H) + 1] = h /\ G # <<>>
      /\ \A i \in 1 .. Len(H) : G[i] = H[i]
  <2>1. H \in Seq(Moment) /\ h \in Moment
    BY <1>1
  <2>2. /\ Append(H, h) \in Seq(Moment) /\ Len(H) \in Nat /\ Len(Append(H, h)) = Len(H) + 1
        /\ Append(H, h)[Len(H) + 1] = h /\ Append(H, h) # <<>>
        /\ \A i \in 1 .. Len(H) : Append(H, h)[i] = H[i]
    BY <2>1, AppendFacts
  <2>. QED
    BY <2>2
<1>3. Len(H) >= 1
  BY <1>1, <1>2
<1>. HIDE DEF G
<1>4. ASSUME NEW k \in 1 .. Len(H) PROVE Stage(w2, tab2, H[k])
  <2>1. Stage(w, tab, H[k])
    BY <1>1
  <2>. QED
    BY <1>1, <2>1, StageGrows
<1>5. \A k \in 1 .. Len(G) : Stage(w2, tab2, G[k])
  <2>1. \A k \in 1 .. Len(G) : k \in 1 .. Len(H) \/ k = Len(H) + 1
    BY <1>2
  <2>. QED
    BY <1>2, <1>4, <2>1
<1>6. ASSUME NEW k \in 1 .. Len(G) - 1 PROVE Goes(w2, tab2, dr, G[k], G[k + 1])
  <2>1. CASE k = Len(H)
    <3>1. G[k] = H[Len(H)] /\ G[k + 1] = h
      BY <1>2, <1>3, <2>1
    <3>. QED
      BY <3>1
  <2>2. CASE k # Len(H)
    <3>1. k \in 1 .. Len(H) - 1 /\ k \in 1 .. Len(H) /\ k + 1 \in 1 .. Len(H)
      BY <1>2, <2>2
    <3>2. Goes(w, tab, dr, H[k], H[k + 1]) /\ Stage(w, tab, H[k]) /\ Stage(w, tab, H[k + 1])
      BY <1>1, <3>1 DEF Past
    <3>3. Goes(w2, tab2, dr, H[k], H[k + 1])
      BY <1>1, <3>2, GoesGrows
    <3>4. G[k] = H[k] /\ G[k + 1] = H[k + 1]
      BY <1>2, <3>1
    <3>. QED
      BY <3>3, <3>4
  <2>. QED
    BY <2>1, <2>2
<1>7. G[1] = H[1] /\ H[1] = [a |-> <<>>, n |-> 0, c |-> 0]
  BY <1>2, <1>3 DEF Past
<1>. QED
  BY <1>2, <1>5, <1>6, <1>7 DEF Past, G

LEMMA ImageGrows ==
  ASSUME NEW tab \in Seq(TabEntry), NEW tab2 \in Seq(TabEntry), Grows(tab, tab2),
         NEW a \in Seq(Position), \A x \in 1 .. Len(a) : PosOK(tab, Len(tab), a[x])
  PROVE  Image(tab2, a) = Image(tab, a)
<1>1. ASSUME NEW x \in 1 .. Len(a) PROVE Plain(tab2, a[x]) = Plain(tab, a[x])
  <2>1. a[x] \in Position /\ PosOK(tab, Len(tab), a[x]) /\ Len(tab) \in Nat
    OBVIOUS
  <2>. QED
    BY <2>1, PosGrows
<1>. QED
  BY <1>1 DEF Image

WriteOf(H, w, tab, dr, g, toks, recs, w2, tab2, more, h) ==
  /\ Past(H, w, tab, dr) /\ g = H[Len(H)] /\ g.a # <<>>
  /\ toks \in Seq(Token) /\ recs \in Seq(TabEntry)
  /\ w2 = w \o toks /\ tab2 = tab \o recs
  /\ toks # <<>> => toks[1].t # "path"
  /\ \A i \in 1 .. Len(toks) : TokOK(tab2, Len(tab2), toks[i])
  /\ more \in Seq(Position) /\ InTurn(more) /\ SlotsFirst(more)
  /\ \A x \in 1 .. Len(more) : PosOK(tab2, Len(tab2), more[x])
  /\ \A x \in 1 .. Len(more) : Slot(more[x]) => more[x].of >= Len(tab)
  /\ NoSlots(Tail(g.a)) \/ \A x \in 1 .. Len(more) : Slot(more[x])
  /\ h = [a |-> more \o Tail(g.a), n |-> Len(w2), c |-> Len(tab2)]
  /\ Onward(w2, tab2, dr, g, h)

LEMMA WriteStep ==
  ASSUME NEW H, NEW w, NEW tab, NEW dr, NEW g, NEW toks, NEW recs, NEW w2, NEW tab2, NEW more, NEW h,
         WriteOf(H, w, tab, dr, g, toks, recs, w2, tab2, more, h)
  PROVE  /\ Past(Append(H, h), w2, tab2, dr)
         /\ Image(tab2, h.a) = Image(tab2, more) \o Tail(Image(tab, g.a))
<1>0. /\ Past(H, w, tab, dr) /\ g = H[Len(H)] /\ g.a # <<>>
      /\ toks \in Seq(Token) /\ recs \in Seq(TabEntry)
      /\ w2 = w \o toks /\ tab2 = tab \o recs
      /\ toks # <<>> => toks[1].t # "path"
      /\ \A i \in 1 .. Len(toks) : TokOK(tab2, Len(tab2), toks[i])
      /\ more \in Seq(Position) /\ InTurn(more) /\ SlotsFirst(more)
      /\ \A x \in 1 .. Len(more) : PosOK(tab2, Len(tab2), more[x])
      /\ \A x \in 1 .. Len(more) : Slot(more[x]) => more[x].of >= Len(tab)
      /\ NoSlots(Tail(g.a)) \/ \A x \in 1 .. Len(more) : Slot(more[x])
      /\ h = [a |-> more \o Tail(g.a), n |-> Len(w2), c |-> Len(tab2)]
      /\ Onward(w2, tab2, dr, g, h)
  BY DEF WriteOf
<1>1. /\ w \in Seq(Token) /\ tab \in Seq(TabEntry) /\ H \in Seq(Moment) /\ H # <<>>
      /\ Stage(w, tab, g) /\ g.n = Len(w) /\ g.c = Len(tab)
  <2>1. H \in Seq(Moment) /\ H # <<>>
    BY <1>0 DEF Past
  <2>2. Len(H) \in 1 .. Len(H)
    BY <2>1
  <2>. QED
    BY <1>0, <2>1, <2>2 DEF Past
<1>2. /\ w2 \in Seq(Token) /\ Grows(w, w2) /\ Len(w) \in Nat /\ Len(toks) \in Nat
      /\ Len(w2) = Len(w) + Len(toks)
      /\ \A i \in Len(w) + 1 .. Len(w2) : i - Len(w) \in 1 .. Len(toks) /\ w2[i] = toks[i - Len(w)]
  BY <1>0, <1>1, Longer
<1>3. /\ tab2 \in Seq(TabEntry) /\ Grows(tab, tab2) /\ Len(tab) \in Nat /\ Len(recs) \in Nat
      /\ Len(tab2) = Len(tab) + Len(recs)
  BY <1>0, <1>1, Longer
<1>4. Len(w) < Len(w2) => w2[Len(w) + 1].t # "path"
  <2>. SUFFICES ASSUME Len(w) < Len(w2) PROVE w2[Len(w) + 1].t # "path"
    OBVIOUS
  <2>1. Len(w) + 1 \in Len(w) + 1 .. Len(w2) /\ Len(w) + 1 - Len(w) = 1
    BY <1>2
  <2>2. w2[Len(w) + 1] = toks[1] /\ 1 \in 1 .. Len(toks)
    BY <1>2, <2>1
  <2>3. toks # <<>>
    BY <2>2
  <2>. QED
    BY <1>0, <2>2, <2>3
<1>5. Stage(w2, tab2, g)
  BY <1>1, <1>2, <1>3, <1>4, StageGrows
<1>6. \A i \in g.n + 1 .. Len(w2) : TokOK(tab2, Len(tab2), w2[i])
  BY ZenonT(30), <1>0, <1>1, <1>2
<1>7. g.c <= Len(tab2) /\ g.n <= Len(w2)
  BY <1>1, <1>2, <1>3
<1>8. Stage(w2, tab2, h)
  <2>1. \A x \in 1 .. Len(more) : Slot(more[x]) => more[x].of >= g.c
    BY <1>0, <1>1
  <2>2. w2 \in Seq(Token) /\ tab2 \in Seq(TabEntry)
    BY ZenonT(30), <1>2, <1>3
  <2>. QED
    BY <1>0, <1>5, <1>6, <1>7, <2>1, <2>2, TurnStage
<1>9. h.n = Len(w2) /\ h.c = Len(tab2) /\ h.a = more \o Tail(g.a)
  BY <1>0
<1>10. Goes(w2, tab2, dr, H[Len(H)], h)
  BY <1>0 DEF Goes
<1>11. Past(Append(H, h), w2, tab2, dr)
  <2>1. w2 \in Seq(Token) /\ Grows(w, w2) /\ tab2 \in Seq(TabEntry) /\ Grows(tab, tab2)
    BY <1>2, <1>3
  <2>2. Past(H, w, tab, dr)
    BY <1>0
  <2>. QED
    BY <1>4, <1>8, <1>9, <1>10, <2>1, <2>2, PastGrows
<1>12. g.a \in Seq(Position) /\ \A x \in 1 .. Len(g.a) : PosOK(tab, Len(tab), g.a[x])
  BY <1>1, MomentForm DEF Stage
<1>13. Tail(g.a) \in Seq(Position)
  BY <1>0, <1>12, TailFacts
<1>14. Image(tab2, Tail(g.a)) = Tail(Image(tab, g.a))
  <2>1. Image(tab2, g.a) = Image(tab, g.a)
    BY <1>1, <1>3, <1>12, ImageGrows
  <2>2. Tail(Image(tab2, g.a)) = Image(tab2, Tail(g.a))
    BY <1>0, <1>12, ImageTail
  <2>. QED
    BY <2>1, <2>2
<1>15. Image(tab2, more \o Tail(g.a)) = Image(tab2, more) \o Image(tab2, Tail(g.a))
  BY <1>0, <1>13, ImageConcat
<1>. QED
  BY <1>9, <1>11, <1>14, <1>15

-----------------------------------------------------------------------------
(***************************************************************************)
(* What the Writer keeps when a position is written.                       *)
(***************************************************************************)

LEMMA PendingTurn ==
  ASSUME NEW a \in Seq(Position), a # <<>>, NEW more \in Seq(Position), NEW k, NEW o, NEW j
  PROVE  /\ Pending(a, k, o, j) =>
              \/ Pending(more \o Tail(a), k, o, j)
              \/ Head(a).k = k /\ Head(a).of = o /\ Head(a).j = j
         /\ Pending(more \o Tail(a), k, o, j) => Pending(more, k, o, j) \/ Pending(a, k, o, j)
         /\ Pending(more, k, o, j) => Pending(more \o Tail(a), k, o, j)
<1>. DEFINE t == Tail(a)
            b == more \o t
            m == Len(more)
<1>1. /\ t \in Seq(Position) /\ Len(t) = Len(a) - 1 /\ Len(a) \in Nat /\ Len(a) >= 1
      /\ \A x \in 1 .. Len(t) : t[x] = a[x + 1]
      /\ Head(a) = a[1]
  BY TailFacts
<1>2. /\ m \in Nat /\ Len(t) \in Nat /\ Len(b) = m + Len(t)
      /\ \A x \in 1 .. m : b[x] = more[x]
      /\ \A x \in 1 .. Len(t) : b[m + x] = t[x]
  BY <1>1, ConcatFacts
<1>. HIDE DEF t, b, m
<1>3. ASSUME NEW x \in 1 .. Len(a), x # 1 PROVE m + (x - 1) \in 1 .. Len(b) /\ b[m + (x - 1)] = a[x]
  <2>1. x - 1 \in 1 .. Len(t) /\ x - 1 + 1 = x /\ m + (x - 1) \in 1 .. Len(b)
    BY <1>1, <1>2, <1>3
  <2>. QED
    BY <1>1, <1>2, <2>1
<1>4. ASSUME NEW x \in 1 .. Len(b), x > m PROVE x - m + 1 \in 1 .. Len(a) /\ b[x] = a[x - m + 1]
  <2>1. x - m \in 1 .. Len(t) /\ x = m + (x - m) /\ x - m + 1 \in 1 .. Len(a)
    BY <1>1, <1>2, <1>4
  <2>2. b[x] = t[x - m]
    BY <1>2, <2>1
  <2>. QED
    BY <1>1, <2>1, <2>2
<1>5. \A x \in 1 .. Len(b) : x <= m => x \in 1 .. m /\ b[x] = more[x]
  BY <1>2
<1>6. \A x \in 1 .. m : x \in 1 .. Len(b)
  BY <1>2
<1>7. Pending(a, k, o, j) => Pending(b, k, o, j) \/ (Head(a).k = k /\ Head(a).of = o /\ Head(a).j = j)
  BY <1>1, <1>3 DEF Pending
<1>8. Pending(b, k, o, j) => Pending(more, k, o, j) \/ Pending(a, k, o, j)
  <2>1. ASSUME NEW x \in 1 .. Len(b), b[x].k = k, b[x].of = o, b[x].j = j
        PROVE Pending(more, k, o, j) \/ Pending(a, k, o, j)
    <3>1. CASE x > m
      BY <1>4, <2>1, <3>1 DEF Pending
    <3>2. CASE x <= m
      BY <1>5, <2>1, <3>2 DEF Pending, m
    <3>. QED
      BY <1>2, <3>1, <3>2
  <2>. QED
    BY <2>1 DEF Pending
<1>9. Pending(more, k, o, j) => Pending(b, k, o, j)
  BY <1>2, <1>6 DEF Pending, m
<1>. QED
  BY <1>7, <1>8, <1>9 DEF b, t

LEMMA NonePending ==
  ASSUME NEW a, NoSlots(a), NEW k \in {"name", "kid"}, NEW o, NEW j
  PROVE  ~Pending(a, k, o, j)
  BY DEF NoSlots, Slot, Pending

LEMMA EntryForm ==
  ASSUME NEW e \in TabEntry
  PROVE  /\ e.sort \in Sorts /\ e = Entry(e.sort, e.of)
         /\ e.sort = "str" => e.of \in DOMAIN Hash
         /\ e.sort # "str" => e.of \in Descs
  BY DEF TabEntry, Sorts, Entry

LEMMA WrittenGrows ==
  ASSUME NEW tab \in Seq(TabEntry), NEW tab2 \in Seq(TabEntry), Grows(tab, tab2), NEW d, Written(tab, d)
  PROVE  Written(tab2, d)
<1>1. PICK id \in 0 .. Len(tab) - 1 : Names(tab, Len(tab), id, d)
  BY DEF Written
<1>2. Len(tab) \in Nat /\ Len(tab2) \in Nat /\ Len(tab) <= Len(tab2)
  BY DEF Grows
<1>3. Names(tab2, Len(tab2), id, d)
  BY <1>1, <1>2, NamesGrows
<1>4. id \in 0 .. Len(tab2) - 1
  BY <1>2
<1>. QED
  BY <1>3, <1>4 DEF Written

(* A write that opens no descriptor keeps what the Writer's tables say. *)
LEMMA Kept ==
  ASSUME NEW tab \in Seq(TabEntry), NEW a \in Seq(Position), a # <<>>, NEW st, NEW cl, WriterOK(tab, a, st, cl),
         NEW recs \in Seq(TabEntry), NEW tab2, tab2 = tab \o recs, NEW st2,
         \A i \in 1 .. Len(recs) :
           /\ recs[i].sort # "desc"
           /\ recs[i].sort = "value" =>
                \A j \in 1 .. Len(Fields[recs[i].of]) : Has(st2, Fields[recs[i].of][j]),
         \A s : Has(st, s) => Has(st2, s),
         StrsOK(tab2, st2),
         NEW more \in Seq(Position), NoSlots(more),
         \A x \in 1 .. Len(more) : more[x].k \in {"body", "open"} => Written(tab2, more[x].d),
         Head(a).k = "name" => Has(st2, TextOf(tab[Head(a).of + 1].of, Head(a).j)),
         Head(a).k = "kid" => Written(tab2, Kids[tab[Head(a).of + 1].of][Head(a).j])
  PROVE  WriterOK(tab2, more \o Tail(a), st2, cl)
<1>. DEFINE b == more \o Tail(a)
<1>1. /\ tab2 \in Seq(TabEntry) /\ Grows(tab, tab2) /\ Len(tab) \in Nat /\ Len(recs) \in Nat
      /\ Len(tab2) = Len(tab) + Len(recs)
      /\ \A i \in Len(tab) + 1 .. Len(tab2) : i - Len(tab) \in 1 .. Len(recs) /\ tab2[i] = recs[i - Len(tab)]
  BY Longer
<1>2. \A i \in 1 .. Len(tab2) :
        \/ i \in 1 .. Len(tab) /\ tab2[i] = tab[i]
        \/ i - Len(tab) \in 1 .. Len(recs) /\ tab2[i] = recs[i - Len(tab)]
  <2>1. \A i \in 1 .. Len(tab2) : i \in 1 .. Len(tab) \/ i \in Len(tab) + 1 .. Len(tab2)
    BY <1>1
  <2>. QED
    BY <1>1, <2>1 DEF Grows
<1>3. \A i \in 1 .. Len(tab2) : tab2[i].sort = "desc" => i \in 1 .. Len(tab) /\ tab2[i] = tab[i]
  BY <1>2
<1>4. \A k, o, j : Pending(a, k, o, j) =>
        Pending(b, k, o, j) \/ (Head(a).k = k /\ Head(a).of = o /\ Head(a).j = j)
  BY ZenonT(30), PendingTurn
<1>. HIDE DEF b
<1>5. OneName(tab2)
  <2>1. OneName(tab)
    BY DEF WriterOK
  <2>. SUFFICES ASSUME NEW i \in 1 .. Len(tab2), NEW j \in 1 .. Len(tab2),
                       tab2[i].sort = "desc", tab2[j].sort = "desc", Name[tab2[i].of] = Name[tab2[j].of]
                PROVE  i = j
    BY DEF OneName
  <2>2. i \in 1 .. Len(tab) /\ tab2[i] = tab[i] /\ j \in 1 .. Len(tab) /\ tab2[j] = tab[j]
    BY <1>3
  <2>. QED
    BY ZenonT(30), <2>1, <2>2 DEF OneName
<1>w. ASSUME NEW e, Written(tab, e) PROVE Written(tab2, e)
  <2>1. tab2 \in Seq(TabEntry) /\ Grows(tab, tab2)
    BY <1>1
  <2>. QED
    BY <1>w, <2>1, WrittenGrows, Zenon
<1>6. ClaimsOK(tab2, cl)
  <2>0. ClaimsOK(tab, cl)
    BY DEF WriterOK
  <2>1. ASSUME NEW nm \in DOMAIN cl
        PROVE  /\ cl[nm].d \in Descs /\ Name[cl[nm].d] = nm
               /\ cl[nm].id \in 0 .. Len(tab2) - 1 /\ tab2[cl[nm].id + 1] = Entry("desc", cl[nm].d)
    <3>1. /\ cl[nm].d \in Descs /\ Name[cl[nm].d] = nm
          /\ cl[nm].id \in 0 .. Len(tab) - 1 /\ tab[cl[nm].id + 1] = Entry("desc", cl[nm].d)
      BY <2>0 DEF ClaimsOK
    <3>2. cl[nm].id + 1 \in 1 .. Len(tab) /\ cl[nm].id \in 0 .. Len(tab2) - 1
      BY <1>1, <3>1
    <3>3. tab2[cl[nm].id + 1] = tab[cl[nm].id + 1]
      BY <1>1, <3>2 DEF Grows
    <3>. QED
      BY <3>1, <3>2, <3>3
  <2>2. \A i \in 1 .. Len(tab2) : tab2[i].sort = "desc" => Name[tab2[i].of] \in DOMAIN cl
    BY <1>3, <2>0 DEF ClaimsOK
  <2>. QED
    BY <2>1, <2>2 DEF ClaimsOK
<1>7. LabelsOK(tab2, b, st2)
  <2>. SUFFICES ASSUME NEW i \in 1 .. Len(tab2), tab2[i].sort = "desc",
                       NEW j \in 0 .. Len(Fields[tab2[i].of])
                PROVE  Pending(b, "name", i - 1, j) \/ Has(st2, TextOf(tab2[i].of, j))
    BY DEF LabelsOK
  <2>1. i \in 1 .. Len(tab) /\ tab2[i] = tab[i] /\ i - 1 + 1 = i
    BY <1>3
  <2>2. Pending(a, "name", i - 1, j) \/ Has(st, TextOf(tab[i].of, j))
    BY <2>1 DEF WriterOK, LabelsOK
  <2>3. CASE Has(st, TextOf(tab[i].of, j))
    BY <2>1, <2>3
  <2>4. CASE Head(a).k = "name" /\ Head(a).of = i - 1 /\ Head(a).j = j
    BY <2>1, <2>4
  <2>. QED
    BY <1>4, <2>2, <2>3, <2>4
<1>8. PartsOK(tab2, b)
  <2>. SUFFICES ASSUME NEW i \in 1 .. Len(tab2), tab2[i].sort = "desc",
                       NEW j \in 1 .. Len(Kids[tab2[i].of])
                PROVE  Pending(b, "kid", i - 1, j) \/ Written(tab2, Kids[tab2[i].of][j])
    BY DEF PartsOK
  <2>1. i \in 1 .. Len(tab) /\ tab2[i] = tab[i] /\ i - 1 + 1 = i
    BY <1>3
  <2>2. Pending(a, "kid", i - 1, j) \/ Written(tab, Kids[tab[i].of][j])
    BY <2>1 DEF WriterOK, PartsOK
  <2>3. CASE Written(tab, Kids[tab[i].of][j])
    BY <1>w, <2>1, <2>3
  <2>4. CASE Head(a).k = "kid" /\ Head(a).of = i - 1 /\ Head(a).j = j
    BY <2>1, <2>4
  <2>. QED
    BY SMTT(30), <1>4, <2>2, <2>3, <2>4
<1>9. RecordsOK(tab2, st2)
  <2>. SUFFICES ASSUME NEW i \in 1 .. Len(tab2), tab2[i].sort = "value",
                       NEW j \in 1 .. Len(Fields[tab2[i].of])
                PROVE  Has(st2, Fields[tab2[i].of][j])
    BY DEF RecordsOK
  <2>1. CASE i \in 1 .. Len(tab) /\ tab2[i] = tab[i]
    BY <2>1 DEF WriterOK, RecordsOK
  <2>2. CASE i - Len(tab) \in 1 .. Len(recs) /\ tab2[i] = recs[i - Len(tab)]
    BY <2>2
  <2>. QED
    BY <1>2, <2>1, <2>2
<1>10. BodiesOK(tab2, b)
  <2>1. /\ Tail(a) \in Seq(Position) /\ Len(Tail(a)) = Len(a) - 1 /\ Len(a) \in Nat
        /\ \A x \in 1 .. Len(Tail(a)) : Tail(a)[x] = a[x + 1]
    BY TailFacts
  <2>2. \A x \in 1 .. Len(b) : \/ x \in 1 .. Len(more) /\ b[x] = more[x]
                               \/ x - Len(more) \in 1 .. Len(Tail(a)) /\ b[x] = Tail(a)[x - Len(more)]
    BY <2>1, ConcatFacts DEF b
  <2>3. ASSUME NEW x \in 1 .. Len(Tail(a)), Tail(a)[x].k \in {"body", "open"}
        PROVE  Written(tab2, Tail(a)[x].d)
    <3>1. x + 1 \in 1 .. Len(a) /\ Tail(a)[x] = a[x + 1]
      BY <2>1
    <3>2. Written(tab, a[x + 1].d)
      BY <2>3, <3>1 DEF WriterOK, BodiesOK
    <3>. QED
      BY <1>w, <3>1, <3>2
  <2>. QED
    BY <2>2, <2>3 DEF BodiesOK
<1>. QED
  BY <1>5, <1>6, <1>7, <1>8, <1>9, <1>10 DEF WriterOK, b

LEMMA SingleFacts ==
  ASSUME NEW S, NEW x \in S, NEW u, u = <<x>>
  PROVE  u \in Seq(S) /\ Len(u) = 1 /\ u[1] = x /\ u # <<>>
  OBVIOUS

(* So does the claim of a new descriptor's name. *)
LEMMA Claimed ==
  ASSUME NEW tab \in Seq(TabEntry), NEW a \in Seq(Position), a # <<>>, NEW st, NEW cl, WriterOK(tab, a, st, cl),
         NEW d \in Descs, Name[d] \notin DOMAIN cl,
         NEW tab2, tab2 = tab \o <<Entry("desc", d)>>,
         NEW cl2, cl2 = [n \in DOMAIN cl \cup {Name[d]} |->
                          IF n = Name[d] THEN [id |-> Len(tab), d |-> d] ELSE cl[n]],
         NEW rest \in Seq(Position), NoSlots(rest),
         \A x \in 1 .. Len(rest) : rest[x].k \in {"body", "open"} => rest[x].d = d,
         Head(a).k # "name",
         Head(a).k = "kid" => Kids[tab[Head(a).of + 1].of][Head(a).j] = d
  PROVE  WriterOK(tab2, (Parts(Len(tab), d) \o rest) \o Tail(a), st, cl2)
<1>. DEFINE more == Parts(Len(tab), d) \o rest
            b == more \o Tail(a)
            recs == <<Entry("desc", d)>>
            c == Len(tab)
<1>0. c \in Nat /\ Entry("desc", d) \in TabEntry
  BY DEF TabEntry, Entry, Sorts
<1>1. recs \in Seq(TabEntry) /\ Len(recs) = 1 /\ recs[1] = Entry("desc", d)
  BY <1>0, SingleFacts
<1>2. tab2 = tab \o recs
  OBVIOUS
<1>. HIDE DEF recs
<1>3. /\ tab2 \in Seq(TabEntry) /\ Grows(tab, tab2) /\ Len(tab2) = c + 1
      /\ tab2[c + 1] = Entry("desc", d) /\ \A i \in 1 .. c : tab2[i] = tab[i]
  <2>1. /\ tab2 \in Seq(TabEntry) /\ Grows(tab, tab2) /\ Len(tab2) = c + 1
        /\ \A x \in 1 .. Len(recs) : tab2[c + x] = recs[x]
    BY <1>1, <1>2, Longer, ConcatFacts
  <2>2. 1 \in 1 .. Len(recs)
    BY <1>1
  <2>. QED
    BY <1>1, <2>1, <2>2 DEF Grows
<1>4. /\ Parts(c, d) \in Seq(Position)
      /\ \A j \in 0 .. Len(Fields[d]) : \E x \in 1 .. Len(Parts(c, d)) : Parts(c, d)[x] = NameAt(c, j)
      /\ \A j \in 1 .. Len(Kids[d]) : \E x \in 1 .. Len(Parts(c, d)) : Parts(c, d)[x] = KidAt(c, j)
      /\ \A x \in 1 .. Len(Parts(c, d)) : Parts(c, d)[x].k \in {"name", "kid"}
  <2>1. /\ \A x \in 1 .. Len(Parts(c, d)) :
             \/ \E j \in 0 .. Len(Fields[d]) : Parts(c, d)[x] = NameAt(c, j)
             \/ \E j \in 1 .. Len(Kids[d]) : Parts(c, d)[x] = KidAt(c, j)
        /\ \A j \in 0 .. Len(Fields[d]) : \E x \in 1 .. Len(Parts(c, d)) : Parts(c, d)[x] = NameAt(c, j)
        /\ \A j \in 1 .. Len(Kids[d]) : \E x \in 1 .. Len(Parts(c, d)) : Parts(c, d)[x] = KidAt(c, j)
    BY <1>0, PartsSlots
  <2>2. Parts(c, d) \in Seq(Position)
    BY <1>0, PartsFacts
  <2>. QED
    BY SMTT(30), <2>1, <2>2, PartForm
<1>5. /\ more \in Seq(Position) /\ Len(Parts(c, d)) \in Nat /\ Len(rest) \in Nat
      /\ Len(more) = Len(Parts(c, d)) + Len(rest)
      /\ \A x \in 1 .. Len(Parts(c, d)) : more[x] = Parts(c, d)[x]
      /\ \A x \in 1 .. Len(more) :
           \/ x \in 1 .. Len(Parts(c, d)) /\ more[x] = Parts(c, d)[x]
           \/ x - Len(Parts(c, d)) \in 1 .. Len(rest) /\ more[x] = rest[x - Len(Parts(c, d))]
  BY <1>4, ConcatFacts
<1>. HIDE DEF more
<1>6. \A k, o, j :
        /\ Pending(a, k, o, j) => Pending(b, k, o, j) \/ (Head(a).k = k /\ Head(a).of = o /\ Head(a).j = j)
        /\ Pending(more, k, o, j) => Pending(b, k, o, j)
  BY ZenonT(30), <1>5, PendingTurn
<1>7. /\ \A j \in 0 .. Len(Fields[d]) : Pending(b, "name", c, j)
      /\ \A j \in 1 .. Len(Kids[d]) : Pending(b, "kid", c, j)
  <2>1. \A x \in 1 .. Len(Parts(c, d)) : x \in 1 .. Len(more)
    BY <1>5
  <2>2. ASSUME NEW j \in 0 .. Len(Fields[d]) PROVE Pending(more, "name", c, j)
    <3>1. PICK x \in 1 .. Len(Parts(c, d)) : Parts(c, d)[x] = NameAt(c, j)
      BY <1>4
    <3>2. x \in 1 .. Len(more) /\ more[x] = NameAt(c, j)
      BY <1>5, <2>1, <3>1
    <3>3. more[x].k = "name" /\ more[x].of = c /\ more[x].j = j
      BY <3>2, PartForm
    <3>. QED
      BY <3>2, <3>3 DEF Pending
  <2>3. ASSUME NEW j \in 1 .. Len(Kids[d]) PROVE Pending(more, "kid", c, j)
    <3>1. PICK x \in 1 .. Len(Parts(c, d)) : Parts(c, d)[x] = KidAt(c, j)
      BY <1>4
    <3>2. x \in 1 .. Len(more) /\ more[x] = KidAt(c, j)
      BY <1>5, <2>1, <3>1
    <3>3. more[x].k = "kid" /\ more[x].of = c /\ more[x].j = j
      BY <3>2, PartForm
    <3>. QED
      BY <3>2, <3>3 DEF Pending
  <2>. QED
    BY <1>6, <2>2, <2>3
<1>8. \A i \in 1 .. Len(tab2) : (i \in 1 .. c /\ tab2[i] = tab[i]) \/ i = c + 1
  BY <1>0, <1>3
<1>w. ASSUME NEW e, Written(tab, e) PROVE Written(tab2, e)
  <2>1. tab2 \in Seq(TabEntry) /\ Grows(tab, tab2)
    BY <1>3
  <2>. QED
    BY <1>w, <2>1, WrittenGrows, Zenon
<1>9. Written(tab2, d)
  <2>1. Names(tab2, Len(tab2), c, d)
    BY <1>0, <1>3, AlikeSelf DEF Names, Owned, Entry
  <2>2. c \in 0 .. Len(tab2) - 1
    BY <1>0, <1>3
  <2>. QED
    BY <2>1, <2>2 DEF Written
<1>10. tab2[c + 1].sort = "desc" /\ tab2[c + 1].of = d
  BY <1>3 DEF Entry
<1>. HIDE DEF b
<1>11. \A i \in 1 .. c : tab[i].sort = "desc" => Name[tab[i].of] \in DOMAIN cl /\ Name[tab[i].of] # Name[d]
  BY DEF WriterOK, ClaimsOK
<1>12. OneName(tab2)
  <2>. SUFFICES ASSUME NEW i \in 1 .. Len(tab2), NEW j \in 1 .. Len(tab2),
                       tab2[i].sort = "desc", tab2[j].sort = "desc", Name[tab2[i].of] = Name[tab2[j].of]
                PROVE  i = j
    BY DEF OneName
  <2>1. CASE i \in 1 .. c /\ j \in 1 .. c /\ tab2[i] = tab[i] /\ tab2[j] = tab[j]
    BY <2>1 DEF WriterOK, OneName
  <2>2. CASE i = c + 1 \/ j = c + 1
    BY <1>8, <1>10, <1>11, <2>2
  <2>. QED
    BY ZenonT(30), <1>8, <2>1, <2>2
<1>13. StrsOK(tab2, st)
  <2>0. StrsOK(tab, st)
    BY DEF WriterOK
  <2>1. ASSUME NEW p \in Bound(st) PROVE p[2] \in 1 .. Len(tab2) /\ tab2[p[2]] = Entry("str", p[1])
    <3>1. p[2] \in 1 .. c /\ tab[p[2]] = Entry("str", p[1])
      BY <2>0 DEF StrsOK
    <3>2. p[2] \in 1 .. Len(tab2)
      BY <1>0, <1>3, <3>1
    <3>. QED
      BY <1>3, <3>1, <3>2
  <2>. QED
    BY <2>0, <2>1 DEF StrsOK
<1>14. ClaimsOK(tab2, cl2)
  <2>0. ClaimsOK(tab, cl)
    BY DEF WriterOK
  <2>1. /\ DOMAIN cl2 = DOMAIN cl \cup {Name[d]}
        /\ \A nm \in DOMAIN cl : cl2[nm] = cl[nm]
        /\ cl2[Name[d]] = [id |-> Len(tab), d |-> d]
    OBVIOUS
  <2>2. ASSUME NEW nm \in DOMAIN cl
        PROVE  /\ cl2[nm].d \in Descs /\ Name[cl2[nm].d] = nm
               /\ cl2[nm].id \in 0 .. Len(tab2) - 1 /\ tab2[cl2[nm].id + 1] = Entry("desc", cl2[nm].d)
    <3>1. /\ cl[nm].d \in Descs /\ Name[cl[nm].d] = nm
          /\ cl[nm].id \in 0 .. Len(tab) - 1 /\ tab[cl[nm].id + 1] = Entry("desc", cl[nm].d)
      BY <2>0 DEF ClaimsOK
    <3>2. cl[nm].id + 1 \in 1 .. Len(tab) /\ cl[nm].id \in 0 .. Len(tab2) - 1
      BY SMTT(30), <1>0, <1>3, <3>1
    <3>3. tab2[cl[nm].id + 1] = tab[cl[nm].id + 1]
      BY <1>3, <3>2 DEF Grows
    <3>. QED
      BY <2>1, <3>1, <3>2, <3>3
  <2>3. /\ cl2[Name[d]].d = d /\ cl2[Name[d]].id = c /\ c \in 0 .. Len(tab2) - 1
        /\ tab2[c + 1] = Entry("desc", d)
    BY <1>0, <1>3, <2>1
  <2>4. \A i \in 1 .. Len(tab2) : tab2[i].sort = "desc" => Name[tab2[i].of] \in DOMAIN cl2
    BY <1>8, <1>10, <1>11, <2>1
  <2>5. ASSUME NEW nm \in DOMAIN cl2
        PROVE  /\ cl2[nm].d \in Descs /\ Name[cl2[nm].d] = nm
               /\ cl2[nm].id \in 0 .. Len(tab2) - 1 /\ tab2[cl2[nm].id + 1] = Entry("desc", cl2[nm].d)
    <3>1. CASE nm \in DOMAIN cl
      BY <2>2, <3>1
    <3>2. CASE nm = Name[d]
      BY <2>3, <3>2
    <3>. QED
      BY <2>1, <3>1, <3>2
  <2>. QED
    BY <2>4, <2>5 DEF ClaimsOK
<1>15. LabelsOK(tab2, b, st)
  <2>. SUFFICES ASSUME NEW i \in 1 .. Len(tab2), tab2[i].sort = "desc",
                       NEW j \in 0 .. Len(Fields[tab2[i].of])
                PROVE  Pending(b, "name", i - 1, j) \/ Has(st, TextOf(tab2[i].of, j))
    BY DEF LabelsOK
  <2>1. CASE i = c + 1
    <3>1. i - 1 = c /\ j \in 0 .. Len(Fields[d])
      BY <1>0, <1>10, <2>1
    <3>. QED
      BY <1>7, <3>1
  <2>2. CASE i \in 1 .. c /\ tab2[i] = tab[i]
    <3>1. Pending(a, "name", i - 1, j) \/ Has(st, TextOf(tab[i].of, j))
      BY <2>2 DEF WriterOK, LabelsOK
    <3>. QED
      BY <1>6, <2>2, <3>1
  <2>. QED
    BY <1>8, <2>1, <2>2
<1>16. PartsOK(tab2, b)
  <2>. SUFFICES ASSUME NEW i \in 1 .. Len(tab2), tab2[i].sort = "desc",
                       NEW j \in 1 .. Len(Kids[tab2[i].of])
                PROVE  Pending(b, "kid", i - 1, j) \/ Written(tab2, Kids[tab2[i].of][j])
    BY DEF PartsOK
  <2>1. CASE i = c + 1
    <3>1. i - 1 = c /\ j \in 1 .. Len(Kids[d])
      BY <1>0, <1>10, <2>1
    <3>. QED
      BY <1>7, <3>1
  <2>2. CASE i \in 1 .. c /\ tab2[i] = tab[i]
    <3>1. Pending(a, "kid", i - 1, j) \/ Written(tab, Kids[tab[i].of][j])
      BY <2>2 DEF WriterOK, PartsOK
    <3>2. Written(tab, Kids[tab[i].of][j]) => Written(tab2, Kids[tab[i].of][j])
      BY <1>w
    <3>3. CASE Head(a).k = "kid" /\ Head(a).of = i - 1 /\ Head(a).j = j
      <4>1. Kids[tab[i].of][j] = d
        BY SMTT(30), <1>0, <2>2, <3>3
      <4>. QED
        BY <1>9, <2>2, <4>1
    <3>. QED
      BY <1>6, <2>2, <3>1, <3>2, <3>3
  <2>. QED
    BY ZenonT(30), <1>8, <2>1, <2>2
<1>17. RecordsOK(tab2, st)
  <2>1. \A i \in 1 .. Len(tab2) : tab2[i].sort = "value" => i \in 1 .. c /\ tab2[i] = tab[i]
    BY <1>8, <1>10
  <2>. QED
    BY <2>1 DEF WriterOK, RecordsOK
<1>18. BodiesOK(tab2, b)
  <2>1. /\ Tail(a) \in Seq(Position) /\ Len(Tail(a)) = Len(a) - 1 /\ Len(a) \in Nat
        /\ \A x \in 1 .. Len(Tail(a)) : Tail(a)[x] = a[x + 1]
    BY TailFacts
  <2>2. \A x \in 1 .. Len(b) : \/ x \in 1 .. Len(more) /\ b[x] = more[x]
                               \/ x - Len(more) \in 1 .. Len(Tail(a)) /\ b[x] = Tail(a)[x - Len(more)]
    BY SMTT(30), <1>5, <2>1, ConcatFacts DEF b
  <2>3. ASSUME NEW x \in 1 .. Len(Tail(a)), Tail(a)[x].k \in {"body", "open"}
        PROVE  Written(tab2, Tail(a)[x].d)
    <3>1. x + 1 \in 1 .. Len(a) /\ Tail(a)[x] = a[x + 1]
      BY <2>1
    <3>2. Written(tab, a[x + 1].d)
      BY <2>3, <3>1 DEF WriterOK, BodiesOK
    <3>. QED
      BY <1>w, <3>1, <3>2
  <2>4. \A x \in 1 .. Len(more) : more[x].k \in {"body", "open"} => more[x].d = d
    <3>1. \A x \in 1 .. Len(Parts(c, d)) : Parts(c, d)[x].k \notin {"body", "open"}
      BY <1>4
    <3>. QED
      BY ZenonT(40), <1>5, <3>1
  <2>. QED
    BY <1>9, <2>2, <2>3, <2>4 DEF BodiesOK
<1>. QED
  BY ZenonT(30), <1>12, <1>13, <1>14, <1>15, <1>16, <1>17, <1>18 DEF WriterOK, b, more

-----------------------------------------------------------------------------
(***************************************************************************)
(* A write of the Writer, in general.                                      *)
(***************************************************************************)

WInv(H, w, tab, dr, td, st, cl) ==
  /\ Past(H, w, tab, dr)
  /\ td = Image(tab, H[Len(H)].a)
  /\ WriterOK(tab, H[Len(H)].a, st, cl)

LEMMA NowFacts ==
  ASSUME NEW H, NEW w, NEW tab, NEW dr, NEW td, NEW st, NEW cl, WInv(H, w, tab, dr, td, st, cl),
         NEW g, g = H[Len(H)]
  PROVE  /\ w \in Seq(Token) /\ tab \in Seq(TabEntry) /\ H \in Seq(Moment) /\ Len(H) \in 1 .. Len(H)
         /\ g \in Moment /\ g.a \in Seq(Position) /\ g.n = Len(w) /\ g.c = Len(tab)
         /\ Len(w) \in Nat /\ Len(tab) \in Nat /\ Stage(w, tab, g)
         /\ Past(H, w, tab, dr) /\ td = Image(tab, g.a) /\ WriterOK(tab, g.a, st, cl)
         /\ td = <<>> <=> g.a = <<>>
<1>1. /\ w \in Seq(Token) /\ tab \in Seq(TabEntry) /\ H \in Seq(Moment) /\ H # <<>>
      /\ g.n = Len(w) /\ g.c = Len(tab) /\ td = Image(tab, g.a) /\ WriterOK(tab, g.a, st, cl)
      /\ Past(H, w, tab, dr) /\ \A k \in 1 .. Len(H) : Stage(w, tab, H[k])
  BY DEF WInv, Past
<1>2. Len(H) \in 1 .. Len(H) /\ g \in Moment
  BY <1>1
<1>3. g.a \in Seq(Position) /\ Stage(w, tab, g) /\ Len(w) \in Nat /\ Len(tab) \in Nat
  BY <1>1, <1>2, MomentForm
<1>4. td \in Seq({Plain(tab, p) : p \in Position}) /\ Len(td) = Len(g.a)
  BY <1>1, <1>3, ImageForm
<1>5. td = <<>> <=> g.a = <<>>
  <2>1. \A S, T : \A u \in Seq(S), v \in Seq(T) : Len(u) = Len(v) => (u = <<>> <=> v = <<>>)
    OBVIOUS
  <2>. QED
    BY <1>3, <1>4, <2>1
<1>. QED
  BY <1>1, <1>2, <1>3, <1>5

LEMMA HeadFacts ==
  ASSUME NEW H, NEW w, NEW tab, NEW dr, NEW td, NEW st, NEW cl, WInv(H, w, tab, dr, td, st, cl),
         NEW g, g = H[Len(H)], td # <<>>, NEW p, p = Head(g.a)
  PROVE  /\ g.a # <<>> /\ p \in Position /\ PosOK(tab, Len(tab), p)
         /\ Head(td) = Plain(tab, p)
         /\ Slot(p) \/ (NoSlots(g.a) /\ NoSlots(Tail(g.a)))
         /\ p.k \in {"body", "open"} => p.d \in Descs /\ Written(tab, p.d)
<1>1. /\ g.a \in Seq(Position) /\ g.a # <<>> /\ td = Image(tab, g.a) /\ Stage(w, tab, g)
      /\ g.c = Len(tab) /\ WriterOK(tab, g.a, st, cl)
  BY NowFacts
<1>2. p = g.a[1] /\ p \in Position /\ 1 \in 1 .. Len(g.a)
  BY <1>1, TailFacts
<1>3. PosOK(tab, Len(tab), p)
  BY <1>1, <1>2 DEF Stage
<1>4. Head(td) = Plain(tab, p)
  BY <1>1, ImageTail
<1>5. Slot(p) \/ NoSlots(g.a)
  BY <1>1, HeadSlots DEF Stage
<1>6. NoSlots(g.a) => NoSlots(Tail(g.a))
  BY <1>1, TailSlots
<1>7. p.k \in {"body", "open"} => Written(tab, p.d)
  BY <1>1, <1>2 DEF WriterOK, BodiesOK
<1>8. p.k \in {"body", "open"} => p.d \in Descs
  BY <1>2, PositionForm
<1>. QED
  BY <1>1, <1>2, <1>3, <1>4, <1>5, <1>6, <1>7, <1>8

LEMMA PlainForm ==
  ASSUME NEW tab, NEW p \in Position
  PROVE  /\ Plain(tab, p).k = "str" => p.k = "name" /\ Plain(tab, p).s = TextOf(tab[p.of + 1].of, p.j)
         /\ Plain(tab, p).k = "desc" =>
              /\ p.k \in {"kid", "desc"} /\ Plain(tab, p).d = DescOf(tab, p)
              /\ After(Plain(tab, p).d, Plain(tab, p).then) = Behind(p)
         /\ Plain(tab, p).k \in {"body", "open", "view"} => Plain(tab, p) = p
<1>1. p.k \in {"name", "kid", "desc", "body", "open", "view"}
  BY PositionForm
<1>2. CASE p.k = "name"
  BY <1>2 DEF Plain, StrAt
<1>3. CASE p.k = "kid"
  <2>1. Plain(tab, p) = DescAt(DescOf(tab, p), "kid")
    BY <1>3 DEF Plain
  <2>2. Plain(tab, p).k = "desc" /\ Plain(tab, p).d = DescOf(tab, p) /\ Plain(tab, p).then = "kid"
    BY <2>1 DEF DescAt
  <2>. QED
    BY <1>3, <2>2 DEF After, Behind
<1>4. CASE p.k = "desc"
  BY <1>4 DEF Plain, DescOf, Behind
<1>5. CASE p.k \in {"body", "open", "view"}
  BY <1>5 DEF Plain
<1>. QED
  BY <1>1, <1>2, <1>3, <1>4, <1>5

(* With no part outstanding a written descriptor's parts are all written. *)
LEMMA Complete ==
  ASSUME NEW tab \in Seq(TabEntry), NEW a \in Seq(Position), NoSlots(a), NEW st, NEW cl,
         WriterOK(tab, a, st, cl), NEW d \in Descs, Written(tab, d)
  PROVE  /\ \A i \in 1 .. Len(Kids[d]) : Written(tab, Kids[d][i])
         /\ \A j \in 1 .. Len(Fields[d]) : Has(st, Fields[d][j])
<1>1. PICK id \in 0 .. Len(tab) - 1 : Names(tab, Len(tab), id, d)
  BY DEF Written
<1>. DEFINE e == tab[id + 1].of
<1>2. /\ id + 1 \in 1 .. Len(tab) /\ Alike(e, d) /\ tab[id + 1].sort = "desc"
  BY <1>1 DEF Names, Owned
<1>3. Same(e, d) /\ e \in Descs
  BY <1>2, AlikeType
<1>. HIDE DEF e
<1>4. ASSUME NEW i \in 1 .. Len(Kids[d]) PROVE Written(tab, Kids[d][i])
  <2>1. i \in 1 .. Len(Kids[e])
    BY <1>3 DEF Same
  <2>2. Written(tab, Kids[e][i])
    BY <1>2, <2>1, NonePending DEF WriterOK, PartsOK, e
  <2>3. Alike(Kids[e][i], Kids[d][i])
    BY <1>2, <2>1, AlikeKids
  <2>4. PICK k \in 0 .. Len(tab) - 1 : Names(tab, Len(tab), k, Kids[e][i])
    BY <2>2 DEF Written
  <2>5. Names(tab, Len(tab), k, Kids[d][i])
    BY <2>3, <2>4, AlikeOn DEF Names
  <2>. QED
    BY <2>5 DEF Written
<1>5. ASSUME NEW j \in 1 .. Len(Fields[d]) PROVE Has(st, Fields[d][j])
  <2>1. Fields[e] = Fields[d]
    BY <1>3 DEF Same
  <2>2. j \in 0 .. Len(Fields[e]) /\ j # 0
    BY <2>1
  <2>3. ~Pending(a, "name", id + 1 - 1, j)
    BY NonePending
  <2>4. Has(st, TextOf(e, j))
    BY <1>2, <2>2, <2>3 DEF WriterOK, LabelsOK, e
  <2>. QED
    BY <2>1, <2>2, <2>4 DEF TextOf
<1>. QED
  BY <1>4, <1>5

(* A write that adds tokens, ids and positions. *)
Adds(w, tab, g, toks, recs, w2, tab2, more, h) ==
  /\ w \in Seq(Token) /\ tab \in Seq(TabEntry) /\ toks \in Seq(Token) /\ recs \in Seq(TabEntry)
  /\ g.n = Len(w) /\ g.c = Len(tab) /\ w2 = w \o toks /\ tab2 = tab \o recs
  /\ h = [a |-> more \o Tail(g.a), n |-> Len(w2), c |-> Len(tab2)]

LEMMA Wrote ==
  ASSUME NEW w, NEW tab, NEW g, NEW toks, NEW recs, NEW w2, NEW tab2, NEW more, NEW h,
         Adds(w, tab, g, toks, recs, w2, tab2, more, h)
  PROVE  /\ Turn(g, h, more, Len(toks), Len(recs))
         /\ \A i \in 1 .. Len(toks) : w2[g.n + i] = toks[i]
         /\ \A i \in 1 .. Len(recs) : tab2[g.c + i] = recs[i]
         /\ \A i \in 1 .. g.c : tab2[i] = tab[i]
         /\ tab2 \in Seq(TabEntry) /\ Len(tab2) = g.c + Len(recs) /\ Grows(tab, tab2)
         /\ g.c \in Nat /\ Len(recs) \in Nat /\ Len(tab2) \in Nat
<1>0. /\ w \in Seq(Token) /\ tab \in Seq(TabEntry) /\ toks \in Seq(Token) /\ recs \in Seq(TabEntry)
      /\ g.n = Len(w) /\ g.c = Len(tab) /\ w2 = w \o toks /\ tab2 = tab \o recs
      /\ h = [a |-> more \o Tail(g.a), n |-> Len(w2), c |-> Len(tab2)]
  BY DEF Adds
<1>1. /\ Len(w2) = Len(w) + Len(toks)
      /\ \A i \in 1 .. Len(toks) : w2[Len(w) + i] = toks[i]
  BY <1>0, ConcatFacts
<1>2. /\ Len(tab2) = Len(tab) + Len(recs)
      /\ \A i \in 1 .. Len(recs) : tab2[Len(tab) + i] = recs[i]
      /\ \A i \in 1 .. Len(tab) : tab2[i] = tab[i]
      /\ Len(tab) \in Nat /\ Len(recs) \in Nat
      /\ tab2 \in Seq(TabEntry)
  BY <1>0, ConcatFacts
<1>3. Grows(tab, tab2)
  BY SMTT(30), <1>2 DEF Grows
<1>. QED
  BY <1>0, <1>1, <1>2, <1>3 DEF Turn

Writing(H, w, tab, dr, td, st, cl, g, toks, recs, w2, tab2, st2, more, h) ==
  /\ WInv(H, w, tab, dr, td, st, cl) /\ g = H[Len(H)] /\ td # <<>>
  /\ toks \in Seq(Token) /\ recs \in Seq(TabEntry)
  /\ w2 = w \o toks /\ tab2 = tab \o recs
  /\ toks # <<>> => toks[1].t # "path"
  /\ \A i \in 1 .. Len(toks) : TokOK(tab2, Len(tab2), toks[i])
  /\ \A i \in 1 .. Len(recs) :
       /\ recs[i].sort # "desc"
       /\ recs[i].sort = "value" =>
            \A j \in 1 .. Len(Fields[recs[i].of]) : Has(st2, Fields[recs[i].of][j])
  /\ \A s : Has(st, s) => Has(st2, s)
  /\ StrsOK(tab2, st2)
  /\ more \in Seq(Position) /\ NoSlots(more) /\ (more = <<>> \/ NoSlots(Tail(g.a)))
  /\ \A x \in 1 .. Len(more) : more[x].k = "view" => PosOK(tab2, Len(tab2), more[x])
  /\ \A x \in 1 .. Len(more) : more[x].k \in {"body", "open"} => Written(tab2, more[x].d)
  /\ Head(g.a).k = "name" => Has(st2, TextOf(tab[Head(g.a).of + 1].of, Head(g.a).j))
  /\ Head(g.a).k = "kid" => Written(tab2, Kids[tab[Head(g.a).of + 1].of][Head(g.a).j])
  /\ h = [a |-> more \o Tail(g.a), n |-> Len(w2), c |-> Len(tab2)]
  /\ Onward(w2, tab2, dr, g, h)

(* A write ends in a past that is one moment longer. *)
LEMMA OneWrite ==
  ASSUME NEW H, NEW w, NEW tab, NEW dr, NEW td, NEW st, NEW cl, NEW g, NEW toks, NEW recs,
         NEW w2, NEW tab2, NEW st2, NEW more, NEW h,
         Writing(H, w, tab, dr, td, st, cl, g, toks, recs, w2, tab2, st2, more, h)
  PROVE  \E G \in Seq(Moment) :
           WInv(G, w2, tab2, dr, more \o Tail(td), st2, cl) /\ G[Len(G)] = h
<1>0. WInv(H, w, tab, dr, td, st, cl) /\ g = H[Len(H)] /\ td # <<>>
  BY DEF Writing
<1>1. /\ w \in Seq(Token) /\ tab \in Seq(TabEntry) /\ H \in Seq(Moment)
      /\ g.a \in Seq(Position) /\ Past(H, w, tab, dr) /\ td = Image(tab, g.a)
      /\ WriterOK(tab, g.a, st, cl) /\ g.a # <<>>
  BY SMTT(30), <1>0, NowFacts
<1>2. InTurn(more) /\ SlotsFirst(more) /\ \A x \in 1 .. Len(more) : ~Slot(more[x])
  BY ZenonT(30), NoSlotsOrder DEF Writing, NoSlots
<1>4. \A x \in 1 .. Len(more) : PosOK(tab2, Len(tab2), more[x])
  <2>1. \A x \in 1 .. Len(more) : more[x].k = "view" => PosOK(tab2, Len(tab2), more[x])
    BY DEF Writing
  <2>. QED
    BY ZenonT(30), <1>2, <2>1 DEF PosOK, Slot
<1>5. NoSlots(Tail(g.a)) \/ \A x \in 1 .. Len(more) : Slot(more[x])
  <2>1. more = <<>> => Len(more) = 0
    BY SMTT(30)
  <2>2. more = <<>> \/ NoSlots(Tail(g.a))
    BY ZenonT(30) DEF Writing
  <2>. QED
    BY <2>1, <2>2
<1>6. WriteOf(H, w, tab, dr, g, toks, recs, w2, tab2, more, h)
  <2>1. \A x \in 1 .. Len(more) : Slot(more[x]) => more[x].of >= Len(tab)
    BY <1>2
  <2>2. Past(H, w, tab, dr) /\ g.a # <<>> /\ InTurn(more) /\ SlotsFirst(more)
    BY ZenonT(30), <1>1, <1>2
  <2>. QED
    BY <1>4, <1>5, <2>1, <2>2 DEF WriteOf, Writing
<1>7. /\ Past(Append(H, h), w2, tab2, dr)
      /\ Image(tab2, h.a) = Image(tab2, more) \o Tail(Image(tab, g.a))
  BY SMTT(30), <1>6, WriteStep
<1>8. Image(tab2, more) = more
  BY ZenonT(30), ImageNoSlots DEF Writing
<1>9. WriterOK(tab2, more \o Tail(g.a), st2, cl)
  BY <1>1, Kept DEF Writing
<1>10. h.a = more \o Tail(g.a)
  BY DEF Writing
<1>11. Append(H, h) \in Seq(Moment)
  BY <1>7 DEF Past
<1>12. Append(H, h)[Len(Append(H, h))] = h
  BY <1>1
<1>13. WInv(Append(H, h), w2, tab2, dr, more \o Tail(td), st2, cl)
  BY <1>1, <1>7, <1>8, <1>9, <1>10, <1>12 DEF WInv
<1>. QED
  BY <1>11, <1>12, <1>13

-----------------------------------------------------------------------------
(***************************************************************************)
(* A write that opens no descriptor.                                       *)
(***************************************************************************)

PlainWriting(H, w, tab, dr, td, st, cl, g, toks, recs, w2, tab2, more, h) ==
  /\ WInv(H, w, tab, dr, td, st, cl) /\ g = H[Len(H)] /\ td # <<>>
  /\ toks \in Seq(Token) /\ recs \in Seq(TabEntry)
  /\ w2 = w \o toks /\ tab2 = tab \o recs
  /\ toks # <<>> => toks[1].t # "path"
  /\ \A i \in 1 .. Len(toks) : TokOK(tab, Len(tab), toks[i])
       \/ (toks[i].t = "view" /\ TokOK(tab2, Len(tab2), toks[i]))
  /\ \A i \in 1 .. Len(recs) :
       /\ recs[i].sort \notin {"desc", "str"}
       /\ recs[i].sort = "value" =>
            \A j \in 1 .. Len(Fields[recs[i].of]) : Has(st, Fields[recs[i].of][j])
  /\ more \in Seq(Position) /\ NoSlots(more)
  /\ \A x \in 1 .. Len(more) : more[x].k = "view" => PosOK(tab2, Len(tab2), more[x])
  /\ \A x \in 1 .. Len(more) : more[x].k \in {"body", "open"} => Written(tab, more[x].d)
  /\ ~Slot(Head(g.a))
  /\ h = [a |-> more \o Tail(g.a), n |-> Len(w2), c |-> Len(tab2)]
  /\ Onward(w2, tab2, dr, g, h)

LEMMA PlainWrite ==
  ASSUME NEW H, NEW w, NEW tab, NEW dr, NEW td, NEW st, NEW cl, NEW g, NEW toks, NEW recs,
         NEW w2, NEW tab2, NEW more, NEW h,
         PlainWriting(H, w, tab, dr, td, st, cl, g, toks, recs, w2, tab2, more, h)
  PROVE  \E G \in Seq(Moment) :
           WInv(G, w2, tab2, dr, more \o Tail(td), st, cl) /\ G[Len(G)] = h
<1>1. WInv(H, w, tab, dr, td, st, cl) /\ g = H[Len(H)] /\ td # <<>>
  BY DEF PlainWriting
<1>2. w \in Seq(Token) /\ tab \in Seq(TabEntry) /\ Len(tab) \in Nat /\ WriterOK(tab, g.a, st, cl)
  BY <1>1, NowFacts
<1>3. tab2 \in Seq(TabEntry) /\ Grows(tab, tab2) /\ Len(tab2) \in Nat /\ Len(tab) <= Len(tab2)
  <2>1. recs \in Seq(TabEntry) /\ tab2 = tab \o recs
    BY DEF PlainWriting
  <2>2. tab2 \in Seq(TabEntry) /\ Grows(tab, tab2)
    BY <1>2, <2>1, Longer
  <2>. QED
    BY <2>2 DEF Grows
<1>4. \A i \in 1 .. Len(toks) : TokOK(tab2, Len(tab2), toks[i])
  <2>1. ASSUME NEW i \in 1 .. Len(toks), TokOK(tab, Len(tab), toks[i])
        PROVE  TokOK(tab2, Len(tab2), toks[i])
    <3>1. toks[i] \in Token
      BY DEF PlainWriting
    <3>. QED
      BY <1>2, <1>3, <2>1, <3>1, TokGrows
  <2>2. \A i \in 1 .. Len(toks) : TokOK(tab, Len(tab), toks[i]) \/ TokOK(tab2, Len(tab2), toks[i])
    BY DEF PlainWriting
  <2>. QED
    BY ZenonT(30), <2>1, <2>2
<1>5. StrsOK(tab2, st)
  <2>0. StrsOK(tab, st)
    BY <1>2 DEF WriterOK
  <2>1. ASSUME NEW q \in Bound(st) PROVE q[2] \in 1 .. Len(tab2) /\ tab2[q[2]] = Entry("str", q[1])
    <3>1. q[2] \in 1 .. Len(tab) /\ tab[q[2]] = Entry("str", q[1])
      BY <2>0 DEF StrsOK
    <3>2. q[2] \in 1 .. Len(tab2)
      BY <1>2, <1>3, <3>1
    <3>3. tab2[q[2]] = tab[q[2]]
      BY <1>3, <3>1 DEF Grows
    <3>. QED
      BY <3>1, <3>2, <3>3
  <2>. QED
    BY <2>0, <2>1 DEF StrsOK
<1>6. \A x \in 1 .. Len(more) : more[x].k \in {"body", "open"} => Written(tab2, more[x].d)
  <2>1. ASSUME NEW e, Written(tab, e) PROVE Written(tab2, e)
    BY <1>2, <1>3, <2>1, WrittenGrows, Zenon
  <2>2. \A x \in 1 .. Len(more) : more[x].k \in {"body", "open"} => Written(tab, more[x].d)
    BY DEF PlainWriting
  <2>. QED
    BY <2>1, <2>2
<1>7. NoSlots(Tail(g.a)) /\ Head(g.a).k # "name" /\ Head(g.a).k # "kid"
  <2>1. ~Slot(Head(g.a))
    BY ZenonT(30) DEF PlainWriting
  <2>2. Slot(Head(g.a)) \/ NoSlots(Tail(g.a))
    BY ZenonT(30), <1>1, HeadFacts
  <2>. QED
    BY <2>1, <2>2 DEF Slot
<1>8. Writing(H, w, tab, dr, td, st, cl, g, toks, recs, w2, tab2, st, more, h)
  <2>1. \A i \in 1 .. Len(recs) :
          /\ recs[i].sort # "desc"
          /\ recs[i].sort = "value" =>
               \A j \in 1 .. Len(Fields[recs[i].of]) : Has(st, Fields[recs[i].of][j])
    BY DEF PlainWriting
  <2>. QED
    BY <1>4, <1>5, <1>6, <1>7, <2>1 DEF PlainWriting, Writing
<1>. QED
  BY <1>8, OneWrite

LEMMA MadeForm ==
  /\ \A d : /\ ~Slot(Body(d)) /\ Body(d).k = "body" /\ Body(d).d = d /\ Body(d).held = FALSE
            /\ ~Slot(Held(d)) /\ Held(d).k = "body" /\ Held(d).d = d /\ Held(d).held = TRUE
            /\ ~Slot(Open(d)) /\ Open(d).k = "open" /\ Open(d).d = d
  /\ \A d, then : /\ ~Slot(DescAt(d, then)) /\ DescAt(d, then).k = "desc" /\ DescAt(d, then).d = d
                  /\ DescAt(d, then).then = then
  /\ \A id : ~Slot(ViewOf(id)) /\ ViewOf(id).k = "view" /\ ViewOf(id).id = id
  BY DEF Slot, Body, Held, Open, DescAt, ViewOf

LEMMA TokenMade ==
  /\ \A s \in DOMAIN Hash : Lit("str", s) \in Token
  /\ Lit("struct", 0) \in Token
  /\ \A kind \in Kinds : Lit("nil", kind) \in Token
  /\ \A n \in 0 .. 1 : Lit("map", n) \in Token /\ Lit("array", n) \in Token
  /\ \A kind \in Kinds, n \in Nat : [t |-> "desc", x |-> kind, n |-> n] \in Token
  /\ \A id \in Nat, sort \in Sorts, of \in DOMAIN Hash \cup Descs : Ref(id, sort, of) \in Token
  /\ \A id \in Nat, of \in Descs : View(id, of) \in Token
  /\ \A id \in Nat, of \in DOMAIN Hash : [t |-> "path", x |-> id, of |-> of] \in Token
  BY DEF Token, Lit, Ref, View, Sorts

LEMMA EmptyFacts ==
  /\ <<>> \in Seq(Token) /\ <<>> \in Seq(TabEntry) /\ <<>> \in Seq(Position) /\ Len(<<>>) = 0
  /\ NoSlots(<<>>)
  BY DEF NoSlots

(* The states after a write: one of the writer invariant, by some history. *)
Ends(w, tab, dr, td, st, cl) == \E G \in Seq(Moment) : WInv(G, w, tab, dr, td, st, cl)

LEMMA BodyNow ==
  ASSUME NEW H, NEW w, NEW tab, NEW dr, NEW td, NEW st, NEW cl, WInv(H, w, tab, dr, td, st, cl),
         NEW g, g = H[Len(H)], td # <<>>, Head(td).k \in {"body", "open", "view"}
  PROVE  /\ Head(g.a) = Head(td) /\ Head(td) \in Position /\ ~Slot(Head(td))
         /\ NoSlots(g.a) /\ g.a # <<>> /\ PosOK(tab, Len(tab), Head(td))
         /\ Head(td).k # "view" =>
              /\ Head(td).d \in Descs /\ Written(tab, Head(td).d)
              /\ \A i \in 1 .. Len(Kids[Head(td).d]) : Written(tab, Kids[Head(td).d][i])
              /\ \A j \in 1 .. Len(Fields[Head(td).d]) : Has(st, Fields[Head(td).d][j])
<1>. DEFINE p == Head(g.a)
<1>1. /\ g.a # <<>> /\ p \in Position /\ PosOK(tab, Len(tab), p)
      /\ Head(td) = Plain(tab, p) /\ (Slot(p) \/ NoSlots(g.a))
      /\ p.k \in {"body", "open"} => p.d \in Descs /\ Written(tab, p.d)
  BY HeadFacts
<1>2. Plain(tab, p) = p
  BY <1>1, PlainForm
<1>3. ~Slot(p)
  BY <1>1, <1>2 DEF Slot
<1>4. tab \in Seq(TabEntry) /\ g.a \in Seq(Position) /\ WriterOK(tab, g.a, st, cl)
  BY NowFacts
<1>. HIDE DEF p
<1>5. p = Head(td)
  BY <1>1, <1>2
<1>6. p.k # "view" =>
        /\ p.d \in Descs /\ Written(tab, p.d)
        /\ \A i \in 1 .. Len(Kids[p.d]) : Written(tab, Kids[p.d][i])
        /\ \A j \in 1 .. Len(Fields[p.d]) : Has(st, Fields[p.d][j])
  <2>1. CASE p.k = "view"
    BY <2>1
  <2>2. CASE p.k # "view"
    <3>1. p.d \in Descs /\ Written(tab, p.d) /\ NoSlots(g.a)
      BY <1>1, <1>3, <1>5, <2>2
    <3>2. /\ \A i \in 1 .. Len(Kids[p.d]) : Written(tab, Kids[p.d][i])
          /\ \A j \in 1 .. Len(Fields[p.d]) : Has(st, Fields[p.d][j])
      BY <1>4, <3>1, Complete
    <3>. QED
      BY <3>1, <3>2
  <2>. QED
    BY <2>1, <2>2
<1>. QED
  BY <1>1, <1>3, <1>5, <1>6 DEF p

-----------------------------------------------------------------------------
(***************************************************************************)
(* The Writer's actions, one by one: bodies, records, nils, views.         *)
(***************************************************************************)

(* A write at a body, an opening or a view, before what it must make sure of. *)
Puts(H, g, toks, recs, more, h) ==
  /\ WInv(H, wire, wtab, drop, todo, strs, claims) /\ g = H[Len(H)]
  /\ todo # <<>> /\ Head(todo).k \in {"body", "open", "view"}
  /\ Put(toks, recs, more) /\ UNCHANGED Tables
  /\ toks \in Seq(Token) /\ recs \in Seq(TabEntry) /\ more \in Seq(Position)
  /\ h = [a |-> more \o Tail(g.a), n |-> Len(wire'), c |-> Len(wtab')]

LEMMA PutsFacts ==
  ASSUME NEW H, NEW g, NEW toks, NEW recs, NEW more, NEW h, Puts(H, g, toks, recs, more, h)
  PROVE  /\ Turn(g, h, more, Len(toks), Len(recs))
         /\ \A i \in 1 .. Len(toks) : wire'[g.n + i] = toks[i]
         /\ \A i \in 1 .. Len(recs) : wtab'[g.c + i] = recs[i]
         /\ \A i \in 1 .. g.c : wtab'[i] = wtab[i]
         /\ wtab' \in Seq(TabEntry) /\ Len(wtab') = g.c + Len(recs)
         /\ g.c \in Nat /\ g.n \in Nat /\ g.c = Len(wtab) /\ drop' = drop
         /\ wtab \in Seq(TabEntry) /\ wire \in Seq(Token)
         /\ Head(g.a) = Head(todo) /\ NoSlots(g.a) /\ g.a # <<>>
<1>1. /\ WInv(H, wire, wtab, drop, todo, strs, claims) /\ g = H[Len(H)]
      /\ todo # <<>> /\ Head(todo).k \in {"body", "open", "view"}
      /\ toks \in Seq(Token) /\ recs \in Seq(TabEntry)
      /\ h = [a |-> more \o Tail(g.a), n |-> Len(wire'), c |-> Len(wtab')]
  BY DEF Puts
<1>2. wire' = wire \o toks /\ wtab' = wtab \o recs /\ drop' = drop
  BY DEF Puts, Put
<1>3. /\ wire \in Seq(Token) /\ wtab \in Seq(TabEntry) /\ g.n = Len(wire) /\ g.c = Len(wtab)
      /\ Len(wire) \in Nat
  BY <1>1, NowFacts
<1>8. Adds(wire, wtab, g, toks, recs, wire', wtab', more, h)
  BY <1>1, <1>2, <1>3 DEF Adds
<1>4. /\ Turn(g, h, more, Len(toks), Len(recs))
      /\ \A i \in 1 .. Len(toks) : wire'[g.n + i] = toks[i]
      /\ \A i \in 1 .. Len(recs) : wtab'[g.c + i] = recs[i]
      /\ \A i \in 1 .. g.c : wtab'[i] = wtab[i]
      /\ wtab' \in Seq(TabEntry) /\ Len(wtab') = g.c + Len(recs) /\ g.c \in Nat
  BY <1>8, Wrote
<1>5. Head(g.a) = Head(todo) /\ NoSlots(g.a) /\ g.a # <<>>
  BY <1>1, BodyNow
<1>. QED
  BY <1>2, <1>3, <1>4, <1>5

LEMMA PutsEnd ==
  ASSUME NEW H, NEW g, NEW toks, NEW recs, NEW more, NEW h, Puts(H, g, toks, recs, more, h),
         toks # <<>> => toks[1].t # "path",
         \A i \in 1 .. Len(toks) : TokOK(wtab, Len(wtab), toks[i])
           \/ (toks[i].t = "view" /\ TokOK(wtab', Len(wtab'), toks[i])),
         \A i \in 1 .. Len(recs) :
           /\ recs[i].sort \notin {"desc", "str"}
           /\ recs[i].sort = "value" =>
                \A j \in 1 .. Len(Fields[recs[i].of]) : Has(strs, Fields[recs[i].of][j]),
         NoSlots(more),
         \A x \in 1 .. Len(more) : more[x].k = "view" => PosOK(wtab', Len(wtab'), more[x]),
         \A x \in 1 .. Len(more) : more[x].k \in {"body", "open"} => Written(wtab, more[x].d),
         Onward(wire', wtab', drop, g, h)
  PROVE  /\ \E G \in Seq(Moment) :
              WInv(G, wire', wtab', drop, more \o Tail(todo), strs, claims) /\ G[Len(G)] = h
         /\ Ends(wire', wtab', drop', todo', strs', claims')
<1>1. PlainWriting(H, wire, wtab, drop, todo, strs, claims, g, toks, recs, wire', wtab', more, h)
  <2>1. ~Slot(Head(g.a))
    <3>1. Head(g.a) = Head(todo)
      BY PutsFacts
    <3>2. Head(todo).k \in {"body", "open", "view"}
      BY DEF Puts
    <3>. QED
      BY <3>1, <3>2 DEF Slot
  <2>2. /\ WInv(H, wire, wtab, drop, todo, strs, claims) /\ g = H[Len(H)] /\ todo # <<>>
        /\ toks \in Seq(Token) /\ recs \in Seq(TabEntry) /\ more \in Seq(Position)
        /\ h = [a |-> more \o Tail(g.a), n |-> Len(wire'), c |-> Len(wtab')]
    BY DEF Puts
  <2>3. wire' = wire \o toks /\ wtab' = wtab \o recs
    BY DEF Puts, Put
  <2>. QED
    BY <2>1, <2>2, <2>3 DEF PlainWriting
<1>2. \E G \in Seq(Moment) :
         WInv(G, wire', wtab', drop, more \o Tail(todo), strs, claims) /\ G[Len(G)] = h
  BY <1>1, PlainWrite
<1>3. todo' = more \o Tail(todo) /\ drop' = drop /\ strs' = strs /\ claims' = claims
  BY DEF Puts, Put, Tables
<1>. QED
  BY ZenonT(30), <1>2, <1>3 DEF Ends

(* A struct's body (writeStruct). *)
LEMMA StructWritten ==
  ASSUME NEW H, WInv(H, wire, wtab, drop, todo, strs, claims), WriteStruct
  PROVE  Ends(wire', wtab', drop', todo', strs', claims')
<1>. DEFINE g == H[Len(H)]
            d == Head(todo).d
            tk == Lit("struct", 0)
            toks == <<tk>>
            recs == <<>>
            more == [i \in DOMAIN Kids[d] |-> Body(Kids[d][i])]
            h == [a |-> more \o Tail(g.a), n |-> Len(wire'), c |-> Len(wtab')]
<1>1. /\ todo # <<>> /\ Head(todo).k = "body" /\ Kind[d] = "struct"
      /\ Put(toks, recs, more) /\ UNCHANGED Tables
  BY DEF WriteStruct, At, D
<1>2. d \in Descs /\ \A i \in 1 .. Len(Kids[d]) : Written(wtab, Kids[d][i])
  BY <1>1, BodyNow
<1>3. /\ Len(Kids[d]) \in Nat /\ DOMAIN Kids[d] = 1 .. Len(Kids[d])
      /\ \A i \in 1 .. Len(Kids[d]) : Kids[d][i] \in Descs
  BY <1>2, KidFacts
<1>4. \A i \in 1 .. Len(Kids[d]) : more[i] = Body(Kids[d][i]) /\ more[i] \in Position
  BY <1>3, PositionMade
<1>5. more \in Seq(Position) /\ Len(more) = Len(Kids[d])
  <2>1. more = [i \in 1 .. Len(Kids[d]) |-> more[i]]
    BY <1>3
  <2>. HIDE DEF more
  <2>. QED
    BY SMTT(30), <1>3, <1>4, <2>1
<1>6. tk \in Token
  BY TokenMade
<1>7. toks \in Seq(Token) /\ Len(toks) = 1 /\ toks[1] = tk
  BY <1>6
<1>8. recs \in Seq(TabEntry) /\ Len(recs) = 0
  OBVIOUS
<1>. HIDE DEF toks, recs, tk
<1>9. Puts(H, g, toks, recs, more, h)
  BY <1>1, <1>5, <1>7, <1>8 DEF Puts
<1>10. /\ Turn(g, h, more, Len(toks), Len(recs)) /\ \A i \in 1 .. Len(toks) : wire'[g.n + i] = toks[i]
       /\ Head(g.a) = Head(todo)
  BY SMTT(30), <1>9, PutsFacts
<1>11. more = [i \in 1 .. Len(Kids[d]) |-> Body(Kids[d][i])]
  BY ZenonT(30), <1>3
<1>. HIDE DEF g, h, more
<1>12. StepStruct(wire', g, h)
  <2>1. wire'[g.n + 1] = tk /\ Turn(g, h, more, 1, 0)
    BY <1>7, <1>8, <1>10
  <2>. QED
    BY <1>1, <1>10, <1>11, <2>1 DEF StepStruct, BodyIs, tk, d
<1>13. NoSlots(more) /\ \A i \in 1 .. Len(more) : more[i].k = "body" /\ more[i].d = Kids[d][i]
  BY <1>4, <1>5, MadeForm DEF NoSlots
<1>14. TokOK(wtab, Len(wtab), tk) /\ tk.t # "path"
  BY DEF TokOK, tk, Lit
<1>. QED
  BY SMTT(30), <1>2, <1>5, <1>7, <1>8, <1>9, <1>12, <1>13, <1>14, PutsEnd DEF Onward

LEMMA IdsFacts ==
  ASSUME wtab \in Seq(TabEntry), NEW sort, NEW d, NEW id \in IdsOf(sort, d)
  PROVE  id \in 0 .. Len(wtab) - 1 /\ wtab[id + 1] = Entry(sort, d)
<1>1. PICK j \in DOMAIN wtab : id = j - 1 /\ wtab[j] = Entry(sort, d)
  BY DEF IdsOf
<1>2. DOMAIN wtab = 1 .. Len(wtab) /\ Len(wtab) \in Nat
  OBVIOUS
<1>. QED
  BY <1>1, <1>2

(* A record named again. *)
Repeats(H, g, tk, toks, h) ==
  /\ Puts(H, g, toks, <<>>, <<>>, h)
  /\ tk \in Token /\ toks \in Seq(Token) /\ Len(toks) = 1 /\ toks[1] = tk
  /\ tk.t \in {"ref", "view"} /\ tk.sort # "desc"
  /\ tk.x \in 0 .. Len(wtab) - 1 /\ wtab[tk.x + 1] = Entry(tk.sort, tk.of)

LEMMA AgainWritten ==
  ASSUME NEW H, NEW g, NEW tk, NEW toks, NEW h, Repeats(H, g, tk, toks, h)
  PROVE  /\ Again(wire', wtab', g, tk) /\ Turn(g, h, <<>>, 1, 0) /\ Head(g.a) = Head(todo)
         /\ g.c = Len(wtab)
         /\ Onward(wire', wtab', drop, g, h) => Ends(wire', wtab', drop', todo', strs', claims')
<1>0. /\ Puts(H, g, toks, <<>>, <<>>, h)
      /\ tk \in Token /\ toks \in Seq(Token) /\ Len(toks) = 1 /\ toks[1] = tk
      /\ tk.t \in {"ref", "view"} /\ tk.sort # "desc"
      /\ tk.x \in 0 .. Len(wtab) - 1 /\ wtab[tk.x + 1] = Entry(tk.sort, tk.of)
  BY DEF Repeats
<1>9. Puts(H, g, toks, <<>>, <<>>, h)
  BY <1>0, Zenon
<1>1. toks # <<>>
  <2>1. toks \in Seq(Token) /\ Len(toks) = 1
    BY <1>0, Zenon
  <2>. QED
    BY <2>1
<1>2. /\ Turn(g, h, <<>>, Len(toks), Len(<<>>)) /\ \A i \in 1 .. Len(toks) : wire'[g.n + i] = toks[i]
      /\ \A i \in 1 .. g.c : wtab'[i] = wtab[i]
      /\ g.c \in Nat /\ g.c = Len(wtab) /\ Head(g.a) = Head(todo)
  BY <1>9, PutsFacts
<1>3. Turn(g, h, <<>>, 1, 0) /\ wire'[g.n + 1] = tk
  BY <1>0, <1>2
<1>4. Again(wire', wtab', g, tk)
  <2>1. tk.x \in Nat /\ tk.x + 1 \in 1 .. g.c
    BY <1>0, <1>2
  <2>2. wtab'[tk.x + 1] = Entry(tk.sort, tk.of)
    BY <1>0, <1>2, <2>1
  <2>. QED
    BY <1>0, <1>2, <1>3, <2>1, <2>2 DEF Again
<1>5. TokOK(wtab, Len(wtab), tk) /\ tk.t # "path"
  BY <1>0, <1>2 DEF TokOK, Entry
<1>6. ASSUME Onward(wire', wtab', drop, g, h) PROVE Ends(wire', wtab', drop', todo', strs', claims')
  <2>1. \A i \in 1 .. Len(toks) : TokOK(wtab, Len(wtab), toks[i])
           \/ (toks[i].t = "view" /\ TokOK(wtab', Len(wtab'), toks[i]))
    BY <1>0, <1>5
  <2>. HIDE DEF Ends, Onward, Puts
  <2>. QED
    BY <1>0, <1>1, <1>5, <1>6, <2>1, EmptyFacts, PutsEnd
<1>. QED
  BY <1>2, <1>3, <1>4, <1>6

(* A pointer to an open record (encodePointer). *)
LEMMA RepeatWritten ==
  ASSUME NEW H, WInv(H, wire, wtab, drop, todo, strs, claims), WriteRepeat
  PROVE  Ends(wire', wtab', drop', todo', strs', claims')
<1>. DEFINE g == H[Len(H)]
            d == Head(todo).d
            e == Kids[d][1]
            h == [a |-> <<>> \o Tail(g.a), n |-> Len(wire'), c |-> Len(wtab')]
<1>1. PICK id \in IdsOf("value", e) :
        /\ todo # <<>> /\ Head(todo).k = "body" /\ Kind[d] = "ptr"
        /\ Put(<<Ref(id, "value", e)>>, <<>>, <<>>) /\ UNCHANGED Tables
  BY DEF WriteRepeat, At, D
<1>2. d \in Descs /\ e \in Descs /\ wtab \in Seq(TabEntry)
  <2>1. d \in Descs
    BY <1>1, BodyNow
  <2>2. wtab \in Seq(TabEntry)
    BY NowFacts
  <2>. QED
    BY <1>1, <2>1, <2>2, DescFacts
<1>3. id \in 0 .. Len(wtab) - 1 /\ wtab[id + 1] = Entry("value", e)
  BY <1>2, IdsFacts
<1>. DEFINE tk == Ref(id, "value", e)
            toks == <<tk>>
<1>4. tk \in Token /\ tk.t = "ref" /\ tk.sort = "value" /\ tk.x = id /\ tk.of = e
  <2>1. tk.t = "ref" /\ tk.sort = "value" /\ tk.x = id /\ tk.of = e
    BY DEF Ref
  <2>2. id \in Nat /\ "value" \in Sorts
    BY <1>3 DEF Sorts
  <2>. QED
    BY <1>2, <2>1, <2>2, TokenMade
<1>9. toks \in Seq(Token) /\ Len(toks) = 1 /\ toks[1] = tk
  BY <1>4
<1>. HIDE DEF tk
<1>5. Puts(H, g, toks, <<>>, <<>>, h)
  BY <1>1, <1>9, EmptyFacts DEF Puts, tk
<1>. HIDE DEF toks, g, h
<1>6. /\ Again(wire', wtab', g, tk) /\ Turn(g, h, <<>>, 1, 0) /\ Head(g.a) = Head(todo)
      /\ g.c = Len(wtab)
      /\ Onward(wire', wtab', drop, g, h) => Ends(wire', wtab', drop', todo', strs', claims')
  <2>1. Repeats(H, g, tk, toks, h)
    BY <1>3, <1>4, <1>5, <1>9 DEF Repeats
  <2>. QED
    BY <2>1, AgainWritten
<1>7. StepRepeat(wire', wtab', g, h)
  BY <1>1, <1>3, <1>6 DEF StepRepeat, BodyIs, Elem, tk
<1>. QED
  BY <1>6, <1>7 DEF Onward

LEMMA NilWritten ==
  ASSUME NEW H, WInv(H, wire, wtab, drop, todo, strs, claims), WriteNil
  PROVE  Ends(wire', wtab', drop', todo', strs', claims')
<1>. DEFINE g == H[Len(H)]
            d == Head(todo).d
            tk == Lit("nil", Kind[d])
            toks == <<tk>>
            h == [a |-> <<>> \o Tail(g.a), n |-> Len(wire'), c |-> Len(wtab')]
<1>1. /\ todo # <<>> /\ Head(todo).k = "body" /\ Kind[d] \in {"ptr", "map", "slice", "iface"}
      /\ ~Head(todo).held /\ Put(toks, <<>>, <<>>) /\ UNCHANGED Tables
  BY DEF WriteNil, At, D
<1>2. d \in Descs
  BY <1>1, BodyNow
<1>3. tk \in Token /\ tk.t = "nil"
  BY <1>2, DescFacts, TokenMade DEF Lit
<1>4. toks \in Seq(Token) /\ Len(toks) = 1 /\ toks[1] = tk
  BY <1>3
<1>. HIDE DEF tk, toks
<1>5. Puts(H, g, toks, <<>>, <<>>, h)
  BY <1>1, <1>4, EmptyFacts DEF Puts
<1>. HIDE DEF g, h
<1>6. /\ Turn(g, h, <<>>, Len(toks), Len(<<>>)) /\ \A i \in 1 .. Len(toks) : wire'[g.n + i] = toks[i]
      /\ Head(g.a) = Head(todo)
  BY <1>5, PutsFacts
<1>7. wire'[g.n + 1] = tk /\ Turn(g, h, <<>>, 1, 0)
  BY <1>4, <1>6
<1>8. StepNil(wire', drop, g, h)
  BY <1>1, <1>6, <1>7 DEF StepNil, tk, d
<1>9. TokOK(wtab, Len(wtab), tk) /\ tk.t # "path"
  BY <1>3 DEF TokOK
<1>10. \A i \in 1 .. Len(toks) : TokOK(wtab, Len(wtab), toks[i])
  BY <1>4, <1>9
<1>. QED
  BY <1>4, <1>5, <1>8, <1>9, <1>10, EmptyFacts, PutsEnd DEF Onward

LEMMA OpenWritten ==
  ASSUME NEW H, WInv(H, wire, wtab, drop, todo, strs, claims), WriteOpen
  PROVE  Ends(wire', wtab', drop', todo', strs', claims')
<1>. DEFINE g == H[Len(H)]
            d == Head(todo).d
            rec == Entry("value", d)
            recs == <<rec>>
            h == [a |-> <<>> \o Tail(g.a), n |-> Len(wire'), c |-> Len(wtab')]
<1>1. /\ todo # <<>> /\ Head(todo).k = "open"
      /\ Put(<<>>, recs, <<>>) /\ UNCHANGED Tables
  BY DEF WriteOpen
<1>2. d \in Descs /\ \A j \in 1 .. Len(Fields[d]) : Has(strs, Fields[d][j])
  BY <1>1, BodyNow
<1>3. rec \in TabEntry /\ rec.sort = "value" /\ rec.of = d
  BY <1>2 DEF Entry, TabEntry, Sorts
<1>4. recs \in Seq(TabEntry) /\ Len(recs) = 1 /\ recs[1] = rec
  BY <1>3
<1>. HIDE DEF rec, recs
<1>5. Puts(H, g, <<>>, recs, <<>>, h)
  BY <1>1, <1>4, EmptyFacts DEF Puts
<1>. HIDE DEF g, h
<1>6. /\ Turn(g, h, <<>>, Len(<<>>), Len(recs)) /\ \A i \in 1 .. Len(recs) : wtab'[g.c + i] = recs[i]
      /\ Head(g.a) = Head(todo)
  BY <1>5, PutsFacts
<1>7. wtab'[g.c + 1] = rec /\ Turn(g, h, <<>>, 0, 1)
  BY <1>4, <1>6
<1>8. StepOpen(wtab', g, h)
  BY <1>1, <1>6, <1>7 DEF StepOpen, rec
<1>9. \A i \in 1 .. Len(recs) :
        /\ recs[i].sort \notin {"desc", "str"}
        /\ recs[i].sort = "value" =>
             \A j \in 1 .. Len(Fields[recs[i].of]) : Has(strs, Fields[recs[i].of][j])
  BY <1>2, <1>3, <1>4
<1>10. Onward(wire', wtab', drop, g, h)
  BY <1>8 DEF Onward
<1>. QED
  BY <1>5, <1>9, <1>10, EmptyFacts, PutsEnd

LEMMA ViewWritten ==
  ASSUME NEW H, WInv(H, wire, wtab, drop, todo, strs, claims), WriteView
  PROVE  Ends(wire', wtab', drop', todo', strs', claims')
<1>. DEFINE g == H[Len(H)]
            id == Head(todo).id
            tk == View(id, wtab[id + 1].of)
            toks == <<tk>>
            h == [a |-> <<>> \o Tail(g.a), n |-> Len(wire'), c |-> Len(wtab')]
<1>1. /\ todo # <<>> /\ Head(todo).k = "view"
      /\ Put(toks, <<>>, <<>>) /\ UNCHANGED Tables
  BY DEF WriteView
<1>2. Head(todo) \in Position /\ PosOK(wtab, Len(wtab), Head(todo)) /\ wtab \in Seq(TabEntry)
  <2>1. wtab \in Seq(TabEntry)
    BY NowFacts
  <2>. QED
    BY <1>1, <2>1, BodyNow
<1>3. id \in Nat /\ id < Len(wtab) /\ wtab[id + 1].sort = "array" /\ id + 1 \in 1 .. Len(wtab)
  <2>1. id \in Nat
    BY <1>1, <1>2, PositionForm
  <2>2. id < Len(wtab) /\ wtab[id + 1].sort = "array" /\ Len(wtab) \in Nat
    BY <1>1, <1>2 DEF PosOK
  <2>. QED
    BY <2>1, <2>2
<1>4. wtab[id + 1].of \in Descs
  BY <1>2, <1>3, EntryForm
<1>5. tk \in Token /\ tk.t = "view" /\ TokOK(wtab, Len(wtab), tk)
  <2>1. tk \in Token /\ tk.t = "view" /\ tk.x = id /\ tk.sort = "array" /\ tk.of = wtab[id + 1].of
    BY <1>3, <1>4, TokenMade DEF View
  <2>. QED
    BY <1>3, <2>1 DEF TokOK
<1>6. toks \in Seq(Token) /\ Len(toks) = 1 /\ toks[1] = tk
  BY <1>5
<1>. HIDE DEF tk, toks
<1>7. Puts(H, g, toks, <<>>, <<>>, h)
  BY <1>1, <1>6, EmptyFacts DEF Puts
<1>. HIDE DEF g, h
<1>8. /\ Turn(g, h, <<>>, Len(toks), Len(<<>>)) /\ \A i \in 1 .. Len(toks) : wire'[g.n + i] = toks[i]
      /\ Head(g.a) = Head(todo) /\ g.c = Len(wtab) /\ \A i \in 1 .. g.c : wtab'[i] = wtab[i]
  BY <1>7, PutsFacts
<1>9. wire'[g.n + 1] = tk /\ Turn(g, h, <<>>, 1, 0)
  BY <1>6, <1>8
<1>10. StepView(wire', wtab', g, h)
  <2>1. wtab'[id + 1] = wtab[id + 1]
    BY <1>3, <1>8
  <2>. QED
    BY <1>1, <1>8, <1>9, <2>1 DEF StepView, tk, id
<1>11. \A i \in 1 .. Len(toks) : TokOK(wtab, Len(wtab), toks[i])
  BY <1>5, <1>6
<1>. QED
  BY <1>5, <1>6, <1>7, <1>10, <1>11, EmptyFacts, PutsEnd DEF Onward

LEMMA IfaceWritten ==
  ASSUME NEW H, WInv(H, wire, wtab, drop, todo, strs, claims), WriteIface
  PROVE  Ends(wire', wtab', drop', todo', strs', claims')
<1>1. PICK d \in Dyn : /\ todo # <<>> /\ Head(todo).k = "body" /\ Kind[Head(todo).d] = "iface"
                       /\ Put(<<>>, <<>>, <<DescAt(d, "body")>>) /\ UNCHANGED Tables
  BY DEF WriteIface, At
<1>. DEFINE g == H[Len(H)]
            p == DescAt(d, "body")
            more == <<p>>
            h == [a |-> more \o Tail(g.a), n |-> Len(wire'), c |-> Len(wtab')]
<1>2. d \in Descs
  BY DescFacts
<1>3. p \in Position /\ ~Slot(p) /\ p.k = "desc"
  BY <1>2, PositionMade, MadeForm
<1>4. more \in Seq(Position) /\ Len(more) = 1 /\ more[1] = p
  BY <1>3
<1>5. Puts(H, g, <<>>, <<>>, more, h)
  BY <1>1, <1>4, EmptyFacts DEF Puts
<1>. HIDE DEF g, h, more
<1>6. Turn(g, h, more, 0, 0) /\ Head(g.a) = Head(todo)
  BY <1>5, EmptyFacts, PutsFacts
<1>7. StepIface(g, h)
  BY <1>1, <1>2, <1>6 DEF StepIface, BodyIs, more
<1>. HIDE DEF p
<1>8. Onward(wire', wtab', drop, g, h)
  BY <1>7 DEF Onward
<1>9. NoSlots(more) /\ \A x \in 1 .. Len(more) : more[x].k = "desc"
  BY <1>3, <1>4 DEF NoSlots
<1>. QED
  BY <1>4, <1>5, <1>8, <1>9, EmptyFacts, PutsEnd

(* A fresh record: its id is taken right before its body. *)
LEMMA RecordWritten ==
  ASSUME NEW H, WInv(H, wire, wtab, drop, todo, strs, claims), WriteRecord
  PROVE  Ends(wire', wtab', drop', todo', strs', claims')
<1>. DEFINE g == H[Len(H)]
            d == Head(todo).d
            e == Kids[d][1]
<1>1. /\ todo # <<>> /\ Head(todo).k = "body" /\ Kind[d] = "ptr"
      /\ IF Kind[e] = "ptr" THEN Put(<<>>, <<>>, <<DescAt(e, "open")>>)
         ELSE Put(<<>>, <<Entry("value", e)>>, <<Held(e)>>)
      /\ UNCHANGED Tables
  BY DEF WriteRecord, At, D
<1>2. /\ d \in Descs /\ wtab \in Seq(TabEntry) /\ g.a \in Seq(Position) /\ NoSlots(g.a) /\ WriterOK(wtab, g.a, strs, claims)
      /\ \A i \in 1 .. Len(Kids[d]) : Written(wtab, Kids[d][i])
  <2>1. d \in Descs /\ NoSlots(g.a) /\ \A i \in 1 .. Len(Kids[d]) : Written(wtab, Kids[d][i])
    BY <1>1, BodyNow
  <2>2. wtab \in Seq(TabEntry) /\ g.a \in Seq(Position) /\ WriterOK(wtab, g.a, strs, claims)
    BY NowFacts
  <2>. QED
    BY <2>1, <2>2
<1>3. e \in Descs /\ Len(Kids[d]) = 1
  BY <1>1, <1>2, DescFacts
<1>4. Written(wtab, e)
  BY <1>2, <1>3
<1>5. \A j \in 1 .. Len(Fields[e]) : Has(strs, Fields[e][j])
  <2>. HIDE DEF g, e, d
  <2>. QED
    BY <1>2, <1>3, <1>4, Complete
<1>6. CASE Kind[e] = "ptr"
  <2>. DEFINE p == DescAt(e, "open")
              more == <<p>>
              h == [a |-> more \o Tail(g.a), n |-> Len(wire'), c |-> Len(wtab')]
  <2>1. p \in Position /\ ~Slot(p) /\ p.k = "desc"
    BY <1>3, PositionMade, MadeForm
  <2>2. more \in Seq(Position) /\ Len(more) = 1 /\ more[1] = p
    BY <2>1
  <2>3. Puts(H, g, <<>>, <<>>, more, h)
    BY <1>1, <1>6, <2>2, EmptyFacts DEF Puts
  <2>. HIDE DEF g, h, more
  <2>4. Turn(g, h, more, 0, 0) /\ Head(g.a) = Head(todo)
    BY <2>3, EmptyFacts, PutsFacts
  <2>5. StepTag(g, h)
    BY <1>1, <1>6, <2>4 DEF StepTag, BodyIs, Elem, more
  <2>. HIDE DEF p
  <2>6. Onward(wire', wtab', drop, g, h)
    BY <2>5 DEF Onward
  <2>7. NoSlots(more) /\ \A x \in 1 .. Len(more) : more[x].k = "desc"
    BY <2>1, <2>2 DEF NoSlots
  <2>. QED
    BY <2>2, <2>3, <2>6, <2>7, EmptyFacts, PutsEnd
<1>7. CASE Kind[e] # "ptr"
  <2>. DEFINE p == Held(e)
              more == <<p>>
              rec == Entry("value", e)
              recs == <<rec>>
              h == [a |-> more \o Tail(g.a), n |-> Len(wire'), c |-> Len(wtab')]
  <2>1. p \in Position /\ ~Slot(p) /\ p.k = "body" /\ p.d = e
    BY <1>3, PositionMade, MadeForm
  <2>2. more \in Seq(Position) /\ Len(more) = 1 /\ more[1] = p
    BY <2>1
  <2>3. rec \in TabEntry /\ rec.sort = "value" /\ rec.of = e
    BY <1>3 DEF Entry, TabEntry, Sorts
  <2>4. recs \in Seq(TabEntry) /\ Len(recs) = 1 /\ recs[1] = rec
    BY <2>3
  <2>5. Puts(H, g, <<>>, recs, more, h)
    BY <1>1, <1>7, <2>2, <2>4, EmptyFacts DEF Puts
  <2>. HIDE DEF g, h, more, recs
  <2>6. /\ Turn(g, h, more, 0, 1) /\ Head(g.a) = Head(todo)
        /\ wtab'[g.c + 1] = rec
    <3>1. /\ Turn(g, h, more, Len(<<>>), Len(recs)) /\ Head(g.a) = Head(todo)
          /\ \A i \in 1 .. Len(recs) : wtab'[g.c + i] = recs[i]
      BY <2>5, PutsFacts
    <3>. QED
      BY <2>4, <3>1, EmptyFacts
  <2>7. StepRecord(wtab', g, h)
    BY <1>1, <1>7, <2>6 DEF StepRecord, BodyIs, Elem, more
  <2>. HIDE DEF p, rec
  <2>8. Onward(wire', wtab', drop, g, h)
    BY <2>7 DEF Onward
  <2>9. NoSlots(more) /\ \A x \in 1 .. Len(more) : more[x].k = "body" /\ more[x].d = e
    BY <2>1, <2>2 DEF NoSlots
  <2>10. \A i \in 1 .. Len(recs) : recs[i] = rec
    BY <2>4
  <2>11. \A x \in 1 .. Len(more) : Written(wtab, more[x].d)
    BY <1>4, <2>9
  <2>12. \A i \in 1 .. Len(recs) :
        /\ recs[i].sort \notin {"desc", "str"}
        /\ recs[i].sort = "value" =>
             \A j \in 1 .. Len(Fields[recs[i].of]) : Has(strs, Fields[recs[i].of][j])
    BY <1>5, <2>3, <2>10
  <2>. HIDE DEF e, d
  <2>13. /\ \A x \in 1 .. Len(more) : more[x].k = "view" => PosOK(wtab', Len(wtab'), more[x])
         /\ \A i \in 1 .. Len(<<>>) : TokOK(wtab, Len(wtab), <<>>[i])
    BY <2>9
  <2>. QED
    BY <2>5, <2>8, <2>9, <2>11, <2>12, <2>13, EmptyFacts, PutsEnd
<1>. QED
  BY <1>6, <1>7

(* A map, or the reference to one. *)
LEMMA MapWritten ==
  ASSUME NEW H, WInv(H, wire, wtab, drop, todo, strs, claims), WriteMap, Gaps = {}
  PROVE  Ends(wire', wtab', drop', todo', strs', claims')
<1>. DEFINE g == H[Len(H)]
            d == Head(todo).d
<1>1. /\ todo # <<>> /\ Head(todo).k = "body" /\ Kind[d] = "map" /\ UNCHANGED Tables
      /\ \/ /\ Head(todo).held => drop = {}
            /\ \E id \in IdsOf("map", d) : Put(<<Ref(id, "map", d)>>, <<>>, <<>>)
         \/ \E n \in 0..1 :
              Put(<<Lit("map", n)>>, <<Entry("map", d)>>,
                  IF n = 0 THEN <<>> ELSE <<Body(Kids[d][1]), Body(Kids[d][2])>>)
  BY DEF WriteMap, At, D, MayWrite
<1>2. /\ d \in Descs /\ wtab \in Seq(TabEntry)
      /\ \A i \in 1 .. Len(Kids[d]) : Written(wtab, Kids[d][i])
  <2>1. d \in Descs /\ \A i \in 1 .. Len(Kids[d]) : Written(wtab, Kids[d][i])
    BY <1>1, BodyNow
  <2>2. wtab \in Seq(TabEntry)
    BY NowFacts
  <2>. QED
    BY <2>1, <2>2
<1>3. ASSUME Head(todo).held => drop = {}, NEW id \in IdsOf("map", d),
             Put(<<Ref(id, "map", d)>>, <<>>, <<>>)
      PROVE  Ends(wire', wtab', drop', todo', strs', claims')
  <2>. DEFINE tk == Ref(id, "map", d)
              toks == <<tk>>
              h == [a |-> <<>> \o Tail(g.a), n |-> Len(wire'), c |-> Len(wtab')]
  <2>1. id \in 0 .. Len(wtab) - 1 /\ wtab[id + 1] = Entry("map", d)
    BY <1>2, IdsFacts
  <2>2. tk \in Token /\ tk.t = "ref" /\ tk.sort = "map" /\ tk.x = id /\ tk.of = d
    <3>1. tk.t = "ref" /\ tk.sort = "map" /\ tk.x = id /\ tk.of = d
      BY DEF Ref
    <3>2. id \in Nat /\ "map" \in Sorts
      BY <2>1 DEF Sorts
    <3>. QED
      BY <1>2, <3>1, <3>2, TokenMade
  <2>3. toks \in Seq(Token) /\ Len(toks) = 1 /\ toks[1] = tk
    BY <2>2
  <2>. HIDE DEF tk
  <2>4. Puts(H, g, toks, <<>>, <<>>, h)
    BY <1>1, <1>3, <2>3, EmptyFacts DEF Puts, tk
  <2>. HIDE DEF toks, g, h
  <2>5. /\ Again(wire', wtab', g, tk) /\ Turn(g, h, <<>>, 1, 0) /\ Head(g.a) = Head(todo)
        /\ g.c = Len(wtab)
        /\ Onward(wire', wtab', drop, g, h) => Ends(wire', wtab', drop', todo', strs', claims')
    <3>1. Repeats(H, g, tk, toks, h)
      BY <2>1, <2>2, <2>3, <2>4 DEF Repeats
    <3>. QED
      BY <3>1, AgainWritten
  <2>6. StepMap(wire', wtab', drop, g, h)
    <3>1. Head(g.a).held => drop = {}
      BY <1>3, <2>5
    <3>2. \E i \in 0 .. g.c - 1 : Again(wire', wtab', g, Ref(i, "map", Head(g.a).d))
      BY <2>1, <2>5 DEF tk
    <3>. QED
      BY <1>1, <2>5, <3>1, <3>2 DEF StepMap, BodyIs
  <2>. QED
    BY <2>5, <2>6 DEF Onward
<1>4. ASSUME NEW n \in 0 .. 1, NEW more, more = (IF n = 0 THEN <<>> ELSE <<Body(Kids[d][1]), Body(Kids[d][2])>>),
             Put(<<Lit("map", n)>>, <<Entry("map", d)>>, more)
      PROVE  Ends(wire', wtab', drop', todo', strs', claims')
  <2>. DEFINE tk == Lit("map", n)
              toks == <<tk>>
              rec == Entry("map", d)
              recs == <<rec>>
              h == [a |-> more \o Tail(g.a), n |-> Len(wire'), c |-> Len(wtab')]
  <2>1. tk \in Token /\ tk.t = "map" /\ rec \in TabEntry /\ rec.sort = "map"
    BY <1>2, TokenMade DEF Lit, Entry, TabEntry, Sorts
  <2>2. /\ toks \in Seq(Token) /\ Len(toks) = 1 /\ toks[1] = tk
        /\ recs \in Seq(TabEntry) /\ Len(recs) = 1 /\ recs[1] = rec
    BY <2>1
  <2>3. Len(Kids[d]) = 2 /\ Kids[d][1] \in Descs /\ Kids[d][2] \in Descs
    BY <1>1, <1>2, DescFacts, KidFacts
  <2>4. /\ more \in Seq(Position) /\ NoSlots(more)
        /\ \A x \in 1 .. Len(more) : more[x].k = "body" /\ Written(wtab, more[x].d)
    <3>1. CASE n = 0
      BY <1>4, <3>1, EmptyFacts
    <3>2. CASE n # 0
      <4>. DEFINE u == Body(Kids[d][1])
                  v == Body(Kids[d][2])
      <4>1. /\ u \in Position /\ v \in Position /\ ~Slot(u) /\ ~Slot(v) /\ u.k = "body" /\ v.k = "body"
            /\ Written(wtab, u.d) /\ Written(wtab, v.d)
        BY <1>2, <2>3, PositionMade, MadeForm
      <4>2. more = <<u, v>>
        BY <1>4, <3>2
      <4>. HIDE DEF u, v
      <4>3. more \in Seq(Position) /\ Len(more) = 2 /\ more[1] = u /\ more[2] = v
        BY SMTT(30), <4>1, <4>2
      <4>4. \A x \in 1 .. Len(more) : more[x] = u \/ more[x] = v
        BY SMTT(30), <4>3
      <4>. QED
        BY <4>1, <4>3, <4>4 DEF NoSlots
    <3>. QED
      BY <3>1, <3>2
  <2>. HIDE DEF tk, rec
  <2>5. Puts(H, g, toks, recs, more, h)
    BY <1>1, <1>4, <2>2, <2>4 DEF Puts, tk, rec
  <2>. HIDE DEF toks, recs, g, h
  <2>6. /\ Turn(g, h, more, 1, 1) /\ wire'[g.n + 1] = tk /\ wtab'[g.c + 1] = rec
        /\ Head(g.a) = Head(todo)
    <3>1. /\ Turn(g, h, more, Len(toks), Len(recs)) /\ Head(g.a) = Head(todo)
          /\ \A i \in 1 .. Len(recs) : wtab'[g.c + i] = recs[i]
          /\ \A i \in 1 .. Len(toks) : wire'[g.n + i] = toks[i]
      BY <2>5, PutsFacts
    <3>. QED
      BY <2>2, <3>1
  <2>7. StepMap(wire', wtab', drop, g, h)
    <3>1. BodyIs(g, "map")
      BY <1>1, <2>6 DEF BodyIs
    <3>. QED
      BY <1>4, <2>6, <3>1 DEF StepMap, tk, rec
  <2>8. Onward(wire', wtab', drop, g, h)
    BY <2>7 DEF Onward
  <2>9. /\ toks[1].t # "path" /\ \A i \in 1 .. Len(toks) : TokOK(wtab, Len(wtab), toks[i])
        /\ \A i \in 1 .. Len(recs) : recs[i].sort \notin {"desc", "str", "value"}
    BY <2>1, <2>2 DEF TokOK
  <2>10. \A x \in 1 .. Len(more) : more[x].k \in {"body", "open"} => Written(wtab, more[x].d)
    BY <2>4
  <2>11. \A x \in 1 .. Len(more) : more[x].k = "view" => PosOK(wtab', Len(wtab'), more[x])
    BY <2>4
  <2>. QED
    BY <2>4, <2>5, <2>8, <2>9, <2>10, <2>11, PutsEnd
<1>. QED
  BY <1>1, <1>3, <1>4

(* A backing with its view, or the view of one. *)
LEMMA SliceWritten ==
  ASSUME NEW H, WInv(H, wire, wtab, drop, todo, strs, claims), WriteSlice
  PROVE  Ends(wire', wtab', drop', todo', strs', claims')
<1>. DEFINE g == H[Len(H)]
            d == Head(todo).d
<1>1. /\ todo # <<>> /\ Head(todo).k = "body" /\ Kind[d] = "slice" /\ UNCHANGED Tables
      /\ \/ \E id \in IdsOf("array", d) : Put(<<View(id, d)>>, <<>>, <<>>)
         \/ \E n \in 0..1 :
              Put(<<Lit("array", n)>>, <<Entry("array", d)>>,
                  [i \in 1..n |-> Body(Kids[d][1])] \o <<ViewOf(NextID)>>)
  BY DEF WriteSlice, At, D
<1>2. /\ d \in Descs /\ wtab \in Seq(TabEntry) /\ Len(wtab) \in Nat
      /\ \A i \in 1 .. Len(Kids[d]) : Written(wtab, Kids[d][i])
  <2>1. d \in Descs /\ \A i \in 1 .. Len(Kids[d]) : Written(wtab, Kids[d][i])
    BY <1>1, BodyNow
  <2>2. wtab \in Seq(TabEntry)
    BY NowFacts
  <2>. QED
    BY <2>1, <2>2
<1>3. ASSUME NEW id \in IdsOf("array", d), Put(<<View(id, d)>>, <<>>, <<>>)
      PROVE  Ends(wire', wtab', drop', todo', strs', claims')
  <2>. DEFINE tk == View(id, d)
              toks == <<tk>>
              h == [a |-> <<>> \o Tail(g.a), n |-> Len(wire'), c |-> Len(wtab')]
  <2>1. id \in 0 .. Len(wtab) - 1 /\ wtab[id + 1] = Entry("array", d)
    BY <1>2, IdsFacts
  <2>2. tk \in Token /\ tk.t = "view" /\ tk.sort = "array" /\ tk.x = id /\ tk.of = d
    <3>1. tk.t = "view" /\ tk.sort = "array" /\ tk.x = id /\ tk.of = d
      BY DEF View
    <3>. QED
      BY <1>2, <2>1, <3>1, TokenMade
  <2>3. toks \in Seq(Token) /\ Len(toks) = 1 /\ toks[1] = tk
    BY <2>2
  <2>. HIDE DEF tk
  <2>4. Puts(H, g, toks, <<>>, <<>>, h)
    BY <1>1, <1>3, <2>3, EmptyFacts DEF Puts, tk
  <2>. HIDE DEF toks, g, h
  <2>5. /\ Again(wire', wtab', g, tk) /\ Turn(g, h, <<>>, 1, 0) /\ Head(g.a) = Head(todo)
        /\ g.c = Len(wtab)
        /\ Onward(wire', wtab', drop, g, h) => Ends(wire', wtab', drop', todo', strs', claims')
    <3>1. Repeats(H, g, tk, toks, h)
      BY <2>1, <2>2, <2>3, <2>4 DEF Repeats
    <3>. QED
      BY <3>1, AgainWritten
  <2>6. StepSlice(wire', wtab', g, h)
    <3>1. \E i \in 0 .. g.c - 1 : Again(wire', wtab', g, View(i, Head(g.a).d))
      BY <2>1, <2>5 DEF tk
    <3>. QED
      BY <1>1, <2>5, <3>1 DEF StepSlice, BodyIs
  <2>. QED
    BY <2>5, <2>6 DEF Onward
<1>4. ASSUME NEW n \in 0 .. 1, NEW u, u = [i \in 1..n |-> Body(Kids[d][1])],
             Put(<<Lit("array", n)>>, <<Entry("array", d)>>, u \o <<ViewOf(NextID)>>)
      PROVE  Ends(wire', wtab', drop', todo', strs', claims')
  <2>. DEFINE tk == Lit("array", n)
              toks == <<tk>>
              rec == Entry("array", d)
              recs == <<rec>>
              v == ViewOf(Len(wtab))
              vs == <<v>>
              more == u \o vs
              h == [a |-> more \o Tail(g.a), n |-> Len(wire'), c |-> Len(wtab')]
  <2>1. tk \in Token /\ tk.t = "array" /\ rec \in TabEntry /\ rec.sort = "array"
    BY <1>2, TokenMade DEF Lit, Entry, TabEntry, Sorts
  <2>2. /\ toks \in Seq(Token) /\ Len(toks) = 1 /\ toks[1] = tk
        /\ recs \in Seq(TabEntry) /\ Len(recs) = 1 /\ recs[1] = rec
    BY <2>1
  <2>3. Len(Kids[d]) = 1 /\ Kids[d][1] \in Descs
    BY <1>1, <1>2, DescFacts, KidFacts
  <2>. DEFINE b == Body(Kids[d][1])
  <2>4. /\ b \in Position /\ ~Slot(b) /\ b.k = "body" /\ Written(wtab, b.d)
        /\ v \in Position /\ ~Slot(v) /\ v.k = "view" /\ v.id = Len(wtab)
    BY <1>2, <2>3, PositionMade, MadeForm
  <2>5. u \in Seq(Position) /\ Len(u) = n /\ \A i \in 1 .. n : u[i] = b
    BY <1>4, <2>4
  <2>6. vs \in Seq(Position) /\ Len(vs) = 1 /\ vs[1] = v
    BY <2>4
  <2>7. Put(toks, recs, more)
    BY <1>4 DEF NextID
  <2>. HIDE DEF tk, rec, toks, recs, b, v, vs
  <2>8. /\ more \in Seq(Position)
        /\ \A x \in 1 .. Len(more) : \/ x \in 1 .. Len(u) /\ more[x] = u[x]
                                     \/ x - Len(u) \in 1 .. Len(vs) /\ more[x] = vs[x - Len(u)]
    BY <2>5, <2>6, ConcatFacts
  <2>9. \A x \in 1 .. Len(more) : more[x] = b \/ more[x] = v
    <3>. SUFFICES ASSUME NEW x \in 1 .. Len(more) PROVE more[x] = b \/ more[x] = v
      OBVIOUS
    <3>1. CASE x \in 1 .. Len(u) /\ more[x] = u[x]
      BY <2>5, <3>1
    <3>2. CASE x - Len(u) \in 1 .. Len(vs) /\ more[x] = vs[x - Len(u)]
      <4>1. x - Len(u) = 1
        BY <2>6, <3>2
      <4>. QED
        BY <2>6, <3>2, <4>1
    <3>. QED
      BY <2>8, <3>1, <3>2
  <2>10. NoSlots(more)
    BY <2>4, <2>9 DEF NoSlots
  <2>. HIDE DEF more
  <2>11. Puts(H, g, toks, recs, more, h)
    BY <1>1, <2>2, <2>7, <2>8 DEF Puts
  <2>. HIDE DEF g, h
  <2>12. /\ Turn(g, h, more, Len(toks), Len(recs)) /\ Head(g.a) = Head(todo)
         /\ \A i \in 1 .. Len(recs) : wtab'[g.c + i] = recs[i]
         /\ \A i \in 1 .. Len(toks) : wire'[g.n + i] = toks[i]
    BY <2>11, PutsFacts
  <2>13. g.c = Len(wtab) /\ Len(wtab') = g.c + Len(recs) /\ g.c \in Nat
    BY <2>11, PutsFacts
  <2>14. /\ Turn(g, h, more, 1, 1) /\ wire'[g.n + 1] = tk /\ wtab'[g.c + 1] = rec
         /\ g.c < Len(wtab')
    BY <2>2, <2>12, <2>13
  <2>15. StepSlice(wire', wtab', g, h)
    <3>1. BodyIs(g, "slice")
      BY <1>1, <2>12 DEF BodyIs
    <3>2. Turn(g, h, [i \in 1 .. n |-> Body(Kids[Head(g.a).d][1])] \o <<ViewOf(g.c)>>, 1, 1)
      BY <1>4, <2>12, <2>13, <2>14 DEF more, vs, v
    <3>3. wire'[g.n + 1] = Lit("array", n) /\ wtab'[g.c + 1] = Entry("array", Head(g.a).d)
      BY <2>12, <2>14 DEF tk, rec
    <3>. QED
      BY <3>1, <3>2, <3>3 DEF StepSlice
  <2>16. Onward(wire', wtab', drop, g, h)
    BY <2>15 DEF Onward
  <2>17. /\ toks[1].t # "path" /\ \A i \in 1 .. Len(toks) : TokOK(wtab, Len(wtab), toks[i])
         /\ \A i \in 1 .. Len(recs) : recs[i].sort \notin {"desc", "str", "value"}
    BY <2>1, <2>2 DEF TokOK
  <2>18. PosOK(wtab', Len(wtab'), v)
    <3>1. v.id < Len(wtab') /\ wtab'[v.id + 1].sort = "array"
      BY <2>1, <2>4, <2>13, <2>14
    <3>. QED
      BY <2>4, <3>1 DEF PosOK
  <2>19. \A x \in 1 .. Len(more) : more[x].k \in {"body", "open"} => Written(wtab, more[x].d)
    BY <2>4, <2>9
  <2>20. \A x \in 1 .. Len(more) : more[x].k = "view" => PosOK(wtab', Len(wtab'), more[x])
    BY <2>4, <2>9, <2>18
  <2>. QED
    BY <2>10, <2>11, <2>16, <2>17, <2>19, <2>20, PutsEnd
<1>. QED
  BY <1>1, <1>3, <1>4

LEMMA ValueWritten ==
  ASSUME NEW H, WInv(H, wire, wtab, drop, todo, strs, claims), WriteValue
  PROVE  Ends(wire', wtab', drop', todo', strs', claims')
<1>. DEFINE g == H[Len(H)]
<1>1. PICK d \in Roots : /\ todo = <<>> /\ todo' = <<DescAt(d, "body")>>
                         /\ strs' = strs /\ claims' = claims /\ wtab' = wtab /\ wire' = wire
                         /\ drop' = drop
  BY DEF WriteValue, Tables
<1>. DEFINE p == DescAt(d, "body")
            a == <<p>>
            h == [a |-> a, n |-> g.n, c |-> g.c]
<1>2. /\ wire \in Seq(Token) /\ wtab \in Seq(TabEntry) /\ H \in Seq(Moment)
      /\ g.n = Len(wire) /\ g.c = Len(wtab)
      /\ Len(wire) \in Nat /\ Len(wtab) \in Nat /\ Stage(wire, wtab, g) /\ Past(H, wire, wtab, drop)
  BY NowFacts
<1>8. WriterOK(wtab, g.a, strs, claims) /\ g.a = <<>>
  <2>1. todo = <<>> <=> g.a = <<>>
    BY NowFacts
  <2>2. WriterOK(wtab, g.a, strs, claims)
    BY NowFacts
  <2>. QED
    BY <1>1, <2>1, <2>2
<1>3. p \in Position /\ ~Slot(p) /\ p.k = "desc" /\ d \in Descs
  BY <1>1, DescFacts, PositionMade, MadeForm
<1>4. a \in Seq(Position) /\ Len(a) = 1 /\ a[1] = p /\ \A x \in 1 .. Len(a) : a[x] = p
  BY <1>3
<1>5. NoSlots(a)
  BY <1>3, <1>4 DEF NoSlots
<1>6. StepValue(g, h)
  BY <1>3, <1>8 DEF StepValue
<1>. HIDE DEF p, a
<1>7. h \in Moment /\ h.a = a /\ h.n = g.n /\ h.c = g.c
  BY <1>2, <1>4 DEF Moment
<1>. HIDE DEF h, g
<1>9. Stage(wire, wtab, h)
  <2>1. \A x \in 1 .. Len(h.a) : PosOK(wtab, h.c, h.a[x])
    BY <1>3, <1>4, <1>7 DEF PosOK
  <2>2. InTurn(h.a) /\ SlotsFirst(h.a)
    BY <1>5, <1>7, NoSlotsOrder
  <2>. QED
    BY <1>2, <1>7, <2>1, <2>2 DEF Stage
<1>10. Past(Append(H, h), wire, wtab, drop)
  <2>1. Grows(wire, wire) /\ Grows(wtab, wtab)
    BY <1>2 DEF Grows
  <2>2. Goes(wire, wtab, drop, g, h)
    BY <1>6 DEF Goes
  <2>3. h.n = Len(wire) /\ h.c = Len(wtab)
    BY <1>2, <1>7
  <2>4. ~(Len(wire) < Len(wire))
    BY <1>2
  <2>. QED
    BY <1>2, <1>9, <2>1, <2>2, <2>3, <2>4, PastGrows DEF g
<1>11. Append(H, h) \in Seq(Moment) /\ Append(H, h)[Len(Append(H, h))] = h
  BY <1>2, <1>7
<1>12. todo' = Image(wtab, h.a)
  BY <1>1, <1>4, <1>5, <1>7, ImageNoSlots DEF a, p
<1>13. WriterOK(wtab, h.a, strs, claims)
  <2>1. ASSUME NEW k, NEW o, NEW j PROVE ~Pending(<<>>, k, o, j)
    BY DEF Pending
  <2>2. LabelsOK(wtab, a, strs)
    BY <1>8, <2>1 DEF WriterOK, LabelsOK
  <2>3. PartsOK(wtab, a)
    BY <1>8, <2>1 DEF WriterOK, PartsOK
  <2>4. BodiesOK(wtab, a)
    BY <1>3, <1>4 DEF BodiesOK
  <2>. QED
    BY <1>7, <1>8, <2>2, <2>3, <2>4 DEF WriterOK
<1>14. WInv(Append(H, h), wire', wtab', drop', todo', strs', claims')
  BY <1>1, <1>10, <1>11, <1>12, <1>13 DEF WInv
<1>. QED
  BY <1>11, <1>14 DEF Ends

LEMMA ConsTail ==
  ASSUME NEW S, NEW q \in S, NEW z \in Seq(S), NEW u, u = <<q>>
  PROVE  Tail(u \o z) = z /\ Head(u \o z) = q /\ u \o z # <<>>
<1>1. u \in Seq(S) /\ Len(u) = 1 /\ u[1] = q
  OBVIOUS
<1>. DEFINE v == u \o z
<1>2. /\ v \in Seq(S) /\ Len(v) = 1 + Len(z) /\ Len(z) \in Nat
      /\ \A x \in 1 .. Len(u) : v[x] = u[x]
      /\ \A x \in 1 .. Len(z) : v[Len(u) + x] = z[x]
  BY <1>1, ConcatFacts
<1>. HIDE DEF v
<1>3. v # <<>>
  BY <1>2
<1>4. /\ Tail(v) \in Seq(S) /\ Len(Tail(v)) = Len(v) - 1 /\ Head(v) = v[1]
      /\ \A x \in 1 .. Len(Tail(v)) : Tail(v)[x] = v[x + 1]
  BY <1>2, <1>3, TailFacts
<1>5. Len(Tail(v)) = Len(z) /\ \A x \in 1 .. Len(z) : Tail(v)[x] = z[x]
  BY <1>1, <1>2, <1>4
<1>6. Tail(v) = z
  BY <1>4, <1>5
<1>. QED
  BY <1>1, <1>2, <1>3, <1>4, <1>6 DEF v

(* A record with a nil body: where no shape is open to it, only into a     *)
(* full target.                                                            *)
LEMMA NilRecordWritten ==
  ASSUME NEW H, WInv(H, wire, wtab, drop, todo, strs, claims), WriteNilRecord, Gaps = {}
  PROVE  Ends(wire', wtab', drop', todo', strs', claims')
<1>. DEFINE g == H[Len(H)]
            d == Head(todo).d
            e == Kids[d][1]
            nil == Lit("nil", Kind[e])
            toks == <<nil>>
            rec == Entry("value", e)
            recs == <<rec>>
            tab2 == wtab \o recs
            p == Held(e)
            more == <<p>>
            t == Tail(todo)
            h == [a |-> more \o Tail(g.a), n |-> Len(wire \o <<>>), c |-> Len(tab2)]
<1>1. /\ todo # <<>> /\ Head(todo).k = "body" /\ Kind[d] = "ptr"
      /\ Kind[e] \in {"map", "slice", "iface"} /\ drop = {}
      /\ Put(toks, recs, <<>>) /\ UNCHANGED Tables
  <2>1. /\ todo # <<>> /\ Head(todo).k = "body" /\ Kind[d] = "ptr"
        /\ Kind[e] \in {"ptr", "map", "slice", "iface"}
        /\ MayWrite(IF Kind[e] = "ptr" THEN "nil_chain" ELSE "skipped_nil")
        /\ Put(toks, recs, <<>>) /\ UNCHANGED Tables
    BY ZenonT(30) DEF WriteNilRecord, At, D
  <2>. QED
    BY ZenonT(30), <2>1 DEF MayWrite
<1>2. /\ d \in Descs /\ g.a \in Seq(Position) /\ NoSlots(g.a)
      /\ WriterOK(wtab, g.a, strs, claims)
      /\ \A i \in 1 .. Len(Kids[d]) : Written(wtab, Kids[d][i])
      /\ Head(g.a) = Head(todo) /\ ~Slot(Head(todo))
  <2>1. d \in Descs /\ NoSlots(g.a) /\ \A i \in 1 .. Len(Kids[d]) : Written(wtab, Kids[d][i])
    BY <1>1, BodyNow
  <2>2. Head(g.a) = Head(todo) /\ ~Slot(Head(todo))
    BY <1>1, BodyNow
  <2>3. g.a \in Seq(Position) /\ WriterOK(wtab, g.a, strs, claims)
    BY NowFacts
  <2>. QED
    BY ZenonT(30), <2>1, <2>2, <2>3
<1>3. /\ wtab \in Seq(TabEntry) /\ wire \in Seq(Token) /\ Len(wire) \in Nat
      /\ g.n = Len(wire) /\ g.c = Len(wtab)
  BY NowFacts
<1>4. e \in Descs /\ Len(Kids[d]) = 1
  BY <1>1, <1>2, DescFacts
<1>5. Written(wtab, e)
  BY <1>2, <1>4
<1>6. \A j \in 1 .. Len(Fields[e]) : Has(strs, Fields[e][j])
  <2>. HIDE DEF g, e, d
  <2>. QED
    BY <1>2, <1>3, <1>4, <1>5, Complete
<1>7. p \in Position /\ ~Slot(p) /\ p.k = "body" /\ p.d = e /\ p.held = TRUE
  BY <1>4, PositionMade, MadeForm
<1>8. more \in Seq(Position) /\ Len(more) = 1 /\ more[1] = p
  BY <1>7
<1>9. rec \in TabEntry /\ rec.sort = "value" /\ rec.of = e
  BY <1>4 DEF Entry, TabEntry, Sorts
<1>10. recs \in Seq(TabEntry) /\ Len(recs) = 1 /\ recs[1] = rec
  BY <1>9
<1>11. nil \in Token /\ nil.t = "nil"
  BY <1>4, DescFacts, TokenMade DEF Lit
<1>12. toks \in Seq(Token) /\ Len(toks) = 1 /\ toks[1] = nil
  BY <1>11
<1>. HIDE DEF nil, toks, rec, recs, p, more
(* the opening, as if the body came after it *)
<1>13. wire \o <<>> = wire
  BY <1>3
<1>14. Adds(wire, wtab, g, <<>>, recs, wire \o <<>>, tab2, more, h)
  BY <1>3, <1>10, EmptyFacts DEF Adds
<1>. HIDE DEF h, tab2
<1>15. /\ Turn(g, h, more, Len(<<>>), Len(recs)) /\ \A i \in 1 .. Len(recs) : tab2[g.c + i] = recs[i]
       /\ tab2 \in Seq(TabEntry) /\ Len(tab2) \in Nat /\ Grows(wtab, tab2)
  BY <1>14, Wrote
<1>16. Turn(g, h, more, 0, 1) /\ tab2[g.c + 1] = rec
  BY <1>10, <1>15, EmptyFacts
<1>17. StepRecord(tab2, g, h)
  BY <1>1, <1>2, <1>16 DEF StepRecord, BodyIs, Elem, more, p, rec, e, d
<1>18. Onward(wire, tab2, drop, g, h)
  BY <1>17 DEF Onward
<1>19. \A i \in 1 .. Len(recs) :
        /\ recs[i].sort \notin {"desc", "str"}
        /\ recs[i].sort = "value" =>
             \A j \in 1 .. Len(Fields[recs[i].of]) : Has(strs, Fields[recs[i].of][j])
  <2>1. \A i \in 1 .. Len(recs) : recs[i] = rec
    BY <1>10
  <2>. QED
    BY <1>6, <1>9, <2>1
<1>. HIDE DEF e, d
<1>20. PlainWriting(H, wire, wtab, drop, todo, strs, claims, g, <<>>, recs, wire, tab2, more, h)
  <2>1. \A x \in 1 .. Len(more) : ~Slot(more[x]) /\ more[x].k = "body" /\ Written(wtab, more[x].d)
    BY <1>5, <1>7, <1>8
  <2>2. NoSlots(more)
    BY <2>1 DEF NoSlots
  <2>3. wire = wire \o <<>> /\ tab2 = wtab \o recs
    BY <1>13 DEF tab2
  <2>4. h = [a |-> more \o Tail(g.a), n |-> Len(wire), c |-> Len(tab2)]
    BY <1>13 DEF h
  <2>5. \A i \in 1 .. Len(<<>>) : TokOK(wtab, Len(wtab), <<>>[i])
    BY EmptyFacts
  <2>6. ~Slot(Head(g.a)) /\ g = H[Len(H)]
    BY <1>2 DEF g
  <2>7. /\ \A x \in 1 .. Len(more) : more[x].k = "view" => PosOK(tab2, Len(tab2), more[x])
        /\ \A x \in 1 .. Len(more) : more[x].k \in {"body", "open"} => Written(wtab, more[x].d)
    BY <2>1
  <2>. HIDE DEF g
  <2>. QED
    BY <1>1, <1>8, <1>10, <1>18, <1>19, <2>2, <2>3, <2>4, <2>5, <2>6, <2>7, EmptyFacts DEF PlainWriting
<1>21. PICK G \in Seq(Moment) :
         WInv(G, wire, tab2, drop, more \o t, strs, claims) /\ G[Len(G)] = h
  BY <1>20, PlainWrite
(* the nil *)
<1>. DEFINE td == more \o t
            b == G[Len(G)]
            w2 == wire \o toks
            h2 == [a |-> <<>> \o Tail(b.a), n |-> Len(w2), c |-> Len(tab2 \o <<>>)]
<1>22. todo \in Seq({Plain(wtab, q) : q \in Position})
  BY SMTT(30), <1>2, ImageForm, NowFacts
<1>23. Tail(more \o t) = t /\ Head(more \o t) = p /\ more \o t # <<>>
  <2>1. \A S, T, q : \A s \in Seq(S) : s # <<>> => Tail(<<q>> \o Tail(s)) = Tail(s) /\ Head(<<q>> \o Tail(s)) = q
            /\ <<q>> \o Tail(s) # <<>>
    <3>. SUFFICES ASSUME NEW S, NEW q, NEW s \in Seq(S), s # <<>>
                  PROVE  Tail(<<q>> \o Tail(s)) = Tail(s) /\ Head(<<q>> \o Tail(s)) = q /\ <<q>> \o Tail(s) # <<>>
      OBVIOUS
    <3>. DEFINE V == S \cup {q}
                z == Tail(s)
    <3>1. z \in Seq(V) /\ q \in V
      BY TailFacts
    <3>. HIDE DEF z, V
    <3>2. Tail(<<q>> \o z) = z /\ Head(<<q>> \o z) = q /\ <<q>> \o z # <<>>
      BY <3>1, ConsTail
    <3>. QED
      BY <3>2 DEF z
  <2>. QED
    BY <1>1, <1>22, <2>1 DEF more
<1>24. WInv(G, wire, tab2, drop, td, strs, claims) /\ td # <<>> /\ Head(td) = p /\ Tail(td) = t
  BY <1>21, <1>23
<1>. HIDE DEF td, g, t
<1>25. /\ Head(b.a) = p /\ NoSlots(b.a)
  BY <1>7, <1>24, BodyNow
<1>26. b.n = Len(wire) /\ b.c = Len(tab2)
  BY <1>24, NowFacts
<1>27. tab2 \o <<>> = tab2
  BY <1>15
<1>28. Adds(wire, tab2, b, toks, <<>>, w2, tab2 \o <<>>, <<>>, h2)
  BY <1>3, <1>12, <1>15, <1>26, EmptyFacts DEF Adds, w2
<1>29. Adds(wire, tab2, b, toks, <<>>, w2, tab2, <<>>, h2)
  BY <1>27, <1>28
<1>. HIDE DEF h2, b, w2
<1>30. /\ Turn(b, h2, <<>>, Len(toks), Len(<<>>)) /\ \A i \in 1 .. Len(toks) : (w2)[b.n + i] = toks[i]
  BY <1>29, Wrote
<1>31. Turn(b, h2, <<>>, 1, 0) /\ (w2)[b.n + 1] = nil
  BY <1>12, <1>30, EmptyFacts
<1>32. StepNil(w2, drop, b, h2)
  <2>1. p.k = "body" /\ p.d = e
    BY <1>7
  <2>. QED
    BY <1>1, <1>25, <1>31, <2>1 DEF StepNil, nil
<1>33. PlainWriting(G, wire, tab2, drop, td, strs, claims, b, toks, <<>>, w2, tab2, <<>>, h2)
  <2>1. Onward(w2, tab2, drop, b, h2)
    BY <1>32 DEF Onward
  <2>2. /\ toks[1].t # "path" /\ \A i \in 1 .. Len(toks) : TokOK(tab2, Len(tab2), toks[i])
    BY <1>11, <1>12 DEF TokOK
  <2>3. h2 = [a |-> <<>> \o Tail(b.a), n |-> Len(w2), c |-> Len(tab2)]
    BY <1>27 DEF h2
  <2>4. b = G[Len(G)] /\ ~Slot(Head(b.a))
    BY <1>7, <1>25 DEF b
  <2>5. /\ \A i \in 1 .. Len(<<>>) : FALSE
        /\ tab2 = tab2 \o <<>>
    BY <1>27, EmptyFacts
  <2>. HIDE DEF b, h2
  <2>. QED
    BY <1>12, <1>24, <2>1, <2>2, <2>3, <2>4, <2>5, EmptyFacts DEF PlainWriting, w2
<1>. DEFINE none == <<>>
<1>36. PlainWriting(G, wire, tab2, drop, td, strs, claims, b, toks, none, w2, tab2, none, h2)
  BY <1>33
<1>. HIDE DEF none
<1>34. \E F \in Seq(Moment) :
         WInv(F, w2, tab2, drop, none \o Tail(td), strs, claims) /\ F[Len(F)] = h2
  BY <1>36, PlainWrite
<1>35. /\ wire' = w2 /\ wtab' = tab2 /\ drop' = drop /\ todo' = none \o Tail(td)
       /\ strs' = strs /\ claims' = claims
  BY <1>1, <1>24 DEF Put, Tables, tab2, t, w2, none
<1>. QED
  BY ZenonT(30), <1>34, <1>35 DEF Ends

(* The string table holds the string a position needs. *)
LEMMA TextHeld ==
  ASSUME NEW tab \in Seq(TabEntry), NEW st, StrsOK(tab, st), NEW s \in DOMAIN Hash
  PROVE  /\ Get(st, s) \in Nat
         /\ Get(st, s) # 0 => Get(st, s) \in 1 .. Len(tab) /\ tab[Get(st, s)] = Entry("str", s) /\ Has(st, s)
         /\ Has(st, s) => Get(st, s) # 0
<1>1. StrTable(st)
  BY DEF StrsOK
<1>2. /\ \A x : <<s, x>> \in Bound(st) => Get(st, s) = x
      /\ Get(st, s) # 0 => <<s, Get(st, s)>> \in Bound(st)
      /\ Get(st, s) \in Nat
  BY <1>1, TableGet
<1>3. ASSUME NEW x, <<s, x>> \in Bound(st) PROVE x \in 1 .. Len(tab) /\ tab[x] = Entry("str", s) /\ Has(st, s)
  <2>. DEFINE q == <<s, x>>
  <2>1. q \in Bound(st) /\ q[1] = s /\ q[2] = x
    BY <1>3
  <2>. HIDE DEF q
  <2>2. q[2] \in 1 .. Len(tab) /\ tab[q[2]] = Entry("str", q[1])
    BY <2>1 DEF StrsOK
  <2>3. Has(st, s)
    BY <2>1 DEF Has
  <2>. QED
    BY <2>1, <2>2, <2>3
<1>4. ASSUME Has(st, s) PROVE Get(st, s) # 0
  <2>1. PICK q \in Bound(st) : q[1] = s
    BY <1>4 DEF Has
  <2>2. q = <<q[1], q[2]>>
    BY <2>1 DEF Bound
  <2>3. <<s, q[2]>> \in Bound(st)
    BY <2>1, <2>2
  <2>4. Get(st, s) = q[2] /\ q[2] \in 1 .. Len(tab)
    BY <1>2, <1>3, <2>3
  <2>. QED
    BY <2>4
<1>. QED
  BY <1>2, <1>3, <1>4

(* A pointer to a field of an open record (encodePathRef). *)
LEMMA PathWritten ==
  ASSUME NEW H, WInv(H, wire, wtab, drop, todo, strs, claims), WritePath, Gaps = {}
  PROVE  Ends(wire', wtab', drop', todo', strs', claims')
<1>. DEFINE g == H[Len(H)]
            d == Head(todo).d
            e == Kids[d][1]
            rec == Entry("value", e)
            recs == <<rec>>
            h == [a |-> <<>> \o Tail(g.a), n |-> Len(wire'), c |-> Len(wtab')]
<1>1. PICK i \in DOMAIN wtab :
        /\ todo # <<>> /\ Head(todo).k = "body" /\ Kind[d] = "ptr" /\ drop = {}
        /\ wtab[i].sort = "value" /\ Kind[wtab[i].of] = "struct"
        /\ UNCHANGED Tables
        /\ \E f \in 2 .. Len(Kids[wtab[i].of]) :
             Put(<<Ref(i - 1, "value", wtab[i].of),
                   [t |-> "path", x |-> Get(strs, Fields[wtab[i].of][f]) - 1, of |-> Fields[wtab[i].of][f]]>>,
                 recs, <<>>)
  BY DEF WritePath, At, D, MayWrite
<1>. DEFINE r == wtab[i].of
<1>2. /\ wtab \in Seq(TabEntry) /\ i \in 1 .. Len(wtab) /\ Len(wtab) \in Nat
      /\ WriterOK(wtab, g.a, strs, claims)
  <2>1. wtab \in Seq(TabEntry) /\ WriterOK(wtab, g.a, strs, claims)
    BY NowFacts
  <2>. QED
    BY <2>1
<1>3. r \in Descs /\ wtab[i] = Entry("value", r)
  BY <1>1, <1>2, EntryForm
<1>4. d \in Descs /\ \A j \in 1 .. Len(Kids[d]) : Written(wtab, Kids[d][j])
  BY <1>1, BodyNow
<1>5. e \in Descs /\ Len(Kids[d]) = 1
  BY <1>1, <1>4, DescFacts
<1>6. Written(wtab, e)
  BY <1>4, <1>5
<1>7. \A j \in 1 .. Len(Fields[e]) : Has(strs, Fields[e][j])
  <2>1. NoSlots(g.a)
    BY <1>1, BodyNow
  <2>2. g.a \in Seq(Position)
    BY NowFacts
  <2>. HIDE DEF g, e, d
  <2>. QED
    BY <1>2, <1>5, <1>6, <2>1, <2>2, Complete
<1>8. rec \in TabEntry /\ rec.sort = "value" /\ rec.of = e
  BY ZenonT(30), <1>5 DEF Entry, TabEntry, Sorts
<1>9. recs \in Seq(TabEntry) /\ Len(recs) = 1 /\ recs[1] = rec
  BY SMTT(30), <1>8
<1>10. \A j \in 1 .. Len(recs) :
        /\ recs[j].sort \notin {"desc", "str"}
        /\ recs[j].sort = "value" =>
             \A k \in 1 .. Len(Fields[recs[j].of]) : Has(strs, Fields[recs[j].of][k])
  <2>1. \A j \in 1 .. Len(recs) : recs[j] = rec
    BY <1>9
  <2>. QED
    BY <1>7, <1>8, <2>1
<1>. HIDE DEF rec, recs
<1>11. PICK f \in 2 .. Len(Kids[r]) :
         Put(<<Ref(i - 1, "value", r), [t |-> "path", x |-> Get(strs, Fields[r][f]) - 1, of |-> Fields[r][f]]>>,
             recs, <<>>)
  BY <1>1
<1>. DEFINE s == Fields[r][f]
            x == Get(strs, s) - 1
            u == Ref(i - 1, "value", r)
            v == [t |-> "path", x |-> x, of |-> s]
            toks == <<u, v>>
<1>. HIDE DEF r
<1>12. f \in 1 .. Len(Fields[r]) /\ s \in DOMAIN Hash
  <2>1. Len(Kids[r]) \in Nat /\ Len(Fields[r]) = Len(Kids[r])
    BY <1>1, <1>3, DescFacts, KidFacts DEF r
  <2>2. f \in 1 .. Len(Fields[r])
    BY <2>1
  <2>. QED
    BY <1>3, <2>2, KidFacts
<1>13. Has(strs, s)
  <2>1. RecordsOK(wtab, strs)
    BY <1>2 DEF WriterOK
  <2>2. wtab[i].sort = "value" /\ wtab[i].of = r
    BY <1>1 DEF r
  <2>. QED
    BY <1>2, <1>12, <2>1, <2>2 DEF RecordsOK
<1>14. x \in 0 .. Len(wtab) - 1 /\ wtab[x + 1] = Entry("str", s)
  <2>1. StrsOK(wtab, strs)
    BY <1>2 DEF WriterOK
  <2>. HIDE DEF s
  <2>2. Get(strs, s) \in 1 .. Len(wtab) /\ wtab[Get(strs, s)] = Entry("str", s)
    BY <1>2, <1>12, <1>13, <2>1, TextHeld
  <2>. QED
    BY <1>2, <2>2
<1>15. Put(toks, recs, <<>>)
  BY <1>11
<1>. HIDE DEF x, s
<1>16. /\ u \in Token /\ u.t = "ref" /\ u.sort = "value" /\ u.of = r /\ u.x = i - 1
       /\ v \in Token /\ v.t = "path"
  <2>1. u.t = "ref" /\ u.sort = "value" /\ u.of = r /\ u.x = i - 1
    BY DEF Ref
  <2>2. i - 1 \in Nat /\ "value" \in Sorts /\ x \in Nat
    BY <1>2, <1>14 DEF Sorts
  <2>3. u \in Token
    BY <1>3, <2>2, TokenMade
  <2>4. v \in Token
    BY <1>12, <2>2, TokenMade
  <2>. QED
    BY <2>1, <2>3, <2>4
<1>17. TokOK(wtab, Len(wtab), u) /\ TokOK(wtab, Len(wtab), v)
  <2>1. (i - 1) + 1 = i /\ i - 1 < Len(wtab)
    BY <1>2
  <2>2. wtab[i].sort = "value" /\ wtab[i].of = r
    BY <1>1 DEF r
  <2>. HIDE DEF u, v
  <2>. QED
    BY <1>16, <2>1, <2>2 DEF TokOK
<1>. HIDE DEF u, v
<1>18. /\ toks \in Seq(Token) /\ Len(toks) = 2 /\ toks[1] = u /\ toks[2] = v /\ toks # <<>>
       /\ \A j \in 1 .. Len(toks) : toks[j] = u \/ toks[j] = v
  <2>1. toks \in Seq(Token) /\ Len(toks) = 2 /\ toks[1] = u /\ toks[2] = v /\ toks # <<>>
    BY <1>16
  <2>2. \A j \in 1 .. 2 : j = 1 \/ j = 2
    OBVIOUS
  <2>. QED
    BY <2>1, <2>2
<1>. HIDE DEF toks
<1>19. Puts(H, g, toks, recs, <<>>, h)
  BY <1>1, <1>9, <1>15, <1>18, EmptyFacts DEF Puts
<1>. HIDE DEF g, h
<1>20. /\ Turn(g, h, <<>>, Len(toks), Len(recs)) /\ Head(g.a) = Head(todo)
       /\ \A j \in 1 .. Len(recs) : wtab'[g.c + j] = recs[j]
       /\ \A j \in 1 .. Len(toks) : wire'[g.n + j] = toks[j]
  BY <1>19, PutsFacts
<1>21. /\ g.c = Len(wtab) /\ \A j \in 1 .. g.c : wtab'[j] = wtab[j]
  BY <1>19, PutsFacts
<1>22. /\ Turn(g, h, <<>>, 2, 1) /\ wire'[g.n + 1] = u /\ wire'[g.n + 2] = v /\ wtab'[g.c + 1] = rec
  BY <1>9, <1>18, <1>20
<1>23. StepPath(wire', wtab', drop, g, h)
  <2>1. BodyIs(g, "ptr") /\ drop = {} /\ wtab'[g.c + 1] = Entry("value", Elem(g))
    BY <1>1, <1>20, <1>22 DEF BodyIs, Elem, rec, e, d
  <2>2. i - 1 \in 0 .. g.c - 1 /\ x \in 0 .. g.c - 1 /\ (i - 1) + 1 = i /\ x + 1 \in 1 .. Len(wtab)
    BY <1>2, <1>14, <1>21
  <2>3. wtab'[i] = Entry("value", r) /\ wtab'[x + 1] = Entry("str", s)
    BY <1>2, <1>3, <1>14, <1>21, <2>2 DEF r
  <2>4. Again(wire', wtab', g, Ref(i - 1, "value", r))
    <3>1. u.x + 1 = i /\ u.x \in 0 .. g.c - 1 /\ u.sort = "value" /\ u.of = r
      BY <1>16, <2>2
    <3>2. Again(wire', wtab', g, u)
      BY <1>22, <2>3, <3>1 DEF Again
    <3>. QED
      BY <3>2 DEF u
  <2>5. wire'[g.n + 2] = [t |-> "path", x |-> x, of |-> Fields[r][f]]
    BY <1>22 DEF v, s
  <2>6. wtab'[x + 1] = Entry("str", Fields[r][f])
    BY <2>3 DEF s
  <2>7. \E id \in 0 .. g.c - 1, y \in 0 .. g.c - 1, dd \in Descs :
          /\ Again(wire', wtab', g, Ref(id, "value", dd))
          /\ \E k \in 1 .. Len(Fields[dd]) :
               /\ wire'[g.n + 2] = [t |-> "path", x |-> y, of |-> Fields[dd][k]]
               /\ wtab'[y + 1] = Entry("str", Fields[dd][k])
    <3>. DEFINE Q(id, y, dd) ==
                  /\ Again(wire', wtab', g, Ref(id, "value", dd))
                  /\ \E k \in 1 .. Len(Fields[dd]) :
                       /\ wire'[g.n + 2] = [t |-> "path", x |-> y, of |-> Fields[dd][k]]
                       /\ wtab'[y + 1] = Entry("str", Fields[dd][k])
    <3>1. Q(i - 1, x, r)
      BY <1>12, <2>4, <2>5, <2>6
    <3>2. r \in Descs
      BY <1>3 DEF r
    <3>. HIDE DEF Q
    <3>3. \E id \in 0 .. g.c - 1, y \in 0 .. g.c - 1, dd \in Descs : Q(id, y, dd)
      BY <2>2, <3>1, <3>2
    <3>. QED
      BY <3>3 DEF Q
  <2>. QED
    BY <1>22, <2>1, <2>7 DEF StepPath
<1>24. Onward(wire', wtab', drop, g, h)
  BY <1>23 DEF Onward
<1>25. /\ toks[1].t # "path" /\ \A j \in 1 .. Len(toks) : TokOK(wtab, Len(wtab), toks[j])
  BY <1>16, <1>17, <1>18
<1>. QED
  BY <1>10, <1>18, <1>19, <1>24, <1>25, EmptyFacts, PutsEnd

-----------------------------------------------------------------------------
(***************************************************************************)
(* The Writer's actions: strings and descriptors.                          *)
(***************************************************************************)

(* A string written at a name or a body. *)
TextPut(H, g, s, h) ==
  /\ WInv(H, wire, wtab, drop, todo, strs, claims) /\ g = H[Len(H)] /\ todo # <<>>
  /\ s \in DOMAIN Hash /\ PutString(s)
  /\ ~Slot(Head(g.a)) \/ (Head(g.a).k = "name" /\ s = TextOf(wtab[Head(g.a).of + 1].of, Head(g.a).j))
  /\ h = [a |-> <<>> \o Tail(g.a), n |-> Len(wire'), c |-> Len(wtab')]

NewText(tab, st, s, recs, tab2, st2) ==
  /\ tab \in Seq(TabEntry) /\ StrsOK(tab, st) /\ s \in DOMAIN Hash
  /\ recs = <<Entry("str", s)>> /\ tab2 = tab \o recs /\ st2 = Set(st, s, Len(tab))

(* A new string's id goes into the table. *)
LEMMA TableAdds ==
  ASSUME NEW tab, NEW st, NEW s, NEW recs, NEW tab2, NEW st2, NewText(tab, st, s, recs, tab2, st2)
  PROVE  /\ StrsOK(tab2, st2) /\ Has(st2, s) /\ \A t : Has(st, t) => Has(st2, t)
<1>0. /\ tab \in Seq(TabEntry) /\ StrsOK(tab, st) /\ s \in DOMAIN Hash
      /\ recs = <<Entry("str", s)>> /\ tab2 = tab \o recs /\ st2 = Set(st, s, Len(tab))
  BY DEF NewText
<1>1. StrTable(st) /\ Len(tab) \in Nat
  BY <1>0 DEF StrsOK
<1>2. StrTable(st2) /\ Bound(st2) = {p \in Bound(st) : p[1] # s} \cup {<<s, Len(tab) + 1>>}
  BY <1>0, <1>1, TableSet
<1>. DEFINE r == Entry("str", s)
            q == <<s, Len(tab) + 1>>
<1>3. r \in TabEntry
  BY <1>0 DEF Entry, TabEntry
<1>4. recs \in Seq(TabEntry) /\ Len(recs) = 1 /\ recs[1] = r
  BY <1>0, <1>3
<1>. HIDE DEF r
<1>5. /\ Len(tab2) = Len(tab) + 1 /\ tab2[Len(tab) + 1] = r
      /\ \A x \in 1 .. Len(tab) : tab2[x] = tab[x]
  BY <1>0, <1>4, ConcatFacts
<1>6. q[1] = s /\ q[2] = Len(tab) + 1 /\ Bound(st2) = {p \in Bound(st) : p[1] # s} \cup {q}
  BY <1>2
<1>. HIDE DEF q
<1>7. ASSUME NEW p \in Bound(st2) PROVE p[2] \in 1 .. Len(tab2) /\ tab2[p[2]] = Entry("str", p[1])
  <2>1. CASE p = q
    BY <1>1, <1>5, <1>6, <2>1 DEF r
  <2>2. CASE p \in Bound(st)
    <3>1. p[2] \in 1 .. Len(tab) /\ tab[p[2]] = Entry("str", p[1])
      BY <1>0, <2>2 DEF StrsOK
    <3>. QED
      BY <1>1, <1>5, <3>1
  <2>. QED
    BY <1>6, <2>1, <2>2
<1>8. Has(st2, s)
  BY <1>6 DEF Has
<1>9. ASSUME NEW t, Has(st, t) PROVE Has(st2, t)
  <2>1. PICK p \in Bound(st) : p[1] = t
    BY <1>9 DEF Has
  <2>2. CASE t = s
    BY <1>8, <2>2
  <2>3. CASE t # s
    BY <1>6, <2>1, <2>3 DEF Has
  <2>. QED
    BY <2>2, <2>3
<1>. QED
  BY <1>2, <1>7, <1>8, <1>9 DEF StrsOK

LEMMA TextWritten ==
  ASSUME NEW H, NEW g, NEW s, NEW h, TextPut(H, g, s, h),
         TextLit(wire', wtab', g, h, s) \/ (TextRef(wire', wtab', g, h, s) /\ Get(strs, s) # 0)
           => Onward(wire', wtab', drop, g, h)
  PROVE  Ends(wire', wtab', drop', todo', strs', claims')
<1>1. /\ WInv(H, wire, wtab, drop, todo, strs, claims) /\ g = H[Len(H)] /\ todo # <<>>
      /\ s \in DOMAIN Hash /\ PutString(s)
  BY DEF TextPut
<1>2. h = [a |-> <<>> \o Tail(g.a), n |-> Len(wire'), c |-> Len(wtab')]
  BY DEF TextPut
<1>3. ~Slot(Head(g.a)) \/ (Head(g.a).k = "name" /\ s = TextOf(wtab[Head(g.a).of + 1].of, Head(g.a).j))
  BY DEF TextPut
<1>4. /\ wire \in Seq(Token) /\ wtab \in Seq(TabEntry) /\ Len(wtab) \in Nat
      /\ g.n = Len(wire) /\ g.c = Len(wtab)
  BY <1>1, NowFacts
<1>5. StrsOK(wtab, strs)
  <2>1. WriterOK(wtab, g.a, strs, claims)
    BY <1>1, NowFacts
  <2>. QED
    BY <2>1 DEF WriterOK
<1>6. /\ Get(strs, s) \in Nat
      /\ Get(strs, s) # 0 => Get(strs, s) \in 1 .. Len(wtab) /\ wtab[Get(strs, s)] = Entry("str", s) /\ Has(strs, s)
  BY <1>1, <1>4, <1>5, TextHeld
<1>7. CASE Get(strs, s) # 0
  <2>. DEFINE id == Get(strs, s) - 1
              tk == Ref(id, "str", s)
              toks == <<tk>>
              none == <<>>
  <2>1. Put(toks, <<>>, <<>>) /\ strs' = strs /\ claims' = claims
    BY <1>1, <1>7 DEF PutString
  <2>2. wire' = wire \o toks /\ wtab' = wtab \o <<>> /\ drop' = drop /\ todo' = <<>> \o Tail(todo)
    BY <2>1 DEF Put
  <2>3. id \in 0 .. Len(wtab) - 1 /\ wtab[id + 1] = Entry("str", s) /\ Has(strs, s) /\ id \in Nat
    BY <1>4, <1>6, <1>7
  <2>. HIDE DEF id
  <2>4. tk \in Token /\ tk.t = "ref" /\ tk.x = id /\ tk.sort = "str" /\ tk.of = s
    <3>1. tk.t = "ref" /\ tk.x = id /\ tk.sort = "str" /\ tk.of = s
      BY DEF Ref
    <3>2. "str" \in Sorts
      BY DEF Sorts
    <3>. QED
      BY <1>1, <2>3, <3>1, <3>2, TokenMade
  <2>. HIDE DEF tk
  <2>5. toks \in Seq(Token) /\ Len(toks) = 1 /\ toks[1] = tk
    BY <2>4
  <2>6. wtab' = wtab
    BY <1>4, <2>2
  <2>. HIDE DEF toks
  <2>7. Adds(wire, wtab, g, toks, <<>>, wire', wtab', <<>>, h)
    BY <1>2, <1>4, <2>2, <2>5, EmptyFacts DEF Adds
  <2>8. Turn(g, h, <<>>, Len(toks), Len(<<>>)) /\ \A i \in 1 .. Len(toks) : wire'[g.n + i] = toks[i]
    BY <2>7, Wrote
  <2>9. Turn(g, h, <<>>, 1, 0) /\ wire'[g.n + 1] = tk
    BY <2>5, <2>8, EmptyFacts
  <2>10. TextRef(wire', wtab', g, h, s)
    <3>1. Again(wire', wtab', g, tk)
      BY <1>4, <2>3, <2>4, <2>6, <2>9 DEF Again
    <3>2. \E i \in 0 .. g.c - 1 : Again(wire', wtab', g, Ref(i, "str", s))
      BY <1>4, <2>3, <3>1 DEF tk
    <3>. QED
      BY <2>9, <3>2 DEF TextRef
  <2>11. Onward(wire', wtab', drop, g, h)
    BY <1>7, <2>10
  <2>12. TokOK(wtab', Len(wtab'), tk) /\ tk.t # "path"
    BY SMTT(30), <1>4, <2>3, <2>4, <2>6 DEF TokOK, Entry
  <2>13. Writing(H, wire, wtab, drop, todo, strs, claims, g, toks, none, wire', wtab', strs, none, h)
    <3>1. \A i \in 1 .. Len(toks) : TokOK(wtab', Len(wtab'), toks[i])
      BY <2>5, <2>12
    <3>2. Head(g.a).k # "kid" /\ (Head(g.a).k = "name" => Has(strs, TextOf(wtab[Head(g.a).of + 1].of, Head(g.a).j)))
      BY <1>3, <2>3 DEF Slot
    <3>3. StrsOK(wtab', strs)
      BY <1>5, <2>6
    <3>4. \A i \in 1 .. Len(<<>>) : FALSE
      BY EmptyFacts
    <3>5. toks[1].t # "path"
      BY <2>5, <2>12
    <3>. QED
      BY ZenonT(40), <1>1, <1>2, <2>2, <2>5, <2>11, <3>1, <3>2, <3>3, <3>4, <3>5, EmptyFacts DEF Writing
  <2>. HIDE DEF none
  <2>14. \E G \in Seq(Moment) :
           WInv(G, wire', wtab', drop, none \o Tail(todo), strs, claims) /\ G[Len(G)] = h
    BY <2>13, OneWrite
  <2>. QED
    BY <2>1, <2>2, <2>14 DEF Ends, none
<1>8. CASE Get(strs, s) = 0
  <2>. DEFINE tk == Lit("str", s)
              toks == <<tk>>
              rec == Entry("str", s)
              recs == <<rec>>
              st2 == Set(strs, s, Len(wtab))
              none == <<>>
  <2>1. Put(toks, recs, <<>>) /\ strs' = st2 /\ claims' = claims
    BY <1>1, <1>8 DEF PutString, NextID
  <2>2. wire' = wire \o toks /\ wtab' = wtab \o recs /\ drop' = drop /\ todo' = <<>> \o Tail(todo)
    BY <2>1 DEF Put
  <2>3. StrsOK(wtab', st2) /\ Has(st2, s) /\ \A t : Has(strs, t) => Has(st2, t)
    <3>1. recs = <<Entry("str", s)>> /\ st2 = Set(strs, s, Len(wtab))
      OBVIOUS
    <3>. HIDE DEF rec, recs, st2
    <3>2. wtab' = wtab \o recs /\ wtab \in Seq(TabEntry) /\ s \in DOMAIN Hash /\ StrsOK(wtab, strs)
      BY <1>1, <1>4, <1>5, <2>2
    <3>. HIDE DEF tk, toks, none
    <3>3. NewText(wtab, strs, s, recs, wtab', st2)
      BY <3>1, <3>2 DEF NewText
    <3>. QED
      BY <3>3, TableAdds
  <2>4. tk \in Token /\ tk.t = "str" /\ rec \in TabEntry /\ rec.sort = "str"
    BY <1>1, TokenMade DEF Lit, Entry, TabEntry
  <2>5. /\ toks \in Seq(Token) /\ Len(toks) = 1 /\ toks[1] = tk
        /\ recs \in Seq(TabEntry) /\ Len(recs) = 1 /\ recs[1] = rec
    BY <2>4
  <2>. HIDE DEF tk, toks, rec, recs, st2
  <2>7. Adds(wire, wtab, g, toks, recs, wire', wtab', <<>>, h)
    BY <1>2, <1>4, <2>2, <2>5, EmptyFacts DEF Adds
  <2>8. /\ Turn(g, h, <<>>, Len(toks), Len(recs)) /\ \A i \in 1 .. Len(toks) : wire'[g.n + i] = toks[i]
        /\ \A i \in 1 .. Len(recs) : wtab'[g.c + i] = recs[i]
    BY <2>7, Wrote
  <2>9. Turn(g, h, <<>>, 1, 1) /\ wire'[g.n + 1] = tk /\ wtab'[g.c + 1] = rec
    BY <2>5, <2>8
  <2>10. TextLit(wire', wtab', g, h, s)
    BY <2>9 DEF TextLit, tk, rec
  <2>11. Onward(wire', wtab', drop, g, h)
    BY ZenonT(30), <2>10
  <2>13. Writing(H, wire, wtab, drop, todo, strs, claims, g, toks, recs, wire', wtab', st2, none, h)
    <3>1. \A i \in 1 .. Len(toks) : TokOK(wtab', Len(wtab'), toks[i])
      BY <2>4, <2>5 DEF TokOK
    <3>2. Head(g.a).k # "kid" /\ (Head(g.a).k = "name" => Has(st2, TextOf(wtab[Head(g.a).of + 1].of, Head(g.a).j)))
      BY <1>3, <2>3 DEF Slot
    <3>3. \A i \in 1 .. Len(recs) : recs[i].sort \notin {"desc", "value"}
      BY <2>4, <2>5
    <3>5. toks[1].t # "path"
      BY <2>4, <2>5
    <3>. QED
      BY <1>1, <1>2, <2>2, <2>3, <2>5, <2>11, <3>1, <3>2, <3>3, <3>5, EmptyFacts DEF Writing
  <2>. HIDE DEF none
  <2>14. \E G \in Seq(Moment) :
           WInv(G, wire', wtab', drop, none \o Tail(todo), st2, claims) /\ G[Len(G)] = h
    BY <2>13, OneWrite
  <2>. QED
    BY <2>1, <2>2, <2>14 DEF Ends, none
<1>. QED
  BY <1>7, <1>8

(* The name of a descriptor or field. *)
LEMMA NameWritten ==
  ASSUME NEW H, WInv(H, wire, wtab, drop, todo, strs, claims), WriteString
  PROVE  Ends(wire', wtab', drop', todo', strs', claims')
<1>. DEFINE g == H[Len(H)]
            p == Head(g.a)
            s == Head(todo).s
            h == [a |-> <<>> \o Tail(g.a), n |-> Len(wire'), c |-> Len(wtab')]
<1>1. todo # <<>> /\ Head(todo).k = "str" /\ PutString(s)
  BY DEF WriteString
<1>2. /\ p \in Position /\ PosOK(wtab, Len(wtab), p) /\ Head(todo) = Plain(wtab, p)
  BY <1>1, HeadFacts
<1>3. p.k = "name" /\ s = TextOf(wtab[p.of + 1].of, p.j)
  BY <1>1, <1>2, PlainForm
<1>4. s \in DOMAIN Hash
  <2>1. wtab \in Seq(TabEntry) /\ Len(wtab) \in Nat
    BY ZenonT(30), NowFacts
  <2>2. p.of \in Nat /\ p.of < Len(wtab) /\ wtab[p.of + 1].sort = "desc" /\ p.j \in Nat
        /\ p.j <= Len(Fields[wtab[p.of + 1].of])
    BY ZenonT(30), <1>2, <1>3, PositionForm DEF PosOK, Owned, Slot
  <2>. DEFINE d == wtab[p.of + 1].of
  <2>3. d \in Descs
    <3>1. p.of + 1 \in 1 .. Len(wtab)
      BY <2>1, <2>2
    <3>. QED
      BY <2>1, <2>2, <3>1, EntryForm
  <2>. HIDE DEF d
  <2>4. p.j = 0 \/ p.j \in 1 .. Len(Fields[d])
    BY <2>2, <2>3, KidFacts DEF d
  <2>5. TextOf(d, p.j) \in DOMAIN Hash
    BY ZenonT(30), <2>3, <2>4, DescFacts, KidFacts DEF TextOf
  <2>. QED
    BY <1>3, <2>5 DEF d
<1>. HIDE DEF s, p
<1>5. TextPut(H, g, s, h)
  BY <1>1, <1>3, <1>4 DEF TextPut, p
<1>. HIDE DEF g, h
<1>6. ASSUME TextLit(wire', wtab', g, h, s) \/ (TextRef(wire', wtab', g, h, s) /\ Get(strs, s) # 0)
      PROVE  Onward(wire', wtab', drop, g, h)
  <2>1. wtab'[p.of + 1] = wtab[p.of + 1]
    <3>1. wtab \in Seq(TabEntry) /\ Len(wtab) \in Nat
      BY NowFacts
    <3>2. PICK recs \in Seq(TabEntry) : wtab' = wtab \o recs
      <4>1. s \in DOMAIN Hash => Entry("str", s) \in TabEntry
        BY DEF Entry, TabEntry
      <4>2. wtab' = wtab \o <<>> \/ wtab' = wtab \o <<Entry("str", s)>>
        BY <1>1 DEF PutString, Put
      <4>3. <<Entry("str", s)>> \in Seq(TabEntry)
        BY <1>4, <4>1
      <4>. QED
        BY <4>2, <4>3, EmptyFacts
    <3>3. p.of + 1 \in 1 .. Len(wtab)
      BY <1>2, <1>3, <3>1 DEF PosOK, Owned, Slot
    <3>. QED
      BY <3>1, <3>2, <3>3, ConcatFacts
  <2>2. StepName(wire', wtab', g, h)
    BY <1>3, <1>6, <2>1 DEF StepName, p
  <2>. QED
    BY <2>2 DEF Onward
<1>. QED
  BY <1>5, <1>6, TextWritten

(* The string of a position. *)
LEMMA StringBodyWritten ==
  ASSUME NEW H, WInv(H, wire, wtab, drop, todo, strs, claims), WriteStringBody, Gaps = {}
  PROVE  Ends(wire', wtab', drop', todo', strs', claims')
<1>1. PICK s \in Texts :
        /\ todo # <<>> /\ Head(todo).k = "body" /\ Kind[Head(todo).d] = "string"
        /\ Head(todo).held /\ Get(strs, s) # 0 => drop = {}
        /\ PutString(s)
  BY DEF WriteStringBody, At, MayWrite
<1>. DEFINE g == H[Len(H)]
            h == [a |-> <<>> \o Tail(g.a), n |-> Len(wire'), c |-> Len(wtab')]
<1>2. Head(g.a) = Head(todo) /\ ~Slot(Head(todo))
  BY <1>1, BodyNow
<1>3. s \in DOMAIN Hash
  BY DescFacts
<1>4. TextPut(H, g, s, h)
  BY <1>1, <1>2, <1>3 DEF TextPut
<1>. HIDE DEF g, h
<1>5. ASSUME TextLit(wire', wtab', g, h, s) \/ (TextRef(wire', wtab', g, h, s) /\ Get(strs, s) # 0)
      PROVE  Onward(wire', wtab', drop, g, h)
  <2>1. StepText(wire', wtab', drop, g, h)
    BY <1>1, <1>2, <1>3, <1>5 DEF StepText, BodyIs
  <2>. QED
    BY <2>1 DEF Onward
<1>. QED
  BY <1>4, <1>5, TextWritten

LEMMA AfterFacts ==
  ASSUME NEW d \in Descs, NEW then, NEW u, u = After(d, then)
  PROVE  /\ u \in Seq(Position) /\ NoSlots(u)
         /\ \A x \in 1 .. Len(u) : u[x].k \in {"body", "open"} /\ u[x].d = d
<1>. DEFINE o == Open(d)
            v == Held(d)
            b == Body(d)
<1>1. /\ o \in Position /\ v \in Position /\ b \in Position /\ ~Slot(o) /\ ~Slot(v) /\ ~Slot(b)
      /\ o.k = "open" /\ o.d = d /\ v.k = "body" /\ v.d = d /\ b.k = "body" /\ b.d = d
  BY PositionMade, MadeForm
<1>2. u = <<o, v>> \/ u = <<b>> \/ u = <<>>
  BY DEF After
<1>. HIDE DEF o, v, b
<1>3. CASE u = <<o, v>>
  <2>1. u \in Seq(Position) /\ Len(u) = 2 /\ u[1] = o /\ u[2] = v
    BY <1>1, <1>3
  <2>2. \A x \in 1 .. Len(u) : u[x] = o \/ u[x] = v
    BY <2>1
  <2>. QED
    BY <1>1, <2>1, <2>2 DEF NoSlots
<1>4. CASE u = <<b>>
  <2>1. u \in Seq(Position) /\ Len(u) = 1 /\ u[1] = b
    BY <1>1, <1>4
  <2>2. \A x \in 1 .. Len(u) : u[x] = b
    BY <2>1
  <2>. QED
    BY <1>1, <2>1, <2>2 DEF NoSlots
<1>5. CASE u = <<>>
  BY <1>5, EmptyFacts
<1>. QED
  BY <1>2, <1>3, <1>4, <1>5

(* The parts of a descriptor, then positions that are none. *)
Opens(tab2, o, c, d, rest, more) ==
  /\ o \in Nat /\ c \in Nat /\ o < c /\ d \in Descs /\ tab2[o + 1] = Entry("desc", d)
  /\ rest \in Seq(Position) /\ NoSlots(rest) /\ \A x \in 1 .. Len(rest) : rest[x].k # "view"
  /\ more = Parts(o, d) \o rest

LEMMA PartsMore ==
  ASSUME NEW tab2, NEW o, NEW c, NEW d, NEW rest, NEW more, Opens(tab2, o, c, d, rest, more)
  PROVE  /\ more \in Seq(Position) /\ InTurn(more) /\ SlotsFirst(more)
         /\ \A x \in 1 .. Len(more) : PosOK(tab2, c, more[x])
         /\ \A x \in 1 .. Len(more) : Slot(more[x]) => more[x].of = o
         /\ rest = <<>> => \A x \in 1 .. Len(more) : Slot(more[x])
<1>0. /\ o \in Nat /\ c \in Nat /\ o < c /\ d \in Descs /\ tab2[o + 1] = Entry("desc", d)
      /\ rest \in Seq(Position) /\ NoSlots(rest) /\ \A x \in 1 .. Len(rest) : rest[x].k # "view"
      /\ more = Parts(o, d) \o rest
  BY DEF Opens
<1>. DEFINE P == Parts(o, d)
<1>1. P \in Seq(Position) /\ InTurn(P)
  BY <1>0, PartsFacts, PartsSlots
<1>2. ASSUME NEW x \in 1 .. Len(P)
      PROVE  Slot(P[x]) /\ P[x].of = o /\ PosOK(tab2, c, P[x])
  <2>1. \/ \E j \in 0 .. Len(Fields[d]) : P[x] = NameAt(o, j)
        \/ \E j \in 1 .. Len(Kids[d]) : P[x] = KidAt(o, j)
    BY <1>0, PartsSlots
  <2>2. Owned(tab2, c, o) /\ tab2[o + 1].of = d
    BY <1>0 DEF Owned, Entry
  <2>3. ASSUME NEW j \in 0 .. Len(Fields[d]), P[x] = NameAt(o, j)
        PROVE  Slot(P[x]) /\ P[x].of = o /\ PosOK(tab2, c, P[x])
    <3>1. P[x].k = "name" /\ P[x].of = o /\ P[x].j = j
      BY <2>3, PartForm
    <3>2. Len(Fields[d]) \in Nat
      BY <1>0, KidFacts
    <3>. HIDE DEF P
    <3>. QED
      BY <2>2, <3>1, <3>2 DEF Slot, PosOK
  <2>4. ASSUME NEW j \in 1 .. Len(Kids[d]), P[x] = KidAt(o, j)
        PROVE  Slot(P[x]) /\ P[x].of = o /\ PosOK(tab2, c, P[x])
    <3>1. P[x].k = "kid" /\ P[x].of = o /\ P[x].j = j
      BY <2>4, PartForm
    <3>. HIDE DEF P
    <3>. QED
      BY <2>2, <3>1 DEF Slot, PosOK
  <2>. QED
    BY <2>1, <2>3, <2>4
<1>. HIDE DEF P
<1>3. /\ more \in Seq(Position) /\ Len(P) \in Nat /\ Len(rest) \in Nat /\ Len(more) = Len(P) + Len(rest)
      /\ \A x \in 1 .. Len(more) :
              \/ x \in 1 .. Len(P) /\ more[x] = P[x]
              \/ x - Len(P) \in 1 .. Len(rest) /\ more[x] = rest[x - Len(P)]
  BY <1>0, <1>1, ConcatFacts DEF P
<1>4. ASSUME NEW x \in 1 .. Len(more), Slot(more[x])
      PROVE  x \in 1 .. Len(P) /\ more[x] = P[x]
  <2>1. CASE x - Len(P) \in 1 .. Len(rest) /\ more[x] = rest[x - Len(P)]
    BY <1>0, <1>4, <2>1 DEF NoSlots
  <2>. QED
    BY <1>3, <2>1
<1>9. ASSUME NEW x \in 1 .. Len(P) PROVE x \in 1 .. Len(more) /\ more[x] = P[x]
  <2>1. x \in 1 .. Len(more)
    BY <1>3
  <2>2. ~(x - Len(P) \in 1 .. Len(rest))
    BY <1>3
  <2>. QED
    BY <1>3, <2>1, <2>2
<1>5. InTurn(more)
  <2>. SUFFICES ASSUME NEW x \in 1 .. Len(more), NEW y \in 1 .. Len(more), x < y,
                       Slot(more[x]), more[x].k = more[y].k, more[x].of = more[y].of
                PROVE  more[x].j < more[y].j
    BY DEF InTurn
  <2>1. Slot(more[y])
    BY DEF Slot
  <2>2. x \in 1 .. Len(P) /\ y \in 1 .. Len(P) /\ more[x] = P[x] /\ more[y] = P[y]
    BY <1>4, <2>1
  <2>. QED
    BY <1>1, <2>2 DEF InTurn
<1>6. SlotsFirst(more)
  <2>. SUFFICES ASSUME NEW x \in 1 .. Len(more), NEW y \in 1 .. Len(more), x < y, Slot(more[y])
                PROVE  Slot(more[x])
    BY DEF SlotsFirst
  <2>1. y \in 1 .. Len(P)
    BY <1>4
  <2>2. x \in 1 .. Len(P)
    BY <1>3, <2>1
  <2>3. more[x] = P[x]
    BY <1>9, <2>2
  <2>. QED
    BY <1>2, <2>2, <2>3
<1>7. ASSUME NEW x \in 1 .. Len(more) PROVE PosOK(tab2, c, more[x])
  <2>1. CASE x \in 1 .. Len(P) /\ more[x] = P[x]
    BY <1>2, <2>1
  <2>2. CASE x - Len(P) \in 1 .. Len(rest) /\ more[x] = rest[x - Len(P)]
    <3>1. ~Slot(more[x]) /\ more[x].k # "view"
      BY <1>0, <2>2 DEF NoSlots
    <3>. QED
      BY <3>1 DEF PosOK, Slot
  <2>. QED
    BY <1>3, <2>1, <2>2
<1>8. rest = <<>> => \A x \in 1 .. Len(more) : Slot(more[x])
  <2>1. rest = <<>> => Len(rest) = 0
    OBVIOUS
  <2>. QED
    BY <1>2, <1>3, <2>1
<1>. QED
  BY <1>2, <1>3, <1>4, <1>5, <1>6, <1>7, <1>8

(* A descriptor named again by the claim of its name. *)
LEMMA DescRefWritten ==
  ASSUME NEW H, WInv(H, wire, wtab, drop, todo, strs, claims), todo # <<>>, Head(todo).k = "desc",
         NEW d, d = Head(todo).d, NEW id \in 0 .. Len(wtab) - 1, Names(wtab, Len(wtab), id, d),
         Put(<<Ref(id, "desc", d)>>, <<>>, After(d, Head(todo).then)), UNCHANGED Tables
  PROVE  Ends(wire', wtab', drop', todo', strs', claims')
<1>. DEFINE g == H[Len(H)]
            p == Head(g.a)
            tk == Ref(id, "desc", d)
            toks == <<tk>>
            none == <<>>
            more == After(d, Head(todo).then)
            h == [a |-> more \o Tail(g.a), n |-> Len(wire'), c |-> Len(wtab')]
<1>1. /\ p \in Position /\ PosOK(wtab, Len(wtab), p) /\ Head(todo) = Plain(wtab, p)
      /\ Slot(p) \/ NoSlots(Tail(g.a))
  BY HeadFacts
<1>2. p.k \in {"kid", "desc"} /\ d = DescOf(wtab, p) /\ more = Behind(p)
  BY <1>1, PlainForm
<1>3. d \in Descs
  BY AlikeType DEF Names
<1>4. /\ wire \in Seq(Token) /\ wtab \in Seq(TabEntry) /\ Len(wtab) \in Nat
      /\ g.n = Len(wire) /\ g.c = Len(wtab)
  BY NowFacts
<1>5. StrsOK(wtab, strs)
  <2>1. WriterOK(wtab, g.a, strs, claims)
    BY NowFacts
  <2>. QED
    BY <2>1 DEF WriterOK
<1>6. /\ more \in Seq(Position) /\ NoSlots(more)
      /\ \A x \in 1 .. Len(more) : more[x].k \in {"body", "open"} /\ more[x].d = d
  BY <1>3, AfterFacts
<1>7. tk \in Token /\ tk.t = "ref" /\ tk.x = id /\ tk.sort = "desc" /\ tk.of = d
  <2>1. tk.t = "ref" /\ tk.x = id /\ tk.sort = "desc" /\ tk.of = d
    BY DEF Ref
  <2>2. "desc" \in Sorts /\ id \in Nat
    BY DEF Sorts
  <2>. QED
    BY <1>3, <2>1, <2>2, TokenMade
<1>. HIDE DEF tk, more, p
<1>8. toks \in Seq(Token) /\ Len(toks) = 1 /\ toks[1] = tk
  BY <1>7
<1>9. /\ wire' = wire \o toks /\ wtab' = wtab \o <<>> /\ drop' = drop /\ todo' = more \o Tail(todo)
      /\ strs' = strs /\ claims' = claims
  BY DEF Put, Tables, tk, more
<1>10. wtab' = wtab
  BY <1>4, <1>9
<1>. HIDE DEF toks
<1>11. Adds(wire, wtab, g, toks, <<>>, wire', wtab', more, h)
  BY <1>4, <1>8, <1>9, EmptyFacts DEF Adds
<1>. HIDE DEF h
<1>12. Turn(g, h, more, Len(toks), Len(<<>>)) /\ \A i \in 1 .. Len(toks) : wire'[g.n + i] = toks[i]
  BY <1>11, Wrote
<1>13. Turn(g, h, more, 1, 0) /\ wire'[g.n + 1] = tk
  BY <1>8, <1>12, EmptyFacts
<1>. HIDE DEF g
<1>14. StepDescRef(wire', wtab', g, h)
  <2>1. \E i \in 0 .. g.c - 1 : Names(wtab', g.c, i, d) /\ wire'[g.n + 1] = Ref(i, "desc", d)
    BY <1>4, <1>10, <1>13 DEF tk
  <2>. QED
    BY <1>2, <1>10, <1>13, <2>1 DEF StepDescRef, p
<1>15. Onward(wire', wtab', drop, g, h)
  BY ZenonT(30), <1>14 DEF Onward
<1>16. Written(wtab', d)
  BY ZenonT(30), <1>10 DEF Written
<1>17. Writing(H, wire, wtab, drop, todo, strs, claims, g, toks, none, wire', wtab', strs, more, h)
  <2>1. TokOK(wtab', Len(wtab'), tk) /\ tk.t # "path"
    BY <1>7, <1>10 DEF TokOK, Names, Owned
  <2>2. \A i \in 1 .. Len(toks) : TokOK(wtab', Len(wtab'), toks[i])
    BY <1>8, <2>1
  <2>3. toks[1].t # "path"
    BY <1>8, <2>1
  <2>4. \A i \in 1 .. Len(<<>>) : FALSE
    BY EmptyFacts
  <2>5. more = <<>> \/ NoSlots(Tail(g.a))
    <3>1. CASE p.k = "kid"
      BY ZenonT(30), <1>2, <3>1 DEF Behind
    <3>2. CASE p.k = "desc"
      BY ZenonT(30), <1>1, <3>2 DEF Slot, g
    <3>. QED
      BY <1>2, <3>1, <3>2
  <2>6. Head(g.a).k # "name" /\ (Head(g.a).k = "kid" => Written(wtab', Kids[wtab[Head(g.a).of + 1].of][Head(g.a).j]))
    BY ZenonT(40), <1>2, <1>16 DEF p, DescOf, g
  <2>7. \A x \in 1 .. Len(more) : more[x].k = "view" => PosOK(wtab', Len(wtab'), more[x])
    BY <1>6
  <2>8. \A x \in 1 .. Len(more) : more[x].k \in {"body", "open"} => Written(wtab', more[x].d)
    BY <1>6, <1>16
  <2>9. h = [a |-> more \o Tail(g.a), n |-> Len(wire'), c |-> Len(wtab')] /\ g = H[Len(H)]
    BY DEF h, g
  <2>10. StrsOK(wtab', strs) /\ none \in Seq(TabEntry) /\ wtab' = wtab \o none /\ wire' = wire \o toks
         /\ \A i \in 1 .. Len(none) : FALSE
    BY <1>5, <1>9, <1>10, <2>4, EmptyFacts
  <2>. HIDE DEF none
  <2>. QED
    BY ZenonT(40), <1>6, <1>8, <1>15, <2>2, <2>3, <2>5, <2>6, <2>7, <2>8, <2>9, <2>10 DEF Writing
<1>. HIDE DEF none
<1>18. \E G \in Seq(Moment) :
         WInv(G, wire', wtab', drop, more \o Tail(todo), strs, claims) /\ G[Len(G)] = h
  BY <1>17, OneWrite
<1>. QED
  BY <1>9, <1>18 DEF Ends

LEMMA HeadDesc ==
  ASSUME NEW H, NEW w, NEW tab, NEW dr, NEW td, NEW st, NEW cl, WInv(H, w, tab, dr, td, st, cl),
         td # <<>>, Head(td).k = "desc"
  PROVE  Head(td).d \in Descs
<1>. DEFINE g == H[Len(H)]
            p == Head(g.a)
            d == Head(td).d
<1>1. p \in Position /\ PosOK(tab, Len(tab), p) /\ Head(td) = Plain(tab, p)
  BY HeadFacts
<1>2. p.k \in {"kid", "desc"} /\ d = DescOf(tab, p)
  BY <1>1, PlainForm
<1>3. tab \in Seq(TabEntry) /\ Len(tab) \in Nat
  BY NowFacts
<1>. HIDE DEF p
<1>4. CASE p.k = "desc"
  BY <1>1, <1>2, <1>4, PositionForm DEF DescOf
<1>5. CASE p.k = "kid"
  <2>1. /\ p.of \in Nat /\ p.of < Len(tab) /\ tab[p.of + 1].sort = "desc"
        /\ p.j \in 1 .. Len(Kids[tab[p.of + 1].of])
    BY <1>1, <1>5, PositionForm DEF PosOK, Owned, Slot
  <2>2. p.of + 1 \in 1 .. Len(tab)
    BY <1>3, <2>1
  <2>3. tab[p.of + 1].of \in Descs
    BY <1>3, <2>1, <2>2, EntryForm
  <2>. QED
    BY <1>2, <1>5, <2>1, <2>3, KidFacts DEF DescOf
<1>. QED
  BY <1>2, <1>4, <1>5

ClaimOf(tab, a, st, cl, d, tab2, cl2, rest) ==
  /\ tab \in Seq(TabEntry) /\ a \in Seq(Position) /\ a # <<>> /\ WriterOK(tab, a, st, cl)
  /\ d \in Descs /\ Name[d] \notin DOMAIN cl /\ tab2 = tab \o <<Entry("desc", d)>>
  /\ cl2 = [n \in DOMAIN cl \cup {Name[d]} |-> IF n = Name[d] THEN [id |-> Len(tab), d |-> d] ELSE cl[n]]
  /\ rest \in Seq(Position) /\ NoSlots(rest)
  /\ \A x \in 1 .. Len(rest) : rest[x].k \in {"body", "open"} => rest[x].d = d
  /\ Head(a).k # "name"
  /\ Head(a).k = "kid" => Kids[tab[Head(a).of + 1].of][Head(a).j] = d

LEMMA ClaimedOf ==
  ASSUME NEW tab, NEW a, NEW st, NEW cl, NEW d, NEW tab2, NEW cl2, NEW rest,
         ClaimOf(tab, a, st, cl, d, tab2, cl2, rest)
  PROVE  WriterOK(tab2, (Parts(Len(tab), d) \o rest) \o Tail(a), st, cl2)
  BY Claimed DEF ClaimOf

NewDesc(H, d) ==
  /\ WInv(H, wire, wtab, drop, todo, strs, claims) /\ todo # <<>> /\ Head(todo).k = "desc"
  /\ d = Head(todo).d /\ Name[d] \notin DOMAIN claims
  /\ Put(<<[t |-> "desc", x |-> Kind[d], n |-> Len(Kids[d])]>>, <<Entry("desc", d)>>,
         <<StrAt(Name[d])>> \o Children(d) \o After(d, Head(todo).then))
  /\ claims' = [n \in DOMAIN claims \cup {Name[d]} |->
                  IF n = Name[d] THEN [id |-> NextID, d |-> d] ELSE claims[n]]
  /\ strs' = strs

(* A descriptor written out, its name claimed. *)
LEMMA DescLitWritten ==
  ASSUME NEW H, NEW d, NewDesc(H, d)
  PROVE  Ends(wire', wtab', drop', todo', strs', claims')
<1>. DEFINE g == H[Len(H)]
            p == Head(g.a)
            c == Len(wtab)
            tk == [t |-> "desc", x |-> Kind[d], n |-> Len(Kids[d])]
            toks == <<tk>>
            rec == Entry("desc", d)
            recs == <<rec>>
            rest == After(d, Head(todo).then)
            more == Parts(c, d) \o rest
            h == [a |-> more \o Tail(g.a), n |-> Len(wire'), c |-> Len(wtab')]
<1>0. WInv(H, wire, wtab, drop, todo, strs, claims) /\ todo # <<>> /\ Head(todo).k = "desc"
  BY DEF NewDesc
<1>1. /\ g.a # <<>> /\ p \in Position /\ PosOK(wtab, Len(wtab), p) /\ Head(todo) = Plain(wtab, p)
      /\ Slot(p) \/ NoSlots(Tail(g.a))
  BY <1>0, HeadFacts
<1>30. d = Head(todo).d
  BY DEF NewDesc
<1>2. p.k \in {"kid", "desc"} /\ d = DescOf(wtab, p) /\ rest = Behind(p)
  BY <1>0, <1>1, <1>30, PlainForm
<1>4. /\ wire \in Seq(Token) /\ wtab \in Seq(TabEntry) /\ c \in Nat
      /\ g.n = Len(wire) /\ g.c = c /\ g.a \in Seq(Position)
      /\ Past(H, wire, wtab, drop) /\ H \in Seq(Moment)
  BY <1>0, NowFacts
<1>5. WriterOK(wtab, g.a, strs, claims) /\ todo = Image(wtab, g.a)
  BY <1>0, NowFacts
<1>3. d \in Descs
  BY <1>0, <1>30, HeadDesc
<1>6. /\ rest \in Seq(Position) /\ NoSlots(rest)
      /\ \A x \in 1 .. Len(rest) : rest[x].k \in {"body", "open"} /\ rest[x].d = d
  BY <1>3, AfterFacts
<1>7. tk \in Token /\ tk.t = "desc" /\ rec \in TabEntry
  <2>1. Kind[d] \in Kinds /\ Len(Kids[d]) \in Nat
    BY <1>3, DescFacts, KidFacts
  <2>2. rec \in TabEntry
    BY <1>3 DEF Entry, TabEntry, Sorts
  <2>. QED
    BY <2>1, <2>2, TokenMade
<1>8. /\ toks \in Seq(Token) /\ Len(toks) = 1 /\ toks[1] = tk
      /\ recs \in Seq(TabEntry) /\ Len(recs) = 1 /\ recs[1] = rec
  BY <1>7
<1>9. /\ wire' = wire \o toks /\ wtab' = wtab \o recs /\ drop' = drop
      /\ todo' = (<<StrAt(Name[d])>> \o Children(d) \o rest) \o Tail(todo)
  BY DEF Put, NewDesc
<1>. HIDE DEF tk, rec, p, toks, recs, rest, c
<1>10. Adds(wire, wtab, g, toks, recs, wire', wtab', more, h)
  BY <1>4, <1>8, <1>9 DEF Adds, c
<1>. HIDE DEF h, more
<1>11. /\ Turn(g, h, more, Len(toks), Len(recs)) /\ \A i \in 1 .. Len(toks) : wire'[g.n + i] = toks[i]
       /\ \A i \in 1 .. Len(recs) : wtab'[g.c + i] = recs[i]
       /\ \A i \in 1 .. g.c : wtab'[i] = wtab[i]
       /\ Len(wtab') = g.c + Len(recs) /\ wtab' \in Seq(TabEntry)
  BY SMTT(30), <1>10, Wrote
<1>12. /\ Turn(g, h, more, 1, 1) /\ wire'[g.n + 1] = tk /\ wtab'[c + 1] = rec
       /\ Len(wtab') = c + 1 /\ wtab' \in Seq(TabEntry)
  BY <1>4, <1>8, <1>11
<1>13. /\ more \in Seq(Position) /\ InTurn(more) /\ SlotsFirst(more)
       /\ \A x \in 1 .. Len(more) : PosOK(wtab', Len(wtab'), more[x])
       /\ \A x \in 1 .. Len(more) : Slot(more[x]) => more[x].of = c
       /\ rest = <<>> => \A x \in 1 .. Len(more) : Slot(more[x])
  <2>1. \A x \in 1 .. Len(rest) : rest[x].k # "view"
    BY <1>6
  <2>2. Len(wtab') \in Nat /\ c < Len(wtab') /\ wtab'[c + 1] = Entry("desc", d)
    BY <1>4, <1>12 DEF rec
  <2>3. more = Parts(c, d) \o rest
    BY DEF more
  <2>4. Opens(wtab', c, Len(wtab'), d, rest, more)
    BY <1>3, <1>4, <1>6, <2>1, <2>2, <2>3 DEF Opens
  <2>. QED
    BY <2>4, PartsMore
<1>14. DescOf(wtab', p) = d
  <2>1. CASE p.k = "desc"
    BY <1>2, <2>1 DEF DescOf
  <2>2. CASE p.k = "kid"
    <3>1. p.of + 1 \in 1 .. g.c
      BY <1>1, <1>4, <2>2, PositionForm DEF PosOK, Owned, Slot, c
    <3>2. wtab'[p.of + 1] = wtab[p.of + 1]
      BY <1>11, <3>1
    <3>. QED
      BY <1>2, <2>2, <3>2 DEF DescOf
  <2>. QED
    BY <1>2, <2>1, <2>2
<1>15. StepDescLit(wire', wtab', g, h)
  <2>1. Turn(g, h, Parts(g.c, d) \o Behind(p), 1, 1)
    BY <1>2, <1>4, <1>12 DEF more
  <2>2. wtab'[g.c + 1] = Entry("desc", d) /\ wire'[g.n + 1] = [t |-> "desc", x |-> Kind[d], n |-> Len(Kids[d])]
    BY <1>4, <1>12 DEF rec, tk
  <2>. QED
    BY <1>2, <1>14, <2>1, <2>2 DEF StepDescLit, p
<1>16. WriteOf(H, wire, wtab, drop, g, toks, recs, wire', wtab', more, h)
  <2>1. Onward(wire', wtab', drop, g, h)
    BY <1>15 DEF Onward
  <2>2. toks[1].t # "path" /\ \A i \in 1 .. Len(toks) : TokOK(wtab', Len(wtab'), toks[i])
    BY <1>7, <1>8 DEF TokOK
  <2>3. \A x \in 1 .. Len(more) : Slot(more[x]) => more[x].of >= Len(wtab)
    BY <1>4, <1>13 DEF c
  <2>4. NoSlots(Tail(g.a)) \/ \A x \in 1 .. Len(more) : Slot(more[x])
    <3>1. CASE p.k = "kid"
      BY <1>2, <1>13, <3>1 DEF Behind
    <3>2. CASE p.k = "desc"
      BY <1>1, <3>2 DEF Slot
    <3>. QED
      BY <1>2, <3>1, <3>2
  <2>5. h = [a |-> more \o Tail(g.a), n |-> Len(wire'), c |-> Len(wtab')] /\ g = H[Len(H)]
    BY DEF h
  <2>6. wtab' = wtab \o recs /\ recs \in Seq(TabEntry)
    BY <1>8, <1>9
  <2>. HIDE DEF g
  <2>. QED
    BY <1>1, <1>4, <1>8, <1>9, <1>13, <2>1, <2>2, <2>3, <2>4, <2>5, <2>6 DEF WriteOf
<1>17. /\ Past(Append(H, h), wire', wtab', drop)
       /\ Image(wtab', h.a) = Image(wtab', more) \o Tail(Image(wtab, g.a))
  <2>. HIDE DEF g
  <2>. QED
    BY <1>16, WriteStep
<1>18. Image(wtab', more) = <<StrAt(Name[d])>> \o Children(d) \o rest
  <2>1. Parts(c, d) \in Seq(Position)
    BY <1>3, <1>4, PartsFacts
  <2>2. Image(wtab', Parts(c, d) \o rest) = Image(wtab', Parts(c, d)) \o Image(wtab', rest)
    BY <1>6, <2>1, ImageConcat
  <2>3. Image(wtab', rest) = rest
    BY <1>6, ImageNoSlots
  <2>4. wtab'[c + 1].of = d
    BY <1>12 DEF rec, Entry
  <2>5. Image(wtab', Parts(c, d)) = <<StrAt(Name[d])>> \o Children(d)
    BY <1>3, <1>4, <2>4, ChildrenImage
  <2>. QED
    BY <2>2, <2>3, <2>5 DEF more
<1>19. todo' = Image(wtab', h.a)
  BY <1>5, <1>9, <1>17, <1>18
<1>20. WriterOK(wtab', (Parts(c, d) \o rest) \o Tail(g.a), strs, claims')
  <2>1. wtab' = wtab \o <<Entry("desc", d)>>
    BY <1>9 DEF recs, rec
  <2>2. \A x \in 1 .. Len(rest) : rest[x].k \in {"body", "open"} => rest[x].d = d
    BY ZenonT(30), <1>6
  <2>3. Head(g.a).k # "name" /\ (Head(g.a).k = "kid" => Kids[wtab[Head(g.a).of + 1].of][Head(g.a).j] = d)
    BY ZenonT(40), <1>2 DEF p, DescOf
  <2>4. claims' = [n \in DOMAIN claims \cup {Name[d]} |->
                     IF n = Name[d] THEN [id |-> Len(wtab), d |-> d] ELSE claims[n]]
    BY DEF NextID, NewDesc
  <2>6. Name[d] \notin DOMAIN claims
    BY ZenonT(30) DEF NewDesc
  <2>5. g.a # <<>> /\ g.a \in Seq(Position) /\ rest \in Seq(Position) /\ NoSlots(rest)
        /\ WriterOK(wtab, g.a, strs, claims) /\ d \in Descs /\ wtab \in Seq(TabEntry)
    BY ZenonT(30), <1>1, <1>3, <1>4, <1>5, <1>6
  <2>. HIDE DEF g
  <2>7. ClaimOf(wtab, g.a, strs, claims, d, wtab', claims', rest)
    BY <2>1, <2>2, <2>3, <2>4, <2>5, <2>6 DEF ClaimOf
  <2>. QED
    BY <2>7, ClaimedOf DEF c
<1>21. h.a = (Parts(c, d) \o rest) \o Tail(g.a)
  BY DEF h, more
<1>22. Append(H, h) \in Seq(Moment) /\ Append(H, h)[Len(Append(H, h))] = h
  <2>1. Append(H, h) \in Seq(Moment)
    BY <1>17 DEF Past
  <2>2. Append(H, h)[Len(Append(H, h))] = h
    BY <1>4
  <2>. QED
    BY <2>1, <2>2
<1>23. WInv(Append(H, h), wire', wtab', drop', todo', strs', claims')
  <2>1. WriterOK(wtab', h.a, strs', claims')
    BY <1>20, <1>21 DEF NewDesc
  <2>. HIDE DEF h
  <2>. QED
    BY <1>9, <1>17, <1>19, <1>22, <2>1 DEF WInv
<1>. QED
  BY <1>22, <1>23 DEF Ends

(* A descriptor is written, named again, or refused. *)
LEMMA DescWritten ==
  ASSUME NEW H, WInv(H, wire, wtab, drop, todo, strs, claims), WriteDesc
  PROVE  \/ Ends(wire', wtab', drop', todo', strs', claims') /\ refused' = refused
         \/ refused' = TRUE /\ todo' = <<>> /\ drop' = drop
<1>. DEFINE d == Head(todo).d
            g == H[Len(H)]
            rest == After(d, Head(todo).then)
<1>1. todo # <<>> /\ Head(todo).k = "desc"
  BY DEF WriteDesc
<1>2. CASE Name[d] \notin DOMAIN claims
  <2>1. /\ Put(<<[t |-> "desc", x |-> Kind[d], n |-> Len(Kids[d])]>>, <<Entry("desc", d)>>,
                <<StrAt(Name[d])>> \o Children(d) \o rest)
        /\ claims' = [n \in DOMAIN claims \cup {Name[d]} |->
                        IF n = Name[d] THEN [id |-> NextID, d |-> d] ELSE claims[n]]
        /\ strs' = strs
    BY <1>2 DEF WriteDesc
  <2>2. Ends(wire', wtab', drop', todo', strs', claims')
    <3>1. NewDesc(H, d)
      BY <1>1, <1>2, <2>1 DEF NewDesc
    <3>. QED
      BY <3>1, DescLitWritten
  <2>3. refused' = refused
    BY <2>1 DEF Put
  <2>. QED
    BY <2>2, <2>3
<1>3. CASE Name[d] \in DOMAIN claims /\ DescEqual(claims[Name[d]].d, d)
  <2>. DEFINE id == claims[Name[d]].id
  <2>1. Put(<<Ref(id, "desc", d)>>, <<>>, rest) /\ UNCHANGED Tables
    BY <1>3 DEF WriteDesc
  <2>2. ClaimsOK(wtab, claims)
    <3>1. WriterOK(wtab, g.a, strs, claims)
      BY NowFacts
    <3>. QED
      BY <3>1 DEF WriterOK
  <2>3. /\ claims[Name[d]].d \in Descs /\ id \in 0 .. Len(wtab) - 1
        /\ wtab[id + 1] = Entry("desc", claims[Name[d]].d)
    BY <1>3, <2>2 DEF ClaimsOK
  <2>4. d \in Descs
    BY <1>1, HeadDesc
  <2>5. Alike(claims[Name[d]].d, d)
    BY <1>3, <2>3, <2>4, EqualAlike
  <2>6. Names(wtab, Len(wtab), id, d)
    BY <2>3, <2>5 DEF Names, Owned, Entry
  <2>7. Ends(wire', wtab', drop', todo', strs', claims')
    BY <1>1, <2>1, <2>3, <2>6, DescRefWritten
  <2>8. refused' = refused
    BY <2>1 DEF Put
  <2>. QED
    BY <2>7, <2>8
<1>4. CASE Name[d] \in DOMAIN claims /\ ~DescEqual(claims[Name[d]].d, d)
  BY <1>4 DEF WriteDesc
<1>. QED
  BY <1>2, <1>3, <1>4

=============================================================================
