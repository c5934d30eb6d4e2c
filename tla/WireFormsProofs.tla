--------------------------- MODULE WireFormsProofs ---------------------------
(***************************************************************************)
(* What TLAPS proves of WireForms, for every width of the words and of the *)
(* payloads: numbers of any size, views and blobs are read back, numbers   *)
(* and views have one spelling, views lie inside of their record, and      *)
(* arguments are ordered as their numbers.                                 *)
(***************************************************************************)
EXTENDS WireForms, WellFoundedInduction, SequenceTheorems, TLAPS

-----------------------------------------------------------------------------
(* Arithmetic of words.                                                    *)

LEMMA ModSmall ==
  ASSUME NEW m \in Nat \ {0}, NEW n \in 0 .. m - 1
  PROVE  n % m = n
  OBVIOUS

LEMMA ModOver ==
  ASSUME NEW m \in Nat \ {0}, NEW n \in m .. 2 * m - 1
  PROVE  n % m = n - m
  OBVIOUS

LEMMA ModNegative ==
  ASSUME NEW m \in Nat \ {0}, NEW n \in -m .. -1
  PROVE  n % m = n + m
  OBVIOUS

LEMMA Halves ==
  ASSUME NEW n \in Nat
  PROVE  /\ (2 * n) \div 2 = n /\ (2 * n) % 2 = 0
         /\ (2 * n + 1) \div 2 = n /\ (2 * n + 1) % 2 = 1
  OBVIOUS

LEMMA Widths ==
  /\ argInlineMax \in Nat /\ B1 \in Nat /\ B2 \in Nat /\ B4 \in Nat /\ B8 \in Nat \ {0}
  /\ argInlineMax < B1 /\ B1 < B2 /\ B2 < B4 /\ B4 < B8
  /\ B1 # 0 /\ B2 # 0 /\ B4 # 0 /\ B8 # 0
  BY WidthAssumption DEF WidthAssumption

(* The sum of two words wraps at most once.                                *)
LEMMA SumFacts ==
  ASSUME NEW a \in Word, NEW b \in Word
  PROVE  /\ a + b < B8 => Sum64(a, b) = a + b
         /\ a + b >= B8 => Sum64(a, b) < a /\ Sum64(a, b) = a + b - B8
<1>1. a \in Nat /\ b \in Nat /\ a < B8 /\ b < B8 /\ B8 \in Nat \ {0}
  BY Widths DEF Word
<1>2. CASE a + b < B8
  <2>1. a + b \in 0 .. B8 - 1
    BY <1>1, <1>2
  <2>. QED
    BY <1>1, <1>2, <2>1, ModSmall DEF Sum64
<1>3. CASE a + b >= B8
  <2>. DEFINE n == a + b
  <2>1. n \in B8 .. 2 * B8 - 1 /\ n \in Nat
    BY <1>1, <1>3
  <2>. HIDE DEF n
  <2>2. n % B8 = n - B8
    BY <1>1, <2>1, ModOver
  <2>3. Sum64(a, b) = n - B8
    BY <2>2 DEF Sum64, n
  <2>. QED
    BY <1>1, <1>3, <2>3 DEF n
<1>. QED
  BY <1>1, <1>2, <1>3

-----------------------------------------------------------------------------
(* Arguments.                                                              *)

(* The forms, in their order, and the numbers of each.                     *)
LEMMA FormFacts ==
  ASSUME NEW n \in Word
  PROVE  LET a == writeArg(n)
         IN  \/ n <= argInlineMax /\ a = [form |-> n, payload |-> 0]
             \/ /\ argInlineMax < n /\ n < B1
                /\ a = [form |-> argU8, payload |-> n]
             \/ B1 <= n /\ n < B2 /\ a = [form |-> argU16, payload |-> n]
             \/ B2 <= n /\ n < B4 /\ a = [form |-> argU32, payload |-> n]
             \/ B4 <= n /\ n < B8 /\ a = [form |-> argU64, payload |-> n]
<1>1. n \in Nat /\ n < B8
  BY Widths DEF Word
<1>. DEFINE f == argForm(n)
<1>2. CASE n <= argInlineMax
  <2>1. f = n /\ argWidth(f) = 1
    BY <1>1, <1>2, Widths DEF argForm, argWidth, argU8, argU16, argU32, argU64
  <2>2. n % 1 = 0
    BY <1>1
  <2>. QED
    BY <1>2, <2>1, <2>2 DEF writeArg
<1>3. CASE argInlineMax < n /\ n < B1
  <2>1. f = argU8 /\ argWidth(f) = B1
    BY <1>1, <1>3, Widths DEF argForm, argWidth
  <2>2. n % B1 = n
    BY <1>1, <1>3, Widths, ModSmall
  <2>. QED
    BY <1>3, <2>1, <2>2 DEF writeArg
<1>4. CASE B1 <= n /\ n < B2
  <2>1. f = argU16 /\ argWidth(f) = B2
    BY <1>1, <1>4, Widths DEF argForm, argWidth, argU8, argU16
  <2>2. n % B2 = n
    BY <1>1, <1>4, Widths, ModSmall
  <2>. QED
    BY <1>4, <2>1, <2>2 DEF writeArg
<1>5. CASE B2 <= n /\ n < B4
  <2>1. f = argU32 /\ argWidth(f) = B4
    BY <1>1, <1>5, Widths DEF argForm, argWidth, argU8, argU16, argU32
  <2>2. n % B4 = n
    BY <1>1, <1>5, Widths, ModSmall
  <2>. QED
    BY <1>5, <2>1, <2>2 DEF writeArg
<1>6. CASE B4 <= n
  <2>1. f = argU64 /\ argWidth(f) = B8
    BY <1>1, <1>6, Widths DEF argForm, argWidth, argU8, argU16, argU32, argU64
  <2>2. n % B8 = n
    BY <1>1, <1>6, Widths, ModSmall
  <2>. QED
    BY <1>1, <1>6, <2>1, <2>2 DEF writeArg
<1>. QED
  BY <1>1, <1>2, <1>3, <1>4, <1>5, <1>6, Widths

(* Every word is read back from its argument, for words of any width       *)
(* (writeArg, ReadArg).                                                    *)
THEOREM ArgInverse ==
  ASSUME NEW n \in Word
  PROVE  argPayload(writeArg(n)) = n
<1>1. n \in Nat /\ n < B8
  BY Widths DEF Word
<1>. QED
  BY <1>1, FormFacts, Widths DEF argPayload, Least, argU8, argU16, argU32, argU64

(* An argument the Reader takes is the one the Writer writes: the checks   *)
(* for minimal forms leave each number one spelling (ReadArg).             *)
THEOREM ArgUnique ==
  ASSUME NEW a, a = [form |-> a.form, payload |-> a.payload],
         a.form \in 0 .. argExt, a.payload \in 0 .. argWidth(a.form) - 1,
         argPayload(a) # Bad
  PROVE  argPayload(a) \in Word /\ a = writeArg(argPayload(a))
<1>. DEFINE p == a.payload
            f == a.form
<1>1. CASE f <= argInlineMax
  <2>1. argWidth(f) = 1
    BY <1>1, Widths DEF argWidth, argU8, argU16, argU32, argU64
  <2>2. p = 0 /\ argPayload(a) = f /\ f \in Word
    BY <1>1, <2>1, Widths DEF argPayload, Word, argExt
  <2>3. writeArg(f) = [form |-> f, payload |-> 0]
    BY <1>1, <2>2, FormFacts, Widths DEF Word
  <2>. QED
    BY <2>2, <2>3
<1>2. CASE f > argInlineMax
  <2>1. argPayload(a) = p /\ p >= Least(f) /\ f \in {argU8, argU16, argU32, argU64}
    BY <1>2, Widths DEF argPayload, argU8, argU16, argU32, argU64, argExt
  <2>2. CASE f = argU8
    <3>1. Least(f) = argInlineMax + 1 /\ argWidth(f) = B1
      BY <2>2, Widths DEF Least, argWidth
    <3>2. p \in Word /\ argInlineMax < p /\ p < B1
      BY <2>1, <3>1, Widths DEF Word
    <3>. QED
      BY <2>1, <2>2, <3>2, FormFacts, Widths DEF Word
  <2>3. CASE f = argU16
    <3>1. Least(f) = B1 /\ argWidth(f) = B2
      BY <2>3, Widths DEF Least, argWidth, argU8, argU16
    <3>2. p \in Word /\ B1 <= p /\ p < B2
      BY <2>1, <3>1, Widths DEF Word
    <3>. QED
      BY <2>1, <2>3, <3>2, FormFacts, Widths DEF Word
  <2>4. CASE f = argU32
    <3>1. Least(f) = B2 /\ argWidth(f) = B4
      BY <2>4, Widths DEF Least, argWidth, argU8, argU16, argU32
    <3>2. p \in Word /\ B2 <= p /\ p < B4
      BY <2>1, <3>1, Widths DEF Word
    <3>. QED
      BY <2>1, <2>4, <3>2, FormFacts, Widths DEF Word
  <2>5. CASE f = argU64
    <3>1. Least(f) = B4 /\ argWidth(f) = B8
      BY <2>5, Widths DEF Least, argWidth, argU8, argU16, argU32, argU64
    <3>2. p \in Word /\ B4 <= p /\ p < B8
      BY <2>1, <3>1, Widths DEF Word
    <3>. QED
      BY <2>1, <2>5, <3>2, FormFacts, Widths DEF Word
  <2>. QED
    BY <2>1, <2>2, <2>3, <2>4, <2>5
<1>. QED
  BY <1>1, <1>2, Widths DEF argExt

(* The bytes of two arguments compare as their numbers.                    *)
LEMMA ArgOrder ==
  ASSUME NEW n \in Word, NEW m \in Word
  PROVE  n < m <=> Before(writeArg(n), writeArg(m))
<1>1. n \in Nat /\ m \in Nat
  BY Widths DEF Word
<1>. DEFINE a == writeArg(n)
            b == writeArg(m)
<1>2. ASSUME NEW x \in Word, NEW y \in Word, x < y PROVE Before(writeArg(x), writeArg(y))
  <2>1. x \in Nat /\ y \in Nat
    BY Widths DEF Word
  <2>. QED
    BY <1>2, <2>1, FormFacts, Widths DEF Before, argU8, argU16, argU32, argU64
<1>3. ASSUME NEW x \in Word, NEW y \in Word, Before(writeArg(x), writeArg(y)) PROVE ~(y <= x)
  <2>1. x \in Nat /\ y \in Nat
    BY Widths DEF Word
  <2>. QED
    BY <1>3, <2>1, FormFacts, Widths DEF Before, argU8, argU16, argU32, argU64
<1>. QED
  BY <1>1, <1>2, <1>3

(* Signed numbers: the zigzag image is a word and folds back, the lowest   *)
(* number included (zigzag, unzigzag).                                     *)
THEOREM ZigzagInverse ==
  ASSUME NEW n \in Int64
  PROVE  zigzag(n) \in Word /\ unzigzag(zigzag(n)) = n
<1>1. PICK h \in Nat : B8 = 2 * h /\ h >= 1 /\ B8 \div 2 = h
  <2>. DEFINE h == B8 \div 2
  <2>1. h \in Nat /\ B8 = 2 * h
    BY Widths, WidthAssumption DEF WidthAssumption
  <2>. QED
    BY <2>1, Widths
<1>2. n \in Int /\ -h <= n /\ n <= h - 1
  BY <1>1 DEF Int64
<1>3. CASE n >= 0
  <2>1. 2 * n \in 0 .. B8 - 1 /\ n \in Nat
    BY <1>1, <1>2, <1>3
  <2>2. zigzag(n) = 2 * n
    BY <1>2, <1>3, <2>1, Widths, ModSmall DEF zigzag
  <2>. QED
    BY <2>1, <2>2, Halves DEF unzigzag, Word
<1>4. CASE n < 0
  <2>. DEFINE k == -n - 1
  <2>1. 2 * n \in -B8 .. -1 /\ k \in Nat /\ n = -k - 1
    BY <1>1, <1>2, <1>4
  <2>2. (2 * n) % B8 = 2 * n + B8
    BY <2>1, Widths, ModNegative
  <2>3. zigzag(n) = 2 * k + 1
    BY <1>2, <1>4, <2>1, <2>2, Widths DEF zigzag
  <2>4. 2 * k + 1 <= B8 - 1
    BY <1>1, <1>2, <1>4
  <2>. HIDE DEF k
  <2>5. (2 * k + 1) \div 2 = k /\ (2 * k + 1) % 2 = 1
    BY <2>1, Halves
  <2>6. 2 * k + 1 \in Word
    BY <2>1, <2>4, Widths DEF Word
  <2>. QED
    BY <2>1, <2>3, <2>5, <2>6 DEF unzigzag
<1>. QED
  BY <1>2, <1>3, <1>4

-----------------------------------------------------------------------------
(* Views.                                                                  *)

(* What validateView lets pass lies inside, whatever wraps.                *)
LEMMA ValidInside ==
  ASSUME NEW v \in [off : Word, len : Word, cap : Word], NEW L \in Word, validateView(v, L)
  PROVE  v.len <= v.cap /\ v.off + v.cap <= L /\ v.off + v.cap < B8
<1>. DEFINE o == v.off
            l == v.len
            c == v.cap
<1>1. o \in Word /\ l \in Word /\ c \in Word
  OBVIOUS
<1>2. o \in Nat /\ l \in Nat /\ c \in Nat /\ L \in Nat /\ L < B8 /\ B8 \in Nat
  BY <1>1, Widths DEF Word
<1>3. /\ Sum64(o, l) >= o /\ Sum64(o, c) >= o
      /\ Sum64(o, l) <= Sum64(o, c) /\ Sum64(o, c) <= L
  BY DEF validateView
<1>. HIDE DEF o, l, c
<1>4. o + c < B8 /\ Sum64(o, c) = o + c
  <2>1. ASSUME o + c >= B8 PROVE FALSE
    <3>1. Sum64(o, c) < o /\ Sum64(o, c) = o + c - B8
      BY <1>1, <2>1, SumFacts
    <3>. QED
      BY <1>2, <1>3, <3>1
  <2>. QED
    BY <1>1, <1>2, <2>1, SumFacts
<1>5. o + l < B8 /\ Sum64(o, l) = o + l
  <2>1. ASSUME o + l >= B8 PROVE FALSE
    <3>1. Sum64(o, l) < o /\ Sum64(o, l) = o + l - B8
      BY <1>1, <2>1, SumFacts
    <3>. QED
      BY <1>2, <1>3, <3>1
  <2>. QED
    BY <1>1, <1>2, <2>1, SumFacts
<1>. QED
  BY <1>2, <1>3, <1>4, <1>5 DEF o, l, c

(* A view inside of its record passes.                                     *)
LEMMA InsideValid ==
  ASSUME NEW v \in [off : Word, len : Word, cap : Word], NEW L \in Word,
         v.len <= v.cap, v.off + v.cap <= L
  PROVE  validateView(v, L)
<1>. DEFINE o == v.off
            l == v.len
            c == v.cap
<1>1. o \in Word /\ l \in Word /\ c \in Word
  OBVIOUS
<1>2. /\ o \in Nat /\ l \in Nat /\ c \in Nat /\ L \in Nat /\ L < B8 /\ B8 \in Nat
      /\ l <= c /\ o + c <= L
  BY <1>1, Widths DEF Word
<1>. HIDE DEF o, l, c
<1>3. o + c < B8 /\ o + l < B8
  BY <1>2
<1>4. Sum64(o, l) = o + l /\ Sum64(o, c) = o + c
  BY <1>1, <1>3, SumFacts
<1>5. /\ Sum64(o, l) >= o /\ Sum64(o, c) >= o
      /\ Sum64(o, l) <= Sum64(o, c) /\ Sum64(o, c) <= L
  BY <1>2, <1>4
<1>. QED
  BY <1>5 DEF validateView, o, l, c

(* Tokens of views, as the Writer or anyone else may have written them.    *)
ViewTokens ==
  {t \in [form : 0 .. 2, off : Word, len : Word, cap : Word] :
     (t.form = 0 => t.off = 0 /\ t.len = 0) /\ (t.form < 2 => t.cap = 0)}

LEMMA ViewReadType ==
  ASSUME NEW t \in ViewTokens, NEW L \in Word
  PROVE  ViewRead(t, L) \in [off : Word, len : Word, cap : Word]
<1>1. 0 \in Word
  BY Widths DEF Word
<1>. QED
  BY <1>1 DEF ViewRead, ViewTokens

(* A view inside of its record is read back from the form that was chosen. *)
LEMMA ViewInverse ==
  ASSUME NEW v \in [off : Word, len : Word, cap : Word], NEW L \in Word,
         v.len <= v.cap, v.off + v.cap <= L
  PROVE  ReadView(ViewOf(v, L), L) = v
<1>. DEFINE t == ViewOf(v, L)
            o == v.off
            l == v.len
            c == v.cap
<1>1. v = [off |-> o, len |-> l, cap |-> c] /\ validateView(v, L)
  BY InsideValid
<1>2. o \in Nat /\ l \in Nat /\ c \in Nat /\ L \in Nat
  BY Widths DEF Word
<1>3. CASE o = 0 /\ l = c /\ l = L
  <2>1. t = [form |-> 0, off |-> 0, len |-> 0, cap |-> 0]
    BY <1>3 DEF ViewOf, WriteViewFull
  <2>2. ViewRead(t, L) = [off |-> 0, len |-> L, cap |-> L] /\ t.form = 0
    BY <2>1 DEF ViewRead
  <2>. QED
    BY <1>1, <1>3, <2>2 DEF ReadView
<1>4. CASE ~(o = 0 /\ l = c /\ l = L) /\ c = l
  <2>1. t = [form |-> 1, off |-> o, len |-> l, cap |-> 0]
    BY <1>4 DEF ViewOf, WriteView
  <2>2. ViewRead(t, L) = [off |-> o, len |-> l, cap |-> l] /\ t.form = 1
    BY <2>1 DEF ViewRead
  <2>. QED
    BY <1>1, <1>4, <2>2 DEF ReadView
<1>5. CASE c # l
  <2>1. t = [form |-> 2, off |-> o, len |-> l, cap |-> c]
    BY <1>5 DEF ViewOf, WriteView3
  <2>2. ViewRead(t, L) = [off |-> o, len |-> l, cap |-> c] /\ t.form = 2
    BY <2>1 DEF ViewRead
  <2>. QED
    BY <1>1, <1>5, <2>2 DEF ReadView
<1>. QED
  BY <1>3, <1>4, <1>5

(* What encodeFreshSlice and encodeFreshBlob write is that form, too.      *)
LEMMA FreshIsView ==
  ASSUME NEW n \in Word, NEW L \in Word, n <= L
  PROVE  FreshView(n, L) = ViewOf([off |-> 0, len |-> n, cap |-> L], L)
<1>1. n \in Nat /\ L \in Nat
  BY Widths DEF Word
<1>. QED
  BY <1>1 DEF FreshView, ViewOf, WriteViewFull, WriteView, WriteView3

(* A view the Reader takes has the form the Writer chooses.                *)
LEMMA ViewUnique ==
  ASSUME NEW t \in ViewTokens, NEW L \in Word, ReadView(t, L) # Bad
  PROVE  /\ ReadView(t, L) = ViewRead(t, L) /\ validateView(ViewRead(t, L), L)
         /\ t = ViewOf(ViewRead(t, L), L)
<1>. DEFINE v == ViewRead(t, L)
<1>1. /\ ReadView(t, L) = v /\ validateView(v, L)
      /\ ~(t.form = 1 /\ v.off = 0 /\ v.len = L)
      /\ ~(t.form = 2 /\ v.cap = v.len)
  BY DEF ReadView
<1>2. t = [form |-> t.form, off |-> t.off, len |-> t.len, cap |-> t.cap]
      /\ t.form \in {0, 1, 2}
  BY DEF ViewTokens
<1>3. CASE t.form = 0
  <2>1. v = [off |-> 0, len |-> L, cap |-> L]
    BY <1>3 DEF ViewRead
  <2>2. t = [form |-> 0, off |-> 0, len |-> 0, cap |-> 0]
    BY <1>2, <1>3 DEF ViewTokens
  <2>. QED
    BY <1>1, <2>1, <2>2 DEF ViewOf, WriteViewFull
<1>4. CASE t.form = 1
  <2>1. v = [off |-> t.off, len |-> t.len, cap |-> t.len]
    BY <1>4 DEF ViewRead
  <2>2. t = [form |-> 1, off |-> t.off, len |-> t.len, cap |-> 0]
    BY <1>2, <1>4 DEF ViewTokens
  <2>3. ViewOf(v, L) = WriteView(t.off, t.len)
    BY <1>1, <1>4, <2>1 DEF ViewOf
  <2>. QED
    BY <1>1, <2>2, <2>3 DEF WriteView
<1>5. CASE t.form = 2
  <2>1. v = [off |-> t.off, len |-> t.len, cap |-> t.cap]
    BY <1>5 DEF ViewRead
  <2>2. ViewOf(v, L) = WriteView3(t.off, t.len, t.cap)
    BY <1>1, <1>5, <2>1 DEF ViewOf
  <2>. QED
    BY <1>1, <1>2, <1>5, <2>2 DEF WriteView3
<1>. QED
  BY <1>2, <1>3, <1>4, <1>5

-----------------------------------------------------------------------------
(* Induction, from the well-foundedness of the natural numbers.            *)

LEMMA LeastOf ==
  ASSUME NEW T, T \subseteq Nat, T # {}
  PROVE  \E x \in T : \A y \in T : x <= y
<1>1. PICK x \in T : \A y \in T : <<y, x>> \notin OpToRel(<, Nat)
  BY NatLessThanWellFounded, WFMin
<1>2. \A y \in T : ~(y < x)
  BY <1>1, Zenon DEF OpToRel
<1>. QED
  BY <1>2

LEMMA Induction ==
  ASSUME NEW S, 0 \in S, \A n \in Nat : n \in S => n + 1 \in S
  PROVE  Nat \subseteq S
<1>. SUFFICES ASSUME ~(Nat \subseteq S) PROVE FALSE
  OBVIOUS
<1>1. PICK x \in Nat \ S : \A y \in Nat \ S : x <= y
  BY LeastOf
<1>2. x # 0 /\ x - 1 \in Nat /\ x - 1 < x /\ x = (x - 1) + 1
  BY <1>1
<1>3. x - 1 \in S
  BY <1>1, <1>2
<1>. QED
  BY <1>1, <1>2, <1>3

(* The minimum of a set of natural numbers, and the maximum of one that    *)
(* has a bound.                                                            *)
LEMMA MinFacts ==
  ASSUME NEW T, T \subseteq Nat, T # {}
  PROVE  Min(T) \in T /\ \A y \in T : Min(T) <= y
<1>1. \E x \in T : \A y \in T : x <= y
  BY LeastOf
<1>. QED
  BY <1>1, Zenon DEF Min

LEMMA MinIs ==
  ASSUME NEW T, T \subseteq Nat, NEW m \in T, \A y \in T : m <= y
  PROVE  Min(T) = m
<1>1. Min(T) \in T /\ Min(T) <= m
  BY MinFacts
<1>2. m <= Min(T)
  BY <1>1
<1>3. m \in Nat /\ Min(T) \in Nat
  BY <1>1
<1>. QED
  BY <1>1, <1>2, <1>3

LEMMA MaxFacts ==
  ASSUME NEW T, T \subseteq Nat, T # {}, NEW b \in Nat, \A y \in T : y <= b
  PROVE  Max(T) \in T /\ \A y \in T : Max(T) >= y
<1>. DEFINE R == {b - y : y \in T}
<1>1. \A y \in T : b - y \in Nat
  OBVIOUS
<1>1b. R \subseteq Nat /\ R # {}
  BY <1>1
<1>2. PICK r \in R : \A q \in R : r <= q
  BY <1>1b, LeastOf
<1>3. PICK x \in T : r = b - x
  OBVIOUS
<1>4. \A y \in T : x >= y
  <2>. TAKE y \in T
  <2>1. r <= b - y
    BY <1>2
  <2>. QED
    BY <1>3, <2>1
<1>5. \E z \in T : \A y \in T : z >= y
  BY <1>4
<1>. QED
  BY <1>5, Zenon DEF Max

(* The powers of B1: f is Power as far as n.                               *)
Powers(f, n) == f = [k \in 0 .. n |-> IF k = 0 THEN 1 ELSE B1 * f[k - 1]]
LEMMA PowersExist == \A n \in Nat : \E f : Powers(f, n)
<1>. DEFINE S == {n \in Nat : \E f : Powers(f, n)}
<1>1. 0 \in S
  <2>. DEFINE f == [k \in 0 .. 0 |-> 1]
  <2>1. Powers(f, 0)
    BY DEF Powers
  <2>. HIDE DEF f
  <2>. QED
    BY <2>1
<1>2. ASSUME NEW n \in Nat, n \in S PROVE n + 1 \in S
  <2>1. PICK f : Powers(f, n)
    BY <1>2
  <2>. DEFINE g == [k \in 0 .. n + 1 |-> IF k <= n THEN f[k] ELSE B1 * f[n]]
  <2>2. /\ \A k \in 0 .. n : g[k] = f[k]
        /\ g[n + 1] = B1 * f[n]
        /\ g = [k \in 0 .. n + 1 |-> g[k]]
    OBVIOUS
  <2>. HIDE DEF g
  <2>3. ASSUME NEW k \in 0 .. n + 1
        PROVE  g[k] = IF k = 0 THEN 1 ELSE B1 * g[k - 1]
    <3>1. CASE k = n + 1
      <4>1. k # 0 /\ k - 1 = n /\ n \in 0 .. n
        BY <3>1
      <4>. QED
        BY <4>1, <3>1, <2>2
    <3>2. CASE k \in 0 .. n
      <4>1. f[k] = IF k = 0 THEN 1 ELSE B1 * f[k - 1]
        BY <3>2, <2>1 DEF Powers
      <4>2. k # 0 => k - 1 \in 0 .. n
        BY <3>2
      <4>. QED
        BY <3>2, <4>1, <4>2, <2>2
    <3>. QED
      BY <3>1, <3>2
  <2>4. Powers(g, n + 1)
    BY <2>2, <2>3 DEF Powers
  <2>. QED
    BY <2>4
<1>3. Nat \subseteq S
  BY <1>1, <1>2, Induction
<1>. QED
  BY <1>3

(* Two such functions agree as far as both go.                             *)
LEMMA PowersAgree ==
  ASSUME NEW m \in Nat, NEW n \in Nat, m <= n, NEW f, NEW g, Powers(f, m), Powers(g, n)
  PROVE  \A k \in 0 .. m : f[k] = g[k]
<1>. DEFINE S == {k \in Nat : k <= m => f[k] = g[k]}
<1>1. /\ \A k \in 0 .. m : f[k] = IF k = 0 THEN 1 ELSE B1 * f[k - 1]
      /\ \A k \in 0 .. n : g[k] = IF k = 0 THEN 1 ELSE B1 * g[k - 1]
  BY DEF Powers
<1>2. 0 \in S
  BY <1>1
<1>3. ASSUME NEW k \in Nat, k \in S PROVE k + 1 \in S
  <2>1. (k + 1) # 0 /\ (k + 1) - 1 = k
    OBVIOUS
  <2>2. ASSUME k + 1 <= m PROVE f[k + 1] = g[k + 1]
    <3>1. k + 1 \in 0 .. m /\ k + 1 \in 0 .. n /\ f[k] = g[k]
      BY <1>3, <2>2
    <3>2. f[k + 1] = B1 * f[k] /\ g[k + 1] = B1 * g[k]
      BY <1>1, <2>1, <3>1
    <3>. QED
      BY <3>1, <3>2
  <2>. QED
    BY <2>2
<1>4. Nat \subseteq S
  BY <1>2, <1>3, Induction
<1>. QED
  BY <1>4

(* What Power is.                                                          *)
LEMMA PowerSteps == Power[0] = 1 /\ \A k \in Nat : Power[k + 1] = B1 * Power[k]
<1>. DEFINE F(n) == CHOOSE f : Powers(f, n)
            h    == [k \in Nat |-> F(k)[k]]
<1>1. \A n \in Nat : Powers(F(n), n)
  BY PowersExist
<1>. HIDE DEF F
<1>2. ASSUME NEW k \in Nat PROVE h[k] = IF k = 0 THEN 1 ELSE B1 * h[k - 1]
  <2>1. \A j \in 0 .. k : F(k)[j] = IF j = 0 THEN 1 ELSE B1 * F(k)[j - 1]
    BY <1>1 DEF Powers
  <2>2. k \in 0 .. k
    OBVIOUS
  <2>3. CASE k = 0
    BY <2>1, <2>2, <2>3
  <2>4. CASE k # 0
    <3>1. k - 1 \in Nat /\ k - 1 <= k /\ k - 1 \in 0 .. k - 1
      BY <2>4
    <3>2. F(k - 1)[k - 1] = F(k)[k - 1]
      BY <1>1, <3>1, PowersAgree
    <3>3. F(k)[k] = B1 * F(k)[k - 1]
      BY <2>1, <2>2, <2>4
    <3>. QED
      BY <2>4, <3>1, <3>2, <3>3
  <2>. QED
    BY <2>3, <2>4
<1>3. h = [k \in Nat |-> IF k = 0 THEN 1 ELSE B1 * h[k - 1]]
  <2>1. h = [k \in Nat |-> h[k]]
    OBVIOUS
  <2>. HIDE DEF h
  <2>. QED
    BY <1>2, <2>1
<1>. HIDE DEF h
<1>4. Power = [k \in Nat |-> IF k = 0 THEN 1 ELSE B1 * Power[k - 1]]
  <2>1. \E f : f = [k \in Nat |-> IF k = 0 THEN 1 ELSE B1 * f[k - 1]]
    BY <1>3
  <2>. QED
    BY <2>1, Zenon DEF Power
<1>5. \A k \in Nat : Power[k] = IF k = 0 THEN 1 ELSE B1 * Power[k - 1]
  BY <1>4, Zenon
<1>6. ASSUME NEW k \in Nat PROVE Power[k + 1] = B1 * Power[k]
  <2>1. k + 1 \in Nat /\ k + 1 # 0 /\ (k + 1) - 1 = k
    OBVIOUS
  <2>. QED
    BY <1>5, <2>1
<1>. QED
  BY <1>5, <1>6

(* A power is a number, larger than the ones before it.                    *)
LEMMA PowerType == \A k \in Nat : Power[k] \in Nat \ {0}
<1>. DEFINE S == {k \in Nat : Power[k] \in Nat \ {0}}
<1>1. 0 \in S
  BY PowerSteps
<1>2. ASSUME NEW k \in Nat, k \in S PROVE k + 1 \in S
  <2>1. PICK p \in Nat \ {0} : Power[k] = p
    BY <1>2
  <2>2. B1 * p \in Nat \ {0}
    BY Widths
  <2>. QED
    BY <2>1, <2>2, PowerSteps
<1>3. Nat \subseteq S
  BY <1>1, <1>2, Induction
<1>. QED
  BY <1>3

LEMMA PowerGrows == \A k, d \in Nat : Power[k] <= Power[k + d]
<1>. SUFFICES ASSUME NEW k \in Nat PROVE \A d \in Nat : Power[k] <= Power[k + d]
  OBVIOUS
<1>. DEFINE S == {d \in Nat : Power[k] <= Power[k + d]}
<1>1. 0 \in S
  BY PowerType
<1>2. ASSUME NEW d \in Nat, d \in S PROVE d + 1 \in S
  <2>1. k + d \in Nat /\ k + (d + 1) = (k + d) + 1
    OBVIOUS
  <2>2. PICK p \in Nat, q \in Nat : p = Power[k] /\ q = Power[k + d]
    BY <2>1, PowerType
  <2>3. p <= q /\ q <= B1 * q
    BY <1>2, <2>2, Widths
  <2>4. Power[k + (d + 1)] = B1 * q
    BY <2>1, <2>2, PowerSteps
  <2>5. p <= B1 * q
    BY <2>3, Widths
  <2>. QED
    BY <2>2, <2>4, <2>5
<1>3. Nat \subseteq S
  BY <1>1, <1>2, Induction
<1>. QED
  BY <1>3

LEMMA PowerMonotonic ==
  ASSUME NEW j \in Nat, NEW k \in Nat, j <= k
  PROVE  Power[j] <= Power[k]
<1>1. k - j \in Nat /\ j + (k - j) = k
  OBVIOUS
<1>. QED
  BY <1>1, PowerGrows
(* The number of bytes is the one whose powers enclose the number.         *)
LEMMA BigFacts ==
  /\ extArgMinLen \in Nat \ {0} /\ extArgMinLen - 1 \in Nat /\ Power[extArgMinLen - 1] = B8
  /\ MaxExt \in Nat /\ MaxExt < B8 /\ B8 \in Nat \ {0}
  BY BigAssumption, Widths DEF BigAssumption, Word

LEMMA ByteLenFacts ==
  ASSUME NEW u \in Nat, B8 <= u, u < Power[MaxExt]
  PROVE  /\ ByteLen(u) \in Word /\ ByteLen(u) \in extArgMinLen .. MaxExt
         /\ Power[ByteLen(u) - 1] <= u
<1>. DEFINE T == {k \in 1 .. MaxExt : u < Power[k]}
            m == Min(T)
<1>1. MaxExt # 0
  <2>. SUFFICES ASSUME MaxExt = 0 PROVE FALSE
    OBVIOUS
  <2>1. Power[MaxExt] = 1
    BY PowerSteps
  <2>. QED
    BY <2>1, BigFacts
<1>2. MaxExt \in T /\ T \subseteq Nat
  BY <1>1, BigFacts
<1>3. m \in T /\ \A y \in T : m <= y
  BY <1>2, MinFacts
<1>4. ByteLen(u) = m
  BY DEF ByteLen
<1>. HIDE DEF m
<1>5. m \in Nat /\ 1 <= m /\ m <= MaxExt /\ u < Power[m] /\ m - 1 \in Nat
  BY <1>3, BigFacts
<1>6. extArgMinLen <= m
  <2>. SUFFICES ASSUME m < extArgMinLen PROVE FALSE
    BY <1>5, BigFacts
  <2>1. m <= extArgMinLen - 1
    BY <1>5, BigFacts
  <2>2. Power[m] <= B8
    BY <1>5, <2>1, BigFacts, PowerMonotonic
  <2>3. Power[m] \in Nat
    BY <1>5, PowerType
  <2>. QED
    BY <1>5, <2>2, <2>3, BigFacts
<1>7. Power[m - 1] <= u
  <2>1. CASE m = 1
    BY <2>1, BigFacts, PowerSteps
  <2>2. CASE m # 1
    <3>1. m - 1 \in 1 .. MaxExt /\ ~(m <= m - 1)
      BY <1>5, <2>2, BigFacts
    <3>2. m - 1 \notin T
      BY <1>3, <3>1
    <3>3. ~(u < Power[m - 1]) /\ Power[m - 1] \in Nat
      BY <3>1, <3>2, <1>5, PowerType
    <3>. QED
      BY <3>3
  <2>. QED
    BY <2>1, <2>2
<1>8. m \in Word
  BY <1>5, BigFacts DEF Word
<1>. QED
  BY <1>4, <1>5, <1>6, <1>7, <1>8, BigFacts

LEMMA ByteLenIs ==
  ASSUME NEW u \in Nat, NEW n \in 1 .. MaxExt, Power[n - 1] <= u, u < Power[n]
  PROVE  ByteLen(u) = n
<1>. DEFINE T == {k \in 1 .. MaxExt : u < Power[k]}
<1>1. n \in T /\ T \subseteq Nat /\ n \in Nat /\ n - 1 \in Nat
  BY BigFacts
<1>2. ASSUME NEW k \in T PROVE n <= k
  <2>. SUFFICES ASSUME k < n PROVE FALSE
    BY <1>1
  <2>1. k \in Nat /\ k <= n - 1 /\ u < Power[k]
    BY <1>1, BigFacts
  <2>2. Power[k] <= Power[n - 1] /\ Power[k] \in Nat /\ Power[n - 1] \in Nat
    BY <1>1, <2>1, PowerMonotonic, PowerType
  <2>. QED
    BY <2>1, <2>2
<1>3. Min(T) = n
  BY <1>1, <1>2, MinIs
<1>. QED
  BY <1>3 DEF ByteLen

-----------------------------------------------------------------------------
(* Big integers.                                                           *)

(* The images of zigzagBig are the natural numbers, one for each integer.  *)
LEMMA BigZigzag ==
  /\ \A v \in Int : zigzagBig(v) \in Nat /\ unzigzagBig(zigzagBig(v)) = v
                    /\ (zigzagBig(v) = 0 <=> v = 0)
  /\ \A u \in Nat : unzigzagBig(u) \in Int /\ zigzagBig(unzigzagBig(u)) = u
  /\ \A u : unzigzagBig(u) = unzigzag(u)
<1>1. ASSUME NEW v \in Int
      PROVE  zigzagBig(v) \in Nat /\ unzigzagBig(zigzagBig(v)) = v /\ (zigzagBig(v) = 0 <=> v = 0)
  <2>1. CASE v >= 0
    <3>1. v \in Nat /\ zigzagBig(v) = 2 * v
      BY <2>1 DEF zigzagBig
    <3>. QED
      BY <3>1, Halves DEF unzigzagBig
  <2>2. CASE v < 0
    <3>1. PICK k \in Nat : v = -k - 1
      <4>1. -v - 1 \in Nat /\ v = -(-v - 1) - 1
        BY <2>2
      <4>. QED
        BY <4>1
    <3>2. zigzagBig(v) = 2 * k + 1
      BY <2>2, <3>1 DEF zigzagBig
    <3>. QED
      BY <2>2, <3>1, <3>2, Halves DEF unzigzagBig
  <2>. QED
    BY <2>1, <2>2
<1>2. ASSUME NEW u \in Nat PROVE unzigzagBig(u) \in Int /\ zigzagBig(unzigzagBig(u)) = u
  <2>. DEFINE h == u \div 2
  <2>1. h \in Nat /\ (u = 2 * h \/ u = 2 * h + 1)
    OBVIOUS
  <2>. HIDE DEF h
  <2>2. CASE u = 2 * h
    <3>1. unzigzagBig(u) = h
      BY <2>1, <2>2, Halves DEF unzigzagBig
    <3>. QED
      BY <2>1, <2>2, <3>1 DEF zigzagBig
  <2>3. CASE u = 2 * h + 1
    <3>1. unzigzagBig(u) = -h - 1
      BY <2>1, <2>3, Halves DEF unzigzagBig
    <3>2. -h - 1 < 0 /\ 2 * (-(-h - 1)) - 1 = u
      BY <2>1, <2>3
    <3>. QED
      BY <2>1, <3>1, <3>2 DEF zigzagBig
  <2>. QED
    BY <2>1, <2>2, <2>3
<1>3. \A u : unzigzagBig(u) = unzigzag(u)
  BY DEF unzigzagBig, unzigzag
<1>. QED
  BY <1>1, <1>2, <1>3

LEMMA NotNumbers == Bad \notin Int /\ Nil \notin Int /\ Bad # Nil
  BY InputAssumption DEF InputAssumption

LEMMA Zero == 0 \in Word
  BY Widths DEF Word

(* Only the argument of 0 has the form 0, and none has the ext form.       *)
LEMMA WordForms ==
  ASSUME NEW n \in Word
  PROVE  (writeArg(n).form = 0 <=> n = 0) /\ writeArg(n).form # argExt
<1>1. n \in Nat
  BY Widths DEF Word
<1>. QED
  BY <1>1, FormFacts, Widths DEF argU8, argU16, argU32, argU64, argExt

(* A number of any size is read back from its token (WriteBigint,          *)
(* ReadBigint).                                                            *)
LEMMA BigInverse ==
  ASSUME NEW v \in BigNumbers \cup {Nil}
  PROVE  ReadBigint(WriteBigint(v)) = IF v = 0 THEN Nil ELSE v
<1>. DEFINE x == IF v = Nil THEN 0 ELSE v
            u == zigzagBig(x)
            t == WriteBigint(v)
<1>1. x \in Int /\ u < Power[MaxExt] /\ (x = 0 <=> v \in {0, Nil})
  <2>1. zigzagBig(0) = 0 /\ MaxExt \in Nat /\ Power[MaxExt] \in Nat \ {0}
    BY BigFacts, PowerType DEF zigzagBig
  <2>2. CASE v = Nil
    BY <2>1, <2>2
  <2>3. CASE v # Nil
    BY <2>3, BigAssumption DEF BigAssumption
  <2>. QED
    BY <2>2, <2>3
<1>2. u \in Nat /\ unzigzagBig(u) = x /\ unzigzag(u) = x /\ (u = 0 <=> x = 0)
  BY <1>1, BigZigzag
<1>3. t = IF u < B8 THEN Small(u)
          ELSE [form |-> argExt, payload |-> u, len |-> writeArg(ByteLen(u))]
  BY DEF WriteBigint
<1>. HIDE DEF u, t
<1>4. CASE u < B8
  <2>1. u \in Word
    BY <1>2, <1>4, Widths DEF Word
  <2>2. t.form = writeArg(u).form /\ t.payload = writeArg(u).payload
    BY <1>3, <1>4 DEF Small
  <2>3. argPayload(t) = u
    BY <2>1, <2>2, ArgInverse DEF argPayload
  <2>4. ReadInt(t) = x
    BY <1>2, <2>3, NotNumbers DEF ReadInt
  <2>5. (t.form = 0 <=> u = 0) /\ t.form # argExt
    BY <2>1, <2>2, WordForms
  <2>6. ReadBigint(t) = IF u = 0 THEN Nil ELSE x
    BY <2>4, <2>5 DEF ReadBigint
  <2>. QED
    BY <1>1, <1>2, <2>6 DEF t
<1>5. CASE ~(u < B8)
  <2>. DEFINE n == ByteLen(u)
  <2>1. B8 <= u /\ u # 0
    BY <1>2, <1>5, Widths
  <2>2. n \in Word /\ n \in extArgMinLen .. MaxExt /\ Power[n - 1] <= u
    BY <1>1, <1>2, <2>1, ByteLenFacts DEF u
  <2>3. t.form = argExt /\ t.payload = u /\ t.len = writeArg(n)
    BY <1>3, <1>5
  <2>. HIDE DEF n
  <2>4. argPayload(t.len) = n
    BY <2>2, <2>3, ArgInverse
  <2>5. n \in Nat /\ n - 1 \in Nat /\ n # Bad /\ ~(n < extArgMinLen) /\ ~(n > MaxExt)
    BY <2>2, BigFacts, NotNumbers
  <2>6. ~(u < Power[n - 1])
    BY <1>2, <2>2, <2>5, PowerType
  <2>7. readExtArg(t) = u
    BY <2>3, <2>4, <2>5, <2>6 DEF readExtArg
  <2>8. argExt # 0 /\ u # Bad
    BY <1>2, Widths, NotNumbers DEF argExt
  <2>9. ReadBigint(t) = x
    BY <1>2, <2>3, <2>7, <2>8 DEF ReadBigint
  <2>. QED
    BY <1>1, <1>2, <2>1, <2>9 DEF t
<1>. QED
  BY <1>4, <1>5
(* Tokens of big integers, as anyone may have written them.                *)
BigTokens ==
  {t \in [form : 0 .. argExt, payload : Nat, len : [form : 0 .. argExt, payload : Nat]] :
     /\ t.len.payload < argWidth(t.len.form)
     /\ IF t.form = argExt
        THEN argPayload(t.len) \in Int => t.payload < Power[Min({argPayload(t.len), MaxExt})]
        ELSE t.payload < argWidth(t.form) /\ t.len = writeArg(0)}

LEMMA WidthType == \A f : argWidth(f) \in Nat
  BY Widths DEF argWidth

(* A big integer the Reader takes has the token the Writer gives it.       *)
LEMMA BigUnique ==
  ASSUME NEW t \in BigTokens, ReadBigint(t) # Bad
  PROVE  t = WriteBigint(ReadBigint(t))
<1>. DEFINE f == t.form
            p == t.payload
            l == t.len
<1>1. /\ t = [form |-> f, payload |-> p, len |-> l]
      /\ l = [form |-> l.form, payload |-> l.payload]
      /\ f \in 0 .. argExt /\ p \in Nat /\ l.form \in 0 .. argExt /\ l.payload \in Nat
      /\ l.payload < argWidth(l.form)
  BY DEF BigTokens
<1>2. f # argExt => p < argWidth(f) /\ l = writeArg(0)
  BY DEF BigTokens
<1>3. f = argExt => (argPayload(l) \in Int => p < Power[Min({argPayload(l), MaxExt})])
  BY DEF BigTokens
<1>4. t.form = f /\ t.payload = p /\ t.len = l
  OBVIOUS
<1>. HIDE DEF f, p, l
<1>5. CASE f # argExt
  <2>. DEFINE a == [form |-> f, payload |-> p]
              n == argPayload(a)
  <2>1. a.form \in 0 .. argExt /\ a.payload \in 0 .. argWidth(a.form) - 1
    BY <1>1, <1>2, <1>5, WidthType
  <2>2. argPayload(t) = n
    BY <1>4 DEF argPayload
  <2>3. n # Bad
    <3>1. CASE f = 0
      BY <3>1, Widths, NotNumbers DEF argPayload
    <3>2. CASE f # 0
      BY <1>4, <1>5, <2>2, <3>2 DEF ReadBigint, ReadInt
    <3>. QED
      BY <3>1, <3>2
  <2>4. n \in Word /\ a = writeArg(n)
    BY <2>1, <2>3, ArgUnique
  <2>. HIDE DEF n
  <2>5. f = writeArg(n).form /\ p = writeArg(n).payload /\ n \in Nat /\ n < B8
    BY <2>4, Widths DEF Word
  <2>6. t = Small(n)
    BY <1>1, <1>2, <1>5, <2>5 DEF Small
  <2>7. unzigzag(n) \in Int /\ zigzagBig(unzigzag(n)) = n
    BY <2>5, BigZigzag
  <2>8. CASE f = 0
    <3>1. n = 0 /\ ReadBigint(t) = Nil
      BY <1>4, <2>4, <2>5, <2>8, WordForms DEF ReadBigint
    <3>2. zigzagBig(0) = 0
      BY DEF zigzagBig
    <3>. QED
      BY <2>5, <2>6, <3>1, <3>2 DEF WriteBigint
  <2>9. CASE f # 0
    <3>1. ReadBigint(t) = unzigzag(n)
      BY <1>4, <1>5, <2>2, <2>3, <2>9 DEF ReadBigint, ReadInt
    <3>2. ReadBigint(t) # Nil
      BY <2>7, <3>1, NotNumbers
    <3>. QED
      BY <2>5, <2>6, <2>7, <3>1, <3>2 DEF WriteBigint
  <2>. QED
    BY <2>8, <2>9
<1>6. CASE f = argExt
  <2>. DEFINE n == argPayload(l)
  <2>1. argExt # 0
    BY Widths DEF argExt
  <2>2. readExtArg(t) # Bad /\ ReadBigint(t) = unzigzagBig(readExtArg(t))
    BY <1>4, <1>6, <2>1 DEF ReadBigint
  <2>3. /\ n # Bad /\ ~(n < extArgMinLen) /\ ~(n > MaxExt) /\ ~(p < Power[n - 1])
        /\ readExtArg(t) = p
    BY <1>4, <2>2 DEF readExtArg
  <2>4. l.payload \in 0 .. argWidth(l.form) - 1
    BY <1>1, WidthType
  <2>5. n \in Word /\ l = writeArg(n)
    BY <1>1, <2>3, <2>4, ArgUnique
  <2>. HIDE DEF n
  <2>6. n \in Nat /\ n - 1 \in Nat /\ n \in 1 .. MaxExt /\ extArgMinLen - 1 <= n - 1
    BY <2>3, <2>5, BigFacts DEF Word
  <2>7. Min({n, MaxExt}) = n
    BY <2>6, BigFacts, MinIs
  <2>8. p < Power[n]
    BY <1>3, <1>6, <2>6, <2>7 DEF n
  <2>9. Power[n - 1] <= p /\ Power[n - 1] \in Nat
    BY <1>1, <2>3, <2>6, PowerType
  <2>10. B8 <= p
    <3>1. B8 <= Power[n - 1]
      BY <2>6, BigFacts, PowerMonotonic
    <3>. QED
      BY <1>1, <2>9, <3>1, BigFacts
  <2>11. ByteLen(p) = n
    BY <1>1, <2>6, <2>8, <2>9, ByteLenIs
  <2>12. unzigzagBig(p) \in Int /\ zigzagBig(unzigzagBig(p)) = p
    BY <1>1, BigZigzag
  <2>13. ReadBigint(t) = unzigzagBig(p) /\ unzigzagBig(p) # Nil /\ ~(p < B8)
    BY <1>1, <2>2, <2>3, <2>10, <2>12, BigFacts, NotNumbers
  <2>. QED
    BY <1>1, <1>6, <2>5, <2>11, <2>12, <2>13 DEF WriteBigint
<1>. QED
  BY <1>5, <1>6

-----------------------------------------------------------------------------
(* Blobs.                                                                  *)

(* Behind the dense prefix are zeros only.                                 *)
LEMMA DenseFacts ==
  ASSUME NEW b \in Seq(0 .. B1 - 1)
  PROVE  /\ Len(b) \in Nat /\ denseBytes(b) \in 0 .. Len(b)
         /\ \A i \in 1 .. Len(b) : i > denseBytes(b) => b[i] = 0
<1>. DEFINE T == {0} \cup {i \in DOMAIN b : b[i] # 0}
<1>1. Len(b) \in Nat /\ DOMAIN b = 1 .. Len(b)
  BY LenProperties
<1>2. T \subseteq Nat /\ 0 \in T /\ \A y \in T : y <= Len(b)
  BY <1>1
<1>3. Max(T) \in T /\ \A y \in T : Max(T) >= y
  BY <1>1, <1>2, MaxFacts
<1>4. denseBytes(b) = Max(T)
  BY DEF denseBytes
<1>5. ASSUME NEW i \in 1 .. Len(b), i > Max(T) PROVE b[i] = 0
  <2>1. Max(T) \in Nat /\ i \in Nat /\ ~(Max(T) >= i)
    BY <1>2, <1>3, <1>5
  <2>2. i \notin T
    BY <1>3, <2>1
  <2>. QED
    BY <1>1, <2>2
<1>6. Max(T) \in 0 .. Len(b)
  BY <1>2, <1>3
<1>. QED
  BY <1>1, <1>4, <1>5, <1>6

LEMMA SeqIsFunction ==
  ASSUME NEW b \in Seq(0 .. B1 - 1)
  PROVE  b = [i \in 1 .. Len(b) |-> b[i]]
<1>1. b \in [1 .. Len(b) -> 0 .. B1 - 1]
  BY LenProperties
<1>. QED
  BY <1>1

(* A blob is read back to its last byte from its dense prefix              *)
(* (WriteBlobHeader, ReadBlobHeader).                                      *)
LEMMA BlobInverse ==
  ASSUME NEW b \in Seq(0 .. B1 - 1)
  PROVE  ReadBlob(WriteBlob(b)) = [value |-> b, left |-> <<>>]
<1>. DEFINE E == denseBytes(b)
            s == SubSeq(b, 1, E)
            w == WriteBlob(b)
            r == ReadBlob(w)
<1>1. Len(b) \in Nat /\ E \in 0 .. Len(b) /\ \A i \in 1 .. Len(b) : i > E => b[i] = 0
  BY DenseFacts
<1>. HIDE DEF E
<1>2. \A i \in 1 .. E : b[i] \in 0 .. B1 - 1
  <2>1. \A i \in 1 .. Len(b) : b[i] \in 0 .. B1 - 1
    BY ElementOfSeq
  <2>. QED
    BY <1>1, <2>1
<1>3. s \in Seq(0 .. B1 - 1) /\ Len(s) = E /\ \A i \in 1 .. E : s[i] = b[i]
  <2>1. /\ s \in Seq(0 .. B1 - 1) /\ Len(s) = IF 1 <= E THEN E - 1 + 1 ELSE 0
        /\ \A i \in 1 .. E - 1 + 1 : s[i] = b[1 + i - 1]
    BY <1>1, <1>2, SubSeqProperties
  <2>2. E - 1 + 1 = E /\ \A i \in 1 .. E : 1 + i - 1 = i
    BY <1>1
  <2>. QED
    BY <1>1, <2>1, <2>2
<1>. HIDE DEF s
<1>4. w.L = Len(b) /\ w.E = E /\ w.bytes = s
  BY DEF WriteBlob, E, s
<1>. HIDE DEF w
<1>5. /\ r.value = [i \in 1 .. Len(b) |-> IF i <= E THEN s[i] ELSE 0]
      /\ r.left = SubSeq(s, E + 1, Len(s))
      /\ r = [value |-> r.value, left |-> r.left]
  BY <1>4 DEF ReadBlob
<1>6. \A i \in 1 .. Len(b) : (IF i <= E THEN s[i] ELSE 0) = b[i]
  BY <1>1, <1>3
<1>7. r.value = [i \in 1 .. Len(b) |-> b[i]]
  BY <1>5, <1>6
<1>8. r.left = <<>>
  BY <1>1, <1>3, <1>5, SubSeqEmpty
<1>. QED
  BY <1>5, <1>7, <1>8, SeqIsFunction DEF w

(* A body written whole is read back as well, if its last byte is none of  *)
(* the zeros its header leaves out.                                        *)
LEMMA BinaryInverse ==
  ASSUME NEW b \in Seq(0 .. B1 - 1), denseBytes(b) = Len(b)
  PROVE  ReadBlob(WriteBinary(b)) = [value |-> b, left |-> <<>>]
<1>. DEFINE r == ReadBlob(WriteBinary(b))
<1>1. Len(b) \in Nat
  BY DenseFacts
<1>2. WriteBinary(b) = [L |-> Len(b), E |-> Len(b), bytes |-> b]
  BY DEF WriteBinary
<1>3. /\ r.value = [i \in 1 .. Len(b) |-> IF i <= Len(b) THEN b[i] ELSE 0]
      /\ r.left = SubSeq(b, Len(b) + 1, Len(b))
      /\ r = [value |-> r.value, left |-> r.left]
  BY <1>2 DEF ReadBlob
<1>4. r.value = [i \in 1 .. Len(b) |-> b[i]]
  BY <1>1, <1>3
<1>5. r.left = <<>>
  BY <1>1, <1>3, SubSeqEmpty
<1>. QED
  BY <1>3, <1>4, <1>5, SeqIsFunction

-----------------------------------------------------------------------------
(* The specification.                                                      *)

(* Which items the input and the token are.                                *)
Written ==
  /\ kind = "uint" => input \in Word /\ token = writeArg(input)
  /\ kind = "getarg" => /\ token \in [form : 0 .. argExt, payload : Payloads]
                        /\ token.payload < argWidth(token.form)
                        /\ result = argPayload(token)
  /\ kind = "getview" => /\ token \in ViewTokens /\ input \in Word
                         /\ result = ReadView(token, input)
  /\ kind = "getbigint" => token \in BigTokens /\ result = ReadBigint(token)
  /\ kind = "blob" => input \in Bodies /\ result = ReadBlob(WriteBlob(input))
  /\ kind = "binary" => input \in Bodies /\ result = ReadBlob(WriteBinary(input))

LEMMA Kinds ==
  ASSUME Next
  PROVE  Written' /\ WordsBack' /\ ViewsBack' /\ BigsBack'
<1>. USE DEF Step
<1>0. /\ Numbers \subseteq Word /\ Signed \subseteq Int64 /\ Lengths \subseteq Word
  BY InputAssumption DEF InputAssumption
<1>1. CASE WriteUint
  BY <1>0, <1>1, ArgInverse DEF WriteUint, Written, WordsBack, ViewsBack, BigsBack
<1>2. CASE WriteInt
  <2>1. PICK n \in Signed : Step("int", n, writeArg(zigzag(n)), ReadInt(writeArg(zigzag(n))))
    BY <1>2 DEF WriteInt
  <2>2. argPayload(writeArg(zigzag(n))) = zigzag(n) /\ unzigzag(zigzag(n)) = n /\ zigzag(n) \in Int
    BY <1>0, ZigzagInverse, ArgInverse, Widths DEF Word
  <2>3. ReadInt(writeArg(zigzag(n))) = n
    BY <2>2, InputAssumption DEF ReadInt, InputAssumption
  <2>. QED
    BY <2>1, <2>3 DEF Written, WordsBack, ViewsBack, BigsBack
<1>3. CASE PutView
  <2>1. PICK v \in Views, L \in Lengths :
          /\ v.len <= v.cap /\ v.off + v.cap <= L
          /\ Step("view", [v |-> v, L |-> L], ViewOf(v, L), ReadView(ViewOf(v, L), L))
    BY <1>3 DEF PutView
  <2>2. ReadView(ViewOf(v, L), L) = v
    BY <1>0, <2>1, ViewInverse DEF Views
  <2>. QED
    BY <2>1, <2>2 DEF Written, WordsBack, ViewsBack, BigsBack
<1>4. CASE PutFreshView
  <2>1. PICK n \in Lengths, L \in Lengths :
          /\ n <= L
          /\ Step("view", [v |-> [off |-> 0, len |-> n, cap |-> L], L |-> L],
                  FreshView(n, L), ReadView(FreshView(n, L), L))
    BY <1>4 DEF PutFreshView
  <2>. DEFINE v == [off |-> 0, len |-> n, cap |-> L]
  <2>2. 0 \in Word /\ n \in Word /\ L \in Word
    BY <1>0, Widths DEF Word
  <2>3. v \in [off : Word, len : Word, cap : Word] /\ v.len <= v.cap /\ v.off + v.cap <= L
    BY <2>1, <2>2, Widths DEF Word
  <2>4. ReadView(FreshView(n, L), L) = v
    BY <2>1, <2>2, <2>3, ViewInverse, FreshIsView
  <2>. QED
    BY <2>1, <2>4 DEF Written, WordsBack, ViewsBack, BigsBack
<1>5. CASE GetArg
  BY <1>5 DEF GetArg, Args, Written, WordsBack, ViewsBack, BigsBack
<1>6. CASE GetView
  BY <1>0, <1>6 DEF GetView, ViewTokens, Written, WordsBack, ViewsBack, BigsBack
<1>7. CASE PutBigint
  <2>1. PICK v \in BigNumbers \cup {Nil} :
          Step("bigint", v, WriteBigint(v), ReadBigint(WriteBigint(v)))
    BY <1>7 DEF PutBigint
  <2>2. ReadBigint(WriteBigint(v)) = IF v = 0 THEN Nil ELSE v
    BY BigInverse
  <2>. QED
    BY <2>1, <2>2 DEF Written, WordsBack, ViewsBack, BigsBack
<1>8. CASE GetBigint
  <2>1. PICK a \in Args, l \in Args :
          /\ l.payload < argWidth(l.form)
          /\ IF a.form = argExt
             THEN argPayload(l) \in Int => a.payload < Power[Min({argPayload(l), MaxExt})]
             ELSE a.payload < argWidth(a.form) /\ l = writeArg(0)
          /\ Step("getbigint", 0, [form |-> a.form, payload |-> a.payload, len |-> l],
                  ReadBigint([form |-> a.form, payload |-> a.payload, len |-> l]))
    BY <1>8 DEF GetBigint
  <2>. DEFINE t == [form |-> a.form, payload |-> a.payload, len |-> l]
  <2>2. a.form \in 0 .. argExt /\ a.payload \in Nat /\ l \in [form : 0 .. argExt, payload : Nat]
    BY InputAssumption DEF InputAssumption, Args
  <2>3. t \in [form : 0 .. argExt, payload : Nat, len : [form : 0 .. argExt, payload : Nat]]
    BY <2>2
  <2>4. t \in BigTokens
    BY <2>1, <2>3 DEF BigTokens
  <2>. HIDE DEF t
  <2>5. Step("getbigint", 0, t, ReadBigint(t))
    BY <2>1 DEF t
  <2>. QED
    BY <2>4, <2>5 DEF Written, WordsBack, ViewsBack, BigsBack
<1>9. CASE PutBlob \/ PutBinary
  BY <1>9 DEF PutBlob, PutBinary, Written, WordsBack, ViewsBack, BigsBack
<1>. QED
  BY <1>1, <1>2, <1>3, <1>4, <1>5, <1>6, <1>7, <1>8, <1>9 DEF Next

LEMMA Invariance == Spec => [](Written /\ WordsBack /\ ViewsBack /\ BigsBack)
<1>1. Init => Written /\ WordsBack /\ ViewsBack /\ BigsBack
  BY DEF Init, Written, WordsBack, ViewsBack, BigsBack
<1>2. (Written /\ WordsBack /\ ViewsBack /\ BigsBack) /\ [Next]_vars
        => (Written /\ WordsBack /\ ViewsBack /\ BigsBack)'
  BY Kinds DEF vars, Written, WordsBack, ViewsBack, BigsBack
<1>. QED
  BY <1>1, <1>2, PTL DEF Spec

(* What is written is read as what it was: words, big integers, views and  *)
(* blobs, and the bodies of BinaryMarshalers that end in no zero byte      *)
(* (Writer, Reader, typeCoder).                                            *)
THEOREM AllReadBack == Spec => []RoundTrip
<1>1. ASSUME Written PROVE BlobsBack
  <2>. SUFFICES ASSUME kind = "blob" \/ (kind = "binary" /\ denseBytes(input) = Len(input))
                PROVE  result.value = input /\ result.left = <<>>
    BY DEF BlobsBack
  <2>1. input \in Seq(0 .. B1 - 1)
    BY <1>1, InputAssumption DEF Written, InputAssumption
  <2>2. result = [value |-> input, left |-> <<>>]
    BY <1>1, <2>1, BlobInverse, BinaryInverse DEF Written
  <2>. QED
    BY <2>2
<1>2. Written /\ WordsBack /\ ViewsBack /\ BigsBack => RoundTrip
  BY <1>1 DEF RoundTrip
<1>. QED
  BY Invariance, <1>2, PTL

(* A number of any size and a view have one spelling the Reader takes      *)
(* (ReadArg, ReadBigint, ReadView).                                        *)
THEOREM OneSpellingEach == Spec => []OneSpelling
<1>1. ASSUME Written PROVE OneArg
  <2>. SUFFICES ASSUME kind = "getarg", result # Bad PROVE token = writeArg(result)
    BY DEF OneArg
  <2>1. /\ token = [form |-> token.form, payload |-> token.payload]
        /\ token.form \in 0 .. argExt /\ token.payload \in Payloads
        /\ token.payload < argWidth(token.form) /\ result = argPayload(token)
    BY <1>1 DEF Written
  <2>2. token.payload \in 0 .. argWidth(token.form) - 1
    BY <2>1, InputAssumption, Widths DEF InputAssumption, argWidth
  <2>. QED
    BY <2>1, <2>2, ArgUnique
<1>2. ASSUME Written PROVE OneView
  BY <1>2, ViewUnique DEF Written, OneView
<1>3. ASSUME Written PROVE OneBigint
  BY <1>3, BigUnique DEF Written, OneBigint
<1>4. Written => OneSpelling
  BY <1>1, <1>2, <1>3 DEF OneSpelling
<1>. QED
  BY Invariance, <1>4, PTL

(* A view that is taken lies in its record, although the sum of its offset *)
(* and length may leave the word (validateView).                           *)
THEOREM Inside == Spec => []ViewInside
<1>1. ASSUME Written PROVE ViewInside
  <2>. SUFFICES ASSUME kind = "getview", result # Bad
                PROVE  result.len <= result.cap /\ result.off + result.cap <= input
    BY DEF ViewInside
  <2>1. token \in ViewTokens /\ input \in Word /\ result = ReadView(token, input)
    BY <1>1 DEF Written
  <2>2. /\ result = ViewRead(token, input) /\ validateView(ViewRead(token, input), input)
        /\ ViewRead(token, input) \in [off : Word, len : Word, cap : Word]
    BY <2>1, ViewUnique, ViewReadType
  <2>. QED
    BY <2>1, <2>2, ValidInside
<1>. QED
  BY Invariance, <1>1, PTL

(* The order of the bytes is that of the numbers, on which canonical maps  *)
(* rely (writeArg, rankLess).                                              *)
THEOREM Ordered == Spec => ArgOrdered
<1>1. ASSUME Written, Next, kind = "uint", kind' = "uint"
      PROVE  input < input' <=> Before(token, token')
  <2>1. Written'
    BY <1>1, Kinds
  <2>2. /\ input \in Word /\ token = writeArg(input)
        /\ input' \in Word /\ token' = writeArg(input')
    BY <1>1, <2>1 DEF Written
  <2>. QED
    BY <2>2, ArgOrder
<1>2. Written /\ [Next]_vars =>
        [kind = "uint" /\ kind' = "uint" => (input < input' <=> Before(token, token'))]_vars
  BY <1>1
<1>. QED
  BY Invariance, <1>2, PTL DEF Spec, ArgOrdered
=============================================================================
