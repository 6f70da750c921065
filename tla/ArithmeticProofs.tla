-------------------------- MODULE ArithmeticProofs --------------------------
(***************************************************************************)
(* Proofs about the two arithmetic modules.                                *)
(*                                                                         *)
(* Backoff: both stores delay a retried ticket equally, and a lease in     *)
(* whole seconds is long enough. This rests on what a power of a fraction  *)
(* above one does: it grows, so that the clamped exponent is the first to  *)
(* reach the maximal delay and all later ones do.                          *)
(*                                                                         *)
(* Histogram: it says exactly what was recorded, and so do the classic     *)
(* buckets and the native ones as a reader lays them out. The invariant    *)
(* tells for every bucket, inside the slice of counts or not, how many of  *)
(* the durations recorded lie in it.                                       *)
(***************************************************************************)
EXTENDS Backoff, Histogram, TLAPS, FiniteSetTheorems

Positive == Nat \ {0}

-----------------------------------------------------------------------------
\* Induction, from the pigeonhole principle: the successor maps the members of
\* an inductive set that lie below a number left out to others of them, and
\* never to zero.

LEMMA Induction ==
  ASSUME NEW S \in SUBSET Nat, 0 \in S, \A n \in S : n + 1 \in S
  PROVE  S = Nat
<1>1. SUFFICES ASSUME NEW n \in Nat, n \notin S PROVE FALSE
  OBVIOUS
<1> DEFINE B == {i \in S : i <= n}
           next == [i \in B |-> i + 1]
<1>2. 0 \in B /\ B \in SUBSET Nat
  <2>1. 0 <= n
    OBVIOUS
  <2>2. B \in SUBSET Nat
    OBVIOUS
  <2> QED BY <2>1, <2>2
<1>3. IsFiniteSet(B)
  <2>1. \A i \in B : i <= n
    OBVIOUS
  <2> HIDE DEF B
  <2> QED BY <1>2, <2>1, FS_BoundedSetOfNaturals
<1>4. next \in [B -> B \ {0}]
  <2>1. ASSUME NEW i \in B PROVE i + 1 \in B \ {0}
    <3>1. i \in Nat /\ i # n /\ i <= n /\ i + 1 \in S
      BY <1>1
    <3> QED BY <3>1
  <2> HIDE DEF B
  <2> QED BY <2>1
<1> HIDE DEF B
<1>5. IsFiniteSet(B \ {0}) /\ Cardinality(B \ {0}) = Cardinality(B) - 1
  BY <1>2, <1>3, FS_RemoveElement
<1>6. Cardinality(B) \in Nat
  BY <1>3, FS_CardinalityType
<1> HIDE DEF next
<1>7. PICK i \in B, j \in B : i # j /\ next[i] = next[j]
  BY <1>3, <1>4, <1>5, <1>6, FS_PigeonHole
<1> QED BY <1>2, <1>7 DEF next

LEMMA LeastExists ==
  ASSUME NEW T \in SUBSET Nat, T # {}
  PROVE  \E x \in T : \A y \in T : x <= y
<1>1. SUFFICES ASSUME ~\E x \in T : \A y \in T : x <= y PROVE FALSE
  OBVIOUS
<1> DEFINE S == {n \in Nat : \A y \in T : n <= y}
<1>2. 0 \in S
  OBVIOUS
<1>3. ASSUME NEW n \in S PROVE n + 1 \in S
  <2>1. n \notin T
    BY <1>1
  <2> QED BY <2>1
<1> HIDE DEF S
<1>4. S = Nat
  BY <1>2, <1>3, Induction DEF S
<1>5. PICK t \in T : t \in Nat
  OBVIOUS
<1>6. t + 1 \in S
  BY <1>4, <1>5
<1>7. t + 1 <= t
  BY <1>6 DEF S
<1> QED BY <1>5, <1>7

-----------------------------------------------------------------------------
\* Products and quotients.

LEMMA TimesKeeps ==
  ASSUME NEW a \in Int, NEW b \in Int, NEW c \in Nat, a <= b
  PROVE  a * c <= b * c
OBVIOUS

LEMMA TimesReflects ==
  ASSUME NEW a \in Int, NEW b \in Int, NEW c \in Positive, a * c <= b * c
  PROVE  a <= b
BY DEF Positive

LEMMA Quotient ==
  ASSUME NEW x \in Nat, NEW y \in Positive
  PROVE  /\ x \div y \in Nat
         /\ (x \div y) * y <= x
         /\ \A q \in Int : q * y <= x => q <= x \div y
<1>1. /\ x \div y \in Int /\ x % y \in 0..(y - 1)
      /\ x = y * (x \div y) + (x % y)
  BY DEF Positive
<1> QED BY <1>1 DEF Positive

\* A larger fraction has a larger quotient.
LEMMA QuotientGrows ==
  ASSUME NEW x \in Nat, NEW y \in Positive, NEW z \in Nat, NEW w \in Positive,
         x * w <= z * y
  PROVE  x \div y <= z \div w
<1> DEFINE q == x \div y
<1>1. q \in Nat /\ q * y <= x
  BY Quotient
<1> HIDE DEF q
<1>2. (q * y) * w <= x * w
  BY <1>1, TimesKeeps DEF Positive
<1>3. (q * w) * y <= z * y
  BY <1>1, <1>2 DEF Positive
<1>4. q * w <= z
  BY <1>1, <1>3, TimesReflects DEF Positive
<1>5. q <= z \div w
  BY <1>1, <1>4, Quotient
<1> QED BY <1>5 DEF q

-----------------------------------------------------------------------------
\* Powers.

\* Pow(b, 0), ..., Pow(b, n).
PowersUpTo(b, n, g) == /\ g \in [0..n -> Positive]
                       /\ g[0] = 1
                       /\ \A i \in 1..n : g[i] = b * g[i - 1]

LEMMA PowersExist ==
  ASSUME NEW b \in Positive
  PROVE  \A n \in Nat : \E g : PowersUpTo(b, n, g)
<1> DEFINE S == {n \in Nat : \E g : PowersUpTo(b, n, g)}
<1>1. 0 \in S
  <2>1. PowersUpTo(b, 0, [i \in 0..0 |-> 1])
    BY DEF PowersUpTo, Positive
  <2> QED BY <2>1
<1>2. ASSUME NEW n \in S PROVE n + 1 \in S
  <2>1. PICK g : PowersUpTo(b, n, g)
    OBVIOUS
  <2>2. b * g[n] \in Positive
    BY <2>1 DEF PowersUpTo, Positive
  <2> DEFINE h == [i \in 0..(n + 1) |-> IF i <= n THEN g[i] ELSE b * g[n]]
  <2>3. PowersUpTo(b, n + 1, h)
    <3>1. h \in [0..(n + 1) -> Positive]
      BY <2>1, <2>2 DEF PowersUpTo
    <3>2. h[0] = 1
      BY <2>1 DEF PowersUpTo
    <3>3. ASSUME NEW i \in 1..(n + 1) PROVE h[i] = b * h[i - 1]
      <4>1. CASE i <= n
        <5>1. h[i] = g[i] /\ h[i - 1] = g[i - 1] /\ i \in 1..n
          BY <4>1
        <5> QED BY <2>1, <5>1 DEF PowersUpTo
      <4>2. CASE i = n + 1
        BY <4>2
      <4> QED BY <4>1, <4>2
    <3> QED BY <3>1, <3>2, <3>3 DEF PowersUpTo
  <2> QED BY <2>3
<1> HIDE DEF S
<1>3. S = Nat
  BY <1>1, <1>2, Induction DEF S
<1> QED BY <1>3 DEF S

LEMMA PowersAgree ==
  ASSUME NEW b \in Positive, NEW n \in Nat, NEW m \in Nat, NEW g, NEW h,
         PowersUpTo(b, n, g), PowersUpTo(b, m, h)
  PROVE  \A i \in Nat : i <= n /\ i <= m => g[i] = h[i]
<1> DEFINE S == {i \in Nat : i <= n /\ i <= m => g[i] = h[i]}
<1>1. 0 \in S
  BY DEF PowersUpTo
<1>2. ASSUME NEW i \in S PROVE i + 1 \in S
  <2>1. SUFFICES ASSUME i + 1 <= n, i + 1 <= m PROVE g[i + 1] = h[i + 1]
    OBVIOUS
  <2>2. g[i] = h[i] /\ i + 1 \in 1..n /\ i + 1 \in 1..m /\ (i + 1) - 1 = i
    BY <2>1
  <2> QED BY <2>2 DEF PowersUpTo
<1> HIDE DEF S
<1>3. S = Nat
  BY <1>1, <1>2, Induction DEF S
<1> QED BY <1>3 DEF S

\* The recursion of Pow has a solution, and what it says of it holds.
LEMMA PowFacts ==
  ASSUME NEW b \in Positive
  PROVE  /\ Pow(b, 0) = 1
         /\ \A k \in Nat : Pow(b, k) \in Positive /\ Pow(b, k + 1) = b * Pow(b, k)
<1> DEFINE G(n) == CHOOSE g : PowersUpTo(b, n, g)
           f == [n \in Nat |-> G(n)[n]]
<1>1. \A n \in Nat : PowersUpTo(b, n, G(n))
  BY PowersExist
<1> HIDE DEF G
<1>2. \A n \in Nat : f[n] \in Positive
  BY <1>1 DEF PowersUpTo
<1>3. f[0] = 1
  BY <1>1 DEF PowersUpTo
<1>4. ASSUME NEW n \in Nat \ {0} PROVE f[n] = b * f[n - 1]
  <2>1. n - 1 \in Nat /\ n \in 1..n /\ n - 1 <= n
    OBVIOUS
  <2>2. G(n)[n] = b * G(n)[n - 1]
    BY <1>1, <2>1 DEF PowersUpTo
  <2>3. G(n)[n - 1] = G(n - 1)[n - 1]
    BY <1>1, <2>1, PowersAgree
  <2> QED BY <2>1, <2>2, <2>3
<1>5. f = [i \in Nat |-> IF i = 0 THEN 1 ELSE b * f[i - 1]]
  <2>1. \A i \in Nat : f[i] = IF i = 0 THEN 1 ELSE b * f[i - 1]
    BY <1>3, <1>4
  <2>2. f = [i \in Nat |-> f[i]]
    OBVIOUS
  <2> HIDE DEF f
  <2> QED BY <2>1, <2>2
<1> HIDE DEF f
<1> DEFINE F == CHOOSE h : h = [i \in Nat |-> IF i = 0 THEN 1 ELSE b * h[i - 1]]
<1>6. F = [i \in Nat |-> IF i = 0 THEN 1 ELSE b * F[i - 1]]
  BY <1>5
<1>7. \A k : Pow(b, k) = F[k]
  BY DEF Pow
<1> HIDE DEF F
<1>8. F[0] = 1 /\ \A k \in Nat : F[k + 1] = b * F[k]
  <2>1. \A k \in Nat : F[k] = IF k = 0 THEN 1 ELSE b * F[k - 1]
    BY <1>6
  <2> QED BY <2>1
<1>9. \A k \in Nat : F[k] \in Positive
  <2> DEFINE S == {k \in Nat : F[k] \in Positive}
  <2>1. 0 \in S
    BY <1>8 DEF Positive
  <2>2. ASSUME NEW k \in S PROVE k + 1 \in S
    BY <1>8 DEF Positive
  <2> HIDE DEF S
  <2>3. S = Nat
    BY <2>1, <2>2, Induction DEF S
  <2> QED BY <2>3 DEF S
<1> QED BY <1>7, <1>8, <1>9

\* The powers of a fraction of at least one grow.
LEMMA FractionGrows ==
  ASSUME NEW a \in Positive, NEW b \in Positive, b <= a,
         NEW i \in Nat, NEW j \in Nat, i <= j
  PROVE  Pow(a, i) * Pow(b, j) <= Pow(a, j) * Pow(b, i)
<1> DEFINE S == {n \in Nat : Pow(a, i) * Pow(b, i + n) <= Pow(a, i + n) * Pow(b, i)}
<1>1. 0 \in S
  BY PowFacts DEF Positive
<1>2. ASSUME NEW n \in S PROVE n + 1 \in S
  <2> DEFINE P == Pow(a, i)
             Q == Pow(b, i + n)
             R == Pow(a, i + n)
             T == Pow(b, i)
  <2>0. n \in Nat /\ i + n \in Nat /\ P * Q <= R * T
    OBVIOUS
  <2>1. P \in Nat /\ Q \in Nat /\ R \in Nat /\ T \in Nat
    BY <2>0, PowFacts DEF Positive
  <2>2. Pow(a, i + (n + 1)) = a * R /\ Pow(b, i + (n + 1)) = b * Q
    <3>1. i + (n + 1) = (i + n) + 1 /\ i + n \in Nat
      OBVIOUS
    <3> QED BY <3>1, PowFacts
  <2> HIDE DEF P, Q, R, T
  <2>3. (P * Q) * b <= (R * T) * b
    BY <2>0, <2>1, TimesKeeps DEF Positive
  <2>4. b * (R * T) <= a * (R * T)
    BY <2>1, TimesKeeps DEF Positive
  <2>5. P * (b * Q) = (P * Q) * b /\ (a * R) * T = a * (R * T) /\ (R * T) * b = b * (R * T)
    BY <2>1 DEF Positive
  <2>6. P * (b * Q) <= (a * R) * T
    <3>1. P * Q \in Int /\ R * T \in Int /\ (P * Q) * b \in Int /\ b * (R * T) \in Int
          /\ a * (R * T) \in Int
      BY <2>1 DEF Positive
    <3> QED BY <2>3, <2>4, <2>5, <3>1
  <2> QED BY <2>2, <2>6 DEF P, Q, R, T
<1> HIDE DEF S
<1>3. S = Nat
  BY <1>1, <1>2, Induction DEF S
<1>4. j - i \in S /\ i + (j - i) = j
  BY <1>3
<1> QED BY <1>4 DEF S

\* And from the first on they exceed one, if the fraction does.
LEMMA FractionAbove ==
  ASSUME NEW a \in Positive, NEW b \in Positive, b <= a, NEW k \in Nat
  PROVE  /\ Pow(b, k) <= Pow(a, k)
         /\ b < a /\ k > 0 => Pow(b, k) < Pow(a, k)
<1>1. \A i \in Nat : Pow(b, i) <= Pow(a, i)
  <2> TAKE i \in Nat
  <2>1. Pow(a, 0) * Pow(b, i) <= Pow(a, i) * Pow(b, 0)
    BY FractionGrows
  <2> QED BY <2>1, PowFacts DEF Positive
<1>2. ASSUME b < a, k > 0 PROVE Pow(b, k) < Pow(a, k)
  <2> DEFINE P == Pow(a, k - 1)
             Q == Pow(b, k - 1)
  <2>1. k - 1 \in Nat /\ (k - 1) + 1 = k
    BY <1>2
  <2>2. P \in Positive /\ Q \in Positive /\ Q <= P /\ Pow(a, k) = a * P /\ Pow(b, k) = b * Q
    BY <1>1, <2>1, PowFacts
  <2> HIDE DEF P, Q
  <2>3. Q * a <= P * a
    BY <2>2, TimesKeeps DEF Positive
  <2>4. b * Q < a * Q
    BY <1>2, <2>2 DEF Positive
  <2>5. b * Q < a * P
    <3>1. Q * a = a * Q /\ P * a = a * P /\ a * Q \in Int /\ a * P \in Int /\ b * Q \in Int
      BY <2>2 DEF Positive
    <3> QED BY <2>3, <2>4, <3>1
  <2> QED BY <2>2, <2>5
<1> QED BY <1>1, <1>2

-----------------------------------------------------------------------------
\* Powers of a base, in milliseconds.

Base == Positive \X Positive

LEMMA PowerType ==
  ASSUME NEW base \in Base, NEW k \in Int
  PROVE  Power(base, k) \in Nat
<1>1. base[1] \in Positive /\ base[2] \in Positive
  BY DEF Base
<1>2. CASE k >= 0
  <2>0. k \in Nat
    BY <1>2
  <2>1. Pow(base[1], k) \in Positive /\ Pow(base[2], k) \in Positive
    BY <1>1, <2>0, PowFacts
  <2>2. 1000 * Pow(base[1], k) \in Nat
    BY <2>1 DEF Positive
  <2> QED BY <1>2, <2>1, <2>2, Quotient DEF Power
<1>3. CASE ~(k >= 0)
  <2>1. -k \in Nat
    BY <1>3
  <2>2. Pow(base[1], -k) \in Positive /\ Pow(base[2], -k) \in Positive
    BY <1>1, <2>1, PowFacts
  <2>3. 1000 * Pow(base[2], -k) \in Nat
    BY <2>2 DEF Positive
  <2> QED BY <1>3, <2>2, <2>3, Quotient DEF Power
<1> QED BY <1>2, <1>3

LEMMA ReachingPower ==
  ASSUME NEW base \in Base, NEW k \in Int, NEW d \in Nat, Reaches(base, k, d)
  PROVE  d <= Power(base, k)
<1>1. base[1] \in Positive /\ base[2] \in Positive
  BY DEF Base
<1>2. CASE k >= 0
  <2>0. k \in Nat
    BY <1>2
  <2>1. Pow(base[1], k) \in Positive /\ Pow(base[2], k) \in Positive
    BY <1>1, <2>0, PowFacts
  <2>2. 1000 * Pow(base[1], k) \in Nat /\ d * Pow(base[2], k) <= 1000 * Pow(base[1], k)
    BY <1>2, <2>1 DEF Reaches, Positive
  <2> QED BY <1>2, <2>1, <2>2, Quotient DEF Power
<1>3. CASE ~(k >= 0)
  <2>1. -k \in Nat
    BY <1>3
  <2>2. Pow(base[1], -k) \in Positive /\ Pow(base[2], -k) \in Positive
    BY <1>1, <2>1, PowFacts
  <2>3. 1000 * Pow(base[2], -k) \in Nat /\ d * Pow(base[1], -k) <= 1000 * Pow(base[2], -k)
    BY <1>3, <2>2 DEF Reaches, Positive
  <2> QED BY <1>3, <2>2, <2>3, Quotient DEF Power
<1> QED BY <1>2, <1>3

LEMMA PowerGrows ==
  ASSUME NEW base \in Base, base[2] <= base[1], NEW i \in Nat, NEW j \in Nat, i <= j
  PROVE  Power(base, i) <= Power(base, j)
<1> DEFINE P == Pow(base[1], i)
           Q == Pow(base[2], i)
           R == Pow(base[1], j)
           T == Pow(base[2], j)
<1>1. base[1] \in Positive /\ base[2] \in Positive
  BY DEF Base
<1>2. P \in Positive /\ Q \in Positive /\ R \in Positive /\ T \in Positive
  BY <1>1, PowFacts
<1>3. P * T <= R * Q
  BY <1>1, FractionGrows
<1>4. Power(base, i) = (1000 * P) \div Q /\ Power(base, j) = (1000 * R) \div T
  BY DEF Power
<1> HIDE DEF P, Q, R, T
<1>5. (1000 * P) * T <= (1000 * R) * Q
  BY <1>2, <1>3 DEF Positive
<1>6. 1000 * P \in Nat /\ 1000 * R \in Nat
  BY <1>2 DEF Positive
<1> QED BY <1>2, <1>4, <1>5, <1>6, QuotientGrows

\* What one power reaches, later ones reach.
LEMMA ReachesLater ==
  ASSUME NEW base \in Base, base[2] <= base[1], NEW d \in Nat,
         NEW c \in Int, NEW n \in Nat, c <= n, Reaches(base, c, d)
  PROVE  Reaches(base, n, d)
<1>1. base[1] \in Positive /\ base[2] \in Positive
  BY DEF Base
<1> DEFINE R == Pow(base[1], n)
           T == Pow(base[2], n)
<1>2. R \in Positive /\ T \in Positive /\ T <= R
  BY <1>1, PowFacts, FractionAbove
<1>3. (d * T <= 1000 * R) => Reaches(base, n, d)
  BY <1>2 DEF Reaches, Positive
<1> HIDE DEF R, T
<1>4. CASE c >= 0
  <2> DEFINE P == Pow(base[1], c)
             Q == Pow(base[2], c)
  <2>0. c \in Nat
    BY <1>4
  <2>1. P \in Positive /\ Q \in Positive /\ P * T <= R * Q /\ d * Q <= 1000 * P
    <3>1. P \in Positive /\ Q \in Positive
      BY <1>1, <2>0, PowFacts
    <3>2. P * T <= R * Q
      BY <1>1, <2>0, FractionGrows DEF R, T
    <3>3. d * Q <= 1000 * P
      BY <1>4, <3>1 DEF Reaches, Positive
    <3> QED BY <3>1, <3>2, <3>3
  <2> HIDE DEF P, Q
  <2>2. (d * Q) * T <= (1000 * P) * T
    BY <1>2, <2>1, TimesKeeps DEF Positive
  <2>3. (d * T) * Q <= (1000 * R) * Q
    <3>1. (d * Q) * T = (d * T) * Q /\ (1000 * P) * T = 1000 * (P * T)
          /\ (1000 * R) * Q = 1000 * (R * Q)
      BY <1>2, <2>1 DEF Positive
    <3>2. (d * T) * Q \in Int /\ P * T \in Int /\ R * Q \in Int
      BY <1>2, <2>1 DEF Positive
    <3> QED BY <2>1, <2>2, <3>1, <3>2
  <2>4. d * T <= 1000 * R
    <3>1. d * T \in Int /\ 1000 * R \in Int
      BY <1>2 DEF Positive
    <3> QED BY <2>1, <2>3, <3>1, TimesReflects
  <2> QED BY <1>3, <2>4
<1>5. CASE ~(c >= 0)
  <2>0. -c \in Nat
    BY <1>5
  <2> DEFINE P == Pow(base[1], -c)
             Q == Pow(base[2], -c)
  <2>1. P \in Positive /\ Q \in Positive /\ Q <= P /\ d * P <= 1000 * Q
    <3>1. P \in Positive /\ Q \in Positive /\ Q <= P
      BY <1>1, <2>0, PowFacts, FractionAbove
    <3>2. d * P <= 1000 * Q
      BY <1>5, <3>1 DEF Reaches, Positive
    <3> QED BY <3>1, <3>2
  <2> HIDE DEF P, Q
  <2>2. Q * d <= P * d
    BY <2>1, TimesKeeps DEF Positive
  <2>3. d <= 1000
    <3>1. d * Q <= 1000 * Q
      <4>1. d * Q = Q * d /\ d * P = P * d /\ Q * d \in Int /\ P * d \in Int /\ 1000 * Q \in Int
        BY <2>1 DEF Positive
      <4> QED BY <2>1, <2>2, <4>1
    <3> QED BY <2>1, <3>1, TimesReflects
  <2>4. d * T <= 1000 * T
    BY <1>2, <2>3, TimesKeeps DEF Positive
  <2>5. d * T <= 1000 * R
    <3>1. d * T \in Int /\ T \in Int /\ R \in Int
      BY <1>2 DEF Positive
    <3> QED BY <1>2, <2>4, <3>1
  <2> QED BY <1>3, <2>5
<1> QED BY <1>4, <1>5

\* A negative power is less than a second.
LEMMA NegativeReachesNone ==
  ASSUME NEW base \in Base, base[2] < base[1], NEW d \in Nat, d >= 1000, NEW k \in Int, k < 0
  PROVE  ~Reaches(base, k, d)
<1> DEFINE P == Pow(base[1], -k)
           Q == Pow(base[2], -k)
<1>1. base[1] \in Positive /\ base[2] \in Positive /\ -k \in Nat /\ -k > 0 /\ ~(k >= 0)
  BY DEF Base
<1>2. base[2] <= base[1]
  BY <1>1 DEF Positive
<1>3. P \in Positive /\ Q \in Positive /\ Q < P
  BY <1>1, <1>2, PowFacts, FractionAbove
<1>4. Reaches(base, k, d) => d * P <= 1000 * Q
  BY <1>1, <1>3 DEF Reaches, Positive
<1> HIDE DEF P, Q
<1>5. 1000 * P <= d * P
  BY <1>3, TimesKeeps DEF Positive
<1>6. 1000 * Q < 1000 * P /\ d * P \in Int
  BY <1>3 DEF Positive
<1>7. 1000 * Q \in Int /\ 1000 * P \in Int
  BY <1>3 DEF Positive
<1> QED BY <1>4, <1>5, <1>6, <1>7

-----------------------------------------------------------------------------
\* The clamped exponent.

\* The bound leaves room for a maximal delay: ReachAssumption, of one duration.
Settled(base, d) == Reaches(base, MostAttempts, d) /\ ~Reaches(base, -MostAttempts, d)

\* It is the first exponent whose power reaches the maximal delay.
LEMMA ClampIsFirst ==
  ASSUME NEW base \in Base, base[2] < base[1], NEW d \in Nat, d > 0, Settled(base, d)
  PROVE  LET c == ClampMaxAttempts(base, d)
         IN  c \in Int /\ Reaches(base, c, d) /\ ~Reaches(base, c - 1, d)
<1> DEFINE M == MostAttempts
           S == {i \in Nat : Reaches(base, i - M, d)}
<1>1. M \in Nat /\ base[1] \in Nat /\ base[2] \in Nat
  BY MostAttemptsAssumption DEF Base, Positive
<1>2. 2 * M \in S
  <2>1. 2 * M \in Nat /\ 2 * M - M = M
    BY <1>1
  <2> QED BY <2>1 DEF Settled
<1>3. PICK x \in S : \A y \in S : x <= y
  BY <1>2, LeastExists
<1>4. x \in Nat /\ x <= 2 * M /\ x - M \in (-M)..M
  <2>1. x \in Nat /\ x <= 2 * M
    BY <1>2, <1>3
  <2> HIDE DEF S
  <2> QED BY <1>1, <2>1
<1>5. ~Reaches(base, (x - M) - 1, d)
  <2>1. CASE x = 0
    <3>1. x - M = -M /\ Reaches(base, x - M, d)
      BY <1>1, <1>3, <2>1
    <3> QED BY <3>1 DEF Settled
  <2>2. CASE x # 0
    <3>1. x - 1 \in Nat /\ x - 1 \notin S /\ (x - M) - 1 = (x - 1) - M
      BY <1>1, <1>3, <1>4, <2>2
    <3> QED BY <3>1
  <2> QED BY <2>1, <2>2
<1>6. Reaches(base, x - M, d)
  BY <1>3
<1> HIDE DEF S
<1>7. \E k \in (-M)..M : Reaches(base, k, d) /\ ~Reaches(base, k - 1, d)
  BY <1>4, <1>5, <1>6
<1>8. ClampMaxAttempts(base, d) =
        CHOOSE k \in (-M)..M : Reaches(base, k, d) /\ ~Reaches(base, k - 1, d)
  BY <1>1 DEF ClampMaxAttempts
<1> DEFINE c == ClampMaxAttempts(base, d)
<1>9. c \in (-M)..M /\ Reaches(base, c, d) /\ ~Reaches(base, c - 1, d)
  BY <1>7, <1>8
<1> HIDE DEF c
<1>10. c \in Int
  BY <1>1, <1>9
<1> QED BY <1>9, <1>10 DEF c

\* Clamped or not, the exponent gives the same delay.
LEMMA ClampedDelay ==
  ASSUME NEW base \in Base, NEW d \in Nat, NEW n \in 0..MostAttempts,
         base[2] < base[1] /\ d > 0 => Settled(base, d)
  PROVE  Least(Power(base, Least(n, ClampMaxAttempts(base, d))), d) = Least(Power(base, n), d)
<1> DEFINE c == ClampMaxAttempts(base, d)
<1>0. NoClamp \in Nat
  BY SMT DEF NoClamp
<1>1. /\ n \in Nat /\ n <= NoClamp /\ NoClamp \in Nat
      /\ base[1] \in Nat /\ base[2] \in Nat
  BY <1>0, MostAttemptsAssumption, NoClampAssumption DEF Base, Positive
<1>2. Power(base, n) \in Nat
  BY <1>1, PowerType
<1>3. CASE base[1] <= base[2]
  <2>1. c = NoClamp
    BY <1>3 DEF ClampMaxAttempts
  <2> HIDE DEF c
  <2>2. Least(n, c) = n
    BY <1>1, <2>1 DEF Least
  <2> QED BY <2>2 DEF c
<1>4. CASE base[2] < base[1] /\ d = 0
  <2>1. c = 0
    BY <1>1, <1>4 DEF ClampMaxAttempts
  <2> HIDE DEF c
  <2>2. Least(n, c) \in Nat
    BY <1>1, <2>1 DEF Least
  <2>3. Power(base, Least(n, c)) \in Nat
    BY <2>2, PowerType
  <2> QED BY <1>2, <1>4, <2>3 DEF c, Least
<1>5. CASE base[2] < base[1] /\ d > 0
  <2>1. c \in Int /\ Reaches(base, c, d)
    BY <1>5, ClampIsFirst
  <2> HIDE DEF c
  <2>2. CASE n <= c
    <3>1. Least(n, c) = n
      BY <1>1, <2>1, <2>2 DEF Least
    <3> QED BY <3>1 DEF c
  <2>3. CASE c < n
    <3>1. Least(n, c) = c
      BY <1>1, <2>1, <2>3 DEF Least
    <3>2. Reaches(base, n, d)
      BY <1>1, <1>5, <2>1, <2>3, ReachesLater
    <3>3. d <= Power(base, c) /\ d <= Power(base, n)
      BY <1>1, <2>1, <3>2, ReachingPower
    <3>4. Power(base, c) \in Nat
      BY <2>1, PowerType
    <3> QED BY <1>2, <3>1, <3>3, <3>4 DEF c, Least
  <2> QED BY <1>1, <2>1, <2>2, <2>3
<1> QED BY <1>1, <1>3, <1>4, <1>5

-----------------------------------------------------------------------------
\* The settings and attempts asked about.

AskedInv == asked \in [base: Bases \union {<<1, 1>>}, maxDelay: Durations \union {0},
                       extra: Extras \union {0}, attempts: 0..MostAttempts]

LEMMA AskedAlways == BackoffSpec => []AskedInv
<1>1. InitBackoff => AskedInv
  BY MostAttemptsAssumption DEF InitBackoff, AskedInv
<1>2. AskedInv /\ [NextBackoff]_asked => AskedInv'
  <2> SUFFICES ASSUME AskedInv, [NextBackoff]_asked PROVE AskedInv'
    OBVIOUS
  <2>1. CASE Configure
    BY <2>1, MostAttemptsAssumption DEF Configure, AskedInv
  <2>2. CASE Attempt
    BY <2>2, MostAttemptsAssumption DEF Attempt, AskedInv
  <2>3. CASE UNCHANGED asked
    BY <2>3 DEF AskedInv
  <2> QED BY <2>1, <2>2, <2>3 DEF NextBackoff
<1> QED BY <1>1, <1>2, PTL DEF BackoffSpec

LEMMA AskedFacts ==
  ASSUME AskedInv
  PROVE  /\ asked.base \in Base /\ asked.maxDelay \in Nat /\ asked.extra \in Int
         /\ asked.attempts \in 0..MostAttempts
         /\ asked.base[2] < asked.base[1] /\ asked.maxDelay > 0
              => Settled(asked.base, asked.maxDelay)
<1>1. /\ asked.base \in Bases \union {<<1, 1>>} /\ asked.maxDelay \in Durations \union {0}
      /\ asked.extra \in Extras \union {0} /\ asked.attempts \in 0..MostAttempts
  BY DEF AskedInv
<1>2. asked.base \in Base
  BY <1>1, BasesAssumption DEF Base, Positive
<1>3. asked.maxDelay \in Nat /\ asked.extra \in Int
  <2>1. \A x : x \in Durations \union {0} => x \in Nat
    BY DurationsAssumption
  <2>2. \A x : x \in Extras \union {0} => x \in Int
    BY ExtrasAssumption
  <2> QED BY <1>1, <2>1, <2>2
<1>4. asked.base[2] < asked.base[1] => asked.base \in Bases
  BY <1>1
<1>5. asked.base[1] \in Nat /\ asked.base[2] \in Nat
  BY <1>2 DEF Base, Positive
<1>6. ASSUME asked.base[2] < asked.base[1], asked.maxDelay > 0
      PROVE  Settled(asked.base, asked.maxDelay)
  <2>1. asked.base \in Bases /\ asked.maxDelay \in Durations /\ asked.base[1] > asked.base[2]
    BY <1>1, <1>4, <1>5, <1>6
  <2> QED BY <1>6, <2>1, ReachAssumption DEF Settled
<1> QED BY <1>1, <1>2, <1>3, <1>6

\* The in-memory store and PostgreSQL delay a retried ticket equally, at every
\* attempt and with every jitter of whole seconds, up to a negative one, which
\* PostgreSQL leaves out: the clamped exponent never falls short of the maximal
\* delay.
THEOREM RetryDelaysAgreeCorrect == BackoffSpec => []RetryDelaysAgree
<1>1. AskedInv => RetryDelaysAgree
  <2> SUFFICES ASSUME AskedInv PROVE RetryDelaysAgree
    OBVIOUS
  <2> DEFINE base == asked.base
             d == asked.maxDelay
             n == asked.attempts
             delay == Least(Power(base, n), d)
  <2>1. Least(Power(base, Least(n, ClampMaxAttempts(base, d))), d) = delay
    BY AskedFacts, ClampedDelay
  <2>2. delay \in Int
    <3>1. n \in Int /\ d \in Nat
      BY AskedFacts, MostAttemptsAssumption
    <3>2. Power(base, n) \in Nat
      BY <3>1, AskedFacts, PowerType
    <3> QED BY <3>1, <3>2 DEF Least
  <2> DEFINE j == Greatest(asked.extra, 0)
  <2>3. j \in Int
    BY AskedFacts DEF Greatest
  <2>4. /\ PgRetryDelay(base, d, asked.extra, n) = j + delay
        /\ MemoryRetryDelay(base, d, j, n) = delay + j
    <3> HIDE DEF j
    <3>1. PgRetryDelay(base, d, asked.extra, n)
            = j + Least(Power(base, Least(n, ClampMaxAttempts(base, d))), d)
      BY DEF PgRetryDelay, j
    <3> QED BY <2>1, <3>1 DEF MemoryRetryDelay
  <2> HIDE DEF delay, j
  <2> QED BY <2>2, <2>3, <2>4 DEF RetryDelaysAgree, j
<1> QED BY <1>1, AskedAlways, PTL

-----------------------------------------------------------------------------
\* Whole seconds.

LEMMA TruncatedFacts ==
  ASSUME NEW d \in Nat
  PROVE  /\ Truncated(d) \in Nat /\ Truncated(d) <= d /\ d < Truncated(d) + 1000
         /\ d >= 1000 => Truncated(d) >= 1000
BY DEF Truncated

\* The bound leaves room for whole seconds if it does for the duration itself.
LEMMA TruncatedSettled ==
  ASSUME NEW base \in Base, base[2] < base[1], NEW d \in Nat, d >= 1000, Settled(base, d)
  PROVE  Settled(base, Truncated(d))
<1> DEFINE t == Truncated(d)
           M == MostAttempts
<1>1. t \in Nat /\ t <= d /\ t >= 1000
  BY TruncatedFacts
<1>2. M \in Nat /\ -M \in Int /\ -M < 0
  <2>1. M \in Nat
    BY MostAttemptsAssumption
  <2>2. M # 0
    <3>1. PICK k \in Int : k = -M /\ k + M = 0
      BY <2>1
    <3>2. k + M = 0
      BY <3>1
    <3>3. M = 0 => k = M
      BY <2>1, <3>2
    <3> QED BY <3>1, <3>3 DEF Settled
  <2> QED BY <2>1, <2>2
<1> HIDE DEF t
<1>3. ~Reaches(base, -M, t)
  BY <1>1, <1>2, NegativeReachesNone
<1>4. Reaches(base, M, t)
  <2> DEFINE P == Pow(base[1], M)
             Q == Pow(base[2], M)
  <2>1. P \in Nat /\ Q \in Nat
    BY <1>2, PowFacts DEF Base, Positive
  <2>2. d * Q <= 1000 * P
    BY <1>2, <2>1 DEF Settled, Reaches
  <2> HIDE DEF P, Q
  <2>3. t * Q <= d * Q
    BY <1>1, <2>1, TimesKeeps
  <2>4. t * Q \in Int /\ d * Q \in Int /\ 1000 * P \in Int
    BY <1>1, <2>1
  <2>5. 1000 * P >= t * Q
    BY <2>2, <2>3, <2>4
  <2> QED BY <1>2, <2>5 DEF Reaches, P, Q
<1> QED BY <1>3, <1>4 DEF Settled, t

\* The exponent of a lease is not negative and not above the attempts.
LEMMA LeaseExponent ==
  ASSUME NEW base \in Base, base[2] <= base[1], NEW d \in Nat, d >= 1000,
         NEW n \in 0..MostAttempts, base[2] < base[1] => Settled(base, d)
  PROVE  LET e == Least(n, PgClampMaxAttempts(base, d)) IN e \in Nat /\ e <= n
<1> DEFINE c == ClampMaxAttempts(base, Truncated(d))
<1>0. NoClamp \in Nat
  BY SMT DEF NoClamp
<1>1. n \in Nat /\ base[1] \in Nat /\ base[2] \in Nat
  BY MostAttemptsAssumption DEF Base, Positive
<1>2. c \in Nat
  <2>1. CASE base[2] < base[1]
    <3>1. Truncated(d) \in Nat /\ Truncated(d) >= 1000 /\ Settled(base, Truncated(d))
      BY <2>1, TruncatedFacts, TruncatedSettled
    <3>2. c \in Int /\ Reaches(base, c, Truncated(d))
      BY <2>1, <3>1, ClampIsFirst
    <3> HIDE DEF c
    <3>3. ~(c < 0)
      BY <2>1, <3>1, <3>2, NegativeReachesNone
    <3> QED BY <3>2, <3>3
  <2>2. CASE base[1] <= base[2]
    BY <1>0, <2>2 DEF ClampMaxAttempts
  <2> QED BY <1>1, <2>1, <2>2
<1> HIDE DEF c
<1>3. Least(n, c) \in Nat /\ Least(n, c) <= n
  BY <1>1, <1>2 DEF Least
<1> QED BY <1>3 DEF PgClampMaxAttempts, c

\* A lease in whole seconds lasts as long as the time-to-run, to the
\* millisecond, and no longer than the lease the in-memory store gives.
THEOREM LeaseLongEnoughCorrect == BackoffSpec => []LeaseLongEnough
<1>1. AskedInv => LeaseLongEnough
  <2> DEFINE base == asked.base
             d == asked.maxDelay
             ttr == asked.extra
             n == asked.attempts
             e == Least(n, PgClampMaxAttempts(base, d))
  <2> SUFFICES ASSUME AskedInv, base[2] <= base[1], d >= 1000, ttr >= 0
               PROVE  /\ ttr <= PgLease(base, d, ttr, n)
                      /\ PgLease(base, d, ttr, n) <= MemoryLease(base, d, ttr, n)
    <3>1. AskedInv => base[1] \in Nat /\ base[2] \in Nat
      BY AskedFacts DEF Base, Positive
    <3> QED BY <3>1 DEF LeaseLongEnough
  <2>1. /\ base \in Base /\ d \in Nat /\ ttr \in Nat /\ n \in Nat /\ n \in 0..MostAttempts
        /\ base[2] < base[1] => Settled(base, d)
    <3>1. d > 0
      BY AskedFacts
    <3> QED BY <3>1, AskedFacts, MostAttemptsAssumption
  <2>2. e \in Nat /\ e <= n
    BY <2>1, LeaseExponent
  <2> HIDE DEF e
  <2>3. Power(base, 0) = 1000
    <3>1. Pow(base[1], 0) = 1 /\ Pow(base[2], 0) = 1
      BY <2>1, PowFacts DEF Base
    <3> QED BY <3>1 DEF Power
  <2> DEFINE p == Power(base, e)
             q == Power(base, n)
             r == Truncated(ttr)
             t == Truncated(d)
  <2>4. 1000 <= p /\ p <= q
    BY <2>1, <2>2, <2>3, PowerGrows
  <2>5. p \in Nat /\ q \in Nat
    BY <2>1, <2>2, PowerType
  <2>6. /\ r \in Nat /\ r <= ttr /\ ttr < r + 1000
        /\ t \in Nat /\ t <= d /\ 1000 <= t
    BY <2>1, TruncatedFacts
  <2>7. /\ PgLease(base, d, ttr, n) = Greatest(r, 0) + Least(t, p)
        /\ MemoryLease(base, d, ttr, n) = Least(q, d) + ttr
    BY DEF PgLease, MemoryLease, e
  <2> HIDE DEF p, q, r, t
  <2>8. Greatest(r, 0) = r
    BY <2>6 DEF Greatest
  <2>9. Least(t, p) \in Nat /\ 1000 <= Least(t, p) /\ Least(t, p) <= Least(q, d)
        /\ Least(q, d) \in Nat
    BY <2>1, <2>4, <2>5, <2>6 DEF Least
  <2> QED BY <2>1, <2>6, <2>7, <2>8, <2>9
<1> QED BY <1>1, AskedAlways, PTL

-----------------------------------------------------------------------------
\* Recursion over an interval, and running sums.

\* From any member of X, by any steps within X.
Recursive(X) ==
  \A x0 \in X : \A n \in Nat : \A s \in [1..n -> [X -> X]] :
    \E f \in [0..n -> X] : f[0] = x0 /\ \A i \in 1..n : f[i] = s[i][f[i - 1]]

LEMMA RecursionExists == \A X : Recursive(X)
<1> SUFFICES ASSUME NEW X, NEW x0 \in X, NEW n \in Nat, NEW s \in [1..n -> [X -> X]]
             PROVE  \E f \in [0..n -> X] : f[0] = x0 /\ \A i \in 1..n : f[i] = s[i][f[i - 1]]
  BY DEF Recursive
<1> DEFINE Good(m, f) == /\ f \in [0..m -> X] /\ f[0] = x0
                         /\ \A i \in 1..m : f[i] = s[i][f[i - 1]]
           S == {m \in Nat : m <= n => \E f : Good(m, f)}
<1>1. 0 \in S
  <2>1. Good(0, [i \in 0..0 |-> x0])
    OBVIOUS
  <2> QED BY <2>1
<1> HIDE DEF Good
<1>2. ASSUME NEW m \in S PROVE m + 1 \in S
  <2>1. SUFFICES ASSUME m + 1 <= n PROVE \E f : Good(m + 1, f)
    OBVIOUS
  <2>2. PICK f : Good(m, f)
    BY <2>1
  <2> DEFINE g == [i \in 0..(m + 1) |-> IF i <= m THEN f[i] ELSE s[m + 1][f[m]]]
  <2>3. f[m] \in X /\ s[m + 1][f[m]] \in X
    <3>1. m \in Nat /\ m \in 0..m /\ m + 1 \in 1..n
      BY <2>1
    <3> QED BY <2>2, <3>1 DEF Good
  <2>4. g \in [0..(m + 1) -> X] /\ g[0] = x0
    BY <2>2, <2>3 DEF Good
  <2>5. ASSUME NEW i \in 1..(m + 1) PROVE g[i] = s[i][g[i - 1]]
    <3>1. CASE i <= m
      <4>1. g[i] = f[i] /\ g[i - 1] = f[i - 1] /\ i \in 1..m
        BY <3>1
      <4> QED BY <2>2, <4>1 DEF Good
    <3>2. CASE i = m + 1
      BY <3>2
    <3> QED BY <3>1, <3>2
  <2>6. Good(m + 1, g)
    BY <2>4, <2>5 DEF Good
  <2> QED BY <2>6
<1> HIDE DEF S
<1>3. S = Nat
  BY <1>1, <1>2, Induction DEF S
<1>4. n \in S /\ n <= n
  BY <1>3
<1> QED BY <1>4 DEF S, Good

\* f[i] is a[1] + ... + a[i].
Sums(a, n, f) == f \in [0..n -> Int] /\ f[0] = 0 /\ \A i \in 1..n : f[i] = f[i - 1] + a[i]

LEMMA RunningSumFacts ==
  ASSUME NEW a \in Seq(Int)
  PROVE  Sums(a, Len(a), RunningSum(a))
<1> DEFINE n == Len(a)
           Rec(f) == f = [i \in 0..n |-> IF i = 0 THEN 0 ELSE f[i - 1] + a[i]]
           F == CHOOSE f : Rec(f)
           s == [i \in 1..n |-> [x \in Int |-> x + a[i]]]
<1>1. n \in Nat /\ \A i \in 1..n : a[i] \in Int
  OBVIOUS
<1>2. s \in [1..n -> [Int -> Int]]
  BY <1>1
<1> HIDE DEF s, n
<1>3. PICK f \in [0..n -> Int] : f[0] = 0 /\ \A i \in 1..n : f[i] = s[i][f[i - 1]]
  <2>1. Recursive(Int)
    BY RecursionExists
  <2>2. n \in Nat /\ 0 \in Int
    BY <1>1
  <2> HIDE DEF Rec, F
  <2> QED BY <1>2, <2>1, <2>2 DEF Recursive
<1>4. ASSUME NEW i \in 1..n PROVE f[i] = f[i - 1] + a[i]
  <2>1. i - 1 \in 0..n
    BY <1>1
  <2> QED BY <1>3, <2>1 DEF s
<1>5. Rec(f)
  <2>1. f = [i \in 0..n |-> f[i]]
    OBVIOUS
  <2>2. \A i \in 0..n : f[i] = IF i = 0 THEN 0 ELSE f[i - 1] + a[i]
    BY <1>1, <1>3, <1>4
  <2> QED BY <2>1, <2>2
<1>6. Rec(F)
  BY <1>5
<1>7. RunningSum(a) = F
  BY DEF RunningSum, n
<1> HIDE DEF F
<1>8. F[0] = 0 /\ \A i \in 1..n : F[i] = F[i - 1] + a[i]
  <2>1. \A i \in 0..n : F[i] = IF i = 0 THEN 0 ELSE F[i - 1] + a[i]
    BY <1>6
  <2>2. 0 \in 0..n /\ \A i \in 1..n : i \in 0..n /\ i # 0
    BY <1>1
  <2> QED BY <2>1, <2>2
<1>9. F \in [0..n -> Int]
  <2> DEFINE S == {i \in Nat : i <= n => F[i] \in Int}
  <2>1. 0 \in S
    BY <1>8
  <2>2. ASSUME NEW i \in S PROVE i + 1 \in S
    <3>1. SUFFICES ASSUME i + 1 <= n PROVE F[i + 1] \in Int
      OBVIOUS
    <3>2. i + 1 \in 1..n /\ (i + 1) - 1 = i /\ F[i] \in Int
      BY <1>1, <3>1
    <3>3. F[i + 1] = F[i] + a[i + 1] /\ a[i + 1] \in Int
      BY <1>1, <1>8, <3>2
    <3> QED BY <3>2, <3>3
  <2> HIDE DEF S
  <2>3. S = Nat
    BY <2>1, <2>2, Induction DEF S
  <2>4. \A i \in 0..n : F[i] \in Int
    BY <1>1, <2>3 DEF S
  <2> QED BY <1>6, <2>4
<1> QED BY <1>7, <1>8, <1>9 DEF Sums, n

\* Where two sequences agree, their sums do.
LEMMA RunningSumsAgree ==
  ASSUME NEW a \in Seq(Int), NEW b \in Seq(Int), NEW k \in Nat, k <= Len(a), k <= Len(b),
         \A i \in 1..k : a[i] = b[i]
  PROVE  \A i \in 0..k : RunningSum(a)[i] = RunningSum(b)[i]
<1> DEFINE n == Len(a)
           m == Len(b)
           f == RunningSum(a)
           g == RunningSum(b)
<1>1. n \in Nat /\ m \in Nat /\ k <= n /\ k <= m
  OBVIOUS
<1>2. Sums(a, n, f) /\ Sums(b, m, g)
  BY RunningSumFacts
<1> HIDE DEF n, m, f, g
<1> DEFINE S == {i \in Nat : i <= k => f[i] = g[i]}
<1>3. 0 \in S
  BY <1>2 DEF Sums
<1>4. ASSUME NEW i \in S PROVE i + 1 \in S
  <2>1. SUFFICES ASSUME i + 1 <= k PROVE f[i + 1] = g[i + 1]
    OBVIOUS
  <2>2. f[i] = g[i] /\ i + 1 \in 1..n /\ i + 1 \in 1..m /\ (i + 1) - 1 = i
    BY <1>1, <2>1
  <2>3. a[i + 1] = b[i + 1]
    BY <2>1
  <2> QED BY <1>2, <2>2, <2>3 DEF Sums
<1> HIDE DEF S
<1>5. S = Nat
  BY <1>3, <1>4, Induction DEF S
<1> QED BY <1>5 DEF S, f, g

\* One more member adds itself to the sum.
LEMMA RunningSumNext ==
  ASSUME NEW a \in Seq(Int), NEW i \in 1..Len(a)
  PROVE  /\ RunningSum(a)[0] = 0
         /\ RunningSum(a)[i - 1] \in Int /\ RunningSum(a)[i] \in Int /\ a[i] \in Int
         /\ RunningSum(a)[i] = RunningSum(a)[i - 1] + a[i]
<1>1. i - 1 \in 0..Len(a) /\ i \in 0..Len(a)
  OBVIOUS
<1> QED BY <1>1, RunningSumFacts DEF Sums

\* The sum of natural numbers grows.
LEMMA RunningSumGrows ==
  ASSUME NEW a \in Seq(Int), \A i \in 1..Len(a) : a[i] >= 0,
         NEW j \in 0..Len(a), NEW i \in 0..j
  PROVE  /\ RunningSum(a)[i] \in Int /\ RunningSum(a)[j] \in Int
         /\ 0 <= RunningSum(a)[i] /\ RunningSum(a)[i] <= RunningSum(a)[j]
<1> DEFINE f == RunningSum(a)
           n == Len(a)
           S(p) == {m \in Nat : p + m <= n => f[p] <= f[p + m]}
<1>1. n \in Nat /\ Sums(a, n, f)
  BY RunningSumFacts
<1> HIDE DEF f
<1>2. \A p \in 0..n : f[p] \in Int
  BY <1>1 DEF Sums
<1>3. ASSUME NEW p \in 0..n PROVE S(p) = Nat
  <2>1. 0 \in S(p)
    BY <1>1, <1>2
  <2>2. ASSUME NEW m \in S(p) PROVE m + 1 \in S(p)
    <3>1. SUFFICES ASSUME p + (m + 1) <= n PROVE f[p] <= f[p + (m + 1)]
      OBVIOUS
    <3>2. /\ m \in Nat /\ p + (m + 1) \in 1..n /\ (p + (m + 1)) - 1 = p + m
          /\ p + m \in 0..n
      BY <1>1, <3>1
    <3>3. f[p] <= f[p + m]
      BY <1>1, <3>2
    <3>4. f[p + (m + 1)] = f[p + m] + a[p + (m + 1)]
      BY <1>1, <3>2 DEF Sums
    <3>5. a[p + (m + 1)] \in Int /\ a[p + (m + 1)] >= 0
      BY <3>2
    <3>6. f[p] \in Int /\ f[p + m] \in Int
      BY <1>2, <3>2
    <3> HIDE DEF S
    <3> QED BY <3>3, <3>4, <3>5, <3>6
  <2> HIDE DEF S
  <2> QED BY <2>1, <2>2, Induction DEF S
<1>4. \A p, q \in 0..n : p <= q => f[p] <= f[q]
  <2> TAKE p, q \in 0..n
  <2>1. SUFFICES ASSUME p <= q PROVE f[p] <= f[q]
    OBVIOUS
  <2>2. q - p \in Nat /\ p + (q - p) = q /\ q <= n
    BY <1>1, <2>1
  <2>3. q - p \in S(p)
    BY <1>3, <2>2
  <2> QED BY <2>2, <2>3
<1>5. 0 \in 0..n /\ i \in 0..n /\ 0 <= i /\ i <= j /\ f[0] = 0
  BY <1>1 DEF Sums
<1>6. f[0] <= f[i] /\ f[i] <= f[j] /\ f[i] \in Int /\ f[j] \in Int
  BY <1>2, <1>4, <1>5
<1> QED BY <1>5, <1>6 DEF f

\* What a recording adds to the sum.
LEMMA SumAppended ==
  ASSUME NEW s \in Seq(Int), NEW d \in Int
  PROVE  SumOf(s) \in Int /\ SumOf(Append(s, d)) = SumOf(s) + (IF d < 0 THEN 0 ELSE d)
<1> DEFINE t == Append(s, d)
           n == Len(s)
           KeptPart(q) == [i \in 1..Len(q) |-> IF q[i] < 0 THEN 0 ELSE q[i]]
           a == KeptPart(s)
           b == KeptPart(t)
<1>1. /\ t \in Seq(Int) /\ n \in Nat /\ Len(t) = n + 1 /\ t[n + 1] = d
      /\ \A i \in 1..n : t[i] = s[i] /\ s[i] \in Int
  OBVIOUS
<1> HIDE DEF t
<1>2. a \in Seq(Int) /\ Len(a) = n
  BY <1>1
<1>3. b \in Seq(Int) /\ Len(b) = n + 1 /\ b[n + 1] = (IF d < 0 THEN 0 ELSE d)
  BY <1>1
<1>4. \A i \in 1..n : a[i] = b[i]
  <2>1. \A i \in 1..n : i \in 1..(n + 1)
    BY <1>1
  <2> QED BY <1>1, <2>1
<1>5. SumOf(s) = RunningSum(a)[n] /\ SumOf(t) = RunningSum(b)[n + 1]
  BY <1>1 DEF SumOf
<1> HIDE DEF a, b, n
<1>6. RunningSum(a)[n] = RunningSum(b)[n]
  <2>1. n \in 0..n /\ n <= Len(a) /\ n <= Len(b)
    BY <1>1, <1>2, <1>3
  <2>2. \A i \in 0..n : RunningSum(a)[i] = RunningSum(b)[i]
    BY <1>1, <1>2, <1>3, <1>4, <2>1, RunningSumsAgree
  <2> QED BY <2>1, <2>2
<1>7. RunningSum(b)[n + 1] = RunningSum(b)[n] + b[n + 1] /\ RunningSum(b)[n] \in Int
  <2>1. n + 1 \in 1..Len(b) /\ (n + 1) - 1 = n
    BY <1>1, <1>3
  <2> QED BY <1>3, <2>1, RunningSumNext
<1> QED BY <1>3, <1>5, <1>6, <1>7 DEF t

-----------------------------------------------------------------------------
\* The bucket of a duration.

LEMMA TwoToFacts ==
  TwoTo[0] = 1 /\ \A k \in Nat : TwoTo[k] \in Positive /\ TwoTo[k + 1] = 2 * TwoTo[k]
<1> DEFINE f == [k \in Nat |-> Pow(2, k)]
<1>0. 2 \in Positive
  BY DEF Positive
<1>1. Pow(2, 0) = 1 /\ \A k \in Nat : Pow(2, k) \in Positive /\ Pow(2, k + 1) = 2 * Pow(2, k)
  BY <1>0, PowFacts
<1>2. f = [k \in Nat |-> IF k = 0 THEN 1 ELSE 2 * f[k - 1]]
  <2>1. ASSUME NEW k \in Nat PROVE f[k] = IF k = 0 THEN 1 ELSE 2 * f[k - 1]
    <3>1. CASE k = 0
      BY <1>1, <3>1
    <3>2. CASE k # 0
      <4>1. k - 1 \in Nat /\ (k - 1) + 1 = k
        BY <3>2
      <4> QED BY <1>1, <3>2, <4>1
    <3> QED BY <3>1, <3>2
  <2>2. f = [k \in Nat |-> f[k]]
    OBVIOUS
  <2> HIDE DEF f
  <2> QED BY <2>1, <2>2
<1> HIDE DEF f
<1>3. TwoTo = [k \in Nat |-> IF k = 0 THEN 1 ELSE 2 * TwoTo[k - 1]]
  BY <1>2 DEF TwoTo
<1>4. TwoTo[0] = 1 /\ \A k \in Nat : TwoTo[k + 1] = 2 * TwoTo[k]
  <2>1. \A k \in Nat : TwoTo[k] = IF k = 0 THEN 1 ELSE 2 * TwoTo[k - 1]
    BY <1>3
  <2> QED BY <2>1
<1> DEFINE S == {k \in Nat : TwoTo[k] \in Positive}
<1>5. 0 \in S
  BY <1>4 DEF Positive
<1>6. ASSUME NEW k \in S PROVE k + 1 \in S
  BY <1>4 DEF Positive
<1> HIDE DEF S
<1>7. S = Nat
  BY <1>5, <1>6, Induction DEF S
<1> QED BY <1>4, <1>7 DEF S

\* d^4 < 2^(4 * d), so that the search of MapToIndex is never in vain.
LEMMA FourthPowerBound ==
  \A d \in Nat : d * d * d * d < TwoTo[4 * d]
<1> DEFINE S == {d \in Nat : d * d * d * d < TwoTo[4 * d]}
<1>1. 0 \in S
  BY TwoToFacts
<1>2. 1 \in S
  <2>1. TwoTo[1] = 2 /\ TwoTo[2] = 4 /\ TwoTo[3] = 8 /\ TwoTo[4] = 16
    <3>1. 0 + 1 = 1 /\ 1 + 1 = 2 /\ 2 + 1 = 3 /\ 3 + 1 = 4
      OBVIOUS
    <3>2. TwoTo[1] = 2 /\ TwoTo[2] = 2 * TwoTo[1] /\ TwoTo[3] = 2 * TwoTo[2]
          /\ TwoTo[4] = 2 * TwoTo[3]
      BY <3>1, TwoToFacts
    <3> QED BY <3>2
  <2> QED BY <2>1
<1>3. ASSUME NEW d \in S PROVE d + 1 \in S
  <2>1. CASE d = 0
    BY <1>2, <2>1
  <2>2. CASE d # 0
    <3> DEFINE e == d + 1
               T == TwoTo[4 * d]
    <3>0. d \in Nat /\ e \in Nat /\ 4 * d \in Nat /\ T \in Nat /\ d * d * d * d < T
      BY TwoToFacts DEF Positive
    <3>1. TwoTo[4 * e] = 16 * T
      <4>1. /\ 4 * d + 1 \in Nat /\ 4 * d + 2 = (4 * d + 1) + 1 /\ 4 * d + 2 \in Nat
            /\ 4 * d + 3 = (4 * d + 2) + 1 /\ 4 * d + 3 \in Nat /\ 4 * e = (4 * d + 3) + 1
        OBVIOUS
      <4>2. /\ TwoTo[4 * d + 1] = 2 * T
            /\ TwoTo[4 * d + 2] = 2 * TwoTo[4 * d + 1]
            /\ TwoTo[4 * d + 3] = 2 * TwoTo[4 * d + 2]
            /\ TwoTo[4 * e] = 2 * TwoTo[4 * d + 3]
        BY <3>0, <4>1, TwoToFacts
      <4> QED BY <3>0, <4>2
    <3>2. e * e <= 4 * (d * d)
      <4>1. e <= 2 * d
        BY <2>2
      <4>2. e * e <= (2 * d) * e /\ e * (2 * d) <= (2 * d) * (2 * d)
        BY <4>1, TimesKeeps
      <4>3. (2 * d) * e = e * (2 * d) /\ (2 * d) * (2 * d) = 4 * (d * d)
        OBVIOUS
      <4>4. e * e \in Int /\ e * (2 * d) \in Int /\ d * d \in Int
        OBVIOUS
      <4> HIDE DEF e
      <4> QED BY <4>2, <4>3, <4>4
    <3> DEFINE p == e * e
               q == d * d
    <3>3. p \in Nat /\ q \in Nat
      BY <3>0
    <3>4. e * e * e * e = p * p /\ d * d * d * d = q * q
      BY <3>0
    <3> HIDE DEF p, q, T, e
    <3>5. p * p <= 16 * (q * q)
      <4>1. p <= 4 * q
        BY <3>2 DEF p, q
      <4>2. p * p <= (4 * q) * p /\ p * (4 * q) <= (4 * q) * (4 * q)
        BY <3>3, <4>1, TimesKeeps
      <4>3. (4 * q) * p = p * (4 * q) /\ (4 * q) * (4 * q) = 16 * (q * q)
        BY <3>3
      <4>4. p * p \in Int /\ p * (4 * q) \in Int /\ q * q \in Int
        BY <3>3
      <4> QED BY <4>2, <4>3, <4>4
    <3>6. q * q \in Int /\ p * p \in Int /\ q * q < T
      BY <3>0, <3>3, <3>4
    <3>7. e * e * e * e < TwoTo[4 * e]
      BY <3>0, <3>1, <3>4, <3>5, <3>6
    <3> QED BY <3>7 DEF e
  <2> QED BY <2>1, <2>2
<1> HIDE DEF S
<1>4. S = Nat
  BY <1>1, <1>3, Induction DEF S
<1> QED BY <1>4 DEF S

LEMMA IndexType ==
  ASSUME NEW d \in 1..MaxDuration
  PROVE  MapToIndex(d) \in Int
<1> DEFINE x == d * d * d * d
           Within(k) == TwoTo[k] <= x /\ x < TwoTo[k + 1]
           T == {k \in Nat : x < TwoTo[k + 1]}
<1>1. d \in Nat /\ d >= 1 /\ d <= MaxDuration /\ MaxDuration \in Nat
  BY TicksAssumption
<1>2. x \in Nat /\ x >= 1 /\ x < TwoTo[4 * d]
  <2>1. d * d \in Nat /\ d * d >= 1
    BY <1>1
  <2>2. d * d * d \in Nat /\ d * d * d >= 1
    BY <1>1, <2>1
  <2>3. x \in Nat /\ x >= 1
    BY <1>1, <2>2
  <2> QED BY <1>1, <2>3, FourthPowerBound
<1> HIDE DEF x
<1>3. 4 * d \in T
  <2>1. 4 * d \in Nat
    BY <1>1
  <2>2. TwoTo[4 * d] \in Nat /\ TwoTo[4 * d + 1] = 2 * TwoTo[4 * d]
    BY <2>1, TwoToFacts DEF Positive
  <2> QED BY <1>2, <2>1, <2>2
<1>4. PICK k \in T : \A y \in T : k <= y
  BY <1>3, LeastExists
<1>5. k \in 0..(4 * MaxDuration)
  <2>1. k \in Nat /\ k <= 4 * d
    BY <1>3, <1>4
  <2> QED BY <1>1, <2>1
<1>6. TwoTo[k] <= x
  <2>1. CASE k = 0
    BY <1>2, <2>1, TwoToFacts
  <2>2. CASE k # 0
    <3>1. k - 1 \in Nat /\ (k - 1) + 1 = k /\ k - 1 \notin T
      BY <1>4, <2>2
    <3>2. ~(x < TwoTo[k]) /\ TwoTo[k] \in Nat
      BY <3>1, TwoToFacts DEF Positive
    <3> QED BY <1>2, <3>2
  <2> QED BY <2>1, <2>2
<1>7. Within(k)
  BY <1>6
<1> DEFINE c == CHOOSE j \in 0..(4 * MaxDuration) : TwoTo[j] <= x /\ x < TwoTo[j + 1]
<1>8. c \in 0..(4 * MaxDuration)
  BY <1>5, <1>7
<1>9. MapToIndex(d) = c - 4 * TicksLog2
  BY DEF MapToIndex, x
<1> HIDE DEF c
<1> QED BY <1>8, <1>9, TicksAssumption

-----------------------------------------------------------------------------
\* How many members of a sequence lie in a set.

CountIn(s, V) == Cardinality({i \in DOMAIN s : s[i] \in V})

LEMMA CountInFacts ==
  ASSUME NEW s \in Seq(Int), NEW V
  PROVE  /\ IsFiniteSet({i \in DOMAIN s : s[i] \in V})
         /\ CountIn(s, V) \in Nat
         /\ CountIn(s, V) = 0 <=> \A i \in DOMAIN s : s[i] \notin V
<1> DEFINE A == {i \in DOMAIN s : s[i] \in V}
<1>1. IsFiniteSet(A)
  <2>1. DOMAIN s = 1..Len(s) /\ Len(s) \in Nat
    OBVIOUS
  <2>2. IsFiniteSet(DOMAIN s)
    BY <2>1, FS_Interval
  <2>3. A \in SUBSET DOMAIN s
    OBVIOUS
  <2> HIDE DEF A
  <2> QED BY <2>2, <2>3, FS_Subset
<1>2. Cardinality(A) \in Nat /\ (Cardinality(A) = 0 <=> A = {})
  BY <1>1, FS_CardinalityType, FS_EmptySet
<1> QED BY <1>1, <1>2 DEF CountIn

LEMMA CountAppended ==
  ASSUME NEW s \in Seq(Int), NEW d \in Int, NEW V
  PROVE  CountIn(Append(s, d), V) = CountIn(s, V) + (IF d \in V THEN 1 ELSE 0)
<1> DEFINE t == Append(s, d)
           n == Len(s) + 1
           A == {i \in DOMAIN s : s[i] \in V}
           B == {i \in DOMAIN t : t[i] \in V}
<1>1. /\ DOMAIN t = DOMAIN s \union {n} /\ n \notin DOMAIN s
      /\ t[n] = d /\ \A i \in DOMAIN s : t[i] = s[i]
  OBVIOUS
<1>2. IsFiniteSet(A) /\ Cardinality(A) \in Nat
  BY CountInFacts DEF CountIn
<1> HIDE DEF t, n
<1>3. CASE d \in V
  <2>1. B = A \union {n} /\ n \notin A
    BY <1>1, <1>3
  <2> HIDE DEF A, B
  <2>2. Cardinality(B) = Cardinality(A) + 1
    BY <1>2, <2>1, FS_AddElement
  <2> QED BY <1>3, <2>2 DEF CountIn, A, B, t
<1>4. CASE d \notin V
  <2>1. B = A
    BY <1>1, <1>4
  <2> HIDE DEF A, B
  <2>2. Cardinality(B) = Cardinality(A) + 0
    BY <1>2, <2>1
  <2> QED BY <1>4, <2>2 DEF CountIn, A, B, t
<1> QED BY <1>3, <1>4

LEMMA CountUnion ==
  ASSUME NEW s \in Seq(Int), NEW V, NEW W, V \cap W = {}
  PROVE  CountIn(s, V \union W) = CountIn(s, V) + CountIn(s, W)
<1> DEFINE A == {i \in DOMAIN s : s[i] \in V}
           B == {i \in DOMAIN s : s[i] \in W}
           C == {i \in DOMAIN s : s[i] \in V \union W}
<1>1. C = A \union B /\ A \cap B = {}
  OBVIOUS
<1>2. IsFiniteSet(A) /\ IsFiniteSet(B) /\ Cardinality(A) \in Nat /\ Cardinality(B) \in Nat
  BY CountInFacts DEF CountIn
<1> HIDE DEF A, B, C
<1>3. Cardinality(C) = Cardinality(A) + Cardinality(B) - Cardinality({})
  BY <1>1, <1>2, FS_Union
<1>4. Cardinality(C) = Cardinality(A) + Cardinality(B)
  BY <1>2, <1>3, FS_EmptySet
<1> QED BY <1>4 DEF CountIn, A, B, C

-----------------------------------------------------------------------------
\* The slice of counts.

Hists == [count: Int, sum: Int, min: Int, max: Int, zeroCount: Int, offset: Int,
          counts: Seq(Nat)]

\* How many durations are counted in a bucket; none outside the slice.
SliceAt(o, c, k) == IF k - o + 1 \in 1..Len(c) THEN c[k - o + 1] ELSE 0
At(h, k) == SliceAt(h.offset, h.counts, k)

Zeros(n) == [i \in 1..n |-> 0]

LEMMA ZerosFacts ==
  ASSUME NEW n \in Nat
  PROVE  Zeros(n) \in Seq(Nat) /\ Len(Zeros(n)) = n /\ \A i \in 1..n : Zeros(n)[i] = 0
BY DEF Zeros

\* Wherever the bucket lies, one more is counted in it and nothing in others.
LEMMA SliceGrowsLeft ==
  ASSUME NEW o \in Int, NEW c \in Seq(Nat), NEW idx \in Int, idx < o
  PROVE  LET s == <<1>> \o Zeros(o - idx - 1) \o c
         IN  /\ s \in Seq(Nat)
             /\ \A k \in Int : SliceAt(idx, s, k) = SliceAt(o, c, k) + (IF k = idx THEN 1 ELSE 0)
<1> DEFINE n == o - idx - 1
           z == Zeros(n)
           s == <<1>> \o z \o c
<1>1. n \in Nat
  OBVIOUS
<1>2. z \in Seq(Nat) /\ Len(z) = n /\ \A i \in 1..n : z[i] = 0
  BY <1>1, ZerosFacts
<1> HIDE DEF z
<1>3. s \in Seq(Nat) /\ Len(s) = 1 + n + Len(c)
  BY <1>2
<1>4. s[1] = 1
  BY <1>2
<1>5. \A i \in 2..(n + 1) : s[i] = 0
  BY <1>2
<1>6. \A i \in 1..Len(c) : s[n + 1 + i] = c[i]
  BY <1>1, <1>2
<1> HIDE DEF s
<1>7. ASSUME NEW k \in Int
      PROVE  SliceAt(idx, s, k) = SliceAt(o, c, k) + (IF k = idx THEN 1 ELSE 0)
  <2> DEFINE i == k - idx + 1
             j == k - o + 1
  <2>0. i = n + 1 + j /\ Len(c) \in Nat /\ i \in Int /\ j \in Int
    OBVIOUS
  <2>1. CASE k < idx
    BY <1>1, <1>3, <2>0, <2>1 DEF SliceAt
  <2>2. CASE k = idx
    BY <1>1, <1>3, <1>4, <2>0, <2>2 DEF SliceAt
  <2>3. CASE idx < k /\ k < o
    <3>1. i \in 2..(n + 1) /\ i \in 1..Len(s) /\ j \notin 1..Len(c)
      BY <1>1, <1>3, <2>0, <2>3
    <3> QED BY <1>5, <2>3, <3>1 DEF SliceAt
  <2>4. CASE o <= k
    <3>1. k # idx
      BY <2>4
    <3>2. CASE j \in 1..Len(c)
      <4>1. i \in 1..Len(s) /\ s[i] = c[j] /\ c[j] \in Nat
        BY <1>1, <1>3, <1>6, <2>0, <3>2
      <4> QED BY <3>1, <3>2, <4>1 DEF SliceAt
    <3>3. CASE j \notin 1..Len(c)
      <4>1. i \notin 1..Len(s)
        BY <1>1, <1>3, <2>0, <2>4, <3>3
      <4> QED BY <3>1, <3>3, <4>1 DEF SliceAt
    <3> QED BY <3>2, <3>3
  <2> QED BY <2>1, <2>2, <2>3, <2>4
<1> QED BY <1>3, <1>7 DEF s, z

LEMMA SliceGrowsRight ==
  ASSUME NEW o \in Int, NEW c \in Seq(Nat), NEW idx \in Int, idx > o + Len(c) - 1
  PROVE  LET s == c \o Zeros(idx - (o + Len(c) - 1) - 1) \o <<1>>
         IN  /\ s \in Seq(Nat)
             /\ \A k \in Int : SliceAt(o, s, k) = SliceAt(o, c, k) + (IF k = idx THEN 1 ELSE 0)
<1> DEFINE m == Len(c)
           n == idx - (o + m - 1) - 1
           z == Zeros(n)
           s == c \o z \o <<1>>
<1>1. n \in Nat /\ m \in Nat
  OBVIOUS
<1>2. z \in Seq(Nat) /\ Len(z) = n /\ \A i \in 1..n : z[i] = 0
  BY <1>1, ZerosFacts
<1> HIDE DEF z
<1>3. s \in Seq(Nat) /\ Len(s) = m + n + 1
  BY <1>2
<1>4. s[m + n + 1] = 1
  BY <1>2
<1>5. \A i \in 1..n : s[m + i] = 0
  BY <1>2
<1>6. \A i \in 1..m : s[i] = c[i]
  BY <1>1, <1>2
<1> HIDE DEF s
<1>7. ASSUME NEW k \in Int
      PROVE  SliceAt(o, s, k) = SliceAt(o, c, k) + (IF k = idx THEN 1 ELSE 0)
  <2> DEFINE j == k - o + 1
  <2>0. j \in Int /\ (k = idx <=> j = m + n + 1)
    BY <1>1
  <2>1. CASE j \in 1..m
    <3>1. k # idx /\ j \in 1..Len(s)
      BY <1>1, <1>3, <2>0, <2>1
    <3>2. s[j] = c[j]
      BY <1>6, <2>1
    <3>3. c[j] \in Nat
      BY <2>1
    <3> QED BY <2>1, <3>1, <3>2, <3>3 DEF SliceAt
  <2>2. CASE j \in (m + 1)..(m + n)
    <3>1. j - m \in 1..n /\ m + (j - m) = j
      BY <1>1, <2>0, <2>2
    <3>2. k # idx /\ j \in 1..Len(s) /\ j \notin 1..m
      BY <1>1, <1>3, <2>0, <2>2
    <3>3. s[j] = 0
      <4>1. s[m + (j - m)] = 0
        BY <1>5, <3>1
      <4> QED BY <3>1, <4>1
    <3> QED BY <3>2, <3>3 DEF SliceAt
  <2>3. CASE j = m + n + 1
    <3>1. k = idx /\ j \in 1..Len(s) /\ s[j] = 1 /\ j \notin 1..m
      BY <1>1, <1>3, <1>4, <2>0, <2>3
    <3> QED BY <3>1 DEF SliceAt
  <2>4. CASE j < 1 \/ j > m + n + 1
    <3>1. k # idx /\ j \notin 1..Len(s) /\ j \notin 1..m
      BY <1>1, <1>3, <2>0, <2>4
    <3> QED BY <3>1 DEF SliceAt
  <2> QED BY <1>1, <2>0, <2>1, <2>2, <2>3, <2>4
<1> QED BY <1>3, <1>7 DEF s, z

LEMMA SliceCounts ==
  ASSUME NEW o \in Int, NEW c \in Seq(Nat), NEW idx \in Int,
         o <= idx, idx <= o + Len(c) - 1
  PROVE  LET s == [c EXCEPT ![idx - o + 1] = @ + 1]
         IN  /\ s \in Seq(Nat)
             /\ \A k \in Int : SliceAt(o, s, k) = SliceAt(o, c, k) + (IF k = idx THEN 1 ELSE 0)
<1> DEFINE at == idx - o + 1
           s == [c EXCEPT ![at] = @ + 1]
<1>1. at \in 1..Len(c)
  OBVIOUS
<1>2. /\ s \in Seq(Nat) /\ Len(s) = Len(c) /\ s[at] = c[at] + 1
      /\ \A i \in 1..Len(c) : i # at => s[i] = c[i]
  BY <1>1
<1> HIDE DEF s
<1>3. ASSUME NEW k \in Int
      PROVE  SliceAt(o, s, k) = SliceAt(o, c, k) + (IF k = idx THEN 1 ELSE 0)
  <2> DEFINE j == k - o + 1
  <2>1. CASE k = idx
    BY <1>1, <1>2, <2>1 DEF SliceAt
  <2>2. CASE k # idx
    <3>1. j # at
      BY <2>2
    <3>2. CASE j \in 1..Len(c)
      <4>1. c[j] \in Nat
        BY <3>2
      <4> HIDE DEF at, j
      <4>2. s[j] = c[j]
        BY <1>2, <3>1, <3>2
      <4> QED BY <1>2, <2>2, <3>2, <4>1, <4>2 DEF SliceAt, j
    <3>3. CASE j \notin 1..Len(c)
      BY <1>2, <2>2, <3>3 DEF SliceAt
    <3> QED BY <3>2, <3>3
  <2> QED BY <2>1, <2>2
<1> QED BY <1>2, <1>3 DEF s

LEMMA IncBucketFacts ==
  ASSUME NEW h \in Hists, NEW idx \in Int
  PROVE  LET r == IncBucket(h, idx)
         IN  /\ r \in Hists
             /\ r.count = h.count /\ r.sum = h.sum /\ r.zeroCount = h.zeroCount
             /\ r.min = h.min /\ r.max = h.max
             /\ \A k \in Int : At(r, k) = At(h, k) + (IF k = idx THEN 1 ELSE 0)
<1> DEFINE o == h.offset
           c == h.counts
           r == IncBucket(h, idx)
           Counted(p, s) ==
             /\ p \in Int /\ s \in Seq(Nat)
             /\ \A k \in Int : SliceAt(p, s, k) = SliceAt(o, c, k) + (IF k = idx THEN 1 ELSE 0)
<1>1. o \in Int /\ c \in Seq(Nat) /\ Len(c) \in Nat
  BY DEF Hists
<1>2. \A p, s : Counted(p, s) /\ r = [h EXCEPT !.offset = p, !.counts = s] =>
                  /\ r \in Hists
                  /\ r.count = h.count /\ r.sum = h.sum /\ r.zeroCount = h.zeroCount
                  /\ r.min = h.min /\ r.max = h.max
                  /\ \A k \in Int : At(r, k) = At(h, k) + (IF k = idx THEN 1 ELSE 0)
  <2> TAKE p, s
  <2> SUFFICES ASSUME Counted(p, s), r = [h EXCEPT !.offset = p, !.counts = s]
               PROVE  /\ r \in Hists
                      /\ r.count = h.count /\ r.sum = h.sum /\ r.zeroCount = h.zeroCount
                      /\ r.min = h.min /\ r.max = h.max
                      /\ \A k \in Int : At(r, k) = At(h, k) + (IF k = idx THEN 1 ELSE 0)
    OBVIOUS
  <2> HIDE DEF r
  <2>1. r \in Hists /\ r.offset = p /\ r.counts = s
    BY DEF Hists
  <2>2. /\ r.count = h.count /\ r.sum = h.sum /\ r.zeroCount = h.zeroCount
        /\ r.min = h.min /\ r.max = h.max
    BY DEF Hists
  <2> QED BY <2>1, <2>2 DEF At
<1>3. \E p, s : Counted(p, s) /\ r = [h EXCEPT !.offset = p, !.counts = s]
  <2>1. CASE c = <<>>
    <3>1. r = [h EXCEPT !.offset = idx, !.counts = <<1>>]
      BY <2>1 DEF IncBucket
    <3>2. Counted(idx, <<1>>)
      <4>1. \A k \in Int : SliceAt(o, c, k) = 0
        BY <2>1 DEF SliceAt
      <4>2. \A k \in Int : SliceAt(idx, <<1>>, k) = IF k = idx THEN 1 ELSE 0
        BY DEF SliceAt
      <4>3. <<1>> \in Seq(Nat)
        OBVIOUS
      <4> QED BY <4>1, <4>2, <4>3
    <3> HIDE DEF Counted, r
    <3> QED BY <3>1, <3>2
  <2>2. CASE c # <<>> /\ idx < o
    <3> DEFINE s == <<1>> \o Zeros(o - idx - 1) \o c
    <3>1. r = [h EXCEPT !.offset = idx, !.counts = s]
      BY <2>2 DEF IncBucket, Zeros
    <3>2. Counted(idx, s)
      BY <1>1, <2>2, SliceGrowsLeft
    <3> HIDE DEF Counted, r, s
    <3> QED BY <3>1, <3>2
  <2>3. CASE c # <<>> /\ idx > o + Len(c) - 1
    <3> DEFINE s == c \o Zeros(idx - (o + Len(c) - 1) - 1) \o <<1>>
    <3>0. ~(idx < o)
      <4>1. Len(c) >= 1
        BY <1>1, <2>3
      <4> QED BY <1>1, <2>3, <4>1
    <3>1. r = [h EXCEPT !.counts = s]
      BY <2>3, <3>0 DEF IncBucket, Zeros
    <3>2. Counted(o, s)
      BY <1>1, <2>3, SliceGrowsRight
    <3> HIDE DEF Counted, r, s
    <3>3. r = [h EXCEPT !.offset = o, !.counts = s]
      BY <3>1 DEF Hists
    <3> QED BY <3>2, <3>3
  <2>4. CASE c # <<>> /\ ~(idx < o) /\ ~(idx > o + Len(c) - 1)
    <3> DEFINE s == [c EXCEPT ![idx - o + 1] = @ + 1]
    <3>1. r = [h EXCEPT !.counts = s]
      BY <2>4 DEF IncBucket
    <3>2. Counted(o, s)
      <4>1. o <= idx /\ idx <= o + Len(c) - 1
        BY <1>1, <2>4
      <4> QED BY <1>1, <4>1, SliceCounts
    <3> HIDE DEF Counted, r, s
    <3>3. r = [h EXCEPT !.offset = o, !.counts = s]
      BY <3>1 DEF Hists
    <3> QED BY <3>2, <3>3
  <2> QED BY <2>1, <2>2, <2>3, <2>4
<1> HIDE DEF Counted, r
<1> QED BY <1>2, <1>3 DEF r

-----------------------------------------------------------------------------
\* The invariant of a histogram: what it says of the durations recorded.

NotNegative == {d \in Samples : d >= 0}
Bucket(k) == {d \in Samples : d > 0 /\ MapToIndex(d) = k}
KeptOf(s) == {s[i] : i \in DOMAIN s} \ {d \in Samples : d < 0}

Extremes(h, s) ==
  IF KeptOf(s) = {} THEN h.min = Infinity /\ h.max = -Infinity
  ELSE /\ h.min \in KeptOf(s) /\ \A d \in KeptOf(s) : h.min <= d
       /\ h.max \in KeptOf(s) /\ \A d \in KeptOf(s) : d <= h.max

Tells(h, s) ==
  /\ s \in Seq(Samples) /\ h \in Hists
  /\ h.count = CountIn(s, NotNegative)
  /\ h.zeroCount = CountIn(s, {0})
  /\ h.sum = SumOf(s)
  /\ Extremes(h, s)
  /\ \A k \in Int : At(h, k) = CountIn(s, Bucket(k))

HistInv == Tells(hist, record)

LEMMA SampleFacts ==
  ASSUME NEW d \in Samples
  PROVE  /\ d \in Int /\ d < Infinity /\ Infinity \in Nat
         /\ d > 0 => MapToIndex(d) \in Int
<1>1. d \in Int /\ d <= MaxDuration /\ MaxDuration \in Nat
  BY SamplesAssumption, TicksAssumption
<1>2. d > 0 => d \in 1..MaxDuration
  BY <1>1
<1> QED BY <1>1, <1>2, IndexType DEF Infinity

LEMMA SamplesAreInts ==
  ASSUME NEW s \in Seq(Samples)
  PROVE  s \in Seq(Int)
<1>1. \A i \in 1..Len(s) : s[i] \in Int
  <2>1. \A i \in 1..Len(s) : s[i] \in Samples
    OBVIOUS
  <2> QED BY <2>1, SamplesAssumption
<1>2. s = [i \in 1..Len(s) |-> s[i]] /\ Len(s) \in Nat
  OBVIOUS
<1> QED BY <1>1, <1>2

LEMMA KeptAppended ==
  ASSUME NEW s \in Seq(Samples), NEW d \in Samples
  PROVE  /\ KeptOf(s) \subseteq NotNegative
         /\ KeptOf(Append(s, d)) = KeptOf(s) \union (IF d < 0 THEN {} ELSE {d})
<1> DEFINE t == Append(s, d)
           n == Len(s) + 1
<1>1. /\ DOMAIN t = DOMAIN s \union {n} /\ t[n] = d
      /\ \A i \in DOMAIN s : t[i] = s[i] /\ s[i] \in Samples
  OBVIOUS
<1>2. \A e \in Samples : e \in Int
  BY SampleFacts
<1>3. KeptOf(s) \subseteq NotNegative
  BY <1>1, <1>2 DEF KeptOf, NotNegative
<1> HIDE DEF t, n
<1>4. {t[i] : i \in DOMAIN t} = {s[i] : i \in DOMAIN s} \union {d}
  BY <1>1
<1>5. KeptOf(t) = KeptOf(s) \union (IF d < 0 THEN {} ELSE {d})
  BY <1>4 DEF KeptOf
<1> QED BY <1>3, <1>5 DEF t

LEMMA NewTells == Tells(NewHist, <<>>)
<1>1. <<>> \in Seq(Samples) /\ <<>> \in Seq(Int) /\ DOMAIN <<>> = {}
  OBVIOUS
<1>2. Infinity \in Int /\ -Infinity \in Int
  BY TicksAssumption DEF Infinity
<1>3. NewHist \in Hists
  BY <1>2 DEF NewHist, Hists
<1>4. \A V : CountIn(<<>>, V) = 0
  BY <1>1, CountInFacts
<1>5. SumOf(<<>>) = 0
  <2> DEFINE a == [i \in 1..Len(<<>>) |-> IF <<>>[i] < 0 THEN 0 ELSE <<>>[i]]
  <2>1. a \in Seq(Int) /\ Len(<<>>) = 0
    OBVIOUS
  <2>2. SumOf(<<>>) = RunningSum(a)[0]
    BY <2>1 DEF SumOf
  <2> HIDE DEF a
  <2> QED BY <2>1, <2>2, RunningSumFacts DEF Sums
<1>6. Extremes(NewHist, <<>>)
  BY DEF Extremes, KeptOf, NewHist
<1>7. \A k \in Int : At(NewHist, k) = 0
  BY DEF At, SliceAt, NewHist
<1> QED BY <1>1, <1>3, <1>4, <1>5, <1>6, <1>7 DEF Tells, NewHist

LEMMA RecordTells ==
  ASSUME NEW h, NEW s, Tells(h, s), NEW d \in Samples
  PROVE  Tells(RecordDuration(h, d), Append(s, d))
<1> DEFINE t == Append(s, d)
           r == [h EXCEPT !.count = @ + 1, !.sum = @ + d,
                          !.min = IF d < @ THEN d ELSE @,
                          !.max = IF d > @ THEN d ELSE @]
           g == RecordDuration(h, d)
<1>1. s \in Seq(Samples) /\ h \in Hists /\ Samples \subseteq Int /\ d \in Int
  BY SamplesAssumption DEF Tells
<1>2. s \in Seq(Int) /\ t \in Seq(Samples)
  BY <1>1, SamplesAreInts
<1>3. \A V : CountIn(t, V) = CountIn(s, V) + (IF d \in V THEN 1 ELSE 0) /\ CountIn(s, V) \in Nat
  BY <1>1, <1>2, CountAppended, CountInFacts
<1>4. SumOf(t) = SumOf(s) + (IF d < 0 THEN 0 ELSE d) /\ SumOf(s) \in Int
  BY <1>1, <1>2, SumAppended
<1>5. /\ KeptOf(s) \subseteq NotNegative
      /\ KeptOf(t) = KeptOf(s) \union (IF d < 0 THEN {} ELSE {d})
  BY <1>1, KeptAppended
<1>6. /\ h.count \in Int /\ h.sum \in Int /\ h.min \in Int /\ h.max \in Int /\ h.zeroCount \in Int
      /\ h.offset \in Int /\ h.counts \in Seq(Nat)
  BY <1>1 DEF Hists
<1> HIDE DEF t
<1>7. CASE d < 0
  <2>1. g = h
    BY <1>7 DEF RecordDuration
  <2>2. /\ d \notin NotNegative /\ d \notin {0} /\ \A k \in Int : d \notin Bucket(k)
    BY <1>1, <1>7 DEF NotNegative, Bucket
  <2>3. KeptOf(t) = KeptOf(s)
    BY <1>5, <1>7
  <2>4. Extremes(h, t)
    BY <2>3 DEF Tells, Extremes
  <2> HIDE DEF g
  <2>5. /\ CountIn(t, NotNegative) = CountIn(s, NotNegative) /\ CountIn(t, {0}) = CountIn(s, {0})
        /\ \A k \in Int : CountIn(t, Bucket(k)) = CountIn(s, Bucket(k))
    BY <1>3, <2>2
  <2>6. SumOf(t) = SumOf(s)
    BY <1>4, <1>7
  <2>7. Tells(h, t)
    BY <1>2, <2>4, <2>5, <2>6 DEF Tells
  <2> QED BY <2>1, <2>7 DEF t, g
<1>8. CASE ~(d < 0)
  <2>0. d >= 0 /\ d \in NotNegative
    BY <1>1, <1>8 DEF NotNegative
  <2>1. /\ r \in Hists /\ r.count = h.count + 1 /\ r.sum = h.sum + d
        /\ r.min = (IF d < h.min THEN d ELSE h.min)
        /\ r.max = (IF d > h.max THEN d ELSE h.max)
        /\ r.zeroCount = h.zeroCount /\ r.offset = h.offset /\ r.counts = h.counts
    <3> DEFINE lo == IF d < h.min THEN d ELSE h.min
               hi == IF d > h.max THEN d ELSE h.max
    <3>1. lo \in Int /\ hi \in Int /\ h.count + 1 \in Int /\ h.sum + d \in Int
      BY <1>1, <1>6
    <3>2. r = [h EXCEPT !.count = h.count + 1, !.sum = h.sum + d, !.min = lo, !.max = hi]
      OBVIOUS
    <3> HIDE DEF r, lo, hi
    <3>3. r \in Hists
      BY <1>1, <3>1, <3>2 DEF Hists
    <3>4. /\ r.count = h.count + 1 /\ r.sum = h.sum + d /\ r.min = lo /\ r.max = hi
          /\ r.zeroCount = h.zeroCount /\ r.offset = h.offset /\ r.counts = h.counts
      BY <1>1, <3>2 DEF Hists
    <3> QED BY <3>3, <3>4 DEF lo, hi
  <2> HIDE DEF r
  <2>2. Extremes(r, t)
    <3>0. KeptOf(t) = KeptOf(s) \union {d} /\ KeptOf(t) # {}
      BY <1>5, <1>8
    <3>1. Extremes(h, s)
      BY DEF Tells
    <3>2. \A e \in KeptOf(s) : e \in Int
      BY <1>1, <1>5 DEF NotNegative
    <3>3. CASE KeptOf(s) = {}
      <4>1. h.min = Infinity /\ h.max = -Infinity /\ KeptOf(t) = {d}
        BY <3>0, <3>1, <3>3 DEF Extremes
      <4>2. d < Infinity /\ -Infinity < d
        BY <1>1, <2>0, SampleFacts
      <4>3. r.min = d /\ r.max = d
        BY <1>1, <1>6, <2>1, <4>1, <4>2
      <4> QED BY <1>1, <4>1, <4>3 DEF Extremes
    <3>4. CASE KeptOf(s) # {}
      <4>1. /\ h.min \in KeptOf(s) /\ \A e \in KeptOf(s) : h.min <= e
            /\ h.max \in KeptOf(s) /\ \A e \in KeptOf(s) : e <= h.max
        BY <3>1, <3>4 DEF Extremes
      <4>2. r.min \in KeptOf(t) /\ r.max \in KeptOf(t)
        BY <2>1, <3>0, <4>1
      <4>3. \A e \in KeptOf(t) : r.min <= e
        BY <1>1, <1>6, <2>1, <3>0, <3>2, <4>1
      <4>4. \A e \in KeptOf(t) : e <= r.max
        BY <1>1, <1>6, <2>1, <3>0, <3>2, <4>1
      <4> QED BY <3>0, <4>2, <4>3, <4>4 DEF Extremes
    <3> QED BY <3>3, <3>4
  <2>3. r.count = CountIn(t, NotNegative) /\ r.sum = SumOf(t)
    <3>1. h.count = CountIn(s, NotNegative) /\ h.sum = SumOf(s)
      BY DEF Tells
    <3>2. CountIn(t, NotNegative) = CountIn(s, NotNegative) + 1
      BY <1>3, <2>0
    <3> QED BY <1>4, <1>8, <2>1, <3>1, <3>2
  <2>4. \A k \in Int : At(r, k) = CountIn(s, Bucket(k))
    BY <2>1 DEF Tells, At
  <2>5. CASE d = 0
    <3> DEFINE z == [r EXCEPT !.zeroCount = @ + 1]
    <3>1. g = z
      BY <1>8, <2>5 DEF RecordDuration, r
    <3>2. /\ z \in Hists /\ z.zeroCount = r.zeroCount + 1 /\ z.count = r.count /\ z.sum = r.sum
          /\ z.min = r.min /\ z.max = r.max /\ z.offset = r.offset /\ z.counts = r.counts
      <4>1. r \in Hists /\ r.zeroCount + 1 \in Int
        BY <1>6, <2>1
      <4>2. z \in Hists
        BY <4>1 DEF Hists
      <4> QED BY <4>1, <4>2 DEF Hists
    <3> HIDE DEF g, z
    <3>3. z.zeroCount = CountIn(t, {0})
      <4>1. h.zeroCount = CountIn(s, {0}) /\ CountIn(t, {0}) = CountIn(s, {0}) + 1
        BY <1>3, <2>5 DEF Tells
      <4> QED BY <2>1, <3>2, <4>1
    <3>4. Extremes(z, t)
      BY <2>2, <3>2 DEF Extremes
    <3>5. \A k \in Int : At(z, k) = CountIn(t, Bucket(k))
      <4>1. ASSUME NEW k \in Int PROVE At(z, k) = CountIn(t, Bucket(k))
        <5>1. d \notin Bucket(k)
          BY <2>5 DEF Bucket
        <5>2. CountIn(t, Bucket(k)) = CountIn(s, Bucket(k))
          BY <1>3, <5>1
        <5>3. At(z, k) = At(r, k)
          BY <3>2 DEF At
        <5> QED BY <2>4, <5>2, <5>3
      <4> QED BY <4>1
    <3>6. Tells(z, t)
      BY <1>2, <2>3, <3>2, <3>3, <3>4, <3>5 DEF Tells
    <3> QED BY <3>1, <3>6 DEF t, g
  <2>6. CASE d # 0
    <3> DEFINE idx == MapToIndex(d)
               b == IncBucket(r, idx)
    <3>0. d > 0 /\ idx \in Int
      BY <1>1, <2>0, <2>6, SampleFacts
    <3>1. g = b
      BY <1>8, <2>6 DEF RecordDuration, r
    <3>2. /\ b \in Hists
          /\ b.count = r.count /\ b.sum = r.sum /\ b.zeroCount = r.zeroCount
          /\ b.min = r.min /\ b.max = r.max
          /\ \A k \in Int : At(b, k) = At(r, k) + (IF k = idx THEN 1 ELSE 0)
      BY <2>1, <3>0, IncBucketFacts
    <3> HIDE DEF g, b
    <3>3. b.zeroCount = CountIn(t, {0})
      <4>1. h.zeroCount = CountIn(s, {0}) /\ CountIn(t, {0}) = CountIn(s, {0})
        BY <1>3, <2>6 DEF Tells
      <4> QED BY <2>1, <3>2, <4>1
    <3>4. Extremes(b, t)
      BY <2>2, <3>2 DEF Extremes
    <3>5. \A k \in Int : At(b, k) = CountIn(t, Bucket(k))
      <4>1. ASSUME NEW k \in Int PROVE At(b, k) = CountIn(t, Bucket(k))
        <5>1. d \in Bucket(k) <=> k = idx
          BY <3>0 DEF Bucket
        <5>2. CountIn(t, Bucket(k)) = CountIn(s, Bucket(k)) + (IF k = idx THEN 1 ELSE 0)
          BY <1>3, <5>1
        <5> QED BY <2>4, <3>2, <5>2
      <4> QED BY <4>1
    <3>6. Tells(b, t)
      BY <1>2, <2>3, <3>2, <3>3, <3>4, <3>5 DEF Tells
    <3> QED BY <3>1, <3>6 DEF t, g
  <2> QED BY <2>5, <2>6
<1> QED BY <1>1, <1>7, <1>8

LEMMA HistInvAlways == HistSpec => []HistInv
<1>1. InitHist => HistInv
  BY NewTells DEF InitHist, HistInv
<1>2. HistInv /\ [NextHist]_<<hist, record>> => HistInv'
  <2> SUFFICES ASSUME HistInv, [NextHist]_<<hist, record>> PROVE HistInv'
    OBVIOUS
  <2>1. ASSUME NEW d \in Samples, Record(d) PROVE HistInv'
    <3>1. Tells(RecordDuration(hist, d), Append(record, d))
      BY RecordTells DEF HistInv
    <3> QED BY <2>1, <3>1 DEF Record, HistInv
  <2>2. CASE Renew
    BY <2>2, NewTells DEF Renew, HistInv
  <2>3. CASE UNCHANGED <<hist, record>>
    BY <2>3 DEF HistInv
  <2> QED BY <2>1, <2>2, <2>3 DEF NextHist
<1> QED BY <1>1, <1>2, PTL DEF HistSpec

-----------------------------------------------------------------------------
\* What the invariant says in terms of the properties.

\* Every positive duration recorded lies in the slice of counts.
LEMMA RecordedIsCounted ==
  ASSUME HistInv, NEW d \in Kept \ {0}
  PROVE  /\ d \in Samples /\ d > 0 /\ MapToIndex(d) \in Int
         /\ MapToIndex(d) - hist.offset + 1 \in DOMAIN hist.counts
<1>1. /\ record \in Seq(Samples) /\ record \in Seq(Int) /\ hist.counts \in Seq(Nat)
      /\ hist.offset \in Int
  <2>1. record \in Seq(Samples) /\ hist \in Hists
    BY DEF HistInv, Tells
  <2> QED BY <2>1, SamplesAreInts DEF Hists
<1>2. PICK i \in DOMAIN record : record[i] = d
  BY DEF Kept
<1>3. d \in Samples /\ d \notin {e \in Samples : e < 0} /\ d # 0
  BY <1>1, <1>2 DEF Kept
<1>4. d \in Int /\ d > 0 /\ MapToIndex(d) \in Int
  <2>1. d \in Int /\ d > 0
    BY <1>3, SampleFacts
  <2> QED BY <1>3, <2>1, SampleFacts
<1> DEFINE k == MapToIndex(d)
<1>5. CountIn(record, Bucket(k)) # 0
  <2>1. d \in Bucket(k)
    BY <1>3, <1>4 DEF Bucket
  <2> QED BY <1>1, <1>2, <2>1, CountInFacts
<1>6. At(hist, k) # 0
  BY <1>4, <1>5 DEF HistInv, Tells
<1>7. k - hist.offset + 1 \in 1..Len(hist.counts)
  BY <1>6 DEF At, SliceAt
<1> QED BY <1>1, <1>3, <1>4, <1>7

\* A count of durations, as the properties state it.
LEMMA CountsAgree ==
  ASSUME NEW s \in Seq(Samples)
  PROVE  /\ Cardinality({i \in DOMAIN s : s[i] >= 0}) = CountIn(s, NotNegative)
         /\ Cardinality({i \in DOMAIN s : s[i] = 0}) = CountIn(s, {0})
         /\ \A k : Cardinality({i \in DOMAIN s : s[i] > 0 /\ MapToIndex(s[i]) = k})
                     = CountIn(s, Bucket(k))
<1>1. \A i \in DOMAIN s : s[i] \in Samples
  OBVIOUS
<1>2. {i \in DOMAIN s : s[i] >= 0} = {i \in DOMAIN s : s[i] \in NotNegative}
  BY <1>1 DEF NotNegative
<1>3. {i \in DOMAIN s : s[i] = 0} = {i \in DOMAIN s : s[i] \in {0}}
  OBVIOUS
<1>4. ASSUME NEW k
      PROVE  {i \in DOMAIN s : s[i] > 0 /\ MapToIndex(s[i]) = k}
               = {i \in DOMAIN s : s[i] \in Bucket(k)}
  BY <1>1 DEF Bucket
<1> QED BY <1>2, <1>3, <1>4 DEF CountIn

\* A histogram says exactly what was recorded, in whatever order its slice of
\* counts grew: how many durations, their sum and extremes, and how many lie in
\* each bucket.
THEOREM HistogramExactCorrect == HistSpec => []HistogramExact
<1>1. HistInv => HistogramExact
  <2> SUFFICES ASSUME HistInv PROVE HistogramExact
    OBVIOUS
  <2>1. Tells(hist, record) /\ record \in Seq(Samples) /\ hist \in Hists
    BY DEF HistInv, Tells
  <2>2. hist.count = Count(LAMBDA d : d >= 0)
    <3>1. Count(LAMBDA d : d >= 0) = Cardinality({i \in DOMAIN record : record[i] >= 0})
      BY DEF Count
    <3> QED BY <2>1, <3>1, CountsAgree DEF Tells
  <2>3. hist.zeroCount = Count(LAMBDA d : d = 0)
    <3>1. Count(LAMBDA d : d = 0) = Cardinality({i \in DOMAIN record : record[i] = 0})
      BY DEF Count
    <3> QED BY <2>1, <3>1, CountsAgree DEF Tells
  <2>4. hist.sum = SumOf(record)
    BY <2>1 DEF Tells
  <2>5. Kept # {} => /\ hist.min \in Kept /\ \A d \in Kept : hist.min <= d
                     /\ hist.max \in Kept /\ \A d \in Kept : d <= hist.max
    <3>1. Kept = KeptOf(record)
      BY DEF Kept, KeptOf
    <3> QED BY <2>1, <3>1 DEF Tells, Extremes
  <2>6. ASSUME NEW i \in DOMAIN hist.counts
        PROVE  hist.counts[i] = Count(LAMBDA d : d > 0 /\ MapToIndex(d) = hist.offset + i - 1)
    <3> DEFINE k == hist.offset + i - 1
    <3>1. hist.offset \in Int /\ hist.counts \in Seq(Nat) /\ i \in 1..Len(hist.counts)
      BY <2>1 DEF Hists
    <3>2. k \in Int /\ k - hist.offset + 1 = i
      BY <3>1
    <3>3. At(hist, k) = hist.counts[i]
      BY <3>1, <3>2 DEF At, SliceAt
    <3>4. Count(LAMBDA d : d > 0 /\ MapToIndex(d) = k)
            = Cardinality({j \in DOMAIN record : record[j] > 0 /\ MapToIndex(record[j]) = k})
      BY DEF Count
    <3>5. At(hist, k) = CountIn(record, Bucket(k))
      BY <2>1, <3>2 DEF Tells
    <3> HIDE DEF k
    <3>6. Count(LAMBDA d : d > 0 /\ MapToIndex(d) = k) = hist.counts[i]
      BY <2>1, <3>3, <3>4, <3>5, CountsAgree
    <3> QED BY <3>6 DEF k
  <2>7. \A d \in Kept \ {0} : MapToIndex(d) - hist.offset + 1 \in DOMAIN hist.counts
    BY RecordedIsCounted
  <2> QED BY <2>2, <2>3, <2>4, <2>5, <2>6, <2>7 DEF HistogramExact
<1> QED BY <1>1, HistInvAlways, PTL

-----------------------------------------------------------------------------
\* The cumulative buckets.

Below(b) == {d \in Samples : d > 0 /\ MapToIndex(d) < b}

\* A bucket that the collector emits counts the positive durations below its bound.
THEOREM ClassicExactCorrect == HistSpec => []ClassicExact
<1>1. HistInv => ClassicExact
  <2> SUFFICES ASSUME HistInv PROVE ClassicExact
    OBVIOUS
  <2> DEFINE n == Len(hist.counts)
             o == hist.offset
  <2>1. /\ record \in Seq(Samples) /\ record \in Seq(Int) /\ hist \in Hists
        /\ hist.counts \in Seq(Nat) /\ o \in Int /\ n \in Nat
    <3>1. record \in Seq(Samples) /\ hist \in Hists
      BY DEF HistInv, Tells
    <3>2. hist.counts \in Seq(Nat) /\ o \in Int
      BY <3>1 DEF Hists
    <3> QED BY <3>1, <3>2, SamplesAreInts
  <2> DEFINE f == RunningSum(hist.counts)
  <2>2. /\ Sums(hist.counts, n, f)
        /\ ClassicBuckets(hist) = [b \in {o + i : i \in DOMAIN hist.counts} |-> f[b - o]]
    <3>1. hist.counts \in Seq(Int)
      BY <2>1
    <3> QED BY <3>1, RunningSumFacts DEF ClassicBuckets
  <2> HIDE DEF f
  <2> DEFINE S == {i \in Nat : i <= n => CountIn(record, Below(o + i)) = f[i]}
  <2>3. 0 \in S
    <3>1. ASSUME NEW i \in DOMAIN record PROVE record[i] \notin Below(o)
      <4>1. SUFFICES ASSUME record[i] \in Below(o) PROVE FALSE
        OBVIOUS
      <4>2. record[i] \in Samples /\ record[i] \in Int /\ record[i] > 0 /\ MapToIndex(record[i]) < o
        BY <4>1, SampleFacts DEF Below
      <4>3. record[i] \in Kept \ {0}
        BY <4>2 DEF Kept
      <4>4. MapToIndex(record[i]) \in Int /\ MapToIndex(record[i]) - o + 1 \in 1..n
        <5>1. DOMAIN hist.counts = 1..n
          BY <2>1
        <5> QED BY <4>3, <5>1, RecordedIsCounted
      <4> QED BY <2>1, <4>2, <4>4
    <3>2. CountIn(record, Below(o)) = 0
      BY <2>1, <3>1, CountInFacts
    <3>3. o + 0 = o
      BY <2>1
    <3> QED BY <2>2, <3>2, <3>3 DEF Sums
  <2>4. ASSUME NEW i \in S PROVE i + 1 \in S
    <3>1. SUFFICES ASSUME i + 1 <= n PROVE CountIn(record, Below(o + (i + 1))) = f[i + 1]
      OBVIOUS
    <3> DEFINE k == o + i
    <3>2. /\ i \in Nat /\ i + 1 \in 1..n /\ (i + 1) - 1 = i /\ k \in Int /\ o + (i + 1) = k + 1
          /\ k - o + 1 = i + 1
      <4>1. i \in Nat
        OBVIOUS
      <4> HIDE DEF S
      <4>2. /\ i + 1 \in 1..n /\ (i + 1) - 1 = i
        BY <2>1, <3>1, <4>1
      <4> HIDE DEF n, o
      <4>3. k \in Int /\ o + (i + 1) = k + 1 /\ k - o + 1 = i + 1
        BY <2>1, <4>1
      <4> QED BY <4>1, <4>2, <4>3
    <3>3. CountIn(record, Below(k)) = f[i]
      BY <2>1, <3>1
    <3> HIDE DEF k, n, o
    <3>4. Below(k + 1) = Below(k) \union Bucket(k) /\ Below(k) \cap Bucket(k) = {}
      <4>1. \A d \in Samples : d > 0 => MapToIndex(d) \in Int
        BY SampleFacts
      <4> QED BY <3>2, <4>1 DEF Below, Bucket
    <3>5. CountIn(record, Below(k + 1)) = f[i] + CountIn(record, Bucket(k))
      BY <2>1, <3>3, <3>4, CountUnion
    <3>6. CountIn(record, Bucket(k)) = hist.counts[i + 1]
      <4>1. At(hist, k) = hist.counts[i + 1]
        BY <3>2 DEF At, SliceAt, n, o
      <4> QED BY <3>2, <4>1 DEF HistInv, Tells
    <3>7. f[i + 1] = f[i] + hist.counts[i + 1]
      BY <2>2, <3>2 DEF Sums
    <3> QED BY <3>2, <3>5, <3>6, <3>7
  <2> HIDE DEF S
  <2>5. S = Nat
    BY <2>3, <2>4, Induction DEF S
  <2>6. ASSUME NEW b \in DOMAIN ClassicBuckets(hist)
        PROVE  ClassicBuckets(hist)[b] = Count(LAMBDA d : d > 0 /\ MapToIndex(d) < b)
    <3>1. PICK i \in 1..n : b = o + i
      <4>1. DOMAIN hist.counts = 1..n
        BY <2>1
      <4>2. DOMAIN ClassicBuckets(hist) = {o + i : i \in DOMAIN hist.counts}
        BY <2>2
      <4> QED BY <4>1, <4>2
    <3>2. ClassicBuckets(hist)[b] = f[i]
      <4>1. b - o = i
        BY <2>1, <3>1
      <4>2. b \in {o + j : j \in DOMAIN hist.counts}
        BY <2>2
      <4> QED BY <2>2, <4>1, <4>2
    <3>3. CountIn(record, Below(b)) = f[i]
      <4>1. i \in S /\ i <= n
        BY <2>1, <2>5, <3>1
      <4> QED BY <3>1, <4>1 DEF S
    <3>4. {j \in DOMAIN record : record[j] > 0 /\ MapToIndex(record[j]) < b}
            = {j \in DOMAIN record : record[j] \in Below(b)}
      BY <2>1 DEF Below
    <3>5. Count(LAMBDA d : d > 0 /\ MapToIndex(d) < b)
            = Cardinality({j \in DOMAIN record : record[j] > 0 /\ MapToIndex(record[j]) < b})
      BY DEF Count
    <3> QED BY <3>2, <3>3, <3>4, <3>5 DEF CountIn
  <2> QED BY <2>6 DEF ClassicExact
<1> QED BY <1>1, HistInvAlways, PTL

-----------------------------------------------------------------------------
\* Native histograms: spans and deltas, and how they are read.

SpanSet == [offset : Int, length : Positive]
Natives == [spans : Seq(SpanSet), deltas : Seq(Int), end : Int, count : Nat]

Widths(sp) == [k \in 1..Len(sp) |-> sp[k].offset + sp[k].length]
Lengths(sp) == [k \in 1..Len(sp) |-> sp[k].length]

\* The buckets that one span stands for: e, b and t are the running sums.
PartOf(sp, e, b, t, k) ==
  {<<e[k - 1] + sp[k].offset + j, t[b[k - 1] + j + 1]>> : j \in 0..(sp[k].length - 1)}

LEMMA NativeParts ==
  ASSUME NEW n
  PROVE  NativeBuckets(n) =
           UNION {PartOf(n.spans, RunningSum(Widths(n.spans)), RunningSum(Lengths(n.spans)),
                         RunningSum(n.deltas), k) : k \in 1..Len(n.spans)}
BY DEF NativeBuckets, PartOf, Widths, Lengths

LEMMA SpanTypes ==
  ASSUME NEW sp \in Seq(SpanSet)
  PROVE  /\ Widths(sp) \in Seq(Int) /\ Len(Widths(sp)) = Len(sp)
         /\ Lengths(sp) \in Seq(Int) /\ Len(Lengths(sp)) = Len(sp)
         /\ \A k \in 1..Len(sp) : /\ sp[k].offset \in Int /\ sp[k].length \in Positive
                                  /\ Widths(sp)[k] = sp[k].offset + sp[k].length
                                  /\ Lengths(sp)[k] = sp[k].length
<1> DEFINE m == Len(sp)
<1>1. m \in Nat /\ \A k \in 1..m : sp[k] \in SpanSet
  OBVIOUS
<1>2. \A k \in 1..m : sp[k].offset \in Int /\ sp[k].length \in Positive
  BY <1>1 DEF SpanSet
<1>3. \A k \in 1..m : sp[k].offset + sp[k].length \in Int /\ sp[k].length \in Int
  BY <1>2 DEF Positive
<1> HIDE DEF m
<1>4. Widths(sp) \in Seq(Int) /\ Len(Widths(sp)) = m
  BY <1>1, <1>3 DEF Widths, m
<1>5. Lengths(sp) \in Seq(Int) /\ Len(Lengths(sp)) = m
  BY <1>1, <1>3 DEF Lengths, m
<1>6. \A k \in 1..m : /\ Widths(sp)[k] = sp[k].offset + sp[k].length
                      /\ Lengths(sp)[k] = sp[k].length
  BY DEF Widths, Lengths, m
<1> QED BY <1>2, <1>4, <1>5, <1>6 DEF m

\* The spans stand for as many buckets as there are deltas; the sum of the
\* deltas is the last count, the last span ends at the last bucket.
Laid(n) ==
  /\ n \in Natives
  /\ RunningSum(Lengths(n.spans))[Len(n.spans)] = Len(n.deltas)
  /\ RunningSum(n.deltas)[Len(n.deltas)] = n.count
  /\ n.spans # <<>> => RunningSum(Widths(n.spans))[Len(n.spans)] = n.end + 1

LEMMA AddBucketType ==
  ASSUME NEW n \in Natives, NEW idx \in Int, NEW c \in Nat
  PROVE  AddBucket(n, idx, c) \in Natives
<1> DEFINE sp == n.spans
           m == Len(sp)
           adjacent == sp # <<>> /\ idx = n.end + 1
           distance == IF sp = <<>> THEN idx ELSE idx - (n.end + 1)
           sq == IF adjacent THEN [sp EXCEPT ![m].length = @ + 1]
                 ELSE Append(sp, [offset |-> distance, length |-> 1])
<1>1. sp \in Seq(SpanSet) /\ n.deltas \in Seq(Int) /\ n.end \in Int /\ n.count \in Nat
  BY DEF Natives
<1>2. sq \in Seq(SpanSet)
  <2>1. CASE adjacent
    <3>1. m \in 1..m /\ sp[m] \in SpanSet
      BY <1>1, <2>1
    <3>2. [sp[m] EXCEPT !.length = @ + 1] \in SpanSet
      BY <3>1 DEF SpanSet, Positive
    <3>3. sq = [sp EXCEPT ![m] = [sp[m] EXCEPT !.length = @ + 1]]
      BY <2>1
    <3> HIDE DEF sq, adjacent
    <3> QED BY <1>1, <3>1, <3>2, <3>3
  <2>2. CASE ~adjacent
    <3>1. [offset |-> distance, length |-> 1] \in SpanSet
      BY <1>1 DEF SpanSet, Positive
    <3>2. sq = Append(sp, [offset |-> distance, length |-> 1])
      BY <2>2
    <3> HIDE DEF sq, adjacent, distance
    <3> QED BY <1>1, <3>1, <3>2
  <2> QED BY <2>1, <2>2
<1>3. Append(n.deltas, c - n.count) \in Seq(Int)
  BY <1>1
<1>4. AddBucket(n, idx, c) =
        [spans |-> sq, deltas |-> Append(n.deltas, c - n.count), end |-> idx, count |-> c]
  BY DEF AddBucket
<1> HIDE DEF sq
<1> QED BY <1>2, <1>3, <1>4 DEF Natives

\* Whatever is read stays, and what is read besides is the bucket added.
LEMMA AddBucketReads ==
  ASSUME NEW n, Laid(n), NEW idx \in Int, NEW c \in Nat
  PROVE  LET r == AddBucket(n, idx, c)
         IN  Laid(r) /\ NativeBuckets(r) = NativeBuckets(n) \union {<<idx, c>>}
<1> DEFINE r == AddBucket(n, idx, c)
           sp == n.spans
           m == Len(sp)
           p == Len(n.deltas)
           e == RunningSum(Widths(sp))
           b == RunningSum(Lengths(sp))
           t == RunningSum(n.deltas)
           sq == r.spans
           f == RunningSum(Widths(sq))
           g == RunningSum(Lengths(sq))
           u == RunningSum(r.deltas)
           Old(k) == PartOf(sp, e, b, t, k)
           New(k) == PartOf(sq, f, g, u, k)
<1>1. /\ n \in Natives /\ sp \in Seq(SpanSet) /\ n.deltas \in Seq(Int) /\ n.end \in Int
      /\ n.count \in Nat /\ m \in Nat /\ p \in Nat
  BY DEF Laid, Natives
<1>2. b[m] = p /\ t[p] = n.count /\ (sp # <<>> => e[m] = n.end + 1)
  BY DEF Laid
<1>3. /\ r \in Natives /\ sq \in Seq(SpanSet)
      /\ r.deltas = Append(n.deltas, c - n.count) /\ r.end = idx /\ r.count = c
  BY <1>1, AddBucketType DEF Natives, AddBucket
<1>4. /\ r.deltas \in Seq(Int) /\ Len(r.deltas) = p + 1 /\ r.deltas[p + 1] = c - n.count
      /\ \A i \in 1..p : r.deltas[i] = n.deltas[i]
  BY <1>1, <1>3
<1>5. NativeBuckets(n) = UNION {Old(k) : k \in 1..m}
  BY NativeParts
<1>6. NativeBuckets(r) = UNION {New(k) : k \in 1..Len(sq)}
  BY NativeParts
<1>7. sq = IF sp # <<>> /\ idx = n.end + 1 THEN [sp EXCEPT ![m].length = @ + 1]
           ELSE Append(sp, [offset |-> IF sp = <<>> THEN idx ELSE idx - (n.end + 1),
                            length |-> 1])
  BY DEF AddBucket
<1> HIDE DEF r, p, m, e, b, t, f, g, u
<1>8. u[p + 1] = c /\ \A i \in 0..p : u[i] = t[i]
  <2>1. \A i \in 0..p : u[i] = t[i]
    <3>1. p <= Len(r.deltas) /\ p <= Len(n.deltas)
      BY <1>1, <1>4 DEF p
    <3> QED BY <1>1, <1>4, <3>1, RunningSumsAgree DEF u, t
  <2>2. u[p + 1] = u[p] + r.deltas[p + 1]
    <3>1. p + 1 \in 1..Len(r.deltas) /\ (p + 1) - 1 = p
      BY <1>1, <1>4
    <3> QED BY <1>4, <3>1, RunningSumNext DEF u
  <2>3. p \in 0..p
    BY <1>1
  <2> QED BY <1>1, <1>2, <1>4, <2>1, <2>2, <2>3
<1>9. ASSUME NEW k \in 1..m
      PROVE  /\ e[k - 1] \in Int /\ b[k - 1] \in Int
             /\ sp[k].offset \in Int /\ sp[k].length \in Positive
             /\ e[k] = e[k - 1] + (sp[k].offset + sp[k].length)
             /\ b[k] = b[k - 1] + sp[k].length
             /\ b[k] <= p /\ 0 <= b[k - 1]
  <2>1. /\ Widths(sp) \in Seq(Int) /\ Len(Widths(sp)) = m
        /\ Lengths(sp) \in Seq(Int) /\ Len(Lengths(sp)) = m
        /\ sp[k].offset \in Int /\ sp[k].length \in Positive
        /\ Widths(sp)[k] = sp[k].offset + sp[k].length
        /\ Lengths(sp)[k] = sp[k].length
    BY <1>1, SpanTypes DEF m
  <2>2. /\ e[k - 1] \in Int /\ e[k] = e[k - 1] + Widths(sp)[k]
        /\ b[k - 1] \in Int /\ b[k] = b[k - 1] + Lengths(sp)[k]
    BY <2>1, RunningSumNext DEF e, b
  <2>3. b[k] <= b[m] /\ 0 <= b[k - 1]
    <3>1. ASSUME NEW i \in 1..Len(Lengths(sp)) PROVE Lengths(sp)[i] >= 0
      <4>1. Lengths(sp)[i] = sp[i].length /\ sp[i].length \in Positive
        BY <1>1, SpanTypes
      <4> QED BY <4>1 DEF Positive
    <3>2. m \in 0..m /\ k \in 0..m /\ k - 1 \in 0..m
      BY <1>1
    <3>3. Len(Lengths(sp)) = m /\ Lengths(sp) \in Seq(Int)
      BY <2>1
    <3> DEFINE a == Lengths(sp)
    <3> HIDE DEF a
    <3>4. a \in Seq(Int) /\ Len(a) = m /\ \A i \in 1..Len(a) : a[i] >= 0
      BY <3>1, <3>3 DEF a
    <3>5. RunningSum(a)[k] <= RunningSum(a)[m] /\ 0 <= RunningSum(a)[k - 1]
      BY <3>2, <3>4, RunningSumGrows
    <3> QED BY <3>5 DEF b, a
  <2> QED BY <1>2, <2>1, <2>2, <2>3
<1>10. ASSUME NEW k \in 1..m
       PROVE  Old(k) = PartOf(sp, e, b, u, k)
  <2>1. ASSUME NEW j \in 0..(sp[k].length - 1) PROVE t[b[k - 1] + j + 1] = u[b[k - 1] + j + 1]
    <3>1. /\ b[k - 1] \in Int /\ 0 <= b[k - 1] /\ b[k] = b[k - 1] + sp[k].length
          /\ b[k] <= p /\ sp[k].length \in Nat
      BY <1>9 DEF Positive
    <3> DEFINE x == b[k - 1]
               l == sp[k].length
               y == b[k]
    <3>2. x \in Int /\ 0 <= x /\ y = x + l /\ y <= p /\ l \in Nat /\ j \in 0..(l - 1)
      BY <3>1
    <3> HIDE DEF x, l, y
    <3>3. x + j + 1 \in 0..p
      BY <1>1, <3>2
    <3>4. b[k - 1] + j + 1 \in 0..p
      BY <3>3 DEF x
    <3> QED BY <1>8, <3>4
  <2> QED BY <2>1 DEF PartOf
<1>11. ASSUME NEW q \in Nat, q <= m, q <= Len(sq), \A k \in 1..q : sq[k] = sp[k]
       PROVE  /\ \A k \in 0..q : f[k] = e[k] /\ g[k] = b[k]
              /\ \A k \in 1..q : New(k) = Old(k)
  <2>0. /\ Widths(sp) \in Seq(Int) /\ Len(Widths(sp)) = m
        /\ Lengths(sp) \in Seq(Int) /\ Len(Lengths(sp)) = m
        /\ Widths(sq) \in Seq(Int) /\ Len(Widths(sq)) = Len(sq)
        /\ Lengths(sq) \in Seq(Int) /\ Len(Lengths(sq)) = Len(sq)
    BY <1>1, <1>3, SpanTypes DEF m
  <2>1. \A k \in 1..q : Widths(sq)[k] = Widths(sp)[k] /\ Lengths(sq)[k] = Lengths(sp)[k]
    <3>0. Len(sq) \in Nat
      BY <1>3
    <3>1. \A k \in 1..q : k \in 1..m /\ k \in 1..Len(sq)
      <4> DEFINE z == Len(sq)
      <4>1. z \in Nat /\ q <= z
        BY <1>11, <3>0
      <4> HIDE DEF z, sq
      <4>2. \A k \in 1..q : k \in 1..m /\ k \in 1..z
        BY <1>1, <1>11, <4>1
      <4> QED BY <4>2 DEF z
    <3> QED BY <1>11, <3>1 DEF Widths, Lengths, m
  <2>2. \A k \in 0..q : f[k] = e[k]
    BY <1>11, <2>0, <2>1, RunningSumsAgree DEF f, e
  <2>3. \A k \in 0..q : g[k] = b[k]
    BY <1>11, <2>0, <2>1, RunningSumsAgree DEF g, b
  <2>4. ASSUME NEW k \in 1..q PROVE New(k) = Old(k)
    <3>1. k \in 1..m /\ k - 1 \in 0..q /\ sq[k] = sp[k]
      BY <1>1, <1>11
    <3>2. New(k) = PartOf(sp, e, b, u, k)
      BY <2>2, <2>3, <3>1 DEF PartOf
    <3> QED BY <1>10, <3>1, <3>2
  <2> QED BY <2>2, <2>3, <2>4
<1>12. ASSUME NEW k \in 1..Len(sq)
       PROVE  /\ f[k] = f[k - 1] + (sq[k].offset + sq[k].length)
              /\ g[k] = g[k - 1] + sq[k].length
  <2>1. /\ Widths(sq) \in Seq(Int) /\ Len(Widths(sq)) = Len(sq)
        /\ Lengths(sq) \in Seq(Int) /\ Len(Lengths(sq)) = Len(sq)
        /\ Widths(sq)[k] = sq[k].offset + sq[k].length
        /\ Lengths(sq)[k] = sq[k].length
    BY <1>3, SpanTypes
  <2> QED BY <2>1, RunningSumNext DEF f, g
<1>13. ASSUME NEW q \in Nat, Len(sq) = q, q > 0, g[q] = p + 1, f[q] = idx + 1
       PROVE  Laid(r)
  BY <1>3, <1>4, <1>8, <1>13 DEF Laid, f, g, u
<1>14. CASE sp # <<>> /\ idx = n.end + 1
  <2>1. m \in 1..m /\ m > 0 /\ m - 1 \in Nat /\ m - 1 <= m
    BY <1>1, <1>14 DEF m
  <2>2. sp[m] \in SpanSet /\ sp[m].offset \in Int /\ sp[m].length \in Positive
    BY <1>9, <2>1, <1>1 DEF m
  <2>3. sq = [sp EXCEPT ![m] = [sp[m] EXCEPT !.length = @ + 1]]
    BY <1>7, <1>14
  <2>4. /\ Len(sq) = m /\ sq[m] = [sp[m] EXCEPT !.length = @ + 1]
        /\ \A k \in 1..(m - 1) : sq[k] = sp[k]
    <3> HIDE DEF sq, sp
    <3>1. sp \in Seq(SpanSet) /\ Len(sp) = m
      BY <1>1 DEF m
    <3>2. [sp[m] EXCEPT !.length = @ + 1] \in SpanSet
      BY <2>2 DEF SpanSet, Positive
    <3> DEFINE x == [sp[m] EXCEPT !.length = @ + 1]
    <3> HIDE DEF x
    <3>3. sq = [sp EXCEPT ![m] = x]
      BY <2>3 DEF x
    <3>4. Len(sq) = m /\ sq[m] = x /\ \A k \in 1..(m - 1) : sq[k] = sp[k]
      BY <2>1, <3>1, <3>3
    <3> QED BY <3>4 DEF x
  <2>5. sq[m].offset = sp[m].offset /\ sq[m].length = sp[m].length + 1
    BY <2>2, <2>4 DEF SpanSet
  <2>6. /\ \A k \in 0..(m - 1) : f[k] = e[k] /\ g[k] = b[k]
        /\ \A k \in 1..(m - 1) : New(k) = Old(k)
    BY <1>11, <2>1, <2>4
  <2>7. f[m - 1] = e[m - 1] /\ g[m - 1] = b[m - 1]
    <3>1. m - 1 \in 0..(m - 1)
      BY <2>1
    <3> QED BY <2>6, <3>1
  <2>8. /\ e[m - 1] \in Int /\ b[m - 1] \in Int
        /\ e[m - 1] + sp[m].offset + sp[m].length = idx
        /\ b[m - 1] + sp[m].length = p
    <3>1. /\ e[m - 1] \in Int /\ b[m - 1] \in Int
          /\ e[m] = e[m - 1] + (sp[m].offset + sp[m].length)
          /\ b[m] = b[m - 1] + sp[m].length
      BY <1>9, <2>1
    <3>2. e[m] = n.end + 1 /\ b[m] = p /\ idx = n.end + 1
      BY <1>2, <1>14
    <3>3. sp[m].offset \in Int /\ sp[m].length \in Int
      BY <2>2 DEF Positive
    <3> QED BY <3>1, <3>2, <3>3
  <2>9. f[m] = idx + 1 /\ g[m] = p + 1
    <3>1. /\ f[m] = f[m - 1] + (sq[m].offset + sq[m].length)
          /\ g[m] = g[m - 1] + sq[m].length
      BY <1>12, <2>1, <2>4
    <3> QED BY <2>2, <2>5, <2>7, <2>8, <3>1 DEF Positive
  <2>10. New(m) = Old(m) \union {<<idx, c>>}
    <3> DEFINE l == sp[m].length
               o == sp[m].offset
               At2(j) == <<e[m - 1] + o + j, u[b[m - 1] + j + 1]>>
    <3>1. New(m) = {At2(j) : j \in 0..((l + 1) - 1)}
      BY <2>5, <2>7 DEF PartOf
    <3>2. Old(m) = {At2(j) : j \in 0..(l - 1)}
      BY <1>10, <2>1 DEF PartOf
    <3>3. At2(l) = <<idx, c>>
      BY <1>8, <2>8
    <3>4. 0..((l + 1) - 1) = 0..(l - 1) \union {l}
      BY <2>2 DEF Positive
    <3> HIDE DEF At2, l, New, Old
    <3> QED BY <3>1, <3>2, <3>3, <3>4
  <2>11. (UNION {New(k) : k \in 1..m})
           = (UNION {Old(k) : k \in 1..m}) \union {<<idx, c>>}
    <3>1. 1..m = 1..(m - 1) \union {m}
      BY <2>1
    <3> HIDE DEF New, Old
    <3> QED BY <2>6, <2>10, <3>1
  <2>12. Laid(r)
    BY <1>1, <1>13, <2>1, <2>4, <2>9
  <2> QED BY <1>5, <1>6, <2>4, <2>11, <2>12 DEF r
<1>15. CASE ~(sp # <<>> /\ idx = n.end + 1)
  <2> DEFINE distance == IF sp = <<>> THEN idx ELSE idx - (n.end + 1)
             x == [offset |-> distance, length |-> 1]
  <2>1. sq = Append(sp, x)
    BY <1>7, <1>15
  <2>2. distance \in Int /\ x \in SpanSet /\ x.offset = distance /\ x.length = 1
    BY <1>1 DEF SpanSet, Positive
  <2> HIDE DEF x
  <2>3. Len(sq) = m + 1 /\ sq[m + 1] = x /\ \A k \in 1..m : sq[k] = sp[k]
    <3> HIDE DEF sq, sp
    <3>1. sp \in Seq(SpanSet) /\ Len(sp) = m
      BY <1>1 DEF m
    <3> QED BY <2>1, <2>2, <3>1
  <2>4. /\ \A k \in 0..m : f[k] = e[k] /\ g[k] = b[k]
        /\ \A k \in 1..m : New(k) = Old(k)
    <3>1. m <= m /\ m <= Len(sq)
      BY <1>1, <2>3
    <3> QED BY <1>1, <1>11, <2>3, <3>1
  <2>5. f[m] = e[m] /\ g[m] = p
    <3>1. m \in 0..m
      BY <1>1
    <3> QED BY <1>2, <2>4, <3>1
  <2>6. e[m] + distance = idx /\ e[m] \in Int
    <3>1. CASE sp = <<>>
      <4>1. m = 0
        BY <3>1 DEF m
      <4>2. e[0] = 0
        <5>1. Widths(sp) \in Seq(Int)
          BY <1>1, SpanTypes
        <5> QED BY <5>1, RunningSumFacts DEF Sums, e
      <4> QED BY <3>1, <4>1, <4>2
    <3>2. CASE sp # <<>>
      <4>1. e[m] = n.end + 1
        BY <1>2, <3>2
      <4> QED BY <1>1, <3>2, <4>1
    <3> QED BY <3>1, <3>2
  <2>7. f[m + 1] = idx + 1 /\ g[m + 1] = p + 1
    <3>1. m + 1 \in 1..Len(sq) /\ (m + 1) - 1 = m
      BY <1>1, <2>3
    <3>2. /\ f[m + 1] = f[m] + (sq[m + 1].offset + sq[m + 1].length)
          /\ g[m + 1] = g[m] + sq[m + 1].length
      BY <1>12, <3>1
    <3> HIDE DEF distance
    <3> QED BY <1>1, <2>2, <2>3, <2>5, <2>6, <3>2
  <2>8. New(m + 1) = {<<idx, c>>}
    <3>1. New(m + 1) = {<<f[m] + sq[m + 1].offset + j, u[g[m] + j + 1]>> :
                          j \in 0..(sq[m + 1].length - 1)}
      <4>1. (m + 1) - 1 = m
        BY <1>1
      <4> QED BY <4>1 DEF PartOf
    <3>2. 0..(sq[m + 1].length - 1) = {0}
      BY <2>2, <2>3
    <3>3. f[m] + sq[m + 1].offset + 0 = idx /\ u[g[m] + 0 + 1] = c
      <4> HIDE DEF distance
      <4>1. f[m] + sq[m + 1].offset + 0 = idx
        BY <2>2, <2>3, <2>5, <2>6
      <4>2. g[m] + 0 + 1 = p + 1
        BY <1>1, <2>5
      <4> QED BY <1>8, <4>1, <4>2
    <3> HIDE DEF New
    <3> QED BY <3>1, <3>2, <3>3
  <2>9. (UNION {New(k) : k \in 1..(m + 1)})
          = (UNION {Old(k) : k \in 1..m}) \union {<<idx, c>>}
    <3>1. 1..(m + 1) = 1..m \union {m + 1}
      BY <1>1
    <3> HIDE DEF New, Old
    <3> QED BY <2>4, <2>8, <3>1
  <2>10. Laid(r)
    <3>1. m + 1 \in Nat /\ m + 1 > 0
      BY <1>1
    <3> QED BY <1>13, <2>3, <2>7, <3>1
  <2> QED BY <1>5, <1>6, <2>3, <2>9, <2>10 DEF r
<1> QED BY <1>14, <1>15

LEMMA NothingRead == Laid(NoBuckets) /\ NativeBuckets(NoBuckets) = {}
<1> DEFINE n == NoBuckets
<1>1. n.spans = <<>> /\ n.deltas = <<>> /\ n.end = 0 /\ n.count = 0
  BY DEF NoBuckets
<1>2. n \in Natives
  <2>1. <<>> \in Seq(SpanSet) /\ <<>> \in Seq(Int) /\ 0 \in Int /\ 0 \in Nat
    OBVIOUS
  <2> QED BY <2>1 DEF NoBuckets, Natives
<1>3. RunningSum(n.deltas)[0] = 0
  <2>1. n.deltas \in Seq(Int)
    BY <1>1
  <2> QED BY <2>1, RunningSumFacts DEF Sums
<1>4. RunningSum(Lengths(n.spans))[0] = 0
  <2>1. n.spans \in Seq(SpanSet)
    BY <1>1
  <2>2. Lengths(n.spans) \in Seq(Int)
    BY <2>1, SpanTypes
  <2> QED BY <2>2, RunningSumFacts DEF Sums
<1>5. Len(n.spans) = 0 /\ Len(n.deltas) = 0
  BY <1>1
<1>6. Laid(n)
  BY <1>1, <1>2, <1>3, <1>4, <1>5 DEF Laid
<1>7. NativeBuckets(n) = {}
  <2>1. 1..Len(n.spans) = {}
    BY <1>5
  <2> QED BY <2>1, NativeParts
<1> QED BY <1>6, <1>7

\* The buckets with durations in them, among the first i of the slice.
Filled(h, i) == {<<h.offset + q, h.counts[q]>> : q \in {q \in 1..i : h.counts[q] # 0}}

LEMMA NonEmptyRead ==
  ASSUME NEW h \in Hists
  PROVE  /\ Laid(NonEmptyBuckets(h))
         /\ NativeBuckets(NonEmptyBuckets(h)) = Filled(h, Len(h.counts))
<1> DEFINE o == h.offset
           c == h.counts
           n == Len(c)
           Step(i, x) == IF c[i] = 0 THEN x ELSE AddBucket(x, o + i, c[i])
           Rec(f) == f = [i \in 0..n |-> IF i = 0 THEN NoBuckets
                                         ELSE IF c[i] = 0 THEN f[i - 1]
                                         ELSE AddBucket(f[i - 1], o + i, c[i])]
           F == CHOOSE f : Rec(f)
           s == [i \in 1..n |-> [x \in Natives |-> Step(i, x)]]
<1>1. o \in Int /\ n \in Nat /\ \A i \in 1..n : c[i] \in Nat
  BY DEF Hists
<1>2. NoBuckets \in Natives
  BY NothingRead DEF Laid
<1>3. s \in [1..n -> [Natives -> Natives]]
  <2>1. ASSUME NEW i \in 1..n, NEW x \in Natives PROVE Step(i, x) \in Natives
    <3>1. o + i \in Int /\ c[i] \in Nat
      BY <1>1
    <3> QED BY <3>1, AddBucketType
  <2> QED BY <2>1
<1> HIDE DEF s, n, o, c
<1>4. PICK f \in [0..n -> Natives] :
        f[0] = NoBuckets /\ \A i \in 1..n : f[i] = s[i][f[i - 1]]
  <2>1. Recursive(Natives)
    BY RecursionExists
  <2> HIDE DEF Rec, F
  <2> QED BY <1>1, <1>2, <1>3, <2>1 DEF Recursive
<1>5. ASSUME NEW i \in 1..n PROVE f[i] = Step(i, f[i - 1])
  <2>1. i - 1 \in 0..n
    BY <1>1
  <2>2. f[i - 1] \in Natives
    BY <1>4, <2>1
  <2> QED BY <1>4, <2>2 DEF s
<1>6. Rec(f)
  <2>1. ASSUME NEW i \in 0..n
        PROVE  f[i] = IF i = 0 THEN NoBuckets
                      ELSE IF c[i] = 0 THEN f[i - 1]
                      ELSE AddBucket(f[i - 1], o + i, c[i])
    <3>1. CASE i = 0
      BY <1>4, <3>1
    <3>2. CASE i # 0
      <4>1. i \in 1..n
        BY <1>1, <3>2
      <4> QED BY <1>5, <3>2, <4>1
    <3> QED BY <3>1, <3>2
  <2> QED BY <1>4, <2>1
<1>7. Rec(F)
  <2> HIDE DEF Rec
  <2> QED BY <1>6
<1>8. NonEmptyBuckets(h) = F[n]
  BY DEF NonEmptyBuckets, n, o, c
<1> HIDE DEF F
<1>9. F[0] = NoBuckets
  <2>1. 0 \in 0..n
    BY <1>1
  <2> QED BY <1>7, <2>1
<1>10. ASSUME NEW i \in 1..n PROVE F[i] = Step(i, F[i - 1])
  <2>1. i \in 0..n /\ i # 0
    BY <1>1
  <2> QED BY <1>7, <2>1
<1> HIDE DEF Rec
<1> DEFINE Good(i) == Laid(F[i]) /\ NativeBuckets(F[i]) = Filled(h, i)
           S == {i \in Nat : i <= n => Good(i)}
<1>11. 0 \in S
  <2>1. Filled(h, 0) = {}
    <3>1. 1..0 = {}
      OBVIOUS
    <3> QED BY <3>1 DEF Filled
  <2> QED BY <1>9, <2>1, NothingRead
<1>12. ASSUME NEW i \in S PROVE i + 1 \in S
  <2>1. SUFFICES ASSUME i + 1 <= n PROVE Good(i + 1)
    OBVIOUS
  <2>2. i \in Nat /\ i <= n /\ i + 1 \in 1..n /\ (i + 1) - 1 = i
    BY <1>1, <2>1
  <2>3. Laid(F[i]) /\ NativeBuckets(F[i]) = Filled(h, i)
    BY <2>2
  <2>4. F[i + 1] = Step(i + 1, F[i])
    BY <1>10, <2>2
  <2>5. 1..(i + 1) = 1..i \union {i + 1}
    BY <2>2
  <2> HIDE DEF S
  <2>6. CASE c[i + 1] = 0
    <3>1. Filled(h, i + 1) = Filled(h, i)
      BY <2>5, <2>6 DEF Filled, c
    <3> QED BY <2>3, <2>4, <2>6, <3>1
  <2>7. CASE c[i + 1] # 0
    <3>1. Filled(h, i + 1) = Filled(h, i) \union {<<o + (i + 1), c[i + 1]>>}
      BY <2>5, <2>7 DEF Filled, c, o
    <3>2. o + (i + 1) \in Int /\ c[i + 1] \in Nat
      BY <1>1, <2>2
    <3>3. F[i + 1] = AddBucket(F[i], o + (i + 1), c[i + 1])
      BY <2>4, <2>7
    <3> DEFINE x == F[i]
               a == c[i + 1]
               idx == o + (i + 1)
    <3>4. Laid(x) /\ idx \in Int /\ a \in Nat
      BY <2>3, <3>2
    <3> HIDE DEF x, a, idx
    <3>5. /\ Laid(AddBucket(x, idx, a))
          /\ NativeBuckets(AddBucket(x, idx, a)) = NativeBuckets(x) \union {<<idx, a>>}
      BY <3>4, AddBucketReads
    <3> QED BY <2>3, <3>1, <3>3, <3>5 DEF x, a, idx
  <2> QED BY <2>6, <2>7
<1> HIDE DEF S
<1>13. S = Nat
  BY <1>11, <1>12, Induction DEF S
<1>14. Good(n)
  <2>1. n \in S /\ n <= n
    BY <1>1, <1>13
  <2> QED BY <2>1 DEF S
<1> QED BY <1>8, <1>14 DEF n, c

LEMMA ToPromNativeRead ==
  ASSUME NEW h \in Hists
  PROVE  NativeBuckets(ToPromNative(h)) = Filled(h, Len(h.counts))
<1> DEFINE n == NonEmptyBuckets(h)
           r == ToPromNative(h)
<1>1. r.spans = (IF n.spans = <<>> THEN <<[offset |-> 0, length |-> 0]>> ELSE n.spans)
      /\ r.deltas = n.deltas
  BY DEF ToPromNative
<1>2. NativeBuckets(n) = Filled(h, Len(h.counts))
  BY NonEmptyRead
<1> HIDE DEF n, r
<1>3. CASE n.spans # <<>>
  <2>1. r.spans = n.spans /\ r.deltas = n.deltas
    BY <1>1, <1>3
  <2>2. NativeBuckets(r) = NativeBuckets(n)
    BY <2>1, NativeParts
  <2> QED BY <1>2, <2>2 DEF r
<1>4. CASE n.spans = <<>>
  <2>1. NativeBuckets(n) = {}
    <3>1. 1..Len(n.spans) = {}
      BY <1>4
    <3> QED BY <3>1, NativeParts
  <2>2. NativeBuckets(r) = {}
    <3>1. r.spans = <<[offset |-> 0, length |-> 0]>>
      BY <1>1, <1>4
    <3>2. 1..Len(r.spans) = {1} /\ r.spans[1].length = 0 /\ 0..(0 - 1) = {}
      BY <3>1
    <3>3. PartOf(r.spans, RunningSum(Widths(r.spans)), RunningSum(Lengths(r.spans)),
                 RunningSum(r.deltas), 1) = {}
      BY <3>2 DEF PartOf
    <3> QED BY <3>2, <3>3, NativeParts
  <2> QED BY <1>2, <2>1, <2>2 DEF r
<1> QED BY <1>3, <1>4

\* The spans and deltas that Prometheus is given, read back as it reads them,
\* are exactly the buckets that durations were recorded in, each with their
\* number: no gap is lost or shifted, whatever was recorded.
THEOREM NativeExactCorrect == HistSpec => []NativeExact
<1>1. HistInv => NativeExact
  <2> SUFFICES ASSUME HistInv PROVE NativeExact
    OBVIOUS
  <2> DEFINE o == hist.offset
             c == hist.counts
             Told(d) == <<MapToIndex(d) + 1, CountIn(record, Bucket(MapToIndex(d)))>>
  <2>1. /\ record \in Seq(Samples) /\ record \in Seq(Int) /\ hist \in Hists
        /\ o \in Int /\ c \in Seq(Nat) /\ DOMAIN c = 1..Len(c)
        /\ \A k \in Int : At(hist, k) = CountIn(record, Bucket(k))
    <3>1. record \in Seq(Samples) /\ hist \in Hists
      BY DEF HistInv, Tells
    <3>2. o \in Int /\ c \in Seq(Nat)
      BY <3>1 DEF Hists
    <3> QED BY <3>1, <3>2, SamplesAreInts DEF HistInv, Tells
  <2>2. ASSUME NEW q \in 1..Len(c)
        PROVE  o + q - 1 \in Int /\ c[q] = CountIn(record, Bucket(o + q - 1))
    <3>1. o + q - 1 \in Int /\ (o + q - 1) - o + 1 = q
      BY <2>1
    <3>2. At(hist, o + q - 1) = c[q]
      BY <3>1 DEF At, SliceAt
    <3> QED BY <2>1, <3>1, <3>2
  <2>3. NativeBuckets(ToPromNative(hist)) = Filled(hist, Len(c))
    BY <2>1, ToPromNativeRead
  <2>4. ASSUME NEW q \in 1..Len(c), c[q] # 0
        PROVE  \E d \in Kept \ {0} : Told(d) = <<o + q, c[q]>>
    <3> DEFINE k == o + q - 1
    <3>1. k \in Int /\ c[q] = CountIn(record, Bucket(k))
      BY <2>2
    <3>2. PICK j \in DOMAIN record : record[j] \in Bucket(k)
      <4>1. CountIn(record, Bucket(k)) # 0
        BY <2>4, <3>1
      <4>2. ASSUME \A j \in DOMAIN record : record[j] \notin Bucket(k)
            PROVE  FALSE
        <5>1. {j \in DOMAIN record : record[j] \in Bucket(k)} = {}
          BY <4>2
        <5> QED BY <4>1, <5>1, FS_EmptySet DEF CountIn
      <4> QED BY <4>2
    <3>3. record[j] \in Samples /\ record[j] > 0 /\ MapToIndex(record[j]) = k
      BY <3>2 DEF Bucket
    <3>4. record[j] \in Kept \ {0}
      <4>1. record[j] \in Int
        BY <3>3, SampleFacts
      <4> QED BY <3>3, <4>1 DEF Kept
    <3>5. k + 1 = o + q
      BY <2>1
    <3>6. Told(record[j]) = <<o + q, c[q]>>
      BY <3>1, <3>3, <3>5
    <3> QED BY <3>4, <3>6
  <2>5. ASSUME NEW d \in Kept \ {0}
        PROVE  \E q \in 1..Len(c) : c[q] # 0 /\ Told(d) = <<o + q, c[q]>>
    <3> DEFINE k == MapToIndex(d)
               q == k - o + 1
    <3>1. d \in Samples /\ d > 0 /\ k \in Int /\ q \in 1..Len(c)
      BY <2>1, RecordedIsCounted
    <3> HIDE DEF k
    <3>2. o + q - 1 = k /\ k + 1 = o + q
      <4>1. o \in Int
        BY <2>1
      <4> HIDE DEF o
      <4> QED BY <3>1, <4>1
    <3>3. c[q] = CountIn(record, Bucket(k))
      BY <2>2, <3>1, <3>2
    <3>4. c[q] # 0
      <4>1. PICK i \in DOMAIN record : record[i] = d
        BY DEF Kept
      <4>2. d \in Bucket(k)
        BY <3>1 DEF Bucket, k
      <4> QED BY <2>1, <3>3, <4>1, <4>2, CountInFacts
    <3>5. Told(d) = <<o + q, c[q]>>
      BY <3>2, <3>3 DEF k
    <3> QED BY <3>1, <3>4, <3>5
  <2>6. Filled(hist, Len(c)) = {Told(d) : d \in Kept \ {0}}
    <3> HIDE DEF Told
    <3> QED BY <2>4, <2>5 DEF Filled
  <2>7. ASSUME NEW d
        PROVE  Count(LAMBDA e : e > 0 /\ MapToIndex(e) = MapToIndex(d))
                 = CountIn(record, Bucket(MapToIndex(d)))
    <3>1. Count(LAMBDA e : e > 0 /\ MapToIndex(e) = MapToIndex(d))
            = Cardinality({i \in DOMAIN record :
                             record[i] > 0 /\ MapToIndex(record[i]) = MapToIndex(d)})
      BY DEF Count
    <3> QED BY <2>1, <3>1, CountsAgree
  <2>8. {Told(d) : d \in Kept \ {0}}
          = {<<MapToIndex(d) + 1, Count(LAMBDA e : e > 0 /\ MapToIndex(e) = MapToIndex(d))>>
               : d \in Kept \ {0}}
    <3> DEFINE Number(d) == Count(LAMBDA e : e > 0 /\ MapToIndex(e) = MapToIndex(d))
    <3>1. \A d : Told(d) = <<MapToIndex(d) + 1, Number(d)>>
      BY <2>7
    <3> HIDE DEF Number, Told
    <3>2. {Told(d) : d \in Kept \ {0}} = {<<MapToIndex(d) + 1, Number(d)>> : d \in Kept \ {0}}
      BY <3>1
    <3> QED BY <3>2 DEF Number
  <2> QED BY <2>3, <2>6, <2>8 DEF NativeExact
<1> QED BY <1>1, HistInvAlways, PTL
=============================================================================
