----------------------------- MODULE FrostProofs -----------------------------
(***************************************************************************)
(* For every prime group order, number of members and threshold: that no   *)
(* honest member of a ceremony is blamed and every bad partial is, that    *)
(* the partials of t members or more make a valid signature if each of     *)
(* them verifies and none if a single one does not, and that t - 1 members *)
(* make none.                                                              *)
(*                                                                         *)
(* What the recursive functions of frost.ts compute is proved on the way:  *)
(* the least number, or a minimal set, for which a fact fails leads to a   *)
(* smaller one, which stands in for induction.  L is prime, so that        *)
(* factors cancel modulo L and a ^ (L - 2) is the inverse of a; the        *)
(* interpolations over ids and over ids \ {a} are related, which gives     *)
(* those of the powers of the members one after the other, and with them   *)
(* that of a polynomial.                                                   *)
(***************************************************************************)
EXTENDS Frost, FiniteSetTheorems, WellFoundedInduction, TLAPS

(***************************************************************************)
(* Smallest counterexamples.                                               *)
(***************************************************************************)
\* A counterexample among the numbers has a smallest one.
LEMMA LeastOf ==
    ASSUME NEW B, B \subseteq Nat, B # {}
    PROVE  \E n \in B : \A m \in B : n <= m
<1>1. PICK n \in B : \A m \in B : ~ (<<m, n>> \in OpToRel(<, Nat))
  BY NatLessThanWellFounded, WFMin, Zenon
<1>2. \A m \in B : n <= m
  <2> TAKE m \in B
  <2>1. ~ (m < n) /\ m \in Nat /\ n \in Nat
    BY <1>1, Zenon DEF OpToRel
  <2> QED
    BY <2>1, SMT
<1> QED
  BY <1>2

(***************************************************************************)
(* Arithmetic modulo L.                                                    *)
(***************************************************************************)
LEMMA OrderIs == L \in Nat /\ L \in Int /\ L > 2
BY FrostAssumption

LEMMA Divided ==
    ASSUME NEW a \in Int
    PROVE  /\ a \div L \in Int /\ mod(a) \in 0 .. L - 1
           /\ a = L * (a \div L) + mod(a)
BY OrderIs, SMT DEF mod

LEMMA RemainderIsOne ==
    ASSUME NEW q \in Int, NEW r \in Int, r > -L, r < L, r = L * q
    PROVE  q = 0
<1>1. q >= 1 => L * q >= L
  BY OrderIs, SMT
<1>2. q <= -1 => L * q <= -L
  BY OrderIs, SMT
<1> QED
  BY <1>1, <1>2, OrderIs, SMT

\* Multiples of L do not matter.
LEMMA ModOfMultiple ==
    ASSUME NEW a \in Int, NEW b \in Int, NEW k \in Int, a = b + L * k
    PROVE  mod(a) = mod(b)
<1> DEFINE q == (a \div L) - (b \div L) - k
<1>1. /\ a \div L \in Int /\ mod(a) \in 0 .. L - 1 /\ a = L * (a \div L) + mod(a)
      /\ b \div L \in Int /\ mod(b) \in 0 .. L - 1 /\ b = L * (b \div L) + mod(b)
  BY Divided
<1>2. L * q = L * (a \div L) - L * (b \div L) - L * k
  BY <1>1, OrderIs, SMT
<1> DEFINE r == mod(b) - mod(a)
<1>3. r = L * q /\ q \in Int /\ r \in Int /\ r > -L /\ r < L
  BY <1>1, <1>2, OrderIs, SMT
<1> HIDE DEF q, r
<1>4. q = 0
  BY <1>3, RemainderIsOne
<1>5. r = 0
  BY <1>3, <1>4, OrderIs, SMT
<1> QED
  BY <1>1, <1>5, SMT DEF r

\* Both sides of the equation of a partial: the member reduces once, the
\* coordinator also reduces the scalar it multiplies a point by.
MemberSide(x, lambda, s, e) == mod(x + lambda * s * e)
CoordinatorSide(x, lambda, s, e) == mod(x + mod(e * lambda) * s)

LEMMA ReducedFactor ==
    ASSUME NEW x \in Int, NEW lambda \in Int, NEW s \in Int, NEW e \in Int
    PROVE  /\ MemberSide(x, lambda, s, e) = CoordinatorSide(x, lambda, s, e)
           /\ MemberSide(x, lambda, s, e) \in Scalars
<1> DEFINE p == e * lambda
           k == (p \div L) * s
<1>1. p \in Int /\ p \div L \in Int /\ mod(p) \in Int /\ p = L * (p \div L) + mod(p)
  BY Divided, SMT
<1>2. lambda * s * e = p * s
  BY SMT
<1> HIDE DEF p
<1>3. k \in Int /\ mod(p) * s \in Int
  BY <1>1, SMT
<1>4. p * s = (L * (p \div L)) * s + mod(p) * s
  <2> DEFINE u == L * (p \div L)
  <2>1. u \in Int /\ p = u + mod(p)
    BY <1>1, OrderIs, SMT
  <2> HIDE DEF u
  <2>2. (u + mod(p)) * s = u * s + mod(p) * s
    BY <1>1, <2>1, SMT
  <2> QED
    BY <2>1, <2>2 DEF u
<1>5. (L * (p \div L)) * s = L * k
  BY <1>1, OrderIs, SMT
<1> HIDE DEF k
<1>6. x + lambda * s * e = x + mod(p) * s + L * k
  BY <1>2, <1>3, <1>4, <1>5, OrderIs, SMT
<1>7. /\ x + lambda * s * e \in Int /\ x + mod(p) * s \in Int
  BY <1>3, SMT
<1>8. mod(x + lambda * s * e) = mod(x + mod(p) * s)
  BY <1>3, <1>6, <1>7, ModOfMultiple
<1>9. mod(x + lambda * s * e) \in Scalars
  BY <1>7, Divided DEF Scalars
<1> QED
  BY <1>8, <1>9 DEF p, MemberSide, CoordinatorSide

(***************************************************************************)
(* Induction, and arithmetic modulo the prime L.                           *)
(***************************************************************************)
\* Induction on a set of numbers, and on a set of sets: what fails would fail
\* for a smallest one.
LEMMA NumberInduction ==
    ASSUME NEW P, 0 \in P, \A n \in Nat : n \in P => n + 1 \in P
    PROVE  Nat \subseteq P
<1> SUFFICES ASSUME Nat \ P # {} PROVE FALSE
  OBVIOUS
<1>1. PICK n \in Nat \ P : \A m \in Nat \ P : n <= m
  BY LeastOf
<1>2. n # 0
  OBVIOUS
<1>3. n - 1 \in Nat
  BY <1>2
<1>4. n - 1 \in P => (n - 1) + 1 \in P
  BY <1>3
<1>5. n - 1 \in P
  BY <1>1, <1>3
<1>6. (n - 1) + 1 = n
  BY <1>1
<1> QED
  BY <1>4, <1>5, <1>6

\* A minimal set without P would be one whose proper subsets all have it.
LEMMA SetInduction ==
    ASSUME NEW S, IsFiniteSet(S), NEW P,
           \A s \in SUBSET S : (\A r \in SUBSET s : r # s => r \in P) => s \in P
    PROVE  SUBSET S \subseteq P
<1> DEFINE Bad == {s \in SUBSET S : s \notin P}
           Sizes == {Cardinality(s) : s \in Bad}
<1> SUFFICES ASSUME Bad # {} PROVE FALSE
  OBVIOUS
<1>1. Sizes \subseteq Nat /\ Sizes # {}
  BY FS_Subset, FS_CardinalityType
<1>2. PICK n \in Sizes : \A m \in Sizes : n <= m
  BY <1>1, LeastOf
<1>3. PICK s \in Bad : n = Cardinality(s)
  OBVIOUS
<1>4. ASSUME NEW r \in SUBSET s, r # s PROVE r \in P
  <2>1. IsFiniteSet(s) /\ r \in SUBSET S
    BY FS_Subset
  <2>2. Cardinality(r) < Cardinality(s)
    <3>1. Cardinality(r) <= Cardinality(s) /\ Cardinality(r) # Cardinality(s)
      BY <1>4, <2>1, FS_Subset
    <3>2. Cardinality(r) \in Nat /\ Cardinality(s) \in Nat
      BY <2>1, FS_Subset, FS_CardinalityType
    <3> QED
      BY <3>1, <3>2
  <2>3. Cardinality(r) \in Nat /\ Cardinality(s) \in Nat
    BY <2>1, FS_Subset, FS_CardinalityType
  <2>4. ~(Cardinality(s) <= Cardinality(r))
    BY <2>2, <2>3
  <2> QED
    BY <1>2, <1>3, <2>1, <2>4
<1> QED
  BY <1>3, <1>4

\* Products the provers are not to multiply out.
Times(a, b) == a * b

\* Multiplication, under a name that the provers leave alone.
LEMMA TimesIsInt == \A a, b \in Int : Times(a, b) \in Int
BY SMT DEF Times

LEMMA TimesSwaps == \A a, b \in Int : Times(a, b) = Times(b, a)
BY SMT DEF Times

LEMMA TimesUnits == \A a \in Int : Times(0, a) = 0 /\ Times(1, a) = a
BY SMT DEF Times

LEMMA TimesAssociates == \A a, b, k \in Int : Times(Times(a, b), k) = Times(a, Times(b, k))
BY SMT DEF Times

LEMMA TimesDistributes ==
    ASSUME NEW a \in Int, NEW b \in Int, NEW k \in Int
    PROVE  /\ Times(a, b + k) = Times(a, b) + Times(a, k)
           /\ Times(a + b, k) = Times(a, k) + Times(b, k)
           /\ Times(a, b - k) = Times(a, b) - Times(a, k)
           /\ Times(a - b, k) = Times(a, k) - Times(b, k)
BY SMT DEF Times

LEMMA ModOfTimes ==
    ASSUME NEW a \in Int, NEW b \in Int, NEW k \in Int, a = b + Times(L, k)
    PROVE  mod(a) = mod(b)
BY ModOfMultiple DEF Times

\* Sums and products do not depend on the representatives.
LEMMA ScalarIsReduced ==
    ASSUME NEW a \in Scalars
    PROVE  a \in Int /\ mod(a) = a
<1>1. a \in Int /\ a >= 0 /\ a < L
  BY OrderIs DEF Scalars
<1>2. /\ a \div L \in Int /\ mod(a) \in 0 .. L - 1
      /\ a = L * (a \div L) + mod(a)
  BY <1>1, Divided
<1> DEFINE r == a - mod(a)
<1>3. r \in Int /\ r > -L /\ r < L /\ r = L * (a \div L)
  BY <1>1, <1>2, OrderIs
<1> HIDE DEF r
<1>4. a \div L = 0
  BY <1>2, <1>3, RemainderIsOne
<1>5. L * (a \div L) = 0
  BY <1>4, OrderIs
<1> QED
  BY <1>1, <1>2, <1>5

LEMMA ModIsScalar ==
    ASSUME NEW a \in Int
    PROVE  mod(a) \in Scalars /\ mod(a) \in Int /\ mod(mod(a)) = mod(a)
<1>1. mod(a) \in Scalars
  BY Divided DEF Scalars
<1> QED
  BY <1>1, ScalarIsReduced

LEMMA ZeroIsReduced == mod(0) = 0 /\ mod(1) = 1
<1>1. 0 \in Scalars /\ 1 \in Scalars
  BY OrderIs DEF Scalars
<1> QED
  BY <1>1, ScalarIsReduced

\* Congruence modulo L, and what keeps it.
LEMMA SameBy ==
    ASSUME NEW a \in Int, NEW b \in Int, mod(a) = mod(b)
    PROVE  \E k \in Int : a = b + Times(L, k)
<1> DEFINE p == a \div L
           q == b \div L
<1>1. /\ p \in Int /\ q \in Int /\ mod(b) \in Int
      /\ a = Times(L, p) + mod(b) /\ b = Times(L, q) + mod(b)
  BY Divided DEF Times
<1> HIDE DEF p, q
<1>2. L \in Int /\ p - q \in Int /\ Times(L, p) \in Int /\ Times(L, q) \in Int
  BY <1>1, OrderIs, TimesIsInt
<1>3. Times(L, p - q) = Times(L, p) - Times(L, q)
  BY <1>1, <1>2, TimesDistributes
<1>4. a = b + Times(L, p - q)
  BY <1>1, <1>2, <1>3
<1> QED
  BY <1>2, <1>4

LEMMA SameSum ==
    ASSUME NEW a \in Int, NEW a2 \in Int, mod(a) = mod(a2),
           NEW b \in Int, NEW b2 \in Int, mod(b) = mod(b2)
    PROVE  mod(a + b) = mod(a2 + b2) /\ mod(a - b) = mod(a2 - b2)
<1>1. PICK k \in Int : a = a2 + Times(L, k)
  BY SameBy
<1>2. PICK m \in Int : b = b2 + Times(L, m)
  BY SameBy
<1>3. L \in Int /\ Times(L, k) \in Int /\ Times(L, m) \in Int
  BY OrderIs, TimesIsInt
<1>4. /\ Times(L, k + m) = Times(L, k) + Times(L, m)
      /\ Times(L, k - m) = Times(L, k) - Times(L, m)
  BY <1>3, TimesDistributes
<1>5. a + b = (a2 + b2) + Times(L, k + m) /\ a - b = (a2 - b2) + Times(L, k - m)
  BY <1>1, <1>2, <1>3, <1>4
<1>6. /\ a + b \in Int /\ a2 + b2 \in Int /\ k + m \in Int
      /\ a - b \in Int /\ a2 - b2 \in Int /\ k - m \in Int
  OBVIOUS
<1> QED
  BY <1>5, <1>6, ModOfTimes

LEMMA SameProduct ==
    ASSUME NEW a \in Int, NEW a2 \in Int, mod(a) = mod(a2),
           NEW b \in Int, NEW b2 \in Int, mod(b) = mod(b2)
    PROVE  mod(Times(a, b)) = mod(Times(a2, b2))
<1>1. PICK k \in Int : a = a2 + Times(L, k)
  BY SameBy
<1>2. PICK m \in Int : b = b2 + Times(L, m)
  BY SameBy
<1> DEFINE lk == Times(L, k)
           lm == Times(L, m)
           j == Times(a2, m) + Times(k, b)
<1>3. L \in Int /\ lm \in Int /\ lk \in Int /\ a = a2 + lk /\ b = b2 + lm
  BY <1>1, <1>2, OrderIs, TimesIsInt
<1>4. j \in Int /\ Times(a, b) \in Int /\ Times(a2, b2) \in Int
  BY TimesIsInt
<1>5. Times(lk, b) + Times(a2, lm) = Times(L, j)
  BY <1>3, SMT DEF Times
<1> HIDE DEF lk, lm, j
<1>6. Times(a2 + lk, b) = Times(a2, b) + Times(lk, b)
  BY <1>3, SMT DEF Times
<1>7. Times(a2, b2 + lm) = Times(a2, b2) + Times(a2, lm)
  BY <1>3, SMT DEF Times
<1>8. Times(lk, b) \in Int /\ Times(a2, lm) \in Int /\ Times(a2, b) \in Int
  BY <1>3, TimesIsInt
<1>9. Times(a, b) = Times(a2, b2) + Times(L, j)
  BY <1>3, <1>4, <1>5, <1>6, <1>7, <1>8
<1> QED
  BY <1>4, <1>9, ModOfTimes

\* The two numbers differ by a multiple of L.
LEMMA SameIsNoDifference ==
    ASSUME NEW a \in Int, NEW b \in Int
    PROVE  mod(a) = mod(b) <=> mod(a - b) = 0
<1>1. a - b \in Int /\ b - b = 0 /\ 0 \in Int /\ (a - b) + b = a /\ 0 + b = b
  OBVIOUS
<1>2. mod(a) = mod(b) => mod(a - b) = 0
  BY <1>1, SameSum, ZeroIsReduced
<1>3. mod(a - b) = 0 => mod(a) = mod(b)
  <2>1. mod(a - b) = 0 => mod((a - b) + b) = mod(0 + b)
    BY <1>1, SameSum, ZeroIsReduced
  <2> QED
    BY <1>1, <2>1
<1> QED
  BY <1>2, <1>3

\* No product is zero modulo L but of a factor that is.
LEMMA ZeroTimes ==
    ASSUME NEW a \in Int, NEW b \in Int, mod(a) = 0
    PROVE  mod(Times(a, b)) = 0 /\ mod(Times(b, a)) = 0
<1>1. 0 \in Int /\ mod(a) = mod(0)
  BY ZeroIsReduced
<1>2. mod(Times(a, b)) = mod(Times(0, b))
  BY <1>1, SameProduct
<1>3. Times(0, b) = 0 /\ Times(b, a) = Times(a, b)
  BY TimesUnits, TimesSwaps
<1> QED
  BY <1>2, <1>3, ZeroIsReduced

\* L is prime: a product is no multiple of L unless a factor is.
LEMMA NoZeroDivisors ==
    ASSUME NEW a \in Int, NEW b \in Int, mod(Times(a, b)) = 0, mod(b) # 0
    PROVE  mod(a) = 0
<1> DEFINE B == {m \in 1 .. L : mod(Times(m, b)) = 0}
<1>1. L \in B /\ B \subseteq Nat
  <2>1. L \in Int /\ L = 0 + Times(L, 1) /\ 0 \in Int /\ 1 \in Int /\ L \in 1 .. L
    BY OrderIs DEF Times
  <2>2. mod(L) = mod(0)
    BY <2>1, ModOfTimes
  <2>3. mod(Times(L, b)) = 0
    BY <2>1, <2>2, ZeroTimes, ZeroIsReduced
  <2> QED
    BY <2>1, <2>3
<1>2. PICK m \in B : \A k \in B : m <= k
  BY <1>1, LeastOf
<1>3. m \in Nat /\ m >= 1 /\ m <= L /\ mod(Times(m, b)) = 0
  BY OrderIs
<1>4. ASSUME NEW x \in Int, mod(Times(x, b)) = 0 PROVE x % m = 0
  <2> DEFINE q == x \div m
             r == x % m
  <2>1. q \in Int /\ r \in Int /\ r >= 0 /\ r < m /\ x = Times(q, m) + r
    BY <1>3 DEF Times
  <2> HIDE DEF q, r
  <2>2. Times(q, m) \in Int /\ Times(m, b) \in Int /\ Times(x, b) \in Int
    BY <1>3, <2>1, TimesIsInt
  <2>3. Times(r, b) = Times(x, b) - Times(q, Times(m, b)) /\ Times(q, Times(m, b)) \in Int
    <3>1. r = x - Times(q, m)
      BY <2>1, <2>2
    <3>2. Times(x - Times(q, m), b) = Times(x, b) - Times(Times(q, m), b)
      BY <2>2, TimesDistributes
    <3>3. Times(Times(q, m), b) = Times(q, Times(m, b))
      BY <1>3, <2>1, TimesAssociates
    <3> QED
      BY <2>1, <2>2, <3>1, <3>2, <3>3, TimesIsInt
  <2>4. mod(Times(q, Times(m, b))) = 0
    BY <1>3, <2>1, <2>2, ZeroTimes
  <2>5. mod(Times(r, b)) = 0
    BY <1>4, <2>2, <2>3, <2>4, SameIsNoDifference
  <2>6. r \notin B
    BY <1>2, <1>3, <2>1
  <2>7. r = 0
    <3>1. r \notin 1 .. L
      BY <2>5, <2>6
    <3> QED
      BY <1>3, <2>1, <3>1, OrderIs
  <2> QED
    BY <2>7 DEF r
<1>5. L % m = 0
  <2>1. L \in Int /\ mod(Times(L, b)) = 0
    BY <1>1, OrderIs
  <2> QED
    BY <1>4, <2>1, Zenon
<1>6. m = 1 \/ m = L
  <2>1. m \notin 2 .. L - 1
    BY <1>5, FrostAssumption
  <2> QED
    BY <1>3, <2>1, OrderIs
<1>7. m # 1
  BY <1>3, TimesUnits
<1>8. a % L = 0
  BY <1>4, <1>6, <1>7
<1> QED
  BY <1>8 DEF mod

\* A factor that is not zero modulo L cancels.
LEMMA Cancelled ==
    ASSUME NEW a \in Int, NEW b \in Int, NEW k \in Int,
           mod(Times(a, k)) = mod(Times(b, k)), mod(k) # 0
    PROVE  mod(a) = mod(b)
<1>1. /\ Times(a, k) \in Int /\ Times(b, k) \in Int /\ a - b \in Int
      /\ Times(a - b, k) = Times(a, k) - Times(b, k)
  BY TimesIsInt, TimesDistributes
<1>2. mod(Times(a - b, k)) = 0
  BY <1>1, SameIsNoDifference
<1>3. mod(a - b) = 0
  BY <1>1, <1>2, NoZeroDivisors
<1> QED
  BY <1>3, SameIsNoDifference

(***************************************************************************)
(* modPow: that there is a recursive function like its own, and what it is.*)
(***************************************************************************)
PowerStep(b, n, f) ==
    [e \in 0 .. n |-> IF e = 0 THEN 1
       ELSE mod(f[e \div 2] * f[e \div 2] * (IF e % 2 = 1 THEN b ELSE 1))]

PowerOf(b, n) == CHOOSE f : f = PowerStep(b, n, f)

LEMMA PowerIs ==
    ASSUME NEW b, NEW n
    PROVE  modPow(b, n) = PowerOf(b, n)[n]
BY DEF modPow, PowerStep, PowerOf

LEMMA Halved ==
    ASSUME NEW e \in Nat, e > 0
    PROVE  e \div 2 \in 0 .. e - 1
BY SMT

LEMMA SquareIsInt ==
    ASSUME NEW b \in Int, NEW e \in Nat, NEW v \in Int
    PROVE  mod(v * v * (IF e % 2 = 1 THEN b ELSE 1)) \in Int
<1>1. v * v * (IF e % 2 = 1 THEN b ELSE 1) \in Int
  BY SMT
<1> QED
  BY <1>1, Divided, SMT

\* The recursive function behind modPow exists: if it did not for some n,
\* there would be a least one, and a function for n - 1 to extend.
LEMMA PowerExists ==
    ASSUME NEW b \in Int, NEW n \in Nat
    PROVE  \E f \in [0 .. n -> Int] : f = PowerStep(b, n, f)
<1> DEFINE Good(k) == \E f \in [0 .. k -> Int] : f = PowerStep(b, k, f)
           Bad == {k \in Nat : ~Good(k)}
<1>1. Good(0)
  <2> DEFINE f == [e \in 0 .. 0 |-> 1]
  <2>1. f = PowerStep(b, 0, f)
    BY DEF PowerStep
  <2> QED
    BY <2>1
<1>2. ASSUME NEW k \in Nat \ {0}, Good(k - 1) PROVE Good(k)
  <2>1. PICK g \in [0 .. k - 1 -> Int] : g = PowerStep(b, k - 1, g)
    BY <1>2
  <2>2. \A e \in 0 .. k - 1 :
           g[e] = IF e = 0 THEN 1
                  ELSE mod(g[e \div 2] * g[e \div 2] * (IF e % 2 = 1 THEN b ELSE 1))
    BY <2>1, Zenon DEF PowerStep
  <2> DEFINE last == mod(g[k \div 2] * g[k \div 2] * (IF k % 2 = 1 THEN b ELSE 1))
             f == [e \in 0 .. k |-> IF e = k THEN last ELSE g[e]]
  <2>3. k \div 2 \in 0 .. k - 1
    BY Halved
  <2>4. last \in Int
    BY <2>3, SquareIsInt
  <2> HIDE DEF last
  <2>5. f \in [0 .. k -> Int]
    BY <2>4
  <2>6. ASSUME NEW e \in 0 .. k
        PROVE  f[e] = IF e = 0 THEN 1
                      ELSE mod(f[e \div 2] * f[e \div 2] * (IF e % 2 = 1 THEN b ELSE 1))
    <3>1. CASE e = k
      <4>1. f[e \div 2] = g[k \div 2] /\ f[e] = last
        BY <2>3, <3>1
      <4> QED
        BY <3>1, <4>1 DEF last
    <3>2. CASE e # k /\ e # 0
      <4>1. e \in 0 .. k - 1 /\ e \div 2 \in 0 .. e - 1
        BY <3>2, Halved
      <4>2. e \div 2 \in 0 .. k /\ e \div 2 # k
        BY <4>1
      <4>3. f[e \div 2] = g[e \div 2] /\ f[e] = g[e]
        BY <3>2, <4>2
      <4> QED
        BY <2>2, <3>2, <4>1, <4>3, Zenon
    <3>3. CASE e # k /\ e = 0
      BY <2>2, <3>3
    <3> QED
      BY <3>1, <3>2, <3>3
  <2>7. f = PowerStep(b, k, f)
    <3> HIDE DEF f
    <3> QED
      BY <2>5, <2>6, Zenon DEF PowerStep
  <2> QED
    BY <2>5, <2>7
<1>3. Bad = {}
  <2> SUFFICES ASSUME Bad # {} PROVE FALSE
    OBVIOUS
  <2> HIDE DEF Good
  <2>1. PICK k \in Bad : \A m \in Bad : k <= m
    BY LeastOf
  <2>2. k # 0 /\ k \in Nat
    BY <1>1
  <2>3. k - 1 \in Nat /\ k - 1 \notin Bad
    BY <2>1, <2>2
  <2>4. Good(k - 1)
    BY <2>3
  <2> QED
    BY <1>2, <2>2, <2>4
<1> QED
  BY <1>3

LEMMA PowerOfIs ==
    ASSUME NEW b \in Int, NEW n \in Nat
    PROVE  \A e \in 0 .. n : PowerOf(b, n)[e] =
              IF e = 0 THEN 1
              ELSE mod(PowerOf(b, n)[e \div 2] * PowerOf(b, n)[e \div 2]
                       * (IF e % 2 = 1 THEN b ELSE 1))
<1> DEFINE g == PowerOf(b, n)
<1>1. g = PowerStep(b, n, g)
  BY PowerExists, Zenon DEF PowerOf
<1> HIDE DEF g
<1>2. \A e \in 0 .. n : g[e] =
          IF e = 0 THEN 1
          ELSE mod(g[e \div 2] * g[e \div 2] * (IF e % 2 = 1 THEN b ELSE 1))
  BY <1>1, Zenon DEF PowerStep
<1> QED
  BY <1>2, Zenon DEF g

\* However far the function is computed, its values are the same.
LEMMA PowersAgree ==
    ASSUME NEW b \in Int
    PROVE  \A e \in Nat : \A n \in Nat : e <= n => PowerOf(b, n)[e] = modPow(b, e)
<1> DEFINE Bad == {e \in Nat : \E n \in Nat : e <= n /\ PowerOf(b, n)[e] # modPow(b, e)}
<1> SUFFICES ASSUME Bad # {} PROVE FALSE
  OBVIOUS
<1>1. PICK e \in Bad : \A m \in Bad : e <= m
  <2>1. Bad \subseteq Nat
    OBVIOUS
  <2> QED
    BY <2>1, LeastOf
<1>2. PICK n \in Nat : e <= n /\ PowerOf(b, n)[e] # modPow(b, e)
  OBVIOUS
<1>3. e \in Nat /\ e \in 0 .. n /\ e \in 0 .. e
  BY <1>2
<1>4. modPow(b, e) = PowerOf(b, e)[e]
  BY PowerIs
<1>5. e # 0
  BY <1>2, <1>3, <1>4, PowerOfIs, Zenon
<1>6. e \div 2 \in 0 .. e - 1
  BY <1>3, <1>5, Halved
<1>7. e \div 2 \in Nat /\ e \div 2 <= e /\ e \div 2 <= n /\ ~(e <= e \div 2)
  BY <1>2, <1>3, <1>6
<1>8. e \div 2 \notin Bad
  BY <1>1, <1>7
<1>9. PowerOf(b, n)[e \div 2] = PowerOf(b, e)[e \div 2]
  BY <1>3, <1>7, <1>8
<1>10. /\ PowerOf(b, n)[e] = mod(PowerOf(b, n)[e \div 2] * PowerOf(b, n)[e \div 2]
                                * (IF e % 2 = 1 THEN b ELSE 1))
       /\ PowerOf(b, e)[e] = mod(PowerOf(b, e)[e \div 2] * PowerOf(b, e)[e \div 2]
                                * (IF e % 2 = 1 THEN b ELSE 1))
  BY <1>3, <1>5, PowerOfIs, Zenon
<1> QED
  BY <1>2, <1>4, <1>9, <1>10, Zenon

LEMMA PowerHalves ==
    ASSUME NEW b \in Int, NEW e \in Nat
    PROVE  modPow(b, e) = IF e = 0 THEN 1
              ELSE mod(modPow(b, e \div 2) * modPow(b, e \div 2) * (IF e % 2 = 1 THEN b ELSE 1))
<1>1. e \in 0 .. e /\ modPow(b, e) = PowerOf(b, e)[e]
  BY PowerIs
<1>2. CASE e = 0
  BY <1>1, <1>2, PowerOfIs, Zenon
<1>3. CASE e # 0
  <2>1. e \div 2 \in 0 .. e - 1
    BY <1>3, Halved
  <2>2. e \div 2 \in Nat /\ e \div 2 <= e
    BY <2>1
  <2>3. PowerOf(b, e)[e \div 2] = modPow(b, e \div 2)
    BY <2>2, PowersAgree, Zenon
  <2> QED
    BY <1>1, <1>3, <2>3, PowerOfIs, Zenon
<1> QED
  BY <1>2, <1>3

LEMMA PowerIsInt ==
    ASSUME NEW b \in Int, NEW n \in Nat
    PROVE  modPow(b, n) \in Int
<1> DEFINE Bad == {e \in Nat : modPow(b, e) \notin Int}
<1> SUFFICES ASSUME Bad # {} PROVE FALSE
  OBVIOUS
<1>1. PICK e \in Bad : \A m \in Bad : e <= m
  <2>1. Bad \subseteq Nat
    OBVIOUS
  <2> QED
    BY <2>1, LeastOf
<1>2. e \in Nat /\ modPow(b, e) \notin Int
  OBVIOUS
<1>3. e # 0
  <2>1. 1 \in Int
    OBVIOUS
  <2> QED
    BY <1>2, <2>1, PowerHalves, Zenon
<1>4. e \div 2 \in 0 .. e - 1
  BY <1>2, <1>3, Halved
<1>5. modPow(b, e \div 2) \in Int
  BY <1>1, <1>2, <1>4
<1>6. modPow(b, e) = mod(modPow(b, e \div 2) * modPow(b, e \div 2) * (IF e % 2 = 1 THEN b ELSE 1))
  BY <1>2, <1>3, PowerHalves, Zenon
<1>7. mod(modPow(b, e \div 2) * modPow(b, e \div 2) * (IF e % 2 = 1 THEN b ELSE 1)) \in Int
  BY <1>2, <1>5, SquareIsInt, Zenon
<1> QED
  BY <1>2, <1>6, <1>7, Zenon

\* modPow computes powers modulo L.
LEMMA PowerNext ==
    ASSUME NEW b \in Int, NEW n \in Nat
    PROVE  mod(modPow(b, n + 1)) = mod(Times(b, modPow(b, n)))
<1> DEFINE Bad == {e \in Nat : mod(modPow(b, e + 1)) # mod(Times(b, modPow(b, e)))}
<1> SUFFICES ASSUME Bad # {} PROVE FALSE
  OBVIOUS
<1>1. PICK e \in Bad : \A m \in Bad : e <= m
  <2>1. Bad \subseteq Nat
    OBVIOUS
  <2> QED
    BY <2>1, LeastOf
<1>2. e \in Nat /\ mod(modPow(b, e + 1)) # mod(Times(b, modPow(b, e)))
  OBVIOUS
<1> DEFINE k == e \div 2
           h == modPow(b, k)
           q == Times(h, h)
<1>3. k \in Nat /\ e + 1 \in Nat /\ e + 1 # 0
  BY <1>2
<1>4. h \in Int /\ q \in Int /\ Times(q, b) \in Int
  BY <1>3, PowerIsInt, TimesIsInt
<1>5. CASE e % 2 = 0
  <2>1. e = 2 * k /\ (e + 1) \div 2 = k /\ (e + 1) % 2 = 1
    BY <1>2, <1>5
  <2>2. modPow(b, e + 1) = mod(Times(q, b))
    <3>1. modPow(b, e + 1) = mod(h * h * b)
      BY <1>3, <2>1, PowerHalves, Zenon
    <3> QED
      BY <3>1 DEF Times
  <2>3. mod(modPow(b, e)) = mod(q)
    <3>1. CASE e = 0
      <4>1. modPow(b, 0) = 1
        <5>1. 0 \in Nat
          OBVIOUS
        <5> QED
          BY <5>1, PowerHalves, Zenon
      <4>2. k = 0
        BY <3>1, <2>1, <1>3
      <4>3. h = 1 /\ q = 1
        BY <4>1, <4>2 DEF Times
      <4> QED
        BY <3>1, <4>1, <4>3
    <3>2. CASE e # 0
      <4>1. modPow(b, e) = mod(h * h * 1)
        <5>1. ~(e % 2 = 1)
          BY <1>5
        <5> QED
          BY <1>2, <3>2, <5>1, PowerHalves, Zenon
      <4>2. h * h * 1 = q
        BY <1>4 DEF Times
      <4> QED
        BY <1>4, <4>1, <4>2, ModIsScalar
    <3> QED
      BY <3>1, <3>2
  <2> HIDE DEF k, h, q
  <2>4. modPow(b, e) \in Int
    BY <1>2, PowerIsInt
  <2>5. mod(Times(b, modPow(b, e))) = mod(Times(b, q))
    BY <1>4, <2>3, <2>4, SameProduct
  <2>6. Times(b, q) = Times(q, b)
    BY <1>4, TimesSwaps
  <2> QED
    BY <1>2, <1>4, <2>2, <2>5, <2>6, ModIsScalar
<1>6. CASE e % 2 = 1
  <2> DEFINE h2 == modPow(b, k + 1)
             bh == Times(b, h)
  <2>1. /\ e = 2 * k + 1 /\ (e + 1) \div 2 = k + 1 /\ ~((e + 1) % 2 = 1)
        /\ k + 1 \in Nat /\ ~(e <= k) /\ e # 0
    BY <1>2, <1>3, <1>6
  <2>2. h2 \in Int /\ bh \in Int /\ Times(h2, h2) \in Int
    BY <1>4, <2>1, PowerIsInt, TimesIsInt
  <2>3. modPow(b, e + 1) = mod(Times(h2, h2))
    <3>1. modPow(b, e + 1) = mod(h2 * h2 * 1)
      BY <1>3, <2>1, PowerHalves, Zenon
    <3>2. h2 * h2 * 1 = Times(h2, h2)
      BY <2>2 DEF Times
    <3> QED
      BY <3>1, <3>2
  <2>4. modPow(b, e) = mod(Times(q, b))
    <3>1. modPow(b, e) = mod(h * h * b)
      BY <1>2, <1>6, <2>1, PowerHalves, Zenon
    <3> QED
      BY <3>1 DEF Times
  <2>5. mod(h2) = mod(bh)
    <3>1. k \notin Bad
      BY <1>1, <2>1
    <3> QED
      BY <1>3, <3>1
  <2> HIDE DEF h2
  <2>6. mod(Times(h2, h2)) = mod(Times(bh, bh))
    BY <2>2, <2>5, SameProduct
  <2>7. Times(bh, bh) = Times(b, Times(q, b))
    <3> HIDE DEF h
    <3> QED
      BY <1>4, SMT DEF Times
  <2> HIDE DEF k, h, q, bh
  <2>8. mod(modPow(b, e)) = mod(Times(q, b)) /\ modPow(b, e) \in Int
    BY <1>4, <2>4, ModIsScalar
  <2>9. mod(Times(b, modPow(b, e))) = mod(Times(b, Times(q, b)))
    BY <1>4, <2>8, SameProduct
  <2> QED
    BY <1>2, <2>2, <2>3, <2>6, <2>7, <2>9, ModIsScalar
<1>7. e % 2 = 0 \/ e % 2 = 1
  BY <1>2
<1> QED
  BY <1>5, <1>6, <1>7

LEMMA PowerOfZero ==
    ASSUME NEW b \in Int
    PROVE  modPow(b, 0) = 1
<1>1. 0 \in Nat
  OBVIOUS
<1> QED
  BY <1>1, PowerHalves, Zenon

(***************************************************************************)
(* Folds over finite sets, in whatever order the members are taken.        *)
(***************************************************************************)
\* The member of s that a fold takes first.
Pick(s) == CHOOSE x \in s : TRUE

LEMMA PickIs ==
    ASSUME NEW S, IsFiniteSet(S), NEW s \in SUBSET S, s # {}
    PROVE  /\ Pick(s) \in s /\ Pick(s) \in S /\ s \ {Pick(s)} \in SUBSET S
           /\ Cardinality(s) \in Nat \ {0} /\ Cardinality(s \ {Pick(s)}) = Cardinality(s) - 1
<1>1. Pick(s) \in s
  BY DEF Pick
<1>2. IsFiniteSet(s)
  BY FS_Subset
<1>3. Cardinality(s) \in Nat /\ Cardinality(s) # 0
  BY <1>2, FS_CardinalityType, FS_EmptySet
<1> QED
  BY <1>1, <1>2, <1>3, FS_RemoveElement

IsFold(S, base, h, f) ==
    /\ f \in [SUBSET S -> Int]
    /\ \A s \in SUBSET S : f[s] = IF s = {} THEN base ELSE h[<<Pick(s), f[s \ {Pick(s)}]>>]

\* There is a function that folds every subset of S.
LEMMA FoldExists ==
    ASSUME NEW S, IsFiniteSet(S), NEW base \in Int, NEW h \in [S \X Int -> Int]
    PROVE  \E f : IsFold(S, base, h, f)
<1> DEFINE Small(k) == {s \in SUBSET S : Cardinality(s) <= k}
           Good(k) == \E f \in [Small(k) -> Int] : \A s \in Small(k) :
                         f[s] = IF s = {} THEN base ELSE h[<<Pick(s), f[s \ {Pick(s)}]>>]
           Bad == {k \in Nat : ~Good(k)}
<1>1. Good(0)
  <2> DEFINE f == [s \in Small(0) |-> base]
  <2>1. \A s \in Small(0) : s = {}
    <3> SUFFICES ASSUME NEW s \in SUBSET S, Cardinality(s) <= 0 PROVE s = {}
      OBVIOUS
    <3>1. IsFiniteSet(s)
      BY FS_Subset
    <3> QED
      BY <3>1, FS_CardinalityType, FS_EmptySet
  <2>2. f \in [Small(0) -> Int]
    OBVIOUS
  <2>3. \A s \in Small(0) : f[s] = IF s = {} THEN base ELSE h[<<Pick(s), f[s \ {Pick(s)}]>>]
    BY <2>1
  <2> QED
    BY <2>2, <2>3
<1>2. ASSUME NEW k \in Nat \ {0}, Good(k - 1) PROVE Good(k)
  <2>1. PICK g \in [Small(k - 1) -> Int] : \A s \in Small(k - 1) :
            g[s] = IF s = {} THEN base ELSE h[<<Pick(s), g[s \ {Pick(s)}]>>]
    BY <1>2
  <2> DEFINE f == [s \in Small(k) |-> IF s = {} THEN base
                                      ELSE h[<<Pick(s), g[s \ {Pick(s)}]>>]]
  <2>2. ASSUME NEW s \in Small(k), s # {}
        PROVE  /\ s \ {Pick(s)} \in Small(k - 1) /\ s \ {Pick(s)} \in Small(k)
               /\ Pick(s) \in S
    BY <2>2, PickIs
  <2>3. f \in [Small(k) -> Int]
    <3>1. ASSUME NEW s \in Small(k), s # {}
          PROVE  h[<<Pick(s), g[s \ {Pick(s)}]>>] \in Int
      BY <2>1, <2>2, <3>1
    <3> QED
      BY <3>1
  <2>4. ASSUME NEW s \in Small(k - 1) PROVE s \in Small(k) /\ f[s] = g[s]
    <3>1. s \in Small(k)
      <4>1. Cardinality(s) \in Nat
        BY FS_Subset, FS_CardinalityType
      <4> QED
        BY <4>1
    <3> QED
      BY <2>1, <3>1, Zenon
  <2>5. \A s \in Small(k) : f[s] = IF s = {} THEN base ELSE h[<<Pick(s), f[s \ {Pick(s)}]>>]
    <3> SUFFICES ASSUME NEW s \in Small(k)
                 PROVE  f[s] = IF s = {} THEN base ELSE h[<<Pick(s), f[s \ {Pick(s)}]>>]
      OBVIOUS
    <3>1. CASE s = {}
      BY <3>1
    <3>2. CASE s # {}
      <4>1. f[s \ {Pick(s)}] = g[s \ {Pick(s)}]
        BY <2>2, <2>4, <3>2, Zenon
      <4> QED
        BY <3>2, <4>1, Zenon
    <3> QED
      BY <3>1, <3>2
  <2> QED
    BY <2>3, <2>5
<1>3. Bad = {}
  <2> SUFFICES ASSUME Bad # {} PROVE FALSE
    OBVIOUS
  <2> HIDE DEF Good
  <2>1. PICK k \in Bad : \A m \in Bad : k <= m
    BY LeastOf
  <2>2. k # 0 /\ k \in Nat
    BY <1>1
  <2>3. k - 1 \in Nat /\ k - 1 \notin Bad
    BY <2>1, <2>2
  <2>4. Good(k - 1)
    BY <2>3
  <2> QED
    BY <1>2, <2>2, <2>4
<1>4. Small(Cardinality(S)) = SUBSET S
  BY FS_Subset, FS_CardinalityType
<1>5. Cardinality(S) \in Nat
  BY FS_CardinalityType
<1>6. Good(Cardinality(S))
  <2> HIDE DEF Good
  <2> QED
    BY <1>3, <1>5
<1> QED
  BY <1>4, <1>6 DEF IsFold


SameSteps(T, h1, h2) == \A x \in T, v \in Int : h1[<<x, v>>] = h2[<<x, v>>]

\* Two folds that take the same steps on T give the same on T.
LEMMA FoldsAgree ==
    ASSUME NEW S, IsFiniteSet(S), NEW T \in SUBSET S, NEW base,
           NEW h1, NEW f1, IsFold(S, base, h1, f1),
           NEW h2, NEW f2, IsFold(T, base, h2, f2),
           SameSteps(T, h1, h2)
    PROVE  f1[T] = f2[T]
<1> DEFINE P == {s \in SUBSET T : f1[s] = f2[s]}
<1>1. ASSUME NEW s \in SUBSET T, \A r \in SUBSET s : r # s => r \in P
      PROVE  s \in P
  <2>1. /\ f1[s] = IF s = {} THEN base ELSE h1[<<Pick(s), f1[s \ {Pick(s)}]>>]
        /\ f2[s] = IF s = {} THEN base ELSE h2[<<Pick(s), f2[s \ {Pick(s)}]>>]
    BY DEF IsFold
  <2>2. CASE s = {}
    BY <2>1, <2>2
  <2>3. CASE s # {}
    <3>1. IsFiniteSet(T)
      BY FS_Subset
    <3>2. Pick(s) \in s /\ Pick(s) \in T /\ s \ {Pick(s)} \in SUBSET T
      BY <2>3, <3>1, PickIs
    <3>3. f1[s \ {Pick(s)}] = f2[s \ {Pick(s)}]
      BY <1>1, <3>2
    <3>4. f2[s \ {Pick(s)}] \in Int
      BY <3>2 DEF IsFold
    <3> QED
      BY <2>1, <2>3, <3>2, <3>3, <3>4 DEF SameSteps
  <2> QED
    BY <2>2, <2>3
<1>2. IsFiniteSet(T)
  BY FS_Subset
<1> HIDE DEF P
<1>3. SUBSET T \subseteq P
  BY <1>1, <1>2, SetInduction
<1> QED
  BY <1>3 DEF P

Commutes(S, h) ==
    \A x, y \in S, v \in Int : /\ h[<<x, v>>] \in Int
                              /\ h[<<x, h[<<y, v>>]>>] = h[<<y, h[<<x, v>>]>>]

\* A fold with a commutative step may take any member first.
LEMMA FoldTakes ==
    ASSUME NEW S, IsFiniteSet(S), NEW base, NEW h, NEW f, IsFold(S, base, h, f),
           Commutes(S, h),
           NEW a \in S
    PROVE  f[S] = h[<<a, f[S \ {a}]>>]
<1> DEFINE P == {s \in SUBSET S : \A x \in s : f[s] = h[<<x, f[s \ {x}]>>]}
<1>1. ASSUME NEW s \in SUBSET S, \A r \in SUBSET s : r # s => r \in P
      PROVE  s \in P
  <2> SUFFICES ASSUME NEW x \in s PROVE f[s] = h[<<x, f[s \ {x}]>>]
    OBVIOUS
  <2> DEFINE y == Pick(s)
             r == (s \ {x}) \ {y}
  <2>1. y \in s /\ y \in S /\ x \in S
    BY PickIs
  <2>2. f[s] = h[<<y, f[s \ {y}]>>]
    BY DEF IsFold
  <2> HIDE DEF y
  <2>3. CASE x = y
    BY <2>2, <2>3
  <2>4. CASE x # y
    <3>1. s \ {y} \in P /\ x \in s \ {y} /\ (s \ {y}) \ {x} = r
      BY <1>1, <2>1, <2>4
    <3>2. s \ {x} \in P /\ y \in s \ {x}
      BY <1>1, <2>1, <2>4
    <3>3. r \in SUBSET S /\ f[r] \in Int
      BY DEF IsFold
    <3> HIDE DEF r
    <3>4. f[s \ {y}] = h[<<x, f[r]>>]
      BY <3>1
    <3>5. f[s \ {x}] = h[<<y, f[r]>>]
      BY <3>2 DEF r
    <3> QED
      BY <2>1, <2>2, <3>3, <3>4, <3>5 DEF Commutes
  <2> QED
    BY <2>3, <2>4
<1> HIDE DEF P
<1>2. SUBSET S \subseteq P
  BY <1>1, SetInduction
<1> QED
  BY <1>2 DEF P

(***************************************************************************)
(* Sums and products: what they are of no member, and that any member may  *)
(* be taken out.                                                           *)
(***************************************************************************)
SumStep(S, g, f) ==
    [s \in SUBSET S |-> IF s = {} THEN 0 ELSE g[Pick(s)] + f[s \ {Pick(s)}]]

ProductStep(S, f) ==
    [s \in SUBSET S |-> IF s = {} THEN 1 ELSE Pick(s) * f[s \ {Pick(s)}]]

SumsOf(S, g) == CHOOSE f : f = SumStep(S, g, f)
ProductsOf(S) == CHOOSE f : f = ProductStep(S, f)

LEMMA SumIs ==
    ASSUME NEW S, NEW g
    PROVE  SumFunctionOnSet(g, S) = SumsOf(S, g)[S]
BY DEF SumFunctionOnSet, FoldFunctionOnSet, MapThenFoldSet, SumStep, SumsOf, Pick

LEMMA ProductIs ==
    ASSUME NEW S
    PROVE  ProductSet(S) = ProductsOf(S)[S]
BY DEF ProductSet, FoldSet, MapThenFoldSet, ProductStep, ProductsOf, Pick

IntegerOn(g, S) == \A x \in S : g[x] \in Int

Adding(S, g, h) == \A x \in S, v \in Int : h[<<x, v>>] = g[x] + v

AddMember(S, g) == [p \in S \X Int |-> g[p[1]] + p[2]]
Numbers(S) == \A x \in S : x \in Int

TimesMember(S) == [p \in S \X Int |-> Times(p[1], p[2])]

LEMMA AddMemberIs ==
    ASSUME NEW S, NEW g, IntegerOn(g, S)
    PROVE  AddMember(S, g) \in [S \X Int -> Int] /\ Adding(S, g, AddMember(S, g))
<1>1. AddMember(S, g) \in [S \X Int -> Int]
  BY DEF AddMember, IntegerOn
<1>2. Adding(S, g, AddMember(S, g))
  BY DEF AddMember, Adding
<1> QED
  BY <1>1, <1>2

LEMMA TimesMemberIs ==
    ASSUME NEW S, Numbers(S)
    PROVE  /\ TimesMember(S) \in [S \X Int -> Int]
           /\ \A x \in S, v \in Int : TimesMember(S)[<<x, v>>] = Times(x, v)
<1>1. \A x \in S, v \in Int : TimesMember(S)[<<x, v>>] = Times(x, v)
  BY TimesIsInt DEF TimesMember, Numbers
<1>2. TimesMember(S) \in [S \X Int -> Int]
  BY TimesIsInt DEF TimesMember, Numbers
<1> QED
  BY <1>1, <1>2

\* A function of sets that steps so is the fold.
LEMMA FoldIs ==
    ASSUME NEW S, IsFiniteSet(S), NEW base \in Int, NEW h \in [S \X Int -> Int],
           NEW f, f = [s \in SUBSET S |-> f[s]], f[{}] = base,
           \A s \in SUBSET S : s # {} /\ f[s \ {Pick(s)}] \in Int
                                 => f[s] = h[<<Pick(s), f[s \ {Pick(s)}]>>]
    PROVE  IsFold(S, base, h, f)
<1> DEFINE P == {s \in SUBSET S : f[s] \in Int}
<1>1. ASSUME NEW s \in SUBSET S, \A r \in SUBSET s : r # s => r \in P
      PROVE  f[s] \in Int /\ (s # {} => f[s \ {Pick(s)}] \in Int)
  <2>1. CASE s = {}
    BY <2>1
  <2>2. CASE s # {}
    <3>1. Pick(s) \in s /\ Pick(s) \in S
      BY <2>2, PickIs
    <3>2. f[s \ {Pick(s)}] \in Int
      BY <1>1, <3>1
    <3>3. f[s] = h[<<Pick(s), f[s \ {Pick(s)}]>>]
      BY <2>2, <3>2
    <3> QED
      BY <3>1, <3>2, <3>3
  <2> QED
    BY <2>1, <2>2
<1>2. SUBSET S \subseteq P
  <2>1. \A s \in SUBSET S : (\A r \in SUBSET s : r # s => r \in P) => s \in P
    BY <1>1
  <2> HIDE DEF P
  <2> QED
    BY <2>1, SetInduction
<1>3. \A s \in SUBSET S : f[s] \in Int
  BY <1>2
<1>4. f \in [SUBSET S -> Int]
  BY <1>3, Zenon
<1>5. \A s \in SUBSET S : s # {} => f[s] = h[<<Pick(s), f[s \ {Pick(s)}]>>]
  BY <1>3
<1> QED
  BY <1>4, <1>5 DEF IsFold

LEMMA SumIsFold ==
    ASSUME NEW S, IsFiniteSet(S), NEW g, IntegerOn(g, S)
    PROVE  IsFold(S, 0, AddMember(S, g), SumsOf(S, g))
<1> DEFINE h == AddMember(S, g)
<1>1. h \in [S \X Int -> Int] /\ Adding(S, g, h)
  BY AddMemberIs
<1> HIDE DEF h
<1>2. ASSUME NEW f, NEW s \in SUBSET S, s # {}, f[s \ {Pick(s)}] \in Int
      PROVE  h[<<Pick(s), f[s \ {Pick(s)}]>>] = g[Pick(s)] + f[s \ {Pick(s)}]
  <2>1. Pick(s) \in S
    BY <1>2, PickIs
  <2> QED
    BY <1>1, <1>2, <2>1, Zenon DEF Adding
<1>3. PICK f : IsFold(S, 0, h, f)
  <2>1. 0 \in Int
    OBVIOUS
  <2> QED
    BY <1>1, <2>1, FoldExists, Zenon
<1>4. f = SumStep(S, g, f)
  <2>1. ASSUME NEW s \in SUBSET S, s # {} PROVE f[s \ {Pick(s)}] \in Int
    BY <1>3, <2>1 DEF IsFold
  <2> QED
    BY <1>2, <1>3, <2>1, Zenon DEF SumStep, IsFold
<1> DEFINE F == SumsOf(S, g)
<1>5. F = SumStep(S, g, F)
  BY <1>4, Zenon DEF SumsOf
<1> HIDE DEF F
<1>6. \A s \in SUBSET S : F[s] = IF s = {} THEN 0 ELSE g[Pick(s)] + F[s \ {Pick(s)}]
  BY <1>5, Zenon DEF SumStep
<1>7. F = [s \in SUBSET S |-> F[s]] /\ F[{}] = 0 /\ 0 \in Int
  <2>1. 0 \in Int
    OBVIOUS
  <2> QED
    BY <1>5, <1>6, <2>1, Zenon DEF SumStep
<1>8. \A s \in SUBSET S : s # {} /\ F[s \ {Pick(s)}] \in Int
                            => F[s] = h[<<Pick(s), F[s \ {Pick(s)}]>>]
  BY <1>2, <1>6, Zenon
<1>9. IsFold(S, 0, h, F)
  BY <1>1, <1>7, <1>8, FoldIs
<1> QED
  BY <1>9 DEF h, F

LEMMA ProductIsFold ==
    ASSUME NEW S, Numbers(S), IsFiniteSet(S)
    PROVE  IsFold(S, 1, TimesMember(S), ProductsOf(S))
<1> DEFINE h == TimesMember(S)
<1>1. h \in [S \X Int -> Int] /\ \A x \in S, v \in Int : h[<<x, v>>] = x * v
  <2> HIDE DEF h
  <2>1. h = TimesMember(S)
    BY DEF h
  <2>2. h \in [S \X Int -> Int] /\ \A x \in S, v \in Int : h[<<x, v>>] = Times(x, v)
    BY <2>1, TimesMemberIs
  <2> QED
    BY <2>2, Zenon DEF Times
<1> HIDE DEF h
<1>2. ASSUME NEW f, NEW s \in SUBSET S, s # {}, f[s \ {Pick(s)}] \in Int
      PROVE  h[<<Pick(s), f[s \ {Pick(s)}]>>] = Pick(s) * f[s \ {Pick(s)}]
  <2>1. Pick(s) \in S
    BY <1>2, PickIs
  <2> QED
    BY <1>1, <1>2, <2>1, Zenon
<1>3. PICK f : IsFold(S, 1, h, f)
  <2>1. 1 \in Int
    OBVIOUS
  <2> QED
    BY <1>1, <2>1, FoldExists, Zenon
<1>4. f = ProductStep(S, f)
  <2>1. ASSUME NEW s \in SUBSET S, s # {} PROVE f[s \ {Pick(s)}] \in Int
    BY <1>3, <2>1 DEF IsFold
  <2> QED
    BY <1>2, <1>3, <2>1, Zenon DEF ProductStep, IsFold
<1> DEFINE F == ProductsOf(S)
<1>5. F = ProductStep(S, F)
  BY <1>4, Zenon DEF ProductsOf
<1> HIDE DEF F
<1>6. \A s \in SUBSET S : F[s] = IF s = {} THEN 1 ELSE Pick(s) * F[s \ {Pick(s)}]
  BY <1>5, Zenon DEF ProductStep
<1>7. F = [s \in SUBSET S |-> F[s]] /\ F[{}] = 1 /\ 1 \in Int
  <2>1. 1 \in Int
    OBVIOUS
  <2> QED
    BY <1>5, <1>6, <2>1, Zenon DEF ProductStep
<1>8. \A s \in SUBSET S : s # {} /\ F[s \ {Pick(s)}] \in Int
                            => F[s] = h[<<Pick(s), F[s \ {Pick(s)}]>>]
  BY <1>2, <1>6, Zenon
<1>9. IsFold(S, 1, h, F)
  BY <1>1, <1>7, <1>8, FoldIs
<1> QED
  BY <1>9 DEF h, F

\* Any member may be taken out of a sum first, and any out of a product.
LEMMA SumTakes ==
    ASSUME NEW S, IsFiniteSet(S), NEW g, IntegerOn(g, S), NEW a \in S
    PROVE  /\ SumFunctionOnSet(g, S) \in Int /\ SumFunctionOnSet(g, S \ {a}) \in Int
           /\ SumFunctionOnSet(g, S) = g[a] + SumFunctionOnSet(g, S \ {a})
<1> DEFINE T == S \ {a}
           h1 == AddMember(S, g)
           f1 == SumsOf(S, g)
           h2 == AddMember(T, g)
           f2 == SumsOf(T, g)
<1>1. T \in SUBSET S /\ IsFiniteSet(T) /\ IntegerOn(g, T)
  BY FS_Subset DEF IntegerOn
<1>2. IsFold(S, 0, h1, f1) /\ IsFold(T, 0, h2, f2)
  BY <1>1, SumIsFold
<1>3. /\ \A x \in S, v \in Int : h1[<<x, v>>] = g[x] + v
      /\ \A x \in T, v \in Int : h2[<<x, v>>] = g[x] + v
  <2>1. Adding(S, g, h1) /\ Adding(T, g, h2)
    BY <1>1, AddMemberIs
  <2> QED
    BY <2>1, Zenon DEF Adding
<1>4. SumFunctionOnSet(g, S) = f1[S] /\ SumFunctionOnSet(g, T) = f2[T]
  BY SumIs
<1> HIDE DEF T, h1, f1, h2, f2
<1>5. f1[T] = f2[T]
  <2>1. SameSteps(T, h1, h2)
    BY <1>1, <1>3, Zenon DEF SameSteps
  <2> QED
    BY <1>1, <1>2, <2>1, FoldsAgree
<1>6. ASSUME NEW x \in S, NEW y \in S, NEW v \in Int
      PROVE  h1[<<x, v>>] \in Int /\ h1[<<x, h1[<<y, v>>]>>] = h1[<<y, h1[<<x, v>>]>>]
  <2>1. h1[<<x, v>>] = g[x] + v /\ h1[<<y, v>>] = g[y] + v
    BY <1>3, Zenon
  <2>2. g[x] \in Int /\ g[y] \in Int /\ g[x] + v \in Int /\ g[y] + v \in Int
    BY DEF IntegerOn
  <2>3. h1[<<x, g[y] + v>>] = g[x] + (g[y] + v) /\ h1[<<y, g[x] + v>>] = g[y] + (g[x] + v)
    BY <1>3, <2>2, Zenon
  <2>4. g[x] + (g[y] + v) = g[y] + (g[x] + v)
    BY <2>2
  <2> QED
    BY <2>1, <2>2, <2>3, <2>4
<1>7. f1[S] = h1[<<a, f1[T]>>]
  <2>1. Commutes(S, h1)
    BY <1>6, Zenon DEF Commutes
  <2> QED
    BY <1>2, <2>1, FoldTakes DEF T
<1>8. f1[T] \in Int /\ f1[S] \in Int
  BY <1>1, <1>2 DEF IsFold
<1>9. f1[S] = g[a] + f1[T]
  BY <1>3, <1>7, <1>8
<1> QED
  BY <1>4, <1>5, <1>8, <1>9 DEF T

LEMMA ProductTakes ==
    ASSUME NEW S, Numbers(S), IsFiniteSet(S), NEW a \in S
    PROVE  /\ ProductSet(S) \in Int /\ ProductSet(S \ {a}) \in Int
           /\ ProductSet(S) = Times(a, ProductSet(S \ {a}))
<1> DEFINE T == S \ {a}
           h1 == TimesMember(S)
           f1 == ProductsOf(S)
           h2 == TimesMember(T)
           f2 == ProductsOf(T)
<1>1. T \in SUBSET S /\ IsFiniteSet(T) /\ Numbers(T)
  BY FS_Subset DEF Numbers
<1>2. IsFold(S, 1, h1, f1) /\ IsFold(T, 1, h2, f2)
  BY <1>1, ProductIsFold
<1>3. /\ \A x \in S, v \in Int : h1[<<x, v>>] = Times(x, v)
      /\ \A x \in T, v \in Int : h2[<<x, v>>] = Times(x, v)
  BY <1>1, TimesMemberIs
<1>4. ProductSet(S) = f1[S] /\ ProductSet(T) = f2[T]
  BY ProductIs
<1> HIDE DEF T, h1, f1, h2, f2
<1>5. f1[T] = f2[T]
  <2>1. SameSteps(T, h1, h2)
    BY <1>1, <1>3, Zenon DEF SameSteps
  <2> QED
    BY <1>1, <1>2, <2>1, FoldsAgree
<1>6. ASSUME NEW x \in S, NEW y \in S, NEW v \in Int
      PROVE  h1[<<x, v>>] \in Int /\ h1[<<x, h1[<<y, v>>]>>] = h1[<<y, h1[<<x, v>>]>>]
  <2>1. h1[<<x, v>>] = Times(x, v) /\ h1[<<y, v>>] = Times(y, v)
    BY <1>3
  <2>2. x \in Int /\ y \in Int /\ Times(x, v) \in Int /\ Times(y, v) \in Int
    BY TimesIsInt DEF Numbers
  <2>3. /\ h1[<<x, Times(y, v)>>] = Times(x, Times(y, v))
        /\ h1[<<y, Times(x, v)>>] = Times(y, Times(x, v))
    BY <1>3, <2>2, Zenon
  <2>4. Times(x, Times(y, v)) = Times(y, Times(x, v))
    BY <2>2, SMT DEF Times
  <2> QED
    BY <2>1, <2>2, <2>3, <2>4
<1>7. f1[S] = h1[<<a, f1[T]>>]
  <2>1. Commutes(S, h1)
    BY <1>6, Zenon DEF Commutes
  <2> QED
    BY <1>2, <2>1, FoldTakes DEF T
<1>8. f1[T] \in Int /\ f1[S] \in Int
  BY <1>1, <1>2 DEF IsFold
<1>9. f1[S] = Times(a, f1[T])
  BY <1>3, <1>7, <1>8
<1> QED
  BY <1>4, <1>5, <1>8, <1>9 DEF T

LEMMA SumOfNone == ASSUME NEW g PROVE SumFunctionOnSet(g, {}) = 0
<1>1. IsFiniteSet({}) /\ IntegerOn(g, {})
  BY FS_EmptySet DEF IntegerOn
<1>2. IsFold({}, 0, AddMember({}, g), SumsOf({}, g))
  BY <1>1, SumIsFold
<1> QED
  BY <1>2, SumIs DEF IsFold

LEMMA ProductOfNone == ProductSet({}) = 1
<1>1. IsFiniteSet({}) /\ Numbers({})
  BY FS_EmptySet DEF Numbers
<1>2. IsFold({}, 1, TimesMember({}), ProductsOf({}))
  BY <1>1, ProductIsFold
<1> QED
  BY <1>2, ProductIs DEF IsFold

LEMMA SumIsInt ==
    ASSUME NEW S, IsFiniteSet(S), NEW g, IntegerOn(g, S)
    PROVE  SumFunctionOnSet(g, S) \in Int
<1>1. CASE S = {}
  BY <1>1, SumOfNone
<1>2. CASE S # {}
  BY <1>2, SumTakes
<1> QED
  BY <1>1, <1>2

LEMMA ProductIsInt ==
    ASSUME NEW S, Numbers(S), IsFiniteSet(S)
    PROVE  ProductSet(S) \in Int
<1>1. CASE S = {}
  BY <1>1, ProductOfNone
<1>2. CASE S # {}
  BY <1>2, ProductTakes
<1> QED
  BY <1>1, <1>2

(***************************************************************************)
(* Sums modulo L, term by term.                                            *)
(***************************************************************************)
\* Each f[x] is k g[x] + h[x] modulo L, and so are the sums.
Combines(S, f, k, g, h) == \A x \in S : mod(f[x]) = mod(Times(k, g[x]) + h[x])

\* Sums are linear modulo L.
LEMMA SumsCombine ==
    ASSUME NEW S, IsFiniteSet(S), NEW f, IntegerOn(f, S), NEW k \in Int,
           NEW g, IntegerOn(g, S), NEW h, IntegerOn(h, S), Combines(S, f, k, g, h)
    PROVE  mod(SumFunctionOnSet(f, S)) =
              mod(Times(k, SumFunctionOnSet(g, S)) + SumFunctionOnSet(h, S))
<1> DEFINE P == {s \in SUBSET S : mod(SumFunctionOnSet(f, s)) =
                    mod(Times(k, SumFunctionOnSet(g, s)) + SumFunctionOnSet(h, s))}
<1>1. ASSUME NEW s \in SUBSET S, \A r \in SUBSET s : r # s => r \in P
      PROVE  s \in P
  <2>1. CASE s = {}
    <3>1. /\ SumFunctionOnSet(f, s) = 0 /\ SumFunctionOnSet(g, s) = 0
          /\ SumFunctionOnSet(h, s) = 0
      BY <2>1, SumOfNone
    <3>2. Times(k, 0) + 0 = 0
      BY DEF Times
    <3> QED
      BY <3>1, <3>2
  <2>2. CASE s # {}
    <3>1. PICK x \in s : TRUE
      BY <2>2
    <3> DEFINE r == s \ {x}
               fx == f[x]
               gx == g[x]
               hx == h[x]
               fr == SumFunctionOnSet(f, r)
               gr == SumFunctionOnSet(g, r)
               hr == SumFunctionOnSet(h, r)
    <3>2. /\ IsFiniteSet(s) /\ x \in S
          /\ IntegerOn(f, s) /\ IntegerOn(g, s) /\ IntegerOn(h, s)
      BY FS_Subset DEF IntegerOn
    <3>3. fr \in Int /\ SumFunctionOnSet(f, s) = fx + fr
      BY <3>2, SumTakes
    <3>4. gr \in Int /\ SumFunctionOnSet(g, s) = gx + gr
      BY <3>2, SumTakes
    <3>5. hr \in Int /\ SumFunctionOnSet(h, s) = hx + hr
      BY <3>2, SumTakes
    <3>6. fx \in Int /\ gx \in Int /\ hx \in Int /\ mod(fx) = mod(Times(k, gx) + hx)
      BY <3>2 DEF IntegerOn, Combines
    <3>7. mod(fr) = mod(Times(k, gr) + hr)
      BY <1>1
    <3> HIDE DEF fx, gx, hx, fr, gr, hr
    <3> DEFINE u == Times(k, gx)
               v == Times(k, gr)
    <3>8. u \in Int /\ v \in Int
      BY <3>4, <3>6, TimesIsInt
    <3>9. Times(k, gx + gr) = u + v
      BY <3>4, <3>6, SMT DEF Times
    <3> HIDE DEF u, v
    <3>10. mod(fx + fr) = mod((u + hx) + (v + hr))
      <4>1. u + hx \in Int /\ v + hr \in Int
        BY <3>5, <3>6, <3>8
      <4>2. mod(fx) = mod(u + hx) /\ mod(fr) = mod(v + hr)
        BY <3>6, <3>7 DEF u, v
      <4> HIDE DEF P
      <4> QED
        BY <3>3, <3>6, <4>1, <4>2, SameSum
    <3>11. (u + hx) + (v + hr) = (u + v) + (hx + hr)
      BY <3>5, <3>6, <3>8
    <3>12. mod(fx + fr) = mod(Times(k, gx + gr) + (hx + hr))
      BY <3>9, <3>10, <3>11
    <3> QED
      BY <3>3, <3>4, <3>5, <3>12
  <2> QED
    BY <2>1, <2>2
<1> HIDE DEF P
<1>2. SUBSET S \subseteq P
  BY <1>1, SetInduction
<1> QED
  BY <1>2 DEF P

SameTerms(S, f, g) == \A x \in S : mod(f[x]) = mod(g[x])

\* Sums of terms that are the same modulo L are.
LEMMA SumsSame ==
    ASSUME NEW S, IsFiniteSet(S), NEW f, IntegerOn(f, S), NEW g, IntegerOn(g, S),
           SameTerms(S, f, g)
    PROVE  mod(SumFunctionOnSet(f, S)) = mod(SumFunctionOnSet(g, S))
<1>1. Combines(S, f, 0, g, g)
  <2> SUFFICES ASSUME NEW x \in S PROVE mod(f[x]) = mod(Times(0, g[x]) + g[x])
    BY DEF Combines
  <2>1. g[x] \in Int /\ mod(f[x]) = mod(g[x])
    BY DEF IntegerOn, SameTerms
  <2>2. Times(0, g[x]) = 0 /\ 0 + g[x] = g[x]
    BY <2>1, TimesUnits
  <2> QED
    BY <2>1, <2>2
<1>2. 0 \in Int
  OBVIOUS
<1>3. mod(SumFunctionOnSet(f, S)) = mod(Times(0, SumFunctionOnSet(g, S)) + SumFunctionOnSet(g, S))
  BY <1>1, <1>2, SumsCombine
<1>4. SumFunctionOnSet(g, S) \in Int
  BY SumIsInt
<1> QED
  BY <1>3, <1>4, TimesUnits

\* A sum over a set of places is the sum over what is found there.
LEMMA SumReindexed ==
    ASSUME NEW D, IsFiniteSet(D), NEW p, \A x, y \in D : p[x] = p[y] => x = y,
           NEW g, NEW q, \A x \in D : q[x] = g[p[x]] /\ q[x] \in Int
    PROVE  SumFunctionOnSet(q, D) = SumFunctionOnSet(g, {p[x] : x \in D})
<1> DEFINE Image(s) == {p[x] : x \in s}
           P == {s \in SUBSET D : SumFunctionOnSet(q, s) = SumFunctionOnSet(g, Image(s))}
<1>1. ASSUME NEW s \in SUBSET D, \A r \in SUBSET s : r # s => r \in P
      PROVE  s \in P
  <2>1. CASE s = {}
    <3>1. Image(s) = {}
      BY <2>1
    <3> QED
      BY <2>1, <3>1, SumOfNone
  <2>2. CASE s # {}
    <3>1. PICK x \in s : TRUE
      BY <2>2
    <3>2. IsFiniteSet(s) /\ IntegerOn(q, s)
      BY FS_Subset DEF IntegerOn
    <3>3. IsFiniteSet(Image(s))
      <4>1. [y \in s |-> p[y]] \in Surjection(s, Image(s))
        BY DEF Surjection
      <4> QED
        BY <3>2, <4>1, FS_Surjection
    <3>4. IntegerOn(g, Image(s)) /\ p[x] \in Image(s)
      BY DEF IntegerOn
    <3>5. Image(s) \ {p[x]} = Image(s \ {x})
      OBVIOUS
    <3>6. SumFunctionOnSet(q, s) = q[x] + SumFunctionOnSet(q, s \ {x})
      BY <3>2, SumTakes
    <3>7. SumFunctionOnSet(q, s \ {x}) = SumFunctionOnSet(g, Image(s \ {x}))
      BY <1>1
    <3>8. q[x] = g[p[x]]
      OBVIOUS
    <3> HIDE DEF Image
    <3>9. SumFunctionOnSet(g, Image(s)) = g[p[x]] + SumFunctionOnSet(g, Image(s) \ {p[x]})
      BY <3>3, <3>4, SumTakes
    <3> QED
      BY <3>5, <3>6, <3>7, <3>8, <3>9
  <2> QED
    BY <2>1, <2>2
<1> HIDE DEF P
<1>2. SUBSET D \subseteq P
  BY <1>1, SetInduction
<1> QED
  BY <1>2 DEF P

\* What is no multiple of L multiplies to no multiple of L.
LEMMA ProductNotZero ==
    ASSUME NEW S, Numbers(S), IsFiniteSet(S), \A x \in S : mod(x) # 0
    PROVE  mod(ProductSet(S)) # 0
<1> DEFINE P == {s \in SUBSET S : mod(ProductSet(s)) # 0}
<1>1. ASSUME NEW s \in SUBSET S, \A r \in SUBSET s : r # s => r \in P
      PROVE  s \in P
  <2>1. CASE s = {}
    BY <2>1, ProductOfNone, ZeroIsReduced
  <2>2. CASE s # {}
    <3>1. PICK x \in s : TRUE
      BY <2>2
    <3>2. IsFiniteSet(s) /\ Numbers(s) /\ x \in Int
      BY FS_Subset DEF Numbers
    <3>3. ProductSet(s \ {x}) \in Int /\ ProductSet(s) = Times(x, ProductSet(s \ {x}))
      BY <3>2, ProductTakes
    <3>4. mod(ProductSet(s \ {x})) # 0 /\ mod(x) # 0
      BY <1>1
    <3> QED
      BY <3>2, <3>3, <3>4, NoZeroDivisors
  <2> QED
    BY <2>1, <2>2
<1> HIDE DEF P
<1>2. SUBSET S \subseteq P
  BY <1>1, SetInduction
<1> QED
  BY <1>2 DEF P

(***************************************************************************)
(* Fermat: the multiples of a are the nonzero scalars in another order.    *)
(***************************************************************************)
Multiples(a, s) == {mod(Times(a, x)) : x \in s}

LEMMA MultiplesAre ==
    ASSUME NEW a \in Int, mod(a) # 0, NEW s \in SUBSET (1 .. L - 1)
    PROVE  /\ IsFiniteSet(s) /\ Numbers(s)
           /\ IsFiniteSet(Multiples(a, s)) /\ Numbers(Multiples(a, s))
           /\ Multiples(a, s) \subseteq 1 .. L - 1
           /\ \A x, y \in s : mod(Times(a, x)) = mod(Times(a, y)) => x = y
<1>1. IsFiniteSet(s)
  <2>1. IsFiniteSet(1 .. L - 1)
    BY OrderIs, FS_Interval
  <2> QED
    BY <2>1, FS_Subset
<1>2. \A x \in s : x \in Int /\ x \in Scalars /\ x # 0
  BY OrderIs DEF Scalars
<1>3. \A x \in s : mod(x) = x /\ Times(a, x) \in Int
  BY <1>2, ScalarIsReduced, TimesIsInt
<1>4. ASSUME NEW x \in s PROVE mod(Times(a, x)) \in 1 .. L - 1
  <2>1. mod(Times(a, x)) \in Scalars
    BY <1>3, ModIsScalar
  <2>2. mod(Times(a, x)) # 0
    BY <1>2, <1>3, NoZeroDivisors
  <2> QED
    BY <2>1, <2>2, OrderIs DEF Scalars
<1>5. ASSUME NEW x \in s, NEW y \in s, mod(Times(a, x)) = mod(Times(a, y)) PROVE x = y
  <2>1. Times(a, x) = Times(x, a) /\ Times(a, y) = Times(y, a) /\ x \in Int /\ y \in Int
    BY <1>2, TimesSwaps
  <2>2. mod(x) = mod(y)
    BY <1>5, <2>1, Cancelled
  <2> QED
    BY <1>3, <2>2
<1>6. IsFiniteSet(Multiples(a, s))
  <2>1. [x \in s |-> mod(Times(a, x))] \in Surjection(s, Multiples(a, s))
    BY DEF Surjection, Multiples
  <2> QED
    BY <1>1, <2>1, FS_Surjection
<1>7. Multiples(a, s) \subseteq 1 .. L - 1
  BY <1>4 DEF Multiples
<1> QED
  BY <1>1, <1>2, <1>5, <1>6, <1>7 DEF Numbers

\* The product of the multiples a x is a ^ n times the product of the x.
LEMMA ProductOfMultiples ==
    ASSUME NEW a \in Int, mod(a) # 0, NEW S \in SUBSET (1 .. L - 1)
    PROVE  mod(ProductSet(Multiples(a, S))) =
              mod(Times(modPow(a, Cardinality(S)), ProductSet(S)))
<1> DEFINE P == {s \in SUBSET S : mod(ProductSet(Multiples(a, s))) =
                    mod(Times(modPow(a, Cardinality(s)), ProductSet(s)))}
<1>1. ASSUME NEW s \in SUBSET S, \A r \in SUBSET s : r # s => r \in P
      PROVE  s \in P
  <2>0. /\ IsFiniteSet(s) /\ Numbers(s)
        /\ IsFiniteSet(Multiples(a, s)) /\ Numbers(Multiples(a, s))
        /\ \A x, y \in s : mod(Times(a, x)) = mod(Times(a, y)) => x = y
    BY MultiplesAre
  <2>1. CASE s = {}
    <3>1. Multiples(a, s) = {} /\ Cardinality(s) = 0
      BY <2>1, FS_EmptySet DEF Multiples
    <3>2. Times(1, 1) = 1
      BY DEF Times
    <3> QED
      BY <2>1, <3>1, <3>2, ProductOfNone, PowerOfZero
  <2>2. CASE s # {}
    <3>1. PICK x \in s : TRUE
      BY <2>2
    <3> DEFINE r == s \ {x}
               n == Cardinality(r)
               m == Multiples(a, r)
               y == mod(Times(a, x))
    <3>2. n \in Nat /\ Cardinality(s) = n + 1
      <4>1. IsFiniteSet(r) /\ Cardinality(s) \in Nat /\ n \in Nat
        BY <2>0, FS_RemoveElement, FS_CardinalityType
      <4>2. n = Cardinality(s) - 1
        BY <2>0, FS_RemoveElement
      <4> QED
        BY <4>1, <4>2
    <3>3. m = Multiples(a, s) \ {y} /\ y \in Multiples(a, s)
      BY <2>0 DEF Multiples
    <3>4. x \in Int /\ Times(a, x) \in Int /\ y \in Int /\ mod(y) = mod(Times(a, x))
      <4>1. x \in Int
        BY <2>0 DEF Numbers
      <4> QED
        BY <4>1, TimesIsInt, ModIsScalar
    <3>5. ProductSet(r) \in Int /\ ProductSet(s) = Times(x, ProductSet(r))
      BY <2>0, ProductTakes
    <3>6. ProductSet(m) \in Int /\ ProductSet(Multiples(a, s)) = Times(y, ProductSet(m))
      BY <2>0, <3>3, ProductTakes
    <3>7. mod(ProductSet(m)) = mod(Times(modPow(a, n), ProductSet(r)))
      BY <1>1
    <3> DEFINE w == modPow(a, n)
               w2 == modPow(a, n + 1)
               b == ProductSet(r)
               ax == Times(a, x)
               wb == Times(w, b)
               xb == Times(x, b)
               aw == Times(a, w)
    <3>8. w \in Int /\ w2 \in Int /\ b \in Int /\ ax \in Int /\ wb \in Int /\ xb \in Int /\ aw \in Int
      <4>1. w \in Int /\ w2 \in Int
        BY <3>2, PowerIsInt
      <4>2. b \in Int /\ ax \in Int
        BY <3>4, <3>5
      <4> HIDE DEF w, w2, b, ax
      <4> QED
        BY <3>4, <4>1, <4>2, TimesIsInt
    <3>9. mod(w2) = mod(aw)
      BY <3>2, PowerNext
    <3>10. Times(ax, wb) = Times(aw, xb)
      <4> HIDE DEF w, b
      <4> QED
        BY <3>4, <3>8, SMT DEF Times
    <3>11. mod(y) = mod(ax) /\ mod(ProductSet(m)) = mod(wb)
      BY <3>4, <3>7
    <3> HIDE DEF P, r, n, m, y, w, w2, b, ax, wb, xb, aw
    <3>12. mod(Times(y, ProductSet(m))) = mod(Times(ax, wb))
      BY <3>4, <3>6, <3>8, <3>11, SameProduct
    <3>13. mod(Times(w2, xb)) = mod(Times(aw, xb))
      BY <3>8, <3>9, SameProduct
    <3>14. mod(ProductSet(Multiples(a, s))) = mod(Times(modPow(a, Cardinality(s)), ProductSet(s)))
      BY <3>2, <3>5, <3>6, <3>10, <3>12, <3>13 DEF w2, xb, b
    <3> QED
      BY <3>14 DEF P
  <2> QED
    BY <2>1, <2>2
<1> HIDE DEF P
<1>2. IsFiniteSet(S)
  BY MultiplesAre
<1>3. SUBSET S \subseteq P
  BY <1>1, <1>2, SetInduction
<1> QED
  BY <1>3 DEF P

\* a ^ (L - 1) is 1 modulo L.
LEMMA Fermat ==
    ASSUME NEW a \in Int, mod(a) # 0
    PROVE  mod(modPow(a, L - 1)) = 1
<1> DEFINE S == 1 .. L - 1
           w == modPow(a, L - 1)
           b == ProductSet(S)
<1>1. /\ IsFiniteSet(S) /\ Numbers(S) /\ Multiples(a, S) \subseteq S
      /\ \A x, y \in S : mod(Times(a, x)) = mod(Times(a, y)) => x = y
  BY MultiplesAre
<1>2. Cardinality(S) = L - 1 /\ L - 1 \in Nat
  BY OrderIs, FS_Interval
<1>3. Multiples(a, S) = S
  <2> DEFINE f == [x \in S |-> mod(Times(a, x))]
  <2>1. f \in Injection(S, S)
    <3>1. \A x \in S : f[x] \in S
      BY <1>1 DEF Multiples
    <3> QED
      BY <1>1, <3>1 DEF Injection, IsInjective
  <2>2. f \in Surjection(S, S)
    BY <1>1, <2>1, FS_Injection
  <2>3. \A y \in S : \E x \in S : mod(Times(a, x)) = y
    BY <2>2 DEF Surjection
  <2>4. S \subseteq Multiples(a, S)
    BY <2>3, Zenon DEF Multiples
  <2> QED
    BY <1>1, <2>4, Zenon
<1>4. mod(b) = mod(Times(w, b))
  BY <1>2, <1>3, ProductOfMultiples
<1>5. mod(b) # 0
  <2>1. \A x \in S : mod(x) # 0
    <3> SUFFICES ASSUME NEW x \in S PROVE mod(x) # 0
      OBVIOUS
    <3>1. x \in Scalars /\ x # 0
      BY OrderIs DEF Scalars
    <3> QED
      BY <3>1, ScalarIsReduced
  <2> QED
    BY <1>1, <2>1, ProductNotZero
<1>6. w \in Int /\ b \in Int
  BY <1>1, <1>2, PowerIsInt, ProductIsInt
<1>7. Times(1, b) = b /\ 1 \in Int
  BY <1>6, TimesUnits
<1> HIDE DEF w, b
<1>8. mod(w) = mod(1)
  BY <1>4, <1>5, <1>6, <1>7, Cancelled
<1> QED
  BY <1>8, ZeroIsReduced DEF w

\* invert gives the inverse.
LEMMA InverseIs ==
    ASSUME NEW a \in Int, mod(a) # 0
    PROVE  invert(a) \in Int /\ mod(Times(a, invert(a))) = 1
<1> DEFINE b == mod(a)
           w == modPow(b, L - 2)
<1>1. b \in Int /\ mod(b) = b /\ mod(b) # 0 /\ L - 2 \in Nat /\ (L - 2) + 1 = L - 1
  BY ModIsScalar, OrderIs
<1>2. w \in Int
  BY <1>1, PowerIsInt
<1>3. mod(modPow(b, (L - 2) + 1)) = mod(Times(b, w))
  BY <1>1, PowerNext
<1>4. mod(modPow(b, L - 1)) = 1
  BY <1>1, Fermat
<1>5. mod(Times(b, w)) = 1
  BY <1>1, <1>3, <1>4
<1>6. invert(a) = w
  BY DEF invert
<1> HIDE DEF w
<1>7. mod(Times(a, w)) = mod(Times(b, w))
  BY <1>1, <1>2, SameProduct
<1> QED
  BY <1>2, <1>5, <1>6, <1>7

(***************************************************************************)
(* A multiple of a sum, and the members as numbers modulo L.               *)
(***************************************************************************)
LEMMA SumScaled ==
    ASSUME NEW S, IsFiniteSet(S), NEW f, IntegerOn(f, S), NEW k \in Int,
           NEW g, IntegerOn(g, S), \A x \in S : f[x] = Times(k, g[x])
    PROVE  mod(SumFunctionOnSet(f, S)) = mod(Times(k, SumFunctionOnSet(g, S)))
<1>1. \A v \in Int : Times(k, v) = Times(k - 1, v) + v
  BY SMT DEF Times
<1>2. Combines(S, f, k - 1, g, g)
  <2> SUFFICES ASSUME NEW x \in S PROVE mod(f[x]) = mod(Times(k - 1, g[x]) + g[x])
    BY DEF Combines
  <2>1. g[x] \in Int /\ f[x] = Times(k, g[x])
    BY DEF IntegerOn
  <2> QED
    BY <1>1, <2>1
<1>3. k - 1 \in Int /\ SumFunctionOnSet(g, S) \in Int
  BY SumIsInt
<1>4. mod(SumFunctionOnSet(f, S)) = mod(Times(k - 1, SumFunctionOnSet(g, S)) + SumFunctionOnSet(g, S))
  BY <1>2, <1>3, SumsCombine
<1> QED
  BY <1>1, <1>3, <1>4

(***************************************************************************)
(* Lagrange coefficients.                                                  *)
(***************************************************************************)
LEMMA MembersAre ==
    /\ IsFiniteSet(Members) /\ Members \subseteq Int
    /\ \A a \in Members : mod(a) # 0
    /\ \A a, b \in Members : a # b => mod(a - b) # 0
<1>1. IsFiniteSet(Members) /\ Members \subseteq Int
  BY FrostAssumption, FS_Interval DEF Members
<1>2. \A a \in Members : a \in Int /\ a \in Scalars /\ a > 0 /\ a < L
  BY FrostAssumption DEF Members, Scalars
<1>3. \A a \in Members : mod(a) = a
  BY <1>2, ScalarIsReduced
<1>4. ASSUME NEW a \in Members, NEW b \in Members, a # b PROVE mod(a - b) # 0
  BY <1>2, <1>3, <1>4, SameIsNoDifference
<1> QED
  BY <1>1, <1>2, <1>3, <1>4

Others(i, ids) == ids \ {i}
Gaps(i, ids) == {j - i : j \in ids \ {i}}

\* No member is another one modulo L: the coefficient divides by no zero.
LEMMA OthersAre ==
    ASSUME NEW ids \in SUBSET Members, NEW i \in ids
    PROVE  /\ IsFiniteSet(Others(i, ids)) /\ Numbers(Others(i, ids))
           /\ IsFiniteSet(Gaps(i, ids)) /\ Numbers(Gaps(i, ids))
           /\ mod(ProductSet(Gaps(i, ids))) # 0
<1>1. IsFiniteSet(Others(i, ids)) /\ Others(i, ids) \subseteq Members /\ i \in Members
  BY MembersAre, FS_Subset DEF Others
<1>2. Numbers(Others(i, ids)) /\ i \in Int
  BY <1>1, MembersAre DEF Numbers
<1>3. IsFiniteSet(Gaps(i, ids))
  <2>1. [j \in Others(i, ids) |-> j - i] \in Surjection(Others(i, ids), Gaps(i, ids))
    BY DEF Surjection, Gaps, Others
  <2> QED
    BY <1>1, <2>1, FS_Surjection
<1>4. \A j \in Others(i, ids) : j - i \in Int /\ mod(j - i) # 0
  BY <1>1, MembersAre DEF Others
<1>5. Numbers(Gaps(i, ids)) /\ \A d \in Gaps(i, ids) : mod(d) # 0
  BY <1>4 DEF Numbers, Gaps, Others
<1> QED
  BY <1>1, <1>2, <1>3, <1>5, ProductNotZero

\* The coefficient is the quotient of the two products, modulo L.
LEMMA CoefficientIs ==
    ASSUME NEW ids \in SUBSET Members, NEW i \in ids
    PROVE  /\ lagrangeCoefficient(i, ids) \in Scalars /\ lagrangeCoefficient(i, ids) \in Int
           /\ mod(Times(lagrangeCoefficient(i, ids), ProductSet(Gaps(i, ids)))) =
                 mod(ProductSet(Others(i, ids)))
<1> DEFINE n == ProductSet(Others(i, ids))
           d == ProductSet(Gaps(i, ids))
           v == invert(d)
           p == Times(n, v)
<1>1. n \in Int /\ d \in Int /\ mod(d) # 0
  BY OthersAre, ProductIsInt
<1>2. lagrangeCoefficient(i, ids) = mod(p)
  BY DEF lagrangeCoefficient, Others, Gaps, Times
<1> HIDE DEF n, d
<1>3. v \in Int /\ mod(Times(d, v)) = 1
  BY <1>1, InverseIs
<1> HIDE DEF v
<1>4. p \in Int
  BY <1>1, <1>3, TimesIsInt
<1>5. mod(p) \in Scalars /\ mod(p) \in Int /\ mod(mod(p)) = mod(p)
  BY <1>4, ModIsScalar
<1>6. mod(Times(mod(p), d)) = mod(Times(p, d))
  <2> HIDE DEF p
  <2> QED
    BY <1>1, <1>4, <1>5, SameProduct
<1>7. Times(p, d) = Times(Times(d, v), n)
  BY <1>1, <1>3, SMT DEF Times
<1>8. mod(Times(Times(d, v), n)) = mod(Times(1, n))
  <2> DEFINE u == Times(d, v)
  <2>1. u \in Int /\ mod(u) = mod(1) /\ 1 \in Int
    BY <1>1, <1>3, TimesIsInt, ZeroIsReduced
  <2> HIDE DEF u
  <2>2. mod(Times(u, n)) = mod(Times(1, n))
    BY <1>1, <2>1, SameProduct
  <2> QED
    BY <2>2 DEF u
<1>9. Times(1, n) = n
  BY <1>1, TimesUnits
<1>10. mod(Times(mod(p), d)) = mod(n)
  BY <1>6, <1>7, <1>8, <1>9
<1> QED
  BY <1>2, <1>5, <1>10 DEF n, d

LEMMA LagrangeIsScalar ==
    ASSUME NEW ids \in SUBSET Members, NEW id \in ids
    PROVE  lagrangeCoefficient(id, ids) \in Scalars
BY CoefficientIs

\* What becomes of the coefficient of i when a is left out.
LEMMA CoefficientWithout ==
    ASSUME NEW ids \in SUBSET Members, NEW a \in ids, NEW i \in ids \ {a}
    PROVE  mod(Times(lagrangeCoefficient(i, ids), a - i)) =
              mod(Times(a, lagrangeCoefficient(i, ids \ {a})))
<1> DEFINE l1 == lagrangeCoefficient(i, ids)
           l2 == lagrangeCoefficient(i, ids \ {a})
           n1 == ProductSet(Others(i, ids))
           n2 == ProductSet(Others(i, ids \ {a}))
           d1 == ProductSet(Gaps(i, ids))
           d2 == ProductSet(Gaps(i, ids \ {a}))
           e == a - i
<1>1. /\ a \in Members /\ i \in Members /\ a \in Int /\ i \in Int /\ e \in Int
      /\ ids \ {a} \in SUBSET Members /\ i \in ids \ {a} /\ i \in ids
  BY MembersAre
<1>2. /\ l1 \in Int /\ l2 \in Int
      /\ mod(Times(l1, d1)) = mod(n1) /\ mod(Times(l2, d2)) = mod(n2)
  BY <1>1, CoefficientIs
<1>3. n2 \in Int /\ d2 \in Int /\ mod(d2) # 0
  BY <1>1, OthersAre, ProductIsInt
<1>4. n1 = Times(a, n2)
  <2>1. a \in Others(i, ids) /\ Others(i, ids) \ {a} = Others(i, ids \ {a})
    BY <1>1 DEF Others
  <2> QED
    BY <1>1, <2>1, OthersAre, ProductTakes
<1>5. d1 = Times(e, d2)
  <2>1. e \in Gaps(i, ids)
    BY <1>1 DEF Gaps
  <2>2. Gaps(i, ids) \ {e} = Gaps(i, ids \ {a})
    <3>1. ASSUME NEW j \in ids \ {i}, j - i # e PROVE j # a
      BY <3>1
    <3>2. ASSUME NEW j \in (ids \ {a}) \ {i} PROVE j - i # e
      <4>1. j \in Int
        BY MembersAre
      <4> QED
        BY <1>1, <4>1
    <3> QED
      BY <3>1, <3>2 DEF Gaps
  <2> QED
    BY <1>1, <2>1, <2>2, OthersAre, ProductTakes
<1> HIDE DEF l1, l2, n1, n2, d1, d2, e
<1> DEFINE x == Times(l1, e)
           y == Times(a, l2)
           an == Times(a, n2)
           ld == Times(l2, d2)
<1>6. x \in Int /\ y \in Int /\ an \in Int /\ ld \in Int
  BY <1>1, <1>2, <1>3, TimesIsInt
<1>7. Times(l1, d1) = Times(x, d2)
  BY <1>1, <1>2, <1>3, <1>5, SMT DEF Times
<1>8. Times(y, d2) = Times(a, ld)
  BY <1>1, <1>2, <1>3, SMT DEF Times
<1> HIDE DEF x, y, ld
<1>9. mod(Times(a, ld)) = mod(an)
  <2>1. mod(ld) = mod(n2)
    BY <1>2 DEF ld
  <2> QED
    BY <1>1, <1>3, <1>6, <2>1, SameProduct
<1>10. mod(Times(x, d2)) = mod(Times(y, d2))
  BY <1>2, <1>4, <1>7, <1>8, <1>9
<1>11. mod(x) = mod(y)
  BY <1>3, <1>6, <1>10, Cancelled
<1> QED
  BY <1>11 DEF x, y, l1, l2, e

(***************************************************************************)
(* Interpolation at zero from the values g[i] of the members of ids.       *)
(***************************************************************************)
Weighted(ids, g) == [i \in ids |-> Times(lagrangeCoefficient(i, ids), g[i])]
Interpolate(ids, g) == SumFunctionOnSet(Weighted(ids, g), ids)

LEMMA WeightedIs ==
    ASSUME NEW ids \in SUBSET Members, NEW g, IntegerOn(g, Members)
    PROVE  /\ IsFiniteSet(ids) /\ IntegerOn(Weighted(ids, g), ids)
           /\ \A i \in ids : /\ Weighted(ids, g)[i] = Times(lagrangeCoefficient(i, ids), g[i])
                             /\ lagrangeCoefficient(i, ids) \in Int /\ g[i] \in Int
           /\ Interpolate(ids, g) \in Int
<1>1. IsFiniteSet(ids)
  BY MembersAre, FS_Subset
<1>2. \A i \in ids : /\ Weighted(ids, g)[i] = Times(lagrangeCoefficient(i, ids), g[i])
                     /\ lagrangeCoefficient(i, ids) \in Int /\ g[i] \in Int
  BY CoefficientIs DEF Weighted, IntegerOn
<1>3. IntegerOn(Weighted(ids, g), ids)
  BY <1>2, TimesIsInt DEF IntegerOn
<1> QED
  BY <1>1, <1>2, <1>3, SumIsInt DEF Interpolate

\* Interpolation does not depend on the representatives.
LEMMA InterpolationsSame ==
    ASSUME NEW ids \in SUBSET Members, NEW f, IntegerOn(f, Members),
           NEW g, IntegerOn(g, Members), SameTerms(Members, f, g)
    PROVE  mod(Interpolate(ids, f)) = mod(Interpolate(ids, g))
<1>1. SameTerms(ids, Weighted(ids, f), Weighted(ids, g))
  <2> SUFFICES ASSUME NEW i \in ids PROVE mod(Weighted(ids, f)[i]) = mod(Weighted(ids, g)[i])
    BY DEF SameTerms
  <2>1. /\ Weighted(ids, f)[i] = Times(lagrangeCoefficient(i, ids), f[i])
        /\ lagrangeCoefficient(i, ids) \in Int /\ f[i] \in Int
    BY WeightedIs
  <2>2. Weighted(ids, g)[i] = Times(lagrangeCoefficient(i, ids), g[i]) /\ g[i] \in Int
    BY WeightedIs
  <2>3. mod(f[i]) = mod(g[i])
    BY DEF SameTerms
  <2> QED
    BY <2>1, <2>2, <2>3, SameProduct
<1> QED
  BY <1>1, WeightedIs, SumsSame DEF Interpolate

\* Interpolation is linear.
LEMMA InterpolationsCombine ==
    ASSUME NEW ids \in SUBSET Members, NEW f, IntegerOn(f, Members), NEW k \in Int,
           NEW g, IntegerOn(g, Members), NEW h, IntegerOn(h, Members),
           Combines(Members, f, k, g, h)
    PROVE  mod(Interpolate(ids, f)) = mod(Times(k, Interpolate(ids, g)) + Interpolate(ids, h))
<1>1. Combines(ids, Weighted(ids, f), k, Weighted(ids, g), Weighted(ids, h))
  <2> SUFFICES ASSUME NEW i \in ids
               PROVE  mod(Weighted(ids, f)[i]) =
                        mod(Times(k, Weighted(ids, g)[i]) + Weighted(ids, h)[i])
    BY DEF Combines
  <2> DEFINE l == lagrangeCoefficient(i, ids)
             fi == f[i]
             gi == g[i]
             hi == h[i]
  <2>1. Weighted(ids, f)[i] = Times(l, fi) /\ l \in Int /\ fi \in Int
    BY WeightedIs
  <2>2. Weighted(ids, g)[i] = Times(l, gi) /\ gi \in Int
    BY WeightedIs
  <2>3. Weighted(ids, h)[i] = Times(l, hi) /\ hi \in Int
    BY WeightedIs
  <2>4. mod(fi) = mod(Times(k, gi) + hi)
    BY DEF Combines
  <2> HIDE DEF l, fi, gi, hi
  <2> DEFINE u == Times(k, gi) + hi
  <2>5. u \in Int /\ mod(fi) = mod(u)
    BY <2>2, <2>3, <2>4, TimesIsInt
  <2>6. Times(l, u) = Times(k, Times(l, gi)) + Times(l, hi)
    BY <2>1, <2>2, <2>3, SMT DEF Times
  <2> HIDE DEF u
  <2>7. mod(Times(l, fi)) = mod(Times(l, u))
    BY <2>1, <2>5, SameProduct
  <2> QED
    BY <2>1, <2>2, <2>3, <2>6, <2>7
<1> QED
  BY <1>1, WeightedIs, SumsCombine DEF Interpolate

ByPlace(g) == [i \in Members |-> Times(i, g[i])]

\* Leaving a out: a I(g) = I(x g) + a I'(g), with I' over the others.
LEMMA InterpolateWithout ==
    ASSUME NEW ids \in SUBSET Members, NEW a \in ids, NEW g, IntegerOn(g, Members)
    PROVE  mod(Times(a, Interpolate(ids, g))) =
              mod(Interpolate(ids, ByPlace(g)) + Times(a, Interpolate(ids \ {a}, g)))
<1> DEFINE r == ids \ {a}
           G == Weighted(ids, g)
           X == Weighted(ids, ByPlace(g))
           J == Weighted(r, g)
           A == [i \in ids |-> Times(a, G[i])]
<1>1. a \in Int /\ r \in SUBSET Members /\ r \subseteq ids
  BY MembersAre
<1>2. IntegerOn(ByPlace(g), Members) /\ \A i \in Members : ByPlace(g)[i] = Times(i, g[i])
  BY MembersAre, TimesIsInt DEF ByPlace, IntegerOn
<1>3. IsFiniteSet(ids) /\ IntegerOn(G, ids) /\ IntegerOn(X, ids)
  BY <1>2, WeightedIs
<1>4. IsFiniteSet(r) /\ IntegerOn(J, r)
  BY <1>1, WeightedIs
<1>5. IntegerOn(G, r) /\ IntegerOn(X, r)
  BY <1>1, <1>3 DEF IntegerOn
<1>6. IntegerOn(A, r) /\ \A i \in r : A[i] = Times(a, G[i])
  BY <1>1, <1>5, TimesIsInt DEF IntegerOn
<1>7. ASSUME NEW i \in ids
      PROVE  X[i] = Times(lagrangeCoefficient(i, ids), Times(i, g[i]))
             /\ G[i] = Times(lagrangeCoefficient(i, ids), g[i])
             /\ lagrangeCoefficient(i, ids) \in Int /\ g[i] \in Int /\ i \in Int
  BY <1>2, WeightedIs, MembersAre
<1>8. X[a] = Times(a, G[a]) /\ G[a] \in Int
  <2> DEFINE l == lagrangeCoefficient(a, ids)
             v == g[a]
  <2>1. X[a] = Times(l, Times(a, v)) /\ G[a] = Times(l, v) /\ l \in Int /\ v \in Int
    BY <1>7
  <2> HIDE DEF l, v
  <2>2. Times(l, Times(a, v)) = Times(a, Times(l, v))
    BY <1>1, <2>1, SMT DEF Times
  <2> QED
    BY <2>1, <2>2, TimesIsInt
<1>9. Combines(r, A, a, J, X)
  <2> SUFFICES ASSUME NEW i \in r PROVE mod(A[i]) = mod(Times(a, J[i]) + X[i])
    BY DEF Combines
  <2> DEFINE l == lagrangeCoefficient(i, ids)
             m == lagrangeCoefficient(i, r)
             v == g[i]
             p == Times(l, a - i)
             q == Times(a, m)
             y == Times(l, Times(i, v))
  <2>1. X[i] = y /\ G[i] = Times(l, v) /\ l \in Int /\ v \in Int /\ i \in Int
    BY <1>1, <1>7
  <2>2. J[i] = Times(m, v) /\ m \in Int
    BY <1>1, WeightedIs
  <2>3. mod(p) = mod(q)
    BY CoefficientWithout
  <2>4. A[i] = Times(a, Times(l, v))
    BY <1>6, <2>1
  <2> HIDE DEF l, m, v, A, G, X, J
  <2>5. Times(a, Times(l, v)) = Times(p, v) + y
    BY <1>1, <2>1, SMT DEF Times
  <2>6. Times(a, Times(m, v)) = Times(q, v)
    BY <1>1, <2>1, <2>2, SMT DEF Times
  <2>7. p \in Int /\ q \in Int /\ Times(i, v) \in Int
    <3>1. a - i \in Int
      BY <1>1, <2>1
    <3> QED
      BY <1>1, <2>1, <2>2, <3>1, TimesIsInt
  <2>8. y \in Int /\ Times(p, v) \in Int /\ Times(q, v) \in Int
    <3> HIDE DEF p, q
    <3> QED
      BY <2>1, <2>7, TimesIsInt
  <2> HIDE DEF p, q, y
  <2>9. mod(Times(p, v)) = mod(Times(q, v))
    BY <2>1, <2>3, <2>7, SameProduct
  <2>10. mod(Times(p, v) + y) = mod(Times(q, v) + y)
    BY <2>8, <2>9, SameSum
  <2> QED
    BY <2>1, <2>2, <2>4, <2>5, <2>6, <2>10
<1> DEFINE sA == SumFunctionOnSet(A, r)
           sG == SumFunctionOnSet(G, r)
           sX == SumFunctionOnSet(X, r)
           sJ == SumFunctionOnSet(J, r)
<1> HIDE DEF A, G, X, J
<1>10. mod(sA) = mod(Times(a, sJ) + sX)
  BY <1>1, <1>4, <1>5, <1>6, <1>9, SumsCombine
<1>11. mod(sA) = mod(Times(a, sG))
  BY <1>1, <1>4, <1>5, <1>6, SumScaled
<1>12. /\ sG \in Int /\ SumFunctionOnSet(G, ids) = G[a] + sG
       /\ sX \in Int /\ SumFunctionOnSet(X, ids) = X[a] + sX
  BY <1>3, SumTakes
<1>13. sJ \in Int
  BY <1>4, SumIsInt
<1> HIDE DEF sA, sG, sX, sJ
<1> DEFINE ga == G[a]
           xa == X[a]
           u == Times(a, sG)
           w == Times(a, sJ)
<1>14. xa = Times(a, ga) /\ xa \in Int /\ u \in Int /\ w \in Int /\ ga \in Int
  <2>1. ga \in Int /\ xa = Times(a, ga)
    BY <1>8
  <2> HIDE DEF ga, xa
  <2> QED
    BY <1>1, <1>12, <1>13, <2>1, TimesIsInt
<1>15. mod(u) = mod(w + sX)
  BY <1>10, <1>11
<1>16. Times(a, ga + sG) = xa + u
  <2> HIDE DEF ga, xa
  <2> QED
    BY <1>1, <1>12, <1>14, SMT DEF Times
<1> HIDE DEF u, w
<1>17. mod(xa + u) = mod(xa + (w + sX))
  <2>1. w + sX \in Int
    BY <1>12, <1>14
  <2> QED
    BY <1>14, <1>15, <2>1, SameSum
<1>18. xa + (w + sX) = (xa + sX) + w
  BY <1>12, <1>14
<1>19. /\ Interpolate(ids, g) = ga + sG /\ Interpolate(ids, ByPlace(g)) = xa + sX
       /\ Interpolate(r, g) = sJ
  BY <1>12 DEF Interpolate, G, X, J, sJ
<1> QED
  BY <1>16, <1>17, <1>18, <1>19 DEF w

(***************************************************************************)
(* Interpolation of the powers of the members.                             *)
(***************************************************************************)
Powers(k) == [i \in Members |-> modPow(i, k)]

LEMMA PowersAre ==
    ASSUME NEW k \in Nat
    PROVE  IntegerOn(Powers(k), Members) /\ SameTerms(Members, Powers(k + 1), ByPlace(Powers(k)))
           /\ IntegerOn(ByPlace(Powers(k)), Members)
<1>1. \A i \in Members : Powers(k)[i] = modPow(i, k) /\ modPow(i, k) \in Int
  BY MembersAre, PowerIsInt DEF Powers
<1>2. IntegerOn(Powers(k), Members)
  BY <1>1 DEF IntegerOn
<1>3. \A i \in Members : ByPlace(Powers(k))[i] = Times(i, modPow(i, k)) /\ Times(i, modPow(i, k)) \in Int
  BY <1>1, MembersAre, TimesIsInt DEF ByPlace
<1>4. SameTerms(Members, Powers(k + 1), ByPlace(Powers(k)))
  <2> SUFFICES ASSUME NEW i \in Members
               PROVE  mod(Powers(k + 1)[i]) = mod(ByPlace(Powers(k))[i])
    BY DEF SameTerms
  <2>1. Powers(k + 1)[i] = modPow(i, k + 1) /\ i \in Int
    BY MembersAre DEF Powers
  <2>2. mod(modPow(i, k + 1)) = mod(Times(i, modPow(i, k)))
    BY <2>1, PowerNext
  <2> QED
    BY <1>3, <2>1, <2>2
<1>5. IntegerOn(ByPlace(Powers(k)), Members)
  BY <1>3 DEF IntegerOn
<1> QED
  BY <1>2, <1>4, <1>5

\* The monomial of degree k, interpolated at zero.
Moment(ids, k) == Interpolate(ids, Powers(k))

\* The recurrence for the powers of the members.
LEMMA MomentWithout ==
    ASSUME NEW ids \in SUBSET Members, NEW a \in ids, NEW k \in Nat
    PROVE  /\ Moment(ids, k) \in Int /\ Moment(ids, k + 1) \in Int /\ Moment(ids \ {a}, k) \in Int
           /\ mod(Times(a, Moment(ids, k))) =
                 mod(Moment(ids, k + 1) + Times(a, Moment(ids \ {a}, k)))
<1>1. /\ IntegerOn(Powers(k), Members) /\ SameTerms(Members, Powers(k + 1), ByPlace(Powers(k)))
      /\ IntegerOn(ByPlace(Powers(k)), Members) /\ k + 1 \in Nat
  BY PowersAre
<1>2. IntegerOn(Powers(k + 1), Members) /\ ids \ {a} \in SUBSET Members /\ a \in Int
  BY <1>1, PowersAre, MembersAre
<1> DEFINE x == Interpolate(ids, ByPlace(Powers(k)))
           m == Moment(ids, k + 1)
           w == Times(a, Moment(ids \ {a}, k))
<1>3. Moment(ids, k) \in Int /\ m \in Int /\ Moment(ids \ {a}, k) \in Int /\ x \in Int
  BY <1>1, <1>2, WeightedIs DEF Moment
<1>4. mod(m) = mod(x)
  BY <1>1, <1>2, InterpolationsSame DEF Moment
<1>5. mod(Times(a, Moment(ids, k))) = mod(x + w)
  BY <1>1, InterpolateWithout DEF Moment
<1>6. w \in Int
  BY <1>2, <1>3, TimesIsInt
<1> HIDE DEF x, m, w
<1>7. mod(x + w) = mod(m + w)
  BY <1>3, <1>4, <1>6, SameSum
<1> QED
  BY <1>3, <1>5, <1>7 DEF m, w

\* One member alone, and none.
LEMMA MomentOfFew ==
    /\ \A k \in Nat : Moment({}, k) = 0
    /\ \A a \in Members : mod(Moment({a}, 0)) = 1
<1>1. \A k \in Nat : Moment({}, k) = 0
  BY SumOfNone DEF Moment, Interpolate
<1>2. ASSUME NEW a \in Members PROVE mod(Moment({a}, 0)) = 1
  <2> DEFINE l == lagrangeCoefficient(a, {a})
             W == Weighted({a}, Powers(0))
  <2>1. {a} \in SUBSET Members /\ a \in {a} /\ a \in Int /\ 0 \in Nat
    BY MembersAre
  <2>2. Others(a, {a}) = {} /\ Gaps(a, {a}) = {}
    BY DEF Others, Gaps
  <2>3. l \in Int /\ mod(Times(l, 1)) = mod(1)
    BY <2>1, <2>2, CoefficientIs, ProductOfNone
  <2>4. IntegerOn(Powers(0), Members)
    BY <2>1, PowersAre
  <2>5. IsFiniteSet({a}) /\ IntegerOn(W, {a}) /\ W[a] = Times(l, Powers(0)[a])
    BY <2>1, <2>4, WeightedIs
  <2>6. Powers(0)[a] = 1
    BY <2>1, PowerOfZero DEF Powers
  <2> HIDE DEF W, l
  <2>7. SumFunctionOnSet(W, {a}) = W[a] + SumFunctionOnSet(W, {a} \ {a})
    BY <2>1, <2>5, SumTakes
  <2>8. SumFunctionOnSet(W, {a} \ {a}) = 0
    <3>1. {a} \ {a} = {}
      OBVIOUS
    <3> QED
      BY <3>1, SumOfNone
  <2>9. Moment({a}, 0) = Times(l, 1) + 0
    BY <2>5, <2>6, <2>7, <2>8 DEF Moment, Interpolate, W
  <2>10. Times(l, 1) + 0 = Times(l, 1)
    BY <2>3, TimesIsInt
  <2> QED
    BY <2>3, <2>9, <2>10, ZeroIsReduced
<1> QED
  BY <1>1, <1>2

Delta(k) == IF k = 0 THEN 1 ELSE 0

\* Interpolation is exact for the monomials of a degree below the number of
\* members.
LEMMA MomentsAre ==
    ASSUME NEW ids \in SUBSET Members, NEW k \in Nat, k < Cardinality(ids)
    PROVE  mod(Moment(ids, k)) = Delta(k)
<1> DEFINE Exact(s) == \A j \in Nat : j < Cardinality(s) => mod(Moment(s, j)) = Delta(j)
           P == {s \in SUBSET Members : Exact(s)}
<1>1. ASSUME NEW s \in SUBSET Members, \A r \in SUBSET s : r # s => r \in P
      PROVE  Exact(s)
  <2>1. IsFiniteSet(s) /\ Cardinality(s) \in Nat
    BY MembersAre, FS_Subset, FS_CardinalityType
  <2>2. CASE s = {}
    BY <2>2, FS_EmptySet
  <2>3. CASE s # {}
    <3>1. PICK a \in s : TRUE
      BY <2>3
    <3>2. ASSUME NEW b \in s
          PROVE  /\ b \in Int /\ b \in Members
                 /\ Cardinality(s \ {b}) = Cardinality(s) - 1 /\ Exact(s \ {b})
      <4>1. Cardinality(s \ {b}) = Cardinality(s) - 1
        BY <2>1, FS_RemoveElement
      <4>2. s \ {b} \in P
        BY <1>1
      <4> QED
        BY <4>1, <4>2, MembersAre
    <3>3. mod(Moment(s, 0)) = 1
      <4>1. CASE s = {a}
        BY <4>1, MomentOfFew
      <4>2. CASE s # {a}
        <5>1. PICK b \in s : b # a
          BY <4>2
        <5>2. Cardinality(s) >= 2
          <6>1. b \in s \ {a} /\ IsFiniteSet(s \ {a})
            BY <2>1, <5>1, FS_RemoveElement
          <6>2. Cardinality(s \ {a}) \in Nat /\ Cardinality(s \ {a}) # 0
            BY <6>1, FS_CardinalityType, FS_EmptySet
          <6> QED
            BY <2>1, <3>2, <6>2
        <5> DEFINE m0 == Moment(s, 0)
                   m1 == Moment(s, 1)
        <5>3. ASSUME NEW d \in s
              PROVE  m0 \in Int /\ m1 \in Int /\ mod(Times(d, m0)) = mod(m1 + d)
          <6> DEFINE e == Moment(s \ {d}, 0)
          <6>1. /\ m0 \in Int /\ m1 \in Int /\ e \in Int
                /\ mod(Times(d, m0)) = mod(m1 + Times(d, e))
            <7>1. 0 \in Nat /\ 0 + 1 = 1
              OBVIOUS
            <7> QED
              BY <7>1, MomentWithout
          <6>2. mod(e) = 1 /\ d \in Int
            <7>1. 0 \in Nat /\ 0 < Cardinality(s \ {d})
              BY <2>1, <3>2, <5>2
            <7>2. Exact(s \ {d}) /\ d \in Int
              BY <3>2
            <7>3. mod(e) = Delta(0)
              BY <7>1, <7>2
            <7> QED
              BY <7>2, <7>3 DEF Delta
          <6> HIDE DEF m0, m1, e
          <6>3. mod(Times(d, e)) = mod(Times(d, 1))
            <7>1. 1 \in Int /\ mod(e) = mod(1)
              BY <6>2, ZeroIsReduced
            <7> QED
              BY <6>1, <6>2, <7>1, SameProduct
          <6>4. Times(d, 1) = d /\ Times(d, e) \in Int
            BY <6>1, <6>2, TimesIsInt DEF Times
          <6>5. mod(m1 + Times(d, e)) = mod(m1 + d)
            BY <6>1, <6>2, <6>3, <6>4, SameSum
          <6> QED
            BY <6>1, <6>5
        <5>4. /\ m0 \in Int /\ m1 \in Int /\ a \in Int /\ b \in Int
              /\ mod(Times(a, m0)) = mod(m1 + a) /\ mod(Times(b, m0)) = mod(m1 + b)
          BY <3>2, <5>3
        <5>5. mod(a - b) # 0
          BY <5>1, MembersAre
        <5> HIDE DEF m0, m1
        <5>6. mod(Times(a, m0) - Times(b, m0)) = mod((m1 + a) - (m1 + b))
          <6>1. Times(a, m0) \in Int /\ Times(b, m0) \in Int /\ m1 + a \in Int /\ m1 + b \in Int
            BY <5>4, TimesIsInt
          <6> QED
            BY <5>4, <6>1, SameSum
        <5> DEFINE e == a - b
        <5>7. /\ Times(a, m0) - Times(b, m0) = Times(m0, e)
              /\ (m1 + a) - (m1 + b) = Times(1, e) /\ e \in Int
          BY <5>4, SMT DEF Times
        <5>8. mod(Times(m0, e)) = mod(Times(1, e)) /\ mod(e) # 0
          BY <5>5, <5>6, <5>7
        <5> HIDE DEF e
        <5>9. mod(m0) = mod(1)
          BY <5>4, <5>7, <5>8, Cancelled
        <5> QED
          BY <5>9, ZeroIsReduced DEF m0
      <4> QED
        BY <4>1, <4>2
    <3> DEFINE Q == {j \in Nat : j < Cardinality(s) => mod(Moment(s, j)) = Delta(j)}
    <3>4. 0 \in Q
      BY <3>3 DEF Delta
    <3>5. ASSUME NEW j \in Nat, j \in Q PROVE j + 1 \in Q
      <4> SUFFICES ASSUME j + 1 < Cardinality(s) PROVE mod(Moment(s, j + 1)) = Delta(j + 1)
        OBVIOUS
      <4> DEFINE x == Moment(s, j)
                 y == Moment(s, j + 1)
                 z == Moment(s \ {a}, j)
      <4>1. /\ x \in Int /\ y \in Int /\ z \in Int
            /\ mod(Times(a, x)) = mod(y + Times(a, z))
        BY <3>1, MomentWithout
      <4>2. mod(x) = mod(z) /\ a \in Int
        <5>1. j < Cardinality(s) /\ j < Cardinality(s \ {a})
          BY <2>1, <3>2
        <5>2. mod(x) = Delta(j)
          BY <3>5, <5>1
        <5>3. mod(z) = Delta(j) /\ a \in Int
          BY <3>2, <5>1
        <5> QED
          BY <5>2, <5>3
      <4> HIDE DEF x, y, z, P, Q
      <4> DEFINE u == Times(a, z)
      <4>3. mod(Times(a, x)) = mod(u) /\ u \in Int
        BY <4>1, <4>2, SameProduct, TimesIsInt
      <4> HIDE DEF u
      <4>4. mod(y + u) = mod(u)
        BY <4>1, <4>3 DEF u
      <4>5. mod((y + u) - u) = 0 /\ (y + u) - u = y
        <5>1. y + u \in Int
          BY <4>1, <4>3
        <5> QED
          BY <4>1, <4>3, <4>4, <5>1, SameIsNoDifference
      <4> QED
        BY <4>5 DEF y, Delta
    <3>6. Nat \subseteq Q
      <4> HIDE DEF Q
      <4> QED
        BY <3>4, <3>5, NumberInduction
    <3> QED
      BY <3>6
  <2> QED
    BY <2>2, <2>3
<1>2. SUBSET Members \subseteq P
  <2>1. \A s \in SUBSET Members : (\A r \in SUBSET s : r # s => r \in P) => s \in P
    BY <1>1
  <2> HIDE DEF P
  <2> QED
    BY <2>1, MembersAre, SetInduction
<1> QED
  BY <1>2

\* It is not for the next degree.
LEMMA NextMomentIsNot ==
    ASSUME NEW ids \in SUBSET Members, ids # {}
    PROVE  mod(Moment(ids, Cardinality(ids))) # 0
<1> DEFINE Off(s) == s # {} => mod(Moment(s, Cardinality(s))) # 0
           P == {s \in SUBSET Members : Off(s)}
<1>1. ASSUME NEW s \in SUBSET Members, \A r \in SUBSET s : r # s => r \in P, s # {}
      PROVE  mod(Moment(s, Cardinality(s))) # 0
  <2>1. PICK a \in s : TRUE
    BY <1>1
  <2> DEFINE n == Cardinality(s)
             k == n - 1
             x == Moment(s, k)
             y == Moment(s, n)
             z == Moment(s \ {a}, k)
  <2>2. k \in Nat /\ k + 1 = n /\ Cardinality(s \ {a}) = k /\ k < n /\ a \in Int /\ mod(a) # 0
    <3>1. IsFiniteSet(s) /\ n \in Nat /\ n # 0
      BY <1>1, MembersAre, FS_Subset, FS_CardinalityType, FS_EmptySet
    <3>2. Cardinality(s \ {a}) = k
      BY <3>1, FS_RemoveElement
    <3> QED
      BY <3>1, <3>2, MembersAre
  <2>3. /\ x \in Int /\ y \in Int /\ z \in Int
        /\ mod(Times(a, x)) = mod(y + Times(a, z))
    <3>1. y = Moment(s, k + 1)
      BY <2>2
    <3> HIDE DEF k, n
    <3> QED
      BY <2>2, <3>1, MomentWithout
  <2>4. mod(x) = Delta(k)
    BY <2>2, MomentsAre
  <2>5. k = 0 => z = 0
    <3>1. k = 0 => s \ {a} = {}
      <4>1. IsFiniteSet(s \ {a})
        BY MembersAre, FS_Subset
      <4> QED
        BY <2>2, <4>1, FS_EmptySet
    <3> QED
      BY <2>2, <3>1, MomentOfFew
  <2>6. k # 0 => mod(z) # 0
    <3>1. s \ {a} \in P
      BY <1>1
    <3>2. k # 0 => s \ {a} # {}
      BY <2>2, FS_EmptySet
    <3> QED
      BY <2>2, <3>1, <3>2
  <2>7. mod(x - z) # 0 /\ x - z \in Int
    <3>1. mod(x - z) = 0 => mod(x) = mod(z)
      BY <2>3, SameIsNoDifference
    <3>2. CASE k = 0
      BY <2>3, <2>4, <2>5, <3>1, <3>2, ZeroIsReduced DEF Delta
    <3>3. CASE k # 0
      BY <2>3, <2>4, <2>6, <3>1, <3>3 DEF Delta
    <3> QED
      BY <3>2, <3>3
  <2>8. ASSUME mod(y) = 0 PROVE FALSE
    <3> HIDE DEF P, n, k, x, y, z
    <3> DEFINE u == Times(a, x)
               w == Times(a, z)
               e == x - z
    <3>1. u \in Int /\ w \in Int
      BY <2>2, <2>3, TimesIsInt
    <3>2. Times(e, a) = u - w
      BY <2>2, <2>3, SMT DEF Times
    <3>3. e \in Int /\ mod(e) # 0
      BY <2>7
    <3>4. mod(u) = mod(y + w)
      BY <2>3
    <3> HIDE DEF u, w, e
    <3>5. mod(y + w) = mod(0 + w)
      BY <2>3, <2>8, <3>1, SameSum, ZeroIsReduced
    <3>6. mod(u - w) = 0
      BY <3>1, <3>4, <3>5, SameIsNoDifference
    <3> QED
      BY <2>2, <3>2, <3>3, <3>6, NoZeroDivisors
  <2> QED
    BY <2>8
<1>2. SUBSET Members \subseteq P
  <2>1. \A s \in SUBSET Members : (\A r \in SUBSET s : r # s => r \in P) => s \in P
    BY <1>1
  <2> HIDE DEF P
  <2> QED
    BY <2>1, MembersAre, SetInduction
<1> QED
  BY <1>2

(***************************************************************************)
(* Shares of a polynomial f: f[1] is the secret.                           *)
(***************************************************************************)
Terms(f, x) == [k \in DOMAIN f |-> Times(f[k], modPow(x, k - 1))]

\* The first m coefficients, evaluated at each member.
Part(f, m) == [i \in Members |-> SumFunctionOnSet(Terms(f, i), 1 .. m)]

LEMMA EvaluateIs ==
    ASSUME NEW f, NEW x
    PROVE  Evaluate(f, x) = mod(SumFunctionOnSet(Terms(f, x), DOMAIN f))
BY DEF Evaluate, SumFunction, Terms, Times

LEMMA TermsAre ==
    ASSUME NEW n \in Nat, NEW f \in [1 .. n -> Scalars], NEW m \in 0 .. n, NEW x \in Int
    PROVE  /\ IsFiniteSet(1 .. m) /\ IntegerOn(Terms(f, x), 1 .. m)
           /\ \A k \in 1 .. n : f[k] \in Int /\ Terms(f, x)[k] = Times(f[k], modPow(x, k - 1))
<1>1. IsFiniteSet(1 .. m)
  BY FS_Interval
<1>2. ASSUME NEW k \in 1 .. n
      PROVE  f[k] \in Int /\ Terms(f, x)[k] = Times(f[k], modPow(x, k - 1))
             /\ Terms(f, x)[k] \in Int
  <2>1. f[k] \in Int /\ k - 1 \in Nat /\ k \in DOMAIN f
    BY OrderIs DEF Scalars
  <2>2. modPow(x, k - 1) \in Int
    BY <2>1, PowerIsInt
  <2>3. Times(f[k], modPow(x, k - 1)) \in Int
    BY <2>1, <2>2, TimesIsInt
  <2>4. Terms(f, x)[k] = Times(f[k], modPow(x, k - 1))
    BY <2>1 DEF Terms
  <2> QED
    BY <2>1, <2>3, <2>4
<1>3. 1 .. m \subseteq 1 .. n
  OBVIOUS
<1> QED
  BY <1>1, <1>2, <1>3 DEF IntegerOn

\* A share is a scalar.
LEMMA ShareIsInt ==
    ASSUME NEW n \in Nat, NEW a \in [1 .. n -> Scalars], NEW x \in Int
    PROVE  Evaluate(a, x) \in Scalars
<1>1. DOMAIN a = 1 .. n /\ n \in 0 .. n
  OBVIOUS
<1>2. SumFunctionOnSet(Terms(a, x), 1 .. n) \in Int
  BY <1>1, TermsAre, SumIsInt
<1> QED
  BY <1>1, <1>2, EvaluateIs, ModIsScalar

LEMMA PartIs ==
    ASSUME NEW n \in Nat, NEW f \in [1 .. n -> Scalars], NEW m \in 0 .. n
    PROVE  /\ IntegerOn(Part(f, m), Members)
           /\ \A i \in Members : /\ m = 0 => Part(f, m)[i] = 0
                                 /\ m < n => Part(f, m + 1)[i] =
                                               Times(f[m + 1], Powers(m)[i]) + Part(f, m)[i]
<1>1. ASSUME NEW i \in Members
      PROVE  /\ Part(f, m)[i] = SumFunctionOnSet(Terms(f, i), 1 .. m) /\ Part(f, m)[i] \in Int
             /\ Part(f, m + 1)[i] = SumFunctionOnSet(Terms(f, i), 1 .. m + 1)
  <2>1. i \in Int
    BY MembersAre
  <2>2. SumFunctionOnSet(Terms(f, i), 1 .. m) \in Int
    BY <2>1, TermsAre, SumIsInt
  <2> QED
    BY <2>2 DEF Part
<1>2. IntegerOn(Part(f, m), Members)
  BY <1>1 DEF IntegerOn
<1>3. ASSUME NEW i \in Members, m = 0 PROVE Part(f, m)[i] = 0
  <2>1. 1 .. m = {}
    BY <1>3
  <2> QED
    BY <1>1, <2>1, SumOfNone
<1>4. ASSUME NEW i \in Members, m < n
      PROVE  Part(f, m + 1)[i] = Times(f[m + 1], Powers(m)[i]) + Part(f, m)[i]
  <2> DEFINE k == m + 1
             g == Terms(f, i)
  <2>1. k \in 0 .. n /\ k \in 1 .. n /\ k \in 1 .. k /\ (1 .. k) \ {k} = 1 .. m /\ k - 1 = m
    BY <1>4
  <2>2. i \in Int
    BY MembersAre
  <2>3. IsFiniteSet(1 .. k) /\ IntegerOn(g, 1 .. k) /\ g[k] = Times(f[k], modPow(i, k - 1))
    BY <2>1, <2>2, TermsAre
  <2>4. Powers(m)[i] = modPow(i, m)
    BY DEF Powers
  <2> HIDE DEF k, g
  <2>5. SumFunctionOnSet(g, 1 .. k) = g[k] + SumFunctionOnSet(g, (1 .. k) \ {k})
    BY <2>1, <2>3, SumTakes
  <2> QED
    BY <1>1, <2>1, <2>3, <2>4, <2>5 DEF k, g
<1> QED
  BY <1>2, <1>3, <1>4

\* One coefficient more adds its multiple of a moment.
LEMMA PartInterpolates ==
    ASSUME NEW n \in Nat, NEW f \in [1 .. n -> Scalars], NEW m \in 0 .. n - 1,
           NEW ids \in SUBSET Members
    PROVE  /\ Interpolate(ids, Part(f, m)) \in Int /\ Interpolate(ids, Part(f, m + 1)) \in Int
           /\ Moment(ids, m) \in Int /\ f[m + 1] \in Int
           /\ mod(Interpolate(ids, Part(f, m + 1))) =
                 mod(Times(f[m + 1], Moment(ids, m)) + Interpolate(ids, Part(f, m)))
<1>1. m \in 0 .. n /\ m + 1 \in 0 .. n /\ m < n /\ m \in Nat /\ m + 1 \in 1 .. n
  OBVIOUS
<1>2. IntegerOn(Part(f, m), Members) /\ IntegerOn(Part(f, m + 1), Members)
  BY <1>1, PartIs
<1>3. IntegerOn(Powers(m), Members) /\ f[m + 1] \in Int
  BY <1>1, PowersAre, OrderIs DEF Scalars
<1>4. Combines(Members, Part(f, m + 1), f[m + 1], Powers(m), Part(f, m))
  <2>1. \A i \in Members : Part(f, m + 1)[i] = Times(f[m + 1], Powers(m)[i]) + Part(f, m)[i]
    BY <1>1, PartIs
  <2> QED
    BY <2>1, Zenon DEF Combines
<1> QED
  BY <1>2, <1>3, <1>4, InterpolationsCombine, WeightedIs DEF Moment

\* The first m coefficients interpolate to the secret among m members or more.
LEMMA PartsAre ==
    ASSUME NEW n \in Nat, NEW f \in [1 .. n -> Scalars], NEW ids \in SUBSET Members,
           NEW m \in Nat, m <= n, m <= Cardinality(ids)
    PROVE  mod(Interpolate(ids, Part(f, m))) = IF m = 0 THEN 0 ELSE f[1]
<1> DEFINE Is(j) == mod(Interpolate(ids, Part(f, j))) = IF j = 0 THEN 0 ELSE f[1]
           Q == {j \in Nat : j <= n /\ j <= Cardinality(ids) => Is(j)}
<1>0. Cardinality(ids) \in Nat
  BY MembersAre, FS_Subset, FS_CardinalityType
<1>1. 0 \in Q
  <2> DEFINE g == Part(f, 0)
             v == Interpolate(ids, g)
  <2>1. IntegerOn(g, Members) /\ \A i \in Members : g[i] = 0
    <3>1. 0 \in 0 .. n
      OBVIOUS
    <3> QED
      BY <3>1, PartIs
  <2> HIDE DEF g
  <2>2. PICK z \in Int : z = 0
    OBVIOUS
  <2> DEFINE W == Weighted(ids, g)
  <2>3. IsFiniteSet(ids) /\ IntegerOn(W, ids) /\ v \in Int
    BY <2>1, WeightedIs
  <2>4. ASSUME NEW i \in ids PROVE W[i] = Times(z, W[i])
    <3>1. W[i] = Times(lagrangeCoefficient(i, ids), 0) /\ lagrangeCoefficient(i, ids) \in Int
      BY <2>1, WeightedIs
    <3>2. Times(lagrangeCoefficient(i, ids), 0) = 0 /\ Times(z, 0) = 0
      BY <2>2, <3>1 DEF Times
    <3> QED
      BY <3>1, <3>2
  <2> HIDE DEF W
  <2>5. mod(SumFunctionOnSet(W, ids)) = mod(Times(z, SumFunctionOnSet(W, ids)))
    BY <2>3, <2>4, SumScaled
  <2>6. v = SumFunctionOnSet(W, ids)
    BY DEF Interpolate, W
  <2> HIDE DEF v
  <2>7. Times(z, v) = 0
    BY <2>2, <2>3, TimesUnits
  <2> QED
    BY <2>5, <2>6, <2>7, ZeroIsReduced DEF v, g
<1>2. ASSUME NEW j \in Nat, j \in Q PROVE j + 1 \in Q
  <2> SUFFICES ASSUME j + 1 <= n, j + 1 <= Cardinality(ids) PROVE Is(j + 1)
    OBVIOUS
  <2> DEFINE v == Interpolate(ids, Part(f, j))
             x == Moment(ids, j)
             w == f[j + 1]
  <2>1. j \in 0 .. n - 1 /\ j <= n /\ j < Cardinality(ids) /\ j <= Cardinality(ids) /\ j + 1 # 0
    BY <1>0
  <2>2. /\ v \in Int /\ x \in Int /\ w \in Int
        /\ mod(Interpolate(ids, Part(f, j + 1))) = mod(Times(w, x) + v)
    BY <2>1, PartInterpolates
  <2>3. mod(x) = Delta(j)
    BY <2>1, MomentsAre
  <2>4. mod(v) = IF j = 0 THEN 0 ELSE f[1]
    BY <1>2, <2>1
  <2>5. f[1] \in Int /\ mod(f[1]) = f[1]
    <3>1. f[1] \in Scalars
      BY <2>1
    <3> QED
      BY <3>1, ScalarIsReduced
  <2> HIDE DEF Q, v, x, w
  <2>6. mod(Times(w, x) + v) = f[1]
    <3> DEFINE u == Times(w, x)
    <3>1. u \in Int
      BY <2>2, TimesIsInt
    <3>2. CASE j = 0
      <4>1. mod(x) = mod(1) /\ 1 \in Int /\ mod(v) = mod(0) /\ 0 \in Int
        BY <2>3, <2>4, <3>2, ZeroIsReduced DEF Delta
      <4>2. mod(u) = mod(Times(w, 1)) /\ Times(w, 1) = w
        <5>1. Times(w, 1) = w
          BY <2>2 DEF Times
        <5> QED
          BY <2>2, <4>1, <5>1, SameProduct
      <4>3. w + 0 = w
        BY <2>2
      <4> HIDE DEF u
      <4>4. mod(u + v) = mod(w + 0)
        BY <2>2, <3>1, <4>1, <4>2, SameSum
      <4>5. w = f[1]
        BY <3>2 DEF w
      <4> QED
        BY <2>5, <4>3, <4>4, <4>5 DEF u
    <3>3. CASE j # 0
      <4>1. mod(x) = 0 /\ mod(v) = mod(f[1])
        BY <2>3, <2>4, <2>5, <3>3 DEF Delta
      <4>2. PICK z, s : z = 0 /\ s = f[1]
        OBVIOUS
      <4>3. mod(u) = mod(z) /\ z \in Int /\ s \in Int /\ z + s = s /\ mod(v) = mod(s)
        BY <2>2, <2>5, <4>1, <4>2, ZeroTimes, ZeroIsReduced
      <4> HIDE DEF u
      <4>4. mod(u + v) = mod(z + s)
        BY <2>2, <3>1, <4>3, SameSum
      <4> QED
        BY <2>5, <4>2, <4>3, <4>4 DEF u
    <3> QED
      BY <3>2, <3>3
  <2> QED
    BY <2>1, <2>2, <2>6
<1> HIDE DEF Q
<1>3. Nat \subseteq Q
  BY <1>1, <1>2, NumberInduction
<1> QED
  BY <1>3 DEF Q

SharesOf(f) == [i \in Members |-> Evaluate(f, i)]

\* The shares interpolate as the whole polynomial does.
LEMMA SharesInterpolate ==
    ASSUME NEW n \in Nat, NEW f \in [1 .. n -> Scalars], NEW ids \in SUBSET Members
    PROVE  /\ IntegerOn(SharesOf(f), Members) /\ Interpolate(ids, SharesOf(f)) \in Int
           /\ mod(Interpolate(ids, SharesOf(f))) = mod(Interpolate(ids, Part(f, n)))
<1>1. n \in 0 .. n /\ DOMAIN f = 1 .. n
  OBVIOUS
<1>2. IntegerOn(Part(f, n), Members)
  BY <1>1, PartIs
<1>3. ASSUME NEW i \in Members
      PROVE  SharesOf(f)[i] \in Int /\ mod(SharesOf(f)[i]) = mod(Part(f, n)[i])
  <2>1. Part(f, n)[i] = SumFunctionOnSet(Terms(f, i), DOMAIN f)
    BY <1>1 DEF Part
  <2>2. SharesOf(f)[i] = mod(Part(f, n)[i])
    BY <2>1, EvaluateIs DEF SharesOf
  <2>3. Part(f, n)[i] \in Int
    BY <1>2 DEF IntegerOn
  <2> QED
    BY <2>2, <2>3, ModIsScalar
<1>4. IntegerOn(SharesOf(f), Members) /\ SameTerms(Members, SharesOf(f), Part(f, n))
  BY <1>3 DEF IntegerOn, SameTerms
<1> QED
  BY <1>2, <1>4, InterpolationsSame, WeightedIs

\* As many shares as coefficients, whichever they are, give the secret.
LEMMA SharesRecover ==
    ASSUME NEW n \in Nat \ {0}, NEW f \in [1 .. n -> Scalars], NEW ids \in SUBSET Members,
           n <= Cardinality(ids)
    PROVE  mod(Interpolate(ids, SharesOf(f))) = f[1]
BY SharesInterpolate, PartsAre

\* One share less never does.
LEMMA SharesMiss ==
    ASSUME NEW n \in Nat \ {0}, NEW f \in [1 .. n -> Scalars], NEW ids \in SUBSET Members,
           ids # {}, Cardinality(ids) = n - 1, f[n] # 0
    PROVE  mod(Interpolate(ids, SharesOf(f))) # f[1]
<1> DEFINE m == n - 1
           v == Interpolate(ids, Part(f, m))
           x == Moment(ids, m)
           w == f[n]
           u == Times(w, x)
<1>1. m \in Nat /\ m \in 0 .. n - 1 /\ m + 1 = n /\ m <= n /\ m <= Cardinality(ids) /\ m # 0
  <2>1. IsFiniteSet(ids)
    BY MembersAre, FS_Subset
  <2> QED
    BY <2>1, FS_EmptySet
<1>2. mod(v) = f[1]
  BY <1>1, PartsAre
<1>3. mod(x) # 0
  BY NextMomentIsNot
<1>4. /\ v \in Int /\ x \in Int /\ w \in Int
      /\ mod(Interpolate(ids, Part(f, n))) = mod(u + v)
  <2> HIDE DEF m
  <2>1. /\ v \in Int /\ x \in Int /\ f[m + 1] \in Int
        /\ mod(Interpolate(ids, Part(f, m + 1))) = mod(Times(f[m + 1], x) + v)
    BY <1>1, PartInterpolates
  <2> QED
    BY <1>1, <2>1
<1>5. mod(w) # 0
  <2>1. w \in Scalars
    OBVIOUS
  <2> QED
    BY <2>1, ScalarIsReduced
<1> HIDE DEF v, x, w
<1>6. mod(u) # 0 /\ u \in Int
  BY <1>3, <1>4, <1>5, NoZeroDivisors, TimesIsInt
<1> HIDE DEF u
<1>7. mod(u + v) # mod(v)
  <2>1. u + v \in Int /\ (u + v) - v = u
    BY <1>4, <1>6
  <2> QED
    BY <1>4, <1>6, <2>1, SameIsNoDifference
<1> QED
  BY <1>2, <1>4, <1>7, SharesInterpolate

(***************************************************************************)
(* A ceremony.                                                             *)
(***************************************************************************)
\* The shares are those of one polynomial, whose constant is the group's secret.
KeysInv ==
    keys = NoKeys \/ \E t \in Thresholds : \E f \in Coeffs(t) :
        keys = [t |-> t, shares |-> SharesOf(f), groupPublicKey |-> f[1]]

Entries(ids) == [identifier : ids, hiding : Scalars, binding : Scalars]

\* The binding commitments of a list l are what the members made.
BindingIsMade(l, made) == \A i \in DOMAIN l : l[i].binding = made[l[i].identifier].binding

CeremonyInv ==
    list # <<>> =>
        /\ keys # NoKeys
        /\ DOMAIN nonces \subseteq Members /\ nonces \in [DOMAIN nonces -> Nonces]
        /\ list \in Seq(Entries(DOMAIN nonces)) /\ BindingIsMade(list, nonces)
        /\ rho \in [DOMAIN nonces -> Hashes] /\ c \in Hashes

\* What a partial of member id is, if its entry in the list is the only one.
IsAnswer(id, zi) ==
    IF id \in tampered THEN zi # round2Sign(id)
                       ELSE CommitmentMatches(id) /\ zi = round2Sign(id)

PartialsInv ==
    /\ partials \in Seq([identifier : Members, zi : Scalars])
    /\ Len(partials) <= Len(list)
    /\ \A i \in 1 .. Len(partials) :
        /\ partials[i].identifier = list[i].identifier
        /\ ~Duplicates => IsAnswer(partials[i].identifier, partials[i].zi)
    /\ tampered \subseteq {partials[i].identifier : i \in 1 .. Len(partials)}

Answers == [i \in DOMAIN partials |-> partials[i].zi]

SignatureInv ==
    signature # NoSignature =>
        /\ list # <<>> /\ ~Duplicates /\ Len(partials) = Len(list)
        /\ signature = [R |-> groupCommitment, z |-> mod(SumFunction(Answers))]

FrostInv ==
    /\ KeysInv /\ CeremonyInv /\ PartialsInv /\ SignatureInv
    /\ list = <<>> \/ list \in Seq(Entries(Members))

LEMMA HashesAndNonces ==
    /\ Hashes \subseteq Int
    /\ \A p \in Nonces : p.hiding \in Scalars /\ p.binding \in Scalars
    /\ Scalars \subseteq Int
BY FrostAssumption DEF Scalars

\* What the dealer's polynomial says of the keys.
LEMMA KeysAre ==
    ASSUME KeysInv, keys # NoKeys
    PROVE  /\ keys.shares \in [Members -> Scalars]
           /\ \E f : /\ f \in [1 .. keys.t -> Scalars \ {0}] /\ keys.t \in Nat \ {0}
                    /\ keys.shares = SharesOf(f) /\ keys.groupPublicKey = f[1]
<1>a. PICK t \in Thresholds : \E f \in Coeffs(t) :
          keys = [t |-> t, shares |-> SharesOf(f), groupPublicKey |-> f[1]]
  BY DEF KeysInv
<1>1. PICK f \in Coeffs(t) :
          keys = [t |-> t, shares |-> SharesOf(f), groupPublicKey |-> f[1]]
  BY <1>a
<1>2. t \in Nat \ {0} /\ f \in [1 .. t -> Scalars \ {0}] /\ f \in [1 .. t -> Scalars]
  BY FrostAssumption DEF Coeffs
<1>3. \A id \in Members : Evaluate(f, id) \in Scalars
  BY <1>2, ShareIsInt, MembersAre
<1>4. SharesOf(f) \in [Members -> Scalars]
  BY <1>3 DEF SharesOf
<1> QED
  BY <1>1, <1>2, <1>4

\* Without a duplicate every member has one place in the list.
LEMMA PlacesAreDistinct ==
    ASSUME NEW X, list \in Seq(X), ~Duplicates,
           NEW i \in DOMAIN list, NEW j \in DOMAIN list,
           list[i].identifier = list[j].identifier
    PROVE  i = j
<1> DEFINE n == Len(list)
           f == [k \in 1 .. n |-> list[k].identifier]
<1>1. n \in Nat /\ DOMAIN list = 1 .. n
  OBVIOUS
<1>2. f \in Surjection(1 .. n, Participants)
  BY <1>1 DEF Surjection, Participants
<1>3. IsFiniteSet(1 .. n) /\ Cardinality(1 .. n) = n
  <2> HIDE DEF n
  <2>1. 1 \in Int /\ n \in Int /\ (IF 1 > n THEN 0 ELSE n - 1 + 1) = n
    BY <1>1
  <2> QED
    BY <2>1, FS_Interval, Zenon
<1>4. f \in Injection(1 .. n, Participants)
  BY <1>2, <1>3, FS_Surjection DEF Duplicates
<1>5. f[i] = f[j]
  BY <1>1
<1> HIDE DEF f
<1> QED
  BY <1>1, <1>4, <1>5 DEF Injection, IsInjective

\* CommitmentOf finds an entry of the participant.
LEMMA CommitmentIs ==
    ASSUME NEW i \in DOMAIN list
    PROVE  LET id == list[i].identifier
           IN /\ id \in Participants /\ CommitmentOf(id).identifier = id
              /\ \E k \in DOMAIN list : CommitmentOf(id) = list[k]
<1> DEFINE id == list[i].identifier
           k == CHOOSE j \in DOMAIN list : list[j].identifier = id
<1>1. k \in DOMAIN list /\ list[k].identifier = id
  OBVIOUS
<1>2. CommitmentOf(id) = list[k]
  BY DEF CommitmentOf
<1>3. id \in Participants
  BY DEF Participants
<1> QED
  BY <1>1, <1>2, <1>3

\* What the member computes is what the coordinator expects, for a commitment
\* that is the member's own.
LEMMA AnswerVerifies ==
    ASSUME CeremonyInv, KeysInv, NEW i \in DOMAIN list, list # <<>>,
           NEW share, share.identifier = list[i].identifier,
           Genuine(share.identifier)
    PROVE  /\ round2Sign(share.identifier) \in Scalars
           /\ verifySignatureShare(share) <=> share.zi = round2Sign(share.identifier)
<1> DEFINE id == share.identifier
           lambda == lagrangeCoefficient(id, Participants)
<1>1. /\ DOMAIN nonces \subseteq Members /\ nonces \in [DOMAIN nonces -> Nonces]
      /\ list \in Seq(Entries(DOMAIN nonces)) /\ BindingIsMade(list, nonces)
      /\ rho \in [DOMAIN nonces -> Hashes] /\ c \in Hashes
      /\ keys.shares \in [Members -> Scalars]
  BY KeysAre DEF CeremonyInv
<1> HIDE DEF lambda
<1>2. id \in DOMAIN nonces
  <2>1. \A j \in DOMAIN list : list[j] \in Entries(DOMAIN nonces)
    BY <1>1
  <2> QED
    BY <2>1 DEF Entries
<1>3. /\ nonces[id].hiding \in Int /\ nonces[id].binding \in Int /\ rho[id] \in Int
      /\ c \in Int /\ keys.shares[id] \in Int
  BY <1>1, <1>2, HashesAndNonces
<1>4. Participants \in SUBSET Members /\ id \in Participants
  <2>1. \A j \in DOMAIN list : list[j].identifier \in Members
    <3>1. \A j \in DOMAIN list : list[j] \in Entries(DOMAIN nonces)
      BY <1>1
    <3> QED
      BY <1>1, <3>1 DEF Entries
  <2> QED
    BY <2>1 DEF Participants
<1>5. lambda \in Int
  BY <1>4, LagrangeIsScalar, HashesAndNonces DEF lambda
<1>6. CommitmentOf(id).hiding = nonces[id].hiding /\ CommitmentOf(id).binding = nonces[id].binding
  <2>1. PICK k \in DOMAIN list : CommitmentOf(id) = list[k] /\ list[k].identifier = id
    BY CommitmentIs
  <2>2. list[k].binding = nonces[id].binding
    BY <1>1, <2>1 DEF BindingIsMade
  <2> QED
    BY <2>1, <2>2 DEF Genuine
<1> DEFINE x == nonces[id].hiding + nonces[id].binding * rho[id]
           s == keys.shares[id]
<1>7. x \in Int /\ s \in Int
  BY <1>3
<1>8. /\ round2Sign(id) = MemberSide(x, lambda, s, c)
      /\ verifySignatureShare(share) <=> share.zi = CoordinatorSide(x, lambda, s, c)
  BY <1>6 DEF round2Sign, verifySignatureShare, lambda, MemberSide, CoordinatorSide
<1> HIDE DEF x, s
<1>9. /\ MemberSide(x, lambda, s, c) = CoordinatorSide(x, lambda, s, c)
      /\ MemberSide(x, lambda, s, c) \in Scalars
  BY <1>3, <1>5, <1>7, ReducedFactor
<1> QED
  BY <1>8, <1>9

\* What the members answer is what verifySignatureShare accepts, and no more.
LEMMA InvBlames == FrostInv => BadShareFound
<1> SUFFICES ASSUME FrostInv, NEW i \in DOMAIN partials, ~Duplicates
             PROVE  LET id == partials[i].identifier
                    IN /\ id \notin tampered => verifySignatureShare(partials[i])
                       /\ id \in tampered /\ Genuine(id) => ~verifySignatureShare(partials[i])
  BY DEF BadShareFound
<1> DEFINE id == partials[i].identifier
<1>1. /\ i \in 1 .. Len(partials) /\ Len(partials) <= Len(list) /\ Len(partials) \in Nat
      /\ id = list[i].identifier /\ IsAnswer(id, partials[i].zi)
  BY DEF FrostInv, PartialsInv
<1>2. list # <<>> /\ i \in DOMAIN list
  <2>1. list # <<>>
    BY <1>1
  <2>2. list \in Seq(Entries(Members))
    BY <2>1 DEF FrostInv
  <2> QED
    BY <1>1, <2>1, <2>2
<1>3. Genuine(id) => (verifySignatureShare(partials[i]) <=> partials[i].zi = round2Sign(id))
  BY <1>1, <1>2, AnswerVerifies DEF FrostInv
<1>4. CommitmentMatches(id) => Genuine(id)
  BY DEF CommitmentMatches, Genuine
<1> QED
  BY <1>1, <1>3, <1>4 DEF IsAnswer

(***************************************************************************)
(* The invariant is inductive.                                             *)
(***************************************************************************)
LEMMA ListsAre ==
    ASSUME NEW ids \in SUBSET Members, ids # {}, NEW made \in [ids -> Nonces],
           NEW l \in Lists(made)
    PROVE  l \in Seq(Entries(ids)) /\ BindingIsMade(l, made)
<1> DEFINE Entry(id) == [identifier |-> id, hiding |-> made[id].hiding, binding |-> made[id].binding]
           plain(s) == [i \in DOMAIN s |-> Entry(s[i])]
           MadeOf(s) == {plain(s), Append(plain(s), plain(s)[1])}
                          \cup {[plain(s) EXCEPT ![1].hiding = p.hiding] : p \in Nonces}
<1>1. PICK s \in SetToSeqs(ids) : l \in MadeOf(s)
  <2>1. DOMAIN made = ids
    OBVIOUS
  <2>2. l \in UNION {MadeOf(s) : s \in SetToSeqs(ids)}
    BY <2>1, Zenon DEF Lists
  <2> HIDE DEF MadeOf
  <2> QED
    BY <2>2
<1>2. IsFiniteSet(ids)
  <2>1. IsFiniteSet(Members)
    BY FrostAssumption, FS_Interval DEF Members
  <2> QED
    BY <2>1, FS_Subset
<1> DEFINE n == Cardinality(ids)
<1>3. n \in Nat \ {0} /\ s \in [1 .. n -> ids]
  BY <1>1, <1>2, FS_CardinalityType, FS_EmptySet DEF SetToSeqs
<1> HIDE DEF n
<1>4. ASSUME NEW id \in ids
      PROVE  Entry(id) \in Entries(ids) /\ Entry(id).identifier = id /\ Entry(id).binding = made[id].binding
  BY <1>4, HashesAndNonces DEF Entries
<1> HIDE DEF Entry
<1>5. plain(s) \in [1 .. n -> Entries(ids)]
  BY <1>3, <1>4
<1>6. \A i \in 1 .. n : plain(s)[i].binding = made[plain(s)[i].identifier].binding
  BY <1>3, <1>4
<1> DEFINE p == plain(s)
<1>7. /\ p \in [1 .. n -> Entries(ids)]
      /\ \A i \in 1 .. n : p[i].binding = made[p[i].identifier].binding
      /\ l \in {p, Append(p, p[1])} \cup {[p EXCEPT ![1].hiding = q.hiding] : q \in Nonces}
  BY <1>1, <1>5, <1>6
<1> HIDE DEF p
<1>8. CASE l = p
  BY <1>3, <1>7, <1>8 DEF BindingIsMade
<1>9. CASE l = Append(p, p[1])
  <2>1. p \in Seq(Entries(ids)) /\ Len(p) = n /\ p[1] \in Entries(ids)
    BY <1>3, <1>7
  <2>2. l \in Seq(Entries(ids)) /\ DOMAIN l = 1 .. n + 1
    BY <1>3, <1>9, <2>1
  <2>3. \A i \in 1 .. n + 1 : l[i] = IF i = n + 1 THEN p[1] ELSE p[i]
    BY <1>3, <1>9, <2>1
  <2> QED
    BY <1>3, <1>7, <2>2, <2>3 DEF BindingIsMade
<1>10. ASSUME NEW q \in Nonces, l = [p EXCEPT ![1].hiding = q.hiding]
       PROVE  l \in Seq(Entries(ids)) /\ BindingIsMade(l, made)
  <2>1. p[1] \in Entries(ids) /\ q.hiding \in Scalars
    BY <1>3, <1>7, HashesAndNonces
  <2>2. /\ [p[1] EXCEPT !.hiding = q.hiding] \in Entries(ids)
        /\ [p[1] EXCEPT !.hiding = q.hiding].identifier = p[1].identifier
        /\ [p[1] EXCEPT !.hiding = q.hiding].binding = p[1].binding
    BY <2>1 DEF Entries
  <2>3. l = [p EXCEPT ![1] = [p[1] EXCEPT !.hiding = q.hiding]]
    BY <1>3, <1>7, <1>10
  <2>4. l \in [1 .. n -> Entries(ids)]
    BY <1>7, <2>2, <2>3
  <2>5. \A i \in 1 .. n : l[i] = IF i = 1 THEN [p[1] EXCEPT !.hiding = q.hiding] ELSE p[i]
    BY <1>7, <2>3
  <2>6. \A i \in 1 .. n : l[i].binding = p[i].binding /\ l[i].identifier = p[i].identifier
    BY <1>3, <2>2, <2>5
  <2> QED
    BY <1>3, <1>7, <2>4, <2>6 DEF BindingIsMade
<1> QED
  BY <1>7, <1>8, <1>9, <1>10

LEMMA InitFrost == Init => FrostInv
BY DEF Init, FrostInv, KeysInv, CeremonyInv, PartialsInv, SignatureInv

\* What a member answers depends on keys and ceremony only.
LEMMA AnswerFrame ==
    ASSUME UNCHANGED <<keys, nonces, list, rho, c>>
    PROVE  /\ Duplicates' = Duplicates
           /\ \A id : /\ round2Sign(id)' = round2Sign(id)
                      /\ CommitmentMatches(id)' = CommitmentMatches(id)
BY DEF Duplicates, Participants, round2Sign, CommitmentMatches, CommitmentOf

\* Neither does what is committed to.
LEMMA CommitmentFrame ==
    ASSUME UNCHANGED <<list, rho>>
    PROVE  groupCommitment' = groupCommitment
<1>1. Participants' = Participants /\ \A id : CommitmentOf(id)' = CommitmentOf(id)
  BY DEF Participants, CommitmentOf
<1> QED
  BY <1>1 DEF groupCommitment

LEMMA FrostFrame ==
    ASSUME FrostInv, UNCHANGED <<keys, nonces, list, rho, c, partials, tampered>>
    PROVE  (KeysInv /\ CeremonyInv /\ PartialsInv /\ (list = <<>> \/ list \in Seq(Entries(Members))))'
<1>1. KeysInv' /\ CeremonyInv' /\ (list = <<>> \/ list \in Seq(Entries(Members)))'
  BY DEF FrostInv, KeysInv, CeremonyInv
<1>2. PartialsInv'
  BY AnswerFrame DEF FrostInv, PartialsInv, IsAnswer
<1> QED
  BY <1>1, <1>2

\* The aggregate is made of the partials of a list without duplicates.
LEMMA AggregateFrost ==
    ASSUME FrostInv, aggregate
    PROVE  FrostInv'
<1>1. UNCHANGED <<keys, nonces, list, rho, c, partials, tampered>>
  BY DEF aggregate
<1>2. /\ signature' = [R |-> groupCommitment, z |-> mod(SumFunction(Answers))]
      /\ list # <<>> /\ ~Duplicates /\ Len(partials) = Len(list)
  BY DEF aggregate, Answers
<1>3. groupCommitment' = groupCommitment /\ Duplicates' = Duplicates /\ Answers' = Answers
  BY <1>1, AnswerFrame, CommitmentFrame DEF Answers
<1>4. SignatureInv'
  BY <1>1, <1>2, <1>3 DEF SignatureInv
<1> QED
  BY <1>1, <1>4, FrostFrame DEF FrostInv

LEMMA StutterFrost ==
    ASSUME FrostInv, UNCHANGED vars
    PROVE  FrostInv'
<1>1. UNCHANGED <<keys, nonces, list, rho, c, partials, tampered>> /\ signature' = signature
  BY DEF vars
<1>2. groupCommitment' = groupCommitment /\ Duplicates' = Duplicates /\ Answers' = Answers
  BY <1>1, AnswerFrame, CommitmentFrame DEF Answers
<1>3. SignatureInv'
  BY <1>1, <1>2 DEF FrostInv, SignatureInv
<1> QED
  BY <1>1, <1>3, FrostFrame DEF FrostInv

\* Between ceremonies there are no partials and no signature.
LEMMA NoPartials ==
    ASSUME FrostInv, list = <<>>
    PROVE  partials = <<>> /\ tampered = {} /\ signature = NoSignature
BY DEF FrostInv, PartialsInv, SignatureInv

LEMMA KeygenFrost ==
    ASSUME FrostInv, NEW t \in Thresholds, trustedDealerKeygen(t)
    PROVE  FrostInv'
<1>1. list = <<>>
  BY DEF FrostInv, CeremonyInv, trustedDealerKeygen
<1>2. partials = <<>> /\ tampered = {} /\ signature = NoSignature
  BY <1>1, NoPartials
<1>3. PICK f \in Coeffs(t) : keys' = [t |-> t, shares |-> SharesOf(f), groupPublicKey |-> f[1]]
  BY DEF trustedDealerKeygen, SharesOf
<1>4. KeysInv'
  BY <1>3 DEF KeysInv
<1> QED
  BY <1>1, <1>2, <1>4
     DEF trustedDealerKeygen, FrostInv, CeremonyInv, PartialsInv, SignatureInv

\* A new ceremony starts without partials.
LEMMA RoundFrost ==
    ASSUME FrostInv, NEW ids \in SUBSET Members, ids # {}, round1(ids)
    PROVE  FrostInv'
<1>1. partials = <<>> /\ tampered = {} /\ signature = NoSignature
  BY NoPartials DEF round1
<1>2. nonces' \in [ids -> Nonces] /\ list' \in Lists(nonces')
  BY DEF round1
<1>3. list' \in Seq(Entries(ids)) /\ BindingIsMade(list', nonces')
  BY <1>2, ListsAre
<1>4. list' \in Seq(Entries(Members))
  <2>1. Entries(ids) \subseteq Entries(Members)
    BY DEF Entries
  <2> QED
    BY <1>3, <2>1
<1>5. CeremonyInv'
  BY <1>2, <1>3 DEF round1, CeremonyInv, bindingFactors, challenge, BindingIsMade
<1>6. PartialsInv'
  <2>1. partials' = <<>> /\ tampered' = {} /\ Len(list') \in Nat
    BY <1>1, <1>3 DEF round1
  <2> QED
    BY <2>1 DEF PartialsInv
<1> QED
  BY <1>1, <1>4, <1>5, <1>6 DEF FrostInv, KeysInv, SignatureInv, round1

\* A partial more is the next member's.
LEMMA SignFrost ==
    ASSUME FrostInv, SignShare
    PROVE  FrostInv'
<1>0. PICK i, id : i = Len(partials) + 1 /\ id = list[i].identifier
  OBVIOUS
<1>1. /\ i <= Len(list) /\ Len(partials) \in Nat
      /\ \A j \in 1 .. Len(partials) :
            /\ partials[j].identifier = list[j].identifier
            /\ ~Duplicates => IsAnswer(partials[j].identifier, partials[j].zi)
      /\ partials \in Seq([identifier : Members, zi : Scalars])
      /\ tampered \subseteq {partials[j].identifier : j \in 1 .. Len(partials)}
      /\ UNCHANGED <<keys, nonces, list, rho, c>>
  BY <1>0 DEF FrostInv, PartialsInv, SignShare
<1>2. list # <<>> /\ list \in Seq(Entries(Members)) /\ DOMAIN list = 1 .. Len(list) /\ i \in DOMAIN list
  <2>1. list # <<>>
    BY <1>0, <1>1
  <2>2. list \in Seq(Entries(Members))
    BY <2>1 DEF FrostInv
  <2> QED
    BY <1>0, <1>1, <2>1, <2>2
<1>3. id \in Members
  <2>1. list[i] \in Entries(Members)
    BY <1>2
  <2> QED
    BY <1>0, <2>1 DEF Entries
<1>4. PICK zi : /\ Answer(i, zi)
                /\ \/ zi = round2Sign(id) /\ CommitmentMatches(id) /\ tampered' = tampered
                   \/ zi \in Scalars \ {round2Sign(id)} /\ tampered' = tampered \cup {id}
  BY <1>0 DEF SignShare
<1>5. zi \in Scalars
  <2>1. CASE zi = round2Sign(id) /\ CommitmentMatches(id)
    <3>1. Genuine(id)
      BY <2>1 DEF CommitmentMatches, Genuine
    <3> DEFINE share == [identifier |-> id, zi |-> zi]
    <3>2. share.identifier = id
      OBVIOUS
    <3>3. round2Sign(id) \in Scalars
      BY <1>0, <1>2, <3>1, <3>2, AnswerVerifies DEF FrostInv
    <3> QED
      BY <2>1, <3>3
  <2> QED
    BY <1>4, <2>1
<1>6. i = Len(partials) + 1 /\ id = list[i].identifier
  BY <1>0
<1>7. /\ partials' \in Seq([identifier : Members, zi : Scalars]) /\ Len(partials') = i
      /\ partials'[i] = [identifier |-> id, zi |-> zi]
      /\ \A j \in 1 .. Len(partials) : partials'[j] = partials[j]
  BY <1>1, <1>3, <1>4, <1>5, <1>6 DEF Answer
<1>8. \A j \in 1 .. i : j = i \/ j \in 1 .. Len(partials)
  BY <1>1, <1>6
<1>9. ASSUME ~Duplicates
      PROVE  /\ id \notin {partials[j].identifier : j \in 1 .. Len(partials)}
             /\ \A j \in 1 .. i : IsAnswer(partials[j].identifier, partials[j].zi)'
  <2>1. ASSUME NEW j \in 1 .. Len(partials) PROVE partials[j].identifier # id
    <3>1. j \in DOMAIN list /\ j # i
      BY <1>1, <1>2, <1>6
    <3> QED
      BY <1>1, <1>2, <1>6, <1>9, <3>1, PlacesAreDistinct
  <2>2. ASSUME NEW j \in 1 .. Len(partials)
        PROVE  IsAnswer(partials[j].identifier, partials[j].zi)'
    <3>1. partials[j].identifier \in tampered' <=> partials[j].identifier \in tampered
      BY <1>4, <2>1
    <3>2. IsAnswer(partials[j].identifier, partials[j].zi)
      BY <1>1, <1>9
    <3> QED
      BY <1>1, <1>7, <3>1, <3>2, AnswerFrame DEF IsAnswer
  <2>3. id \notin tampered
    BY <1>1, <2>1
  <2>4. IsAnswer(id, zi)'
    BY <1>1, <1>4, <2>3, AnswerFrame DEF IsAnswer
  <2>5. ASSUME NEW j \in 1 .. i
        PROVE  IsAnswer(partials[j].identifier, partials[j].zi)'
    <3>1. CASE j = i
      <4>1. partials'[j].identifier = id /\ partials'[j].zi = zi
        BY <1>7, <3>1
      <4> QED
        BY <2>4, <4>1 DEF IsAnswer
    <3>2. CASE j \in 1 .. Len(partials)
      BY <2>2, <3>2
    <3> QED
      BY <1>8, <3>1, <3>2
  <2> QED
    BY <2>1, <2>5
<1>10. \A j \in 1 .. i : partials'[j].identifier = list[j].identifier
  BY <1>1, <1>6, <1>7, <1>8
<1>11. tampered' \subseteq {partials'[j].identifier : j \in 1 .. i}
  BY <1>1, <1>4, <1>6, <1>7
<1>12. PartialsInv'
  BY <1>1, <1>6, <1>7, <1>9, <1>10, <1>11, AnswerFrame DEF PartialsInv
<1>13. KeysInv' /\ CeremonyInv' /\ (list = <<>> \/ list \in Seq(Entries(Members)))'
  BY <1>1 DEF FrostInv, KeysInv, CeremonyInv
<1>14. SignatureInv'
  <2>1. signature = NoSignature
    BY <1>1, <1>6 DEF FrostInv, SignatureInv
  <2> QED
    BY <2>1 DEF SignatureInv, SignShare
<1> QED
  BY <1>12, <1>13, <1>14 DEF FrostInv

LEMMA NextFrost == FrostInv /\ [Next]_vars => FrostInv'
<1> SUFFICES ASSUME FrostInv, [Next]_vars PROVE FrostInv'
  OBVIOUS
<1>1. ASSUME NEW t \in Thresholds, trustedDealerKeygen(t) PROVE FrostInv'
  BY <1>1, KeygenFrost
<1>2. ASSUME NEW ids \in (SUBSET Members) \ {{}}, round1(ids) PROVE FrostInv'
  BY <1>2, RoundFrost
<1>3. CASE SignShare
  BY <1>3, SignFrost
<1>4. CASE aggregate
  BY <1>4, AggregateFrost
<1>5. CASE EndCeremony
  BY <1>5 DEF EndCeremony, FrostInv, KeysInv, CeremonyInv, PartialsInv, SignatureInv
<1>6. CASE UNCHANGED vars
  BY <1>6, StutterFrost
<1> QED
  BY <1>1, <1>2, <1>3, <1>4, <1>5, <1>6 DEF Next

(***************************************************************************)
(* The aggregate.                                                          *)
(***************************************************************************)
\* By participant: what is committed to, and the only partial that verifies.
Committed == [id \in Participants |->
                 CommitmentOf(id).hiding + CommitmentOf(id).binding * rho[id]]
Expected == [id \in Participants |->
                CoordinatorSide(Committed[id], lagrangeCoefficient(id, Participants),
                                keys.shares[id], c)]

\* By place: the partial that verifies there.
Due == [i \in DOMAIN partials |-> Expected[partials[i].identifier]]

\* The participants of a ceremony and what they commit to.
LEMMA CeremonyIs ==
    ASSUME FrostInv, list # <<>>
    PROVE  /\ Participants \in SUBSET Members /\ IsFiniteSet(Participants) /\ Participants # {}
           /\ IntegerOn(Committed, Participants) /\ IntegerOn(keys.shares, Members)
           /\ c \in Int
<1>1. /\ DOMAIN nonces \subseteq Members /\ nonces \in [DOMAIN nonces -> Nonces]
      /\ list \in Seq(Entries(DOMAIN nonces))
      /\ rho \in [DOMAIN nonces -> Hashes] /\ c \in Hashes
      /\ keys.shares \in [Members -> Scalars]
  BY KeysAre DEF FrostInv, CeremonyInv
<1>2. \A j \in DOMAIN list : list[j] \in Entries(DOMAIN nonces)
  BY <1>1
<1>3. Participants \in SUBSET DOMAIN nonces
  BY <1>2 DEF Participants, Entries
<1>4. Participants \in SUBSET Members
  BY <1>1, <1>3
<1>5. IsFiniteSet(Participants)
  BY <1>4, MembersAre, FS_Subset
<1>6. Participants # {}
  <2>1. 1 \in DOMAIN list
    BY <1>1
  <2> QED
    BY <2>1 DEF Participants
<1>7. ASSUME NEW id \in Participants
      PROVE  Committed[id] \in Int
  <2>1. PICK i \in DOMAIN list : id = list[i].identifier
    BY DEF Participants
  <2>2. PICK k \in DOMAIN list : CommitmentOf(id) = list[k]
    BY <2>1, CommitmentIs
  <2>3. list[k].hiding \in Int /\ list[k].binding \in Int
    BY <1>2, HashesAndNonces DEF Entries
  <2>4. rho[id] \in Int
    BY <1>1, <1>3, HashesAndNonces
  <2> QED
    BY <2>2, <2>3, <2>4 DEF Committed
<1>8. IntegerOn(keys.shares, Members) /\ c \in Int
  BY <1>1, HashesAndNonces DEF IntegerOn
<1> QED
  BY <1>4, <1>5, <1>6, <1>7, <1>8 DEF IntegerOn

\* The partials expected are the challenge times the interpolated shares, plus
\* what is committed to.
LEMMA ExpectedIs ==
    ASSUME FrostInv, list # <<>>
    PROVE  /\ \A id \in Participants : Expected[id] \in Scalars
           /\ IntegerOn(Expected, Participants)
           /\ Combines(Participants, Expected, c, Weighted(Participants, keys.shares), Committed)
<1> DEFINE W == Weighted(Participants, keys.shares)
<1>1. ASSUME NEW id \in Participants
      PROVE  /\ Expected[id] \in Scalars
             /\ mod(Expected[id]) = mod(Times(c, W[id]) + Committed[id])
  <2>0. PICK x, lambda, s : x = Committed[id] /\ s = keys.shares[id]
                            /\ lambda = lagrangeCoefficient(id, Participants)
    OBVIOUS
  <2>1. /\ x \in Int /\ s \in Int /\ lambda \in Int /\ c \in Int
        /\ W[id] = Times(lambda, s)
    BY <2>0, CeremonyIs, WeightedIs DEF IntegerOn
  <2>2. Expected[id] = CoordinatorSide(x, lambda, s, c)
    BY <2>0 DEF Expected
  <2>3. Expected[id] = MemberSide(x, lambda, s, c) /\ Expected[id] \in Scalars
    BY <2>1, <2>2, ReducedFactor
  <2>4. x + lambda * s * c = Times(c, Times(lambda, s)) + x
    BY <2>1, SMT DEF Times
  <2>5. Expected[id] = mod(Times(c, W[id]) + Committed[id])
    BY <2>0, <2>1, <2>3, <2>4 DEF MemberSide
  <2> QED
    BY <2>3, <2>5, ScalarIsReduced
<1>2. \A id \in Participants : Expected[id] \in Scalars
  BY <1>1
<1>3. IntegerOn(Expected, Participants)
  BY <1>2, HashesAndNonces DEF IntegerOn
<1> QED
  BY <1>1, <1>2, <1>3 DEF Combines

\* Once there is a signature, the partials are those of the participants.
LEMMA SignedIs ==
    ASSUME FrostInv, signature # NoSignature
    PROVE  /\ list # <<>> /\ Len(partials) = Cardinality(Participants)
           /\ IsFiniteSet(DOMAIN partials) /\ DOMAIN partials = 1 .. Len(partials)
           /\ Len(partials) \in Nat \ {0}
           /\ {partials[i].identifier : i \in DOMAIN partials} = Participants
           /\ \A i, j \in DOMAIN partials :
                 partials[i].identifier = partials[j].identifier => i = j
<1>1. list # <<>> /\ ~Duplicates /\ Len(partials) = Len(list)
  BY DEF FrostInv, SignatureInv
<1>2. list \in Seq(Entries(Members))
  BY <1>1 DEF FrostInv
<1>3. partials \in Seq([identifier : Members, zi : Scalars])
  BY DEF FrostInv, PartialsInv
<1>4. /\ DOMAIN partials = 1 .. Len(partials) /\ DOMAIN list = DOMAIN partials
      /\ Len(partials) \in Nat \ {0}
  BY <1>1, <1>2, <1>3
<1>5. \A i \in DOMAIN partials : partials[i].identifier = list[i].identifier
  BY <1>4 DEF FrostInv, PartialsInv
<1>6. {partials[i].identifier : i \in DOMAIN partials} = Participants
  BY <1>4, <1>5 DEF Participants
<1>7. ASSUME NEW i \in DOMAIN partials, NEW j \in DOMAIN partials,
             partials[i].identifier = partials[j].identifier
      PROVE  i = j
  <2>1. i \in DOMAIN list /\ j \in DOMAIN list /\ list[i].identifier = list[j].identifier
    BY <1>4, <1>5, <1>7
  <2> QED
    BY <1>1, <1>2, <2>1, PlacesAreDistinct
<1>8. IsFiniteSet(DOMAIN partials)
  BY <1>4, FS_Interval
<1>9. Len(partials) = Cardinality(Participants)
  BY <1>1 DEF Duplicates
<1> QED
  BY <1>1, <1>4, <1>6, <1>7, <1>8, <1>9

LEMMA ElementIs ==
    ASSUME NEW S, NEW s \in Seq(S), NEW i \in DOMAIN s
    PROVE  s[i] \in S
OBVIOUS

\* A partial verifies when it is the one due.
LEMMA VerifiesIs ==
    ASSUME FrostInv, signature # NoSignature, NEW i \in DOMAIN partials
    PROVE  /\ Answers[i] \in Scalars /\ Due[i] \in Scalars
           /\ Due[i] = Expected[partials[i].identifier]
           /\ verifySignatureShare(partials[i]) <=> Answers[i] = Due[i]
<1> DEFINE id == partials[i].identifier
<1>1. id \in Participants /\ list # <<>>
  BY SignedIs
<1>2. Due[i] = Expected[id] /\ Answers[i] = partials[i].zi
  BY DEF Due, Answers
<1>3. Due[i] \in Scalars
  BY <1>1, <1>2, ExpectedIs
<1>4. Answers[i] \in Scalars
  <2>1. partials \in Seq([identifier : Members, zi : Scalars])
    BY DEF FrostInv, PartialsInv
  <2>2. partials[i] \in [identifier : Members, zi : Scalars]
    BY <2>1, ElementIs
  <2>3. partials[i].zi \in Scalars
    BY <2>2
  <2> QED
    BY <1>2, <2>3
<1>5. Committed[id] = CommitmentOf(id).hiding + CommitmentOf(id).binding * rho[id]
  BY <1>1 DEF Committed
<1>6. Expected[id] = CoordinatorSide(Committed[id], lagrangeCoefficient(id, Participants),
                                     keys.shares[id], c)
  BY <1>1 DEF Expected
<1> QED
  BY <1>2, <1>3, <1>4, <1>5, <1>6 DEF verifySignatureShare, CoordinatorSide

\* The partials due, by place or by participant, have the same sum.
LEMMA SumsAre ==
    ASSUME FrostInv, signature # NoSignature
    PROVE  /\ IntegerOn(Answers, DOMAIN partials) /\ IntegerOn(Due, DOMAIN partials)
           /\ SumFunctionOnSet(Due, DOMAIN partials) = SumFunctionOnSet(Expected, Participants)
           /\ mod(SumFunctionOnSet(Due, DOMAIN partials)) =
                 mod(Times(c, Interpolate(Participants, keys.shares))
                     + SumFunctionOnSet(Committed, Participants))
<1>1. IntegerOn(Answers, DOMAIN partials) /\ IntegerOn(Due, DOMAIN partials)
  BY VerifiesIs, HashesAndNonces DEF IntegerOn
<1>2. SumFunctionOnSet(Due, DOMAIN partials) = SumFunctionOnSet(Expected, Participants)
  <2>0. PICK D, p : D = DOMAIN partials /\ p = [i \in D |-> partials[i].identifier]
    OBVIOUS
  <2>1. IsFiniteSet(D) /\ \A x, y \in D : p[x] = p[y] => x = y
    BY <2>0, SignedIs
  <2>2. \A x \in D : Due[x] = Expected[p[x]] /\ Due[x] \in Int
    BY <1>1, <2>0, VerifiesIs DEF IntegerOn
  <2>3. {p[x] : x \in D} = Participants
    BY <2>0, SignedIs
  <2>4. SumFunctionOnSet(Due, D) = SumFunctionOnSet(Expected, {p[x] : x \in D})
    BY <2>1, <2>2, SumReindexed
  <2> QED
    BY <2>0, <2>3, <2>4
<1>3. list # <<>>
  BY SignedIs
<1>4. /\ IsFiniteSet(Participants) /\ c \in Int
      /\ IntegerOn(Expected, Participants) /\ IntegerOn(Committed, Participants)
      /\ IntegerOn(Weighted(Participants, keys.shares), Participants)
      /\ Combines(Participants, Expected, c, Weighted(Participants, keys.shares), Committed)
  BY <1>3, CeremonyIs, ExpectedIs, WeightedIs
<1>5. mod(SumFunctionOnSet(Expected, Participants)) =
         mod(Times(c, SumFunctionOnSet(Weighted(Participants, keys.shares), Participants))
             + SumFunctionOnSet(Committed, Participants))
  BY <1>4, SumsCombine, Zenon
<1> QED
  BY <1>1, <1>2, <1>5 DEF Interpolate

\* Ed25519's verification compares the sum of the partials with what the
\* commitments and the group key ask for.
LEMMA SignatureVerifies ==
    ASSUME FrostInv, signature # NoSignature, NEW w \in Int, keys.groupPublicKey = w
    PROVE  verifySignature(signature) <=>
              mod(SumFunctionOnSet(Answers, DOMAIN partials)) =
                 mod(Times(c, w) + SumFunctionOnSet(Committed, Participants))
<1>1. /\ signature = [R |-> groupCommitment, z |-> mod(SumFunction(Answers))]
      /\ list # <<>>
  BY DEF FrostInv, SignatureInv
<1>2. PICK r : r = SumFunctionOnSet(Committed, Participants)
  OBVIOUS
<1>3. groupCommitment = mod(r)
  BY <1>2 DEF groupCommitment, Committed, SumFunction
<1>4. SumFunction(Answers) = SumFunctionOnSet(Answers, DOMAIN partials)
  BY DEF Answers, SumFunction
<1>5. r \in Int /\ c \in Int /\ Times(c, w) \in Int
  BY <1>1, <1>2, CeremonyIs, SumIsInt, TimesIsInt
<1>6. mod(mod(r) + Times(c, w)) = mod(r + Times(c, w))
  BY <1>5, ModIsScalar, SameSum
<1>7. r + Times(c, w) = Times(c, w) + r
  BY <1>5
<1> QED
  BY <1>1, <1>2, <1>3, <1>4, <1>6, <1>7 DEF verifySignature, Times

Bad == {i \in DOMAIN partials : ~verifySignatureShare(partials[i])}

\* The sum is the one due if no partial is bad, and another if a single one is.
LEMMA BadShowsInSum ==
    ASSUME FrostInv, signature # NoSignature
    PROVE  LET answered == mod(SumFunctionOnSet(Answers, DOMAIN partials))
               due == mod(SumFunctionOnSet(Due, DOMAIN partials))
           IN /\ Bad = {} => answered = due
              /\ \A a : Bad = {a} => answered # due
<1>1. PICK D : D = DOMAIN partials
  OBVIOUS
<1>2. IsFiniteSet(D) /\ IntegerOn(Answers, D) /\ IntegerOn(Due, D)
  BY <1>1, SignedIs, SumsAre
<1>3. ASSUME Bad = {}
      PROVE  mod(SumFunctionOnSet(Answers, D)) = mod(SumFunctionOnSet(Due, D))
  <2>1. SameTerms(D, Answers, Due)
    BY <1>1, <1>3, VerifiesIs DEF SameTerms, Bad
  <2> QED
    BY <1>2, <2>1, SumsSame
<1>4. ASSUME NEW a, Bad = {a}, mod(SumFunctionOnSet(Answers, D)) = mod(SumFunctionOnSet(Due, D))
      PROVE  FALSE
  <2>1. PICK T : T = D \ {a}
    OBVIOUS
  <2>2. a \in D /\ ~verifySignatureShare(partials[a])
    BY <1>1, <1>4 DEF Bad
  <2>3. \A i \in T : verifySignatureShare(partials[i])
    BY <1>1, <1>4, <2>1 DEF Bad
  <2>4. SameTerms(T, Answers, Due)
    BY <1>1, <2>1, <2>3, VerifiesIs DEF SameTerms
  <2>5. IsFiniteSet(T) /\ IntegerOn(Answers, T) /\ IntegerOn(Due, T)
    <3>1. T \in SUBSET D /\ IsFiniteSet(T)
      BY <1>2, <2>1, FS_Subset
    <3> QED
      BY <1>2, <3>1 DEF IntegerOn
  <2> DEFINE x == Answers[a]
             y == Due[a]
             u == SumFunctionOnSet(Answers, T)
             v == SumFunctionOnSet(Due, T)
  <2>6. mod(u) = mod(v)
    BY <2>4, <2>5, SumsSame
  <2>7. /\ u \in Int /\ SumFunctionOnSet(Answers, D) = x + u
        /\ v \in Int /\ SumFunctionOnSet(Due, D) = y + v
    BY <1>2, <2>1, <2>2, SumTakes
  <2>8. /\ x \in Int /\ mod(x) = x /\ y \in Int /\ mod(y) = y
        /\ x # y
    BY <1>1, <2>2, VerifiesIs, ScalarIsReduced
  <2>9. mod(x + u) = mod(y + v)
    BY <1>4, <2>7
  <2> HIDE DEF x, y, u, v
  <2>10. x + u \in Int /\ y + v \in Int /\ (x + u) - u = x /\ (y + v) - v = y
    BY <2>7, <2>8
  <2>11. mod((x + u) - u) = mod((y + v) - v)
    BY <2>6, <2>7, <2>9, <2>10, SameSum
  <2> QED
    BY <2>8, <2>10, <2>11
<1> QED
  BY <1>1, <1>3, <1>4

\* t shares or more interpolate to the secret: the sum due is the one that
\* verifies.
LEMMA InvSigns == FrostInv => VerifiedSharesSign
<1> SUFFICES ASSUME FrostInv, signature # NoSignature, Len(partials) >= keys.t
             PROVE  /\ Bad = {} => verifySignature(signature)
                    /\ Cardinality(Bad) = 1 => ~verifySignature(signature)
  BY DEF VerifiedSharesSign, Bad
<1>1. list # <<>> /\ keys # NoKeys /\ KeysInv
  BY SignedIs DEF FrostInv, CeremonyInv
<1>2. PICK f : /\ f \in [1 .. keys.t -> Scalars \ {0}] /\ keys.t \in Nat \ {0}
               /\ keys.shares = SharesOf(f) /\ keys.groupPublicKey = f[1]
  BY <1>1, KeysAre
<1>3. f \in [1 .. keys.t -> Scalars] /\ f[1] \in Scalars /\ f[1] \in Int
  <2>1. 1 \in 1 .. keys.t
    BY <1>2
  <2>2. f[1] \in Scalars
    BY <1>2, <2>1
  <2> QED
    BY <1>2, <2>2, HashesAndNonces
<1>4. PICK y, r, w, ids : /\ y = Interpolate(Participants, keys.shares)
                         /\ r = SumFunctionOnSet(Committed, Participants)
                         /\ w = f[1] /\ ids = Participants
  OBVIOUS
<1>5. y \in Int /\ r \in Int /\ w \in Int /\ c \in Int /\ ids \in SUBSET Members
  BY <1>1, <1>3, <1>4, CeremonyIs, WeightedIs, SumIsInt
<1>6. mod(y) = mod(w)
  <2>1. keys.t <= Cardinality(ids)
    BY <1>4, SignedIs
  <2>2. mod(Interpolate(ids, SharesOf(f))) = f[1]
    BY <1>2, <1>3, <1>5, <2>1, SharesRecover
  <2> QED
    BY <1>2, <1>3, <1>4, <2>2, ScalarIsReduced
<1>7. mod(Times(c, y) + r) = mod(Times(c, w) + r)
  <2>1. mod(Times(c, y)) = mod(Times(c, w))
    BY <1>5, <1>6, SameProduct
  <2>2. Times(c, y) \in Int /\ Times(c, w) \in Int
    BY <1>5, TimesIsInt
  <2> QED
    BY <1>5, <2>1, <2>2, SameSum
<1>8. mod(SumFunctionOnSet(Due, DOMAIN partials)) = mod(Times(c, w) + r)
  BY <1>4, <1>7, SumsAre
<1>9. verifySignature(signature) <=>
         mod(SumFunctionOnSet(Answers, DOMAIN partials)) = mod(Times(c, w) + r)
  BY <1>2, <1>4, <1>5, SignatureVerifies
<1>10. Cardinality(Bad) = 1 => \E a : Bad = {a}
  <2>1. Bad \in SUBSET DOMAIN partials
    BY DEF Bad
  <2>2. IsFiniteSet(Bad)
    BY <2>1, SignedIs, FS_Subset
  <2> QED
    BY <2>2, FS_Singleton
<1> QED
  BY <1>8, <1>9, <1>10, BadShowsInSum

\* t - 1 shares do not, and the challenge cancels: the sum due does not verify.
LEMMA InvTooFew == FrostInv => BelowThresholdFails
<1> SUFFICES ASSUME FrostInv, signature # NoSignature, Len(partials) = keys.t - 1,
                    tampered = {}, c # 0, verifySignature(signature)
             PROVE  FALSE
  BY DEF BelowThresholdFails
<1>1. list # <<>> /\ keys # NoKeys /\ KeysInv
  BY SignedIs DEF FrostInv, CeremonyInv
<1>2. PICK f : /\ f \in [1 .. keys.t -> Scalars \ {0}] /\ keys.t \in Nat \ {0}
               /\ keys.shares = SharesOf(f) /\ keys.groupPublicKey = f[1]
  BY <1>1, KeysAre
<1>3. /\ f \in [1 .. keys.t -> Scalars] /\ f[1] \in Scalars /\ f[1] \in Int
      /\ f[keys.t] # 0
  <2>1. 1 \in 1 .. keys.t /\ keys.t \in 1 .. keys.t
    BY <1>2
  <2>2. f[1] \in Scalars /\ f[keys.t] # 0
    BY <1>2, <2>1
  <2> QED
    BY <1>2, <2>2, HashesAndNonces
<1>4. PICK y, r, w, ids : /\ y = Interpolate(Participants, keys.shares)
                         /\ r = SumFunctionOnSet(Committed, Participants)
                         /\ w = f[1] /\ ids = Participants
  OBVIOUS
<1>5. /\ y \in Int /\ r \in Int /\ w \in Int /\ c \in Int
      /\ ids \in SUBSET Members /\ ids # {}
  BY <1>1, <1>3, <1>4, CeremonyIs, WeightedIs, SumIsInt
<1>6. mod(y) # mod(w)
  <2>1. Cardinality(ids) = keys.t - 1
    BY <1>4, SignedIs
  <2>2. mod(Interpolate(ids, SharesOf(f))) # f[1]
    BY <1>2, <1>3, <1>5, <2>1, SharesMiss
  <2> QED
    BY <1>2, <1>3, <1>4, <2>2, ScalarIsReduced
<1>7. mod(SumFunctionOnSet(Due, DOMAIN partials)) = mod(Times(c, y) + r)
  BY <1>4, SumsAre
<1>8. mod(SumFunctionOnSet(Answers, DOMAIN partials)) = mod(Times(c, w) + r)
  BY <1>2, <1>4, <1>5, SignatureVerifies
<1>9. Bad = {}
  BY InvBlames DEF Bad, BadShareFound, FrostInv, SignatureInv
<1>10. mod(Times(c, y) + r) = mod(Times(c, w) + r)
  BY <1>7, <1>8, <1>9, BadShowsInSum
<1>11. mod(Times(y, c)) = mod(Times(w, c))
  <2> DEFINE a == Times(y, c)
             b == Times(w, c)
  <2>1. a \in Int /\ b \in Int /\ Times(c, y) = a /\ Times(c, w) = b
    BY <1>5, TimesIsInt, TimesSwaps
  <2>2. mod(a + r) = mod(b + r)
    BY <1>10, <2>1
  <2> HIDE DEF a, b
  <2>3. a + r \in Int /\ b + r \in Int /\ (a + r) - r = a /\ (b + r) - r = b
    BY <1>5, <2>1
  <2>4. mod((a + r) - r) = mod((b + r) - r)
    BY <1>5, <2>2, <2>3, SameSum
  <2> QED
    BY <2>3, <2>4 DEF a, b
<1>12. mod(c) # 0
  <2>1. c \in Scalars
    BY <1>1, FrostAssumption DEF FrostInv, CeremonyInv
  <2> QED
    BY <2>1, ScalarIsReduced
<1> QED
  BY <1>5, <1>6, <1>11, <1>12, Cancelled

(***************************************************************************)
(* The theorems.                                                           *)
(***************************************************************************)
\* verifySignatureShare: a member that followed the protocol is never blamed,
\* whatever the list says of it, and one that answered something else for its
\* own commitment always is.
THEOREM BadSharesAreFound == Spec => []BadShareFound
<1>1. Init => FrostInv
  BY InitFrost
<1>2. FrostInv /\ [Next]_vars => FrostInv'
  BY NextFrost
<1>3. FrostInv => BadShareFound
  BY InvBlames
<1> QED
  BY <1>1, <1>2, <1>3, PTL DEF Spec

\* aggregate (frost.ts) and pipeline.ts:193: for every group of prime order, every
\* threshold, every set of t participants or more and every answer of the hashes,
\* the aggregate verifies if each of its partials does, and not if all but one do.
THEOREM VerifiedSharesDoSign == Spec => []VerifiedSharesSign
<1>1. Init => FrostInv
  BY InitFrost
<1>2. FrostInv /\ [Next]_vars => FrostInv'
  BY NextFrost
<1>3. FrostInv => VerifiedSharesSign
  BY InvSigns
<1> QED
  BY <1>1, <1>2, <1>3, PTL DEF Spec

\* frost.ts:6: t - 1 members that follow the protocol make no signature that
\* verifies, unless the challenge happens to be zero.
THEOREM TooFewSharesFail == Spec => []BelowThresholdFails
<1>1. Init => FrostInv
  BY InitFrost
<1>2. FrostInv /\ [Next]_vars => FrostInv'
  BY NextFrost
<1>3. FrostInv => BelowThresholdFails
  BY InvTooFew
<1> QED
  BY <1>1, <1>2, <1>3, PTL DEF Spec
=============================================================================
