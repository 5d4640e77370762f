------------------------------ MODULE Induction ------------------------------
(***************************************************************************)
(* Induction over the naturals, for the proofs about data of any length,   *)
(* and the division of naturals, for those about words of any width.       *)
(*                                                                         *)
(* The induction theorems of the library are about an operator, which the  *)
(* provers here cannot instantiate.  These are about a set: to prove that  *)
(* every n has P(n), take the set of those that have it.  They follow from *)
(* the fact that < is well-founded on Nat.                                 *)
(***************************************************************************)
EXTENDS WellFoundedInduction, TLAPS

(* A set of naturals that is not empty has a least element.                *)
LEMMA LeastElement ==
    ASSUME NEW T, T \subseteq Nat, T # {}
    PROVE  \E x \in T : \A y \in T : ~(y < x)
<1> DEFINE R == {ss \in Nat \X Nat : ss[1] < ss[2]}
<1>1. IsWellFoundedOn(R, Nat)
  BY NatLessThanWellFounded DEF OpToRel
<1>2. \E x \in T : \A y \in T : ~(<<y, x>> \in R)
  <2> HIDE DEF R
  <2>1. QED
    BY <1>1, WFMin
<1>3. QED
  BY <1>2

(* A set that has 0 and the successor of each of its elements is Nat.      *)
LEMMA SetInduction ==
    ASSUME NEW S, 0 \in S, \A n \in S \intersect Nat : n + 1 \in S
    PROVE  Nat \subseteq S
<1> DEFINE T == Nat \ S
<1>1. SUFFICES ASSUME T # {} PROVE FALSE
  OBVIOUS
<1>2. PICK x \in T : \A y \in T : ~(y < x)
  <2>1. T \subseteq Nat
    OBVIOUS
  <2> HIDE DEF T
  <2>2. QED
    BY <1>1, <2>1, LeastElement
<1>3. x # 0 /\ x - 1 \in Nat /\ x - 1 < x
  BY <1>2
<1>4. x - 1 \in S \intersect Nat
  BY <1>2, <1>3
<1>5. (x - 1) + 1 \in S
  BY <1>4
<1>6. (x - 1) + 1 = x
  BY <1>2
<1>7. QED
  BY <1>2, <1>5, <1>6

(* The same up to a bound.                                                 *)
LEMMA IntervalInduction ==
    ASSUME NEW S, NEW m \in Nat, 0 \in S, \A n \in S \intersect 0 .. m - 1 : n + 1 \in S
    PROVE  0 .. m \subseteq S
<1> DEFINE T == S \union {n \in Nat : n > m}
<1>1. 0 \in T
  OBVIOUS
<1>2. \A n \in T \intersect Nat : n + 1 \in T
  OBVIOUS
<1>3. Nat \subseteq T
  <2> HIDE DEF T
  <2>1. QED
    BY <1>1, <1>2, SetInduction
<1>4. QED
  BY <1>3

(* Two functions with the same first value and the same steps are equal    *)
(* as far as both go.                                                      *)
LEMMA SameRecursion ==
    ASSUME NEW m \in Nat, NEW f, NEW g, f[0] = g[0],
           \A n \in 0 .. m - 1 : f[n] = g[n] => f[n + 1] = g[n + 1]
    PROVE  \A n \in 0 .. m : f[n] = g[n]
<1> DEFINE S == {n \in 0 .. m : f[n] = g[n]}
<1>1. 0 \in S
  OBVIOUS
<1>2. \A n \in S \intersect 0 .. m - 1 : n + 1 \in S
  OBVIOUS
<1>3. 0 .. m \subseteq S
  <2> HIDE DEF S
  <2>1. QED
    BY <1>1, <1>2, IntervalInduction
<1>4. QED
  BY <1>3

(* A recursion: the step to k from v is F[k][v].                           *)
StepsWithin(F, m, V) == \A k \in 1 .. m, v \in V : F[k][v] \in V

Runs(f, a, F, m) == f[0] = a /\ \A k \in 1 .. m : f[k] = F[k][f[k - 1]]

(* There is a function with a given first value and given steps.           *)
LEMMA RecursionExists ==
    ASSUME NEW V, NEW F, NEW a \in V, NEW m \in Nat,
           StepsWithin(F, m, V)
    PROVE  \E f \in [0 .. m -> V] : Runs(f, a, F, m)
<1> DEFINE Upto(n, f) == Runs(f, a, F, n)
           S == {n \in 0 .. m : \E f \in [0 .. n -> V] : Upto(n, f)}
<1>1. 0 \in S
  <2> DEFINE f == [k \in 0 .. 0 |-> a]
  <2>1. f \in [0 .. 0 -> V] /\ Upto(0, f) /\ 0 \in 0 .. m
    BY DEF Runs
  <2> HIDE DEF f, Upto
  <2>2. QED
    BY <2>1
<1>2. ASSUME NEW n \in S \intersect 0 .. m - 1 PROVE n + 1 \in S
  <2>1. n \in Nat /\ n + 1 \in 1 .. m /\ n + 1 \in 0 .. m
    OBVIOUS
  <2>2. PICK f \in [0 .. n -> V] : Upto(n, f)
    OBVIOUS
  <2> DEFINE g == [k \in 0 .. n + 1 |-> IF k = n + 1 THEN F[n + 1][f[n]] ELSE f[k]]
  <2>3. g \in [0 .. n + 1 -> V]
    <3>1. F[n + 1][f[n]] \in V
      BY <2>1, <2>2 DEF StepsWithin
    <3>2. \A k \in 0 .. n + 1 : k # n + 1 => k \in 0 .. n
      BY <2>1
    <3>3. QED
      BY <3>1, <3>2
  <2>4. ASSUME NEW k \in 1 .. n + 1 PROVE g[k] = F[k][g[k - 1]]
    <3>1. k - 1 \in 0 .. n /\ k - 1 # n + 1 /\ k - 1 \in 0 .. n + 1 /\ k \in 0 .. n + 1
      BY <2>1
    <3>2. g[k - 1] = f[k - 1]
      BY <3>1
    <3>3. CASE k = n + 1
      <4>1. g[k] = F[n + 1][f[n]] /\ k - 1 = n
        BY <2>1, <3>1, <3>3
      <4>2. QED
        BY <3>2, <3>3, <4>1
    <3>4. CASE k # n + 1
      <4>1. k \in 1 .. n /\ g[k] = f[k]
        BY <2>1, <3>1, <3>4
      <4>2. QED
        BY <2>2, <3>2, <4>1 DEF Runs
    <3>5. QED
      BY <3>3, <3>4
  <2>5. g[0] = a
    BY <2>1, <2>2 DEF Runs
  <2>6. QED
    <3>1. Upto(n + 1, g)
      BY <2>4, <2>5 DEF Runs
    <3> HIDE DEF g, Upto
    <3>2. QED
      BY <2>1, <2>3, <3>1
<1>3. m \in S
  <2> HIDE DEF S
  <2>1. 0 .. m \subseteq S /\ m \in 0 .. m
    BY <1>1, <1>2, IntervalInduction
  <2>2. QED
    BY <2>1
<1>4. QED
  BY <1>3

LEMMA RunsAreEqual ==
    ASSUME NEW F, NEW a, NEW m \in Nat, NEW f, NEW g, Runs(f, a, F, m), Runs(g, a, F, m)
    PROVE  \A k \in 0 .. m : f[k] = g[k]
<1>1. f[0] = g[0]
  BY DEF Runs
<1>2. \A k \in 0 .. m - 1 : f[k] = g[k] => f[k + 1] = g[k + 1]
  <2> SUFFICES ASSUME NEW k \in 0 .. m - 1, f[k] = g[k] PROVE f[k + 1] = g[k + 1]
    OBVIOUS
  <2>1. k + 1 \in 1 .. m /\ (k + 1) - 1 = k
    OBVIOUS
  <2>2. QED
    BY <2>1 DEF Runs
<1>3. QED
  BY <1>1, <1>2, SameRecursion

(* A function that grows with each step ascends.                           *)
LEMMA StepsAscend ==
    ASSUME NEW m \in Nat, NEW f \in [0 .. m -> Nat],
           \A k \in 1 .. m : f[k - 1] < f[k]
    PROVE  /\ \A j, k \in 0 .. m : j < k => f[j] < f[k]
           /\ \A k \in 0 .. m : k <= f[k]
<1> DEFINE S == {k \in 0 .. m : k <= f[k] /\ \A j \in 0 .. m : j < k => f[j] < f[k]}
<1>1. 0 \in S
  OBVIOUS
<1>2. ASSUME NEW k \in S \intersect 0 .. m - 1 PROVE k + 1 \in S
  <2>1. k \in Nat /\ k + 1 \in 1 .. m /\ k + 1 \in 0 .. m /\ (k + 1) - 1 = k /\ k \in 0 .. m
    OBVIOUS
  <2>2. f[k] < f[k + 1] /\ f[k] \in Nat /\ f[k + 1] \in Nat
    BY <2>1
  <2>3. k <= f[k] /\ \A j \in 0 .. m : j < k => f[j] < f[k]
    OBVIOUS
  <2>4. k + 1 <= f[k + 1]
    BY <2>1, <2>2, <2>3
  <2>5. ASSUME NEW j \in 0 .. m, j < k + 1 PROVE f[j] < f[k + 1]
    <3>1. f[j] \in Nat /\ (j = k \/ j < k)
      BY <2>1, <2>5
    <3>2. QED
      BY <2>2, <2>3, <3>1
  <2>6. QED
    BY <2>1, <2>4, <2>5
<1>3. 0 .. m \subseteq S
  <2> HIDE DEF S
  <2>1. QED
    BY <1>1, <1>2, IntervalInduction
<1>4. QED
  BY <1>3

-----------------------------------------------------------------------------
(* Quotients and rests.                                                    *)

LEMMA QuotientAndRest ==
    ASSUME NEW n \in Nat, NEW d \in Nat \ {0}
    PROVE  /\ n \div d \in Nat /\ n % d \in 0 .. d - 1
           /\ n = (n \div d) * d + (n % d)
  BY SMT

LEMMA QuotientIsUnique ==
    ASSUME NEW n \in Nat, NEW d \in Nat \ {0}, NEW q \in Nat, NEW r \in 0 .. d - 1,
           n = q * d + r
    PROVE  n \div d = q
  BY SMT

LEMMA ProductFacts ==
    ASSUME NEW a \in Nat \ {0}, NEW b \in Nat \ {0}
    PROVE  a * b \in Nat \ {0}
  BY SMT

LEMMA QuotientOfQuotient ==
    ASSUME NEW n \in Nat, NEW a \in Nat \ {0}, NEW b \in Nat \ {0}
    PROVE  n \div (b * a) = (n \div a) \div b
<1> DEFINE q == n \div a
           r == n % a
           p == q \div b
           s == q % b
<1>1. q \in Nat /\ r \in 0 .. a - 1 /\ n = q * a + r
  BY QuotientAndRest
<1> HIDE DEF q, r
<1>2. p \in Nat /\ s \in 0 .. b - 1 /\ q = p * b + s
  BY <1>1, QuotientAndRest
<1> HIDE DEF p, s
<1>3. n = p * (b * a) + (s * a + r)
  BY <1>1, <1>2
<1>4. s * a \in Nat /\ s * a <= (b - 1) * a
  BY <1>2
<1>5. (b - 1) * a = b * a - a
  OBVIOUS
<1>6. b * a \in Nat \ {0}
  BY ProductFacts
<1>7. s * a + r \in 0 .. b * a - 1
  <2> DEFINE sa == s * a
             ba == b * a
  <2>1. sa \in Nat /\ ba \in Nat /\ sa <= ba - a
    BY <1>4, <1>5, <1>6
  <2> HIDE DEF sa, ba
  <2>2. sa + r \in 0 .. ba - 1
    BY <1>1, <2>1
  <2>3. QED
    BY <2>2 DEF sa, ba
<1>8. n \div (b * a) = p
  BY <1>2, <1>3, <1>6, <1>7, QuotientIsUnique
<1>9. QED
  BY <1>8 DEF p, q
=============================================================================
