------------------------- MODULE LibraryCallsProofs -------------------------
(***************************************************************************)
(* What feature selection, the folds of cross-validation, the search over  *)
(* parameters, the options of a fit, a Python estimator and the            *)
(* preparation of a fit promise, proved for every request.                 *)
(***************************************************************************)
EXTENDS LibraryCalls, Induction, FiniteSetTheorems, SequenceTheorems

-----------------------------------------------------------------------------
(* Ranks. *)

(* A strict total order on a set, and what comes before a member.          *)
Ordered(S, R) ==
  /\ \A x \in S : <<x, x>> \notin R
  /\ \A x, y, z \in S : <<x, y>> \in R /\ <<y, z>> \in R => <<x, z>> \in R
  /\ \A x, y \in S : x # y => <<x, y>> \in R \/ <<y, x>> \in R
Lower(S, R, x) == {y \in S : <<y, x>> \in R}
Rank(S, R, x) == Cardinality(Lower(S, R, x))

(* A member ranks above those before it, and below the number of members.  *)
LEMMA RanksRise ==
  ASSUME NEW S, IsFiniteSet(S), NEW R, Ordered(S, R)
  PROVE  /\ \A x \in S : Rank(S, R, x) \in 0 .. Cardinality(S) - 1
         /\ \A x, y \in S : <<x, y>> \in R => Rank(S, R, x) < Rank(S, R, y)
<1>1. ASSUME NEW x \in S
      PROVE  /\ IsFiniteSet(Lower(S, R, x))
             /\ Rank(S, R, x) \in 0 .. Cardinality(S) - 1
  <2>1. Lower(S, R, x) \in SUBSET S /\ x \notin Lower(S, R, x)
    BY DEF Lower, Ordered
  <2>2. /\ IsFiniteSet(Lower(S, R, x)) /\ Cardinality(Lower(S, R, x)) <= Cardinality(S)
        /\ Cardinality(S) = Cardinality(Lower(S, R, x)) => S = Lower(S, R, x)
    BY <2>1, FS_Subset
  <2>3. Cardinality(S) \in Nat /\ Cardinality(Lower(S, R, x)) \in Nat
    BY <2>2, FS_CardinalityType
  <2>4. Cardinality(S) # Cardinality(Lower(S, R, x))
    BY <2>1, <2>2
  <2> QED  BY <2>2, <2>3, <2>4 DEF Rank
<1>2. ASSUME NEW x \in S, NEW y \in S, <<x, y>> \in R
      PROVE  Rank(S, R, x) < Rank(S, R, y)
  <2>1. Lower(S, R, x) \in SUBSET Lower(S, R, y)
    BY <1>2 DEF Lower, Ordered
  <2>2. x \in Lower(S, R, y) /\ x \notin Lower(S, R, x)
    BY <1>2 DEF Lower, Ordered
  <2>3. /\ Cardinality(Lower(S, R, x)) <= Cardinality(Lower(S, R, y))
        /\ Cardinality(Lower(S, R, y)) = Cardinality(Lower(S, R, x)) => Lower(S, R, y) = Lower(S, R, x)
    BY <1>1, <2>1, FS_Subset
  <2>4. Cardinality(Lower(S, R, x)) \in Nat /\ Cardinality(Lower(S, R, y)) \in Nat
    BY <1>1 DEF Rank
  <2>5. Cardinality(Lower(S, R, y)) # Cardinality(Lower(S, R, x))
    BY <2>2, <2>3
  <2> QED  BY <2>3, <2>4, <2>5 DEF Rank
<1> QED  BY <1>1, <1>2

(* Every rank is taken by exactly one member.                              *)
OnePerRank(S, R) ==
  /\ \A x, y \in S : Rank(S, R, x) = Rank(S, R, y) => x = y
  /\ \A k \in 0 .. Cardinality(S) - 1 : \E x \in S : Rank(S, R, x) = k

(* It is so.                                                               *)
LEMMA RanksAreTaken ==
  ASSUME NEW S, IsFiniteSet(S), NEW R, Ordered(S, R)
  PROVE  OnePerRank(S, R)
<1> DEFINE n == Cardinality(S)
           rank == [x \in S |-> Rank(S, R, x)]
<1>1. /\ \A x \in S : Rank(S, R, x) \in 0 .. n - 1
      /\ \A x, y \in S : <<x, y>> \in R => Rank(S, R, x) < Rank(S, R, y)
  BY RanksRise
<1>2. ASSUME NEW x \in S, NEW y \in S, Rank(S, R, x) = Rank(S, R, y), x # y
      PROVE  FALSE
  <2>1. <<x, y>> \in R \/ <<y, x>> \in R
    BY <1>2 DEF Ordered
  <2>2. Rank(S, R, x) < Rank(S, R, y) \/ Rank(S, R, y) < Rank(S, R, x)
    BY <1>1, <2>1
  <2> QED  BY <1>1, <1>2, <2>2
<1>3. n \in Nat
  BY FS_CardinalityType
<1>4. ASSUME NEW k \in 0 .. n - 1, \A x \in S : Rank(S, R, x) # k
      PROVE  FALSE
  <2> DEFINE T == (0 .. n - 1) \ {k}
  <2>1. rank \in [S -> T]
    BY <1>1, <1>4
  <2>2. IsFiniteSet(0 .. n - 1) /\ Cardinality(0 .. n - 1) = n
    BY <1>3, <1>4, FS_Interval
  <2>3. IsFiniteSet(T) /\ Cardinality(T) = n - 1
    BY <1>4, <2>2, FS_RemoveElement
  <2> HIDE DEF T, rank, n
  <2>4. Cardinality(T) < Cardinality(S)
    BY <1>3, <2>3 DEF n
  <2>5. \E x, y \in S : x # y /\ rank[x] = rank[y]
    BY <2>1, <2>3, <2>4, FS_PigeonHole
  <2> QED  BY <1>2, <2>5 DEF rank
<1> QED  BY <1>2, <1>4 DEF OnePerRank

(* A set of numbers in their own order.                                    *)
Smaller(S) == {p \in S \X S : p[1] < p[2]}

(* Numbers are ordered by their size.                                      *)
LEMMA NumbersAreOrdered ==
  ASSUME NEW S \in SUBSET Int
  PROVE  /\ Ordered(S, Smaller(S))
         /\ \A x \in S : Rank(S, Smaller(S), x) = Cardinality({y \in S : y < x})
<1>1. Ordered(S, Smaller(S))
  BY DEF Ordered, Smaller
<1>2. ASSUME NEW x \in S PROVE Lower(S, Smaller(S), x) = {y \in S : y < x}
  BY DEF Lower, Smaller
<1> QED  BY <1>1, <1>2 DEF Rank

(* A finite set of numbers as a sequence: each member has one place, and   *)
(* the greater member the later place.                                     *)
Listed(S, s) ==
  /\ s \in [1 .. Cardinality(S) -> S]
  /\ \A x \in S : \E i \in 1 .. Cardinality(S) : s[i] = x
  /\ \A i, j \in 1 .. Cardinality(S) : i < j => s[i] < s[j]

(* What FeatureSelection and ModelSearch sort is so listed.                *)
LEMMA SortedLists ==
  ASSUME NEW S \in SUBSET Int, IsFiniteSet(S)
  PROVE  Listed(S, Sorted(S)) /\ Ascending(S) = Sorted(S)
<1> DEFINE n == Cardinality(S)
           r(x) == Cardinality({y \in S : y < x})
<1>1. n \in Nat
  BY FS_CardinalityType
<1>2. /\ \A x \in S : r(x) \in 0 .. n - 1
      /\ \A x, y \in S : x < y => r(x) < r(y)
      /\ \A x, y \in S : r(x) = r(y) => x = y
      /\ \A k \in 0 .. n - 1 : \E x \in S : r(x) = k
  <2> DEFINE R == Smaller(S)
  <2>1. Ordered(S, R) /\ \A x \in S : Rank(S, R, x) = r(x)
    BY NumbersAreOrdered
  <2>2. \A x, y \in S : x < y => <<x, y>> \in R
    BY DEF Smaller
  <2> HIDE DEF r, R
  <2>3. /\ \A x \in S : Rank(S, R, x) \in 0 .. n - 1
        /\ \A x, y \in S : <<x, y>> \in R => Rank(S, R, x) < Rank(S, R, y)
    BY <2>1, RanksRise
  <2>4. OnePerRank(S, R)
    BY <2>1, RanksAreTaken
  <2>5. \A x \in S : r(x) \in 0 .. n - 1
    BY <2>1, <2>3
  <2>6. \A x, y \in S : x < y => r(x) < r(y)
    BY <2>1, <2>2, <2>3
  <2>7. \A x, y \in S : r(x) = r(y) => x = y
    BY <2>1, <2>4 DEF OnePerRank
  <2>8. \A k \in 0 .. n - 1 : \E x \in S : r(x) = k
    BY <2>1, <2>4 DEF OnePerRank
  <2> QED  BY <2>5, <2>6, <2>7, <2>8
<1>3. Sorted(S) = [i \in 1 .. n |-> CHOOSE x \in S : r(x) = i - 1]
  BY DEF Sorted
<1>4. Ascending(S) = Sorted(S)
  BY DEF Sorted, Ascending
<1> HIDE DEF n, r
<1>5. ASSUME NEW i \in 1 .. n PROVE Sorted(S)[i] \in S /\ r(Sorted(S)[i]) = i - 1
  <2>1. i - 1 \in 0 .. n - 1
    BY <1>1
  <2>2. \E x \in S : r(x) = i - 1
    BY <1>2, <2>1
  <2> QED  BY <1>3, <2>2
<1>6. Sorted(S) \in [1 .. n -> S]
  BY <1>3, <1>5
<1>7. ASSUME NEW x \in S PROVE \E i \in 1 .. n : Sorted(S)[i] = x
  <2>1. r(x) + 1 \in 1 .. n /\ (r(x) + 1) - 1 = r(x)
    BY <1>1, <1>2
  <2>2. Sorted(S)[r(x) + 1] \in S /\ r(Sorted(S)[r(x) + 1]) = r(x)
    BY <1>5, <2>1
  <2> QED  BY <1>2, <2>1, <2>2
<1>8. ASSUME NEW i \in 1 .. n, NEW j \in 1 .. n, i < j PROVE Sorted(S)[i] < Sorted(S)[j]
  <2>1. Sorted(S)[i] \in S /\ Sorted(S)[j] \in S /\ r(Sorted(S)[i]) = i - 1 /\ r(Sorted(S)[j]) = j - 1
    BY <1>5
  <2>2. Sorted(S)[i] # Sorted(S)[j]
    BY <1>8, <2>1
  <2>3. Sorted(S)[j] < Sorted(S)[i] => r(Sorted(S)[j]) < r(Sorted(S)[i])
    BY <1>2, <2>1
  <2>4. ~ (Sorted(S)[j] < Sorted(S)[i])
    BY <1>8, <2>1, <2>3
  <2>5. Sorted(S)[i] \in Int /\ Sorted(S)[j] \in Int
    BY <2>1
  <2> HIDE DEF r
  <2> QED  BY <2>2, <2>4, <2>5
<1> QED  BY <1>4, <1>6, <1>7, <1>8 DEF Listed, n

-----------------------------------------------------------------------------
(* Powers. *)

(* Products of naturals: natural, and as ordered as their factors.         *)
LEMMA ProductsRise ==
  /\ \A a, b \in Nat : a * b \in Nat
  /\ \A a, b, c, d \in Nat : a <= b /\ c <= d => a * c <= b * d
  /\ \A a, b, c, d \in Nat : a < b /\ c <= d /\ d > 0 => a * c < b * d
<1>1. \A a, b \in Nat : a * b \in Nat
  OBVIOUS
<1>2. ASSUME NEW a \in Nat, NEW b \in Nat, NEW c \in Nat, a <= b PROVE a * c <= b * c
  <2>1. b - a \in Nat /\ b = a + (b - a)
    BY <1>2
  <2>2. b * c = a * c + (b - a) * c
    BY <2>1
  <2>3. (b - a) * c \in Nat
    BY <1>1, <2>1
  <2> QED  BY <1>1, <2>2, <2>3
<1>3. ASSUME NEW a \in Nat, NEW b \in Nat, NEW c \in Nat, NEW d \in Nat, a <= b, c <= d
      PROVE  a * c <= b * d
  <2>1. a * c <= b * c
    BY <1>2, <1>3
  <2>2. c * b <= d * b
    BY <1>2, <1>3
  <2>3. c * b = b * c /\ d * b = b * d
    OBVIOUS
  <2>4. a * c \in Nat /\ b * c \in Nat /\ b * d \in Nat
    BY <1>1
  <2> QED  BY <2>1, <2>2, <2>3, <2>4
<1>4. ASSUME NEW a \in Nat, NEW b \in Nat, NEW c \in Nat, NEW d \in Nat, a < b, c <= d, d > 0
      PROVE  a * c < b * d
  <2>1. a + 1 <= b
    BY <1>4
  <2>2. (a + 1) * d <= b * d
    BY <1>3, <2>1
  <2>3. (a + 1) * d = a * d + d
    OBVIOUS
  <2>4. a * c <= a * d
    BY <1>3, <1>4
  <2>5. a * c \in Nat /\ a * d \in Nat /\ b * d \in Nat
    BY <1>1
  <2> QED  BY <1>4, <2>2, <2>3, <2>4, <2>5
<1> QED  BY <1>1, <1>3, <1>4

(* The recursion of a power.                                               *)
LEMMA PowerSteps ==
  ASSUME NEW b \in Nat
  PROVE  /\ Power(b, 0) = 1
         /\ \A e \in Nat : Power(b, e) \in Nat /\ Power(b, e + 1) = b * Power(b, e)
<1> DEFINE Rec(p) == p = [k \in Nat |-> IF k = 0 THEN 1 ELSE b * p[k - 1]]
           pow == CHOOSE p : Rec(p)
           X == Nat
           x0 == 1
           F == [x \in X |-> b * x]
<1>1. F \in [X -> X] /\ x0 \in X
  BY ProductsRise
<1>2. PICK g : Recursion(X, x0, F, g)
  <2> HIDE DEF X, x0, F
  <2> QED  BY <1>1, RecursionExists
<1>3. g \in [Nat -> Nat] /\ \A k \in Nat : g[k] = IF k = 0 THEN 1 ELSE F[g[k - 1]]
  <2>1. g \in [Nat -> Nat] /\ g = [k \in Nat |-> IF k = 0 THEN 1 ELSE F[g[k - 1]]]
    BY <1>2 DEF Recursion
  <2> HIDE DEF F
  <2> QED  BY <2>1
<1>4. ASSUME NEW k \in Nat PROVE g[k] = IF k = 0 THEN 1 ELSE b * g[k - 1]
  <2>1. CASE k = 0
    BY <1>3, <2>1
  <2>2. CASE k # 0
    <3>1. k - 1 \in Nat /\ g[k - 1] \in Nat
      BY <1>3, <2>2
    <3> QED  BY <1>3, <2>2, <3>1
  <2> QED  BY <2>1, <2>2
<1>5. Rec(g)
  BY <1>3, <1>4
<1>6. Rec(pow)
  <2> HIDE DEF Rec
  <2> QED  BY <1>5
<1>7. \A e : Power(b, e) = pow[e]
  BY DEF Power
<1> HIDE DEF pow
<1>8. \A k \in Nat : pow[k] = IF k = 0 THEN 1 ELSE b * pow[k - 1]
  BY <1>6
<1> DEFINE In == {k \in Nat : pow[k] \in Nat}
<1>9. 0 \in In
  BY <1>8
<1>10. ASSUME NEW k \in Nat PROVE pow[k + 1] = b * pow[k]
  <2>1. k + 1 \in Nat /\ k + 1 # 0 /\ (k + 1) - 1 = k
    OBVIOUS
  <2> QED  BY <1>8, <2>1
<1>11. ASSUME NEW k \in Nat, k \in In PROVE k + 1 \in In
  BY <1>10, <1>11, ProductsRise
<1>12. Nat \subseteq In
  <2> HIDE DEF In
  <2> QED  BY <1>9, <1>11, SetInduction
<1> QED  BY <1>7, <1>8, <1>10, <1>12

(* Powers are as ordered as their bases.                                   *)
LEMMA PowersRise ==
  ASSUME NEW b \in Nat, NEW c \in Nat
  PROVE  /\ b <= c => \A e \in Nat : Power(b, e) <= Power(c, e)
         /\ b < c => \A e \in Nat \ {0} : Power(b, e) < Power(c, e)
<1>1. /\ Power(b, 0) = 1 /\ Power(c, 0) = 1
      /\ \A e \in Nat : /\ Power(b, e) \in Nat /\ Power(b, e + 1) = b * Power(b, e)
                        /\ Power(c, e) \in Nat /\ Power(c, e + 1) = c * Power(c, e)
  BY PowerSteps
<1>2. ASSUME b <= c, NEW e \in Nat PROVE Power(b, e) <= Power(c, e)
  <2> DEFINE In == {k \in Nat : Power(b, k) <= Power(c, k)}
  <2>1. 0 \in In
    BY <1>1
  <2>2. ASSUME NEW k \in Nat, k \in In PROVE k + 1 \in In
    <3>1. Power(b, k) \in Nat /\ Power(c, k) \in Nat /\ Power(b, k) <= Power(c, k)
      BY <1>1, <2>2
    <3>2. b * Power(b, k) <= c * Power(c, k)
      BY <1>2, <3>1, ProductsRise
    <3> QED  BY <1>1, <3>2
  <2>3. Nat \subseteq In
    <3> HIDE DEF In
    <3> QED  BY <2>1, <2>2, SetInduction
  <2> QED  BY <2>3
<1>3. ASSUME b < c, NEW e \in Nat PROVE Power(c, e) > 0
  <2> DEFINE In == {k \in Nat : Power(c, k) > 0}
  <2>1. 0 \in In
    BY <1>1
  <2>2. ASSUME NEW k \in Nat, k \in In PROVE k + 1 \in In
    <3>1. Power(c, k) \in Nat /\ Power(c, k) > 0 /\ c > 0
      BY <1>1, <1>3, <2>2
    <3>2. 0 * 0 < c * Power(c, k)
      BY <3>1, ProductsRise
    <3> QED  BY <1>1, <3>2
  <2>3. Nat \subseteq In
    <3> HIDE DEF In
    <3> QED  BY <2>1, <2>2, SetInduction
  <2> QED  BY <2>3
<1>4. ASSUME b < c, NEW e \in Nat \ {0} PROVE Power(b, e) < Power(c, e)
  <2>1. e - 1 \in Nat /\ (e - 1) + 1 = e
    OBVIOUS
  <2>2. /\ Power(b, e - 1) \in Nat /\ Power(c, e - 1) \in Nat
        /\ Power(b, e - 1) <= Power(c, e - 1) /\ Power(c, e - 1) > 0
    <3>1. Power(b, e - 1) \in Nat /\ Power(c, e - 1) \in Nat
      BY <1>1, <2>1
    <3>2. Power(b, e - 1) <= Power(c, e - 1)
      BY <1>2, <1>4, <2>1
    <3>3. Power(c, e - 1) > 0
      BY <1>3, <1>4, <2>1
    <3> QED  BY <3>1, <3>2, <3>3
  <2>3. b * Power(b, e - 1) < c * Power(c, e - 1)
    BY <1>4, <2>2, ProductsRise
  <2> QED  BY <1>1, <2>1, <2>3
<1> QED  BY <1>2, <1>4

(* The power of a product, and the power of a sum.                         *)
LEMMA PowersMultiply ==
  ASSUME NEW b \in Nat, NEW c \in Nat
  PROVE  /\ \A e \in Nat : Power(b * c, e) = Power(b, e) * Power(c, e)
         /\ \A d, e \in Nat : Power(b, d + e) = Power(b, d) * Power(b, e)
<1>1. /\ Power(b, 0) = 1 /\ Power(c, 0) = 1 /\ Power(b * c, 0) = 1
      /\ \A e \in Nat : /\ Power(b, e) \in Nat /\ Power(b, e + 1) = b * Power(b, e)
                        /\ Power(c, e) \in Nat /\ Power(c, e + 1) = c * Power(c, e)
                        /\ Power(b * c, e) \in Nat /\ Power(b * c, e + 1) = (b * c) * Power(b * c, e)
  BY PowerSteps, ProductsRise
<1>2. ASSUME NEW e \in Nat PROVE Power(b * c, e) = Power(b, e) * Power(c, e)
  <2> DEFINE In == {k \in Nat : Power(b * c, k) = Power(b, k) * Power(c, k)}
  <2>1. 0 \in In
    BY <1>1
  <2>2. ASSUME NEW k \in Nat, k \in In PROVE k + 1 \in In
    <3>1. (b * c) * (Power(b, k) * Power(c, k)) = (b * Power(b, k)) * (c * Power(c, k))
      <4>1. \A x, y, u, v \in Nat : (x * y) * (u * v) = (x * u) * (y * v)
        OBVIOUS
      <4> QED  BY <1>1, <4>1
    <3> QED  BY <1>1, <2>2, <3>1
  <2>3. Nat \subseteq In
    <3> HIDE DEF In
    <3> QED  BY <2>1, <2>2, SetInduction
  <2> QED  BY <2>3
<1>3. ASSUME NEW d \in Nat, NEW e \in Nat PROVE Power(b, d + e) = Power(b, d) * Power(b, e)
  <2> DEFINE In == {k \in Nat : Power(b, k + e) = Power(b, k) * Power(b, e)}
  <2>1. 0 \in In
    BY <1>1
  <2>2. ASSUME NEW k \in Nat, k \in In PROVE k + 1 \in In
    <3>1. (k + 1) + e = (k + e) + 1 /\ k + e \in Nat
      OBVIOUS
    <3>2. Power(b, (k + 1) + e) = b * (Power(b, k) * Power(b, e))
      BY <1>1, <2>2, <3>1
    <3>3. b * (Power(b, k) * Power(b, e)) = (b * Power(b, k)) * Power(b, e)
      <4>1. \A x, y, u \in Nat : x * (y * u) = (x * y) * u
        OBVIOUS
      <4> QED  BY <1>1, <4>1
    <3> QED  BY <1>1, <3>2, <3>3
  <2>3. Nat \subseteq In
    <3> HIDE DEF In
    <3> QED  BY <2>1, <2>2, SetInduction
  <2> QED  BY <2>3
<1> QED  BY <1>2, <1>3

-----------------------------------------------------------------------------
(* The schedule of the eliminations. *)

(* The right-hand side of GoneBy's test.                                   *)
Threshold(n, m, S, s) == Power(2, S) * Power(n, S - s) * Power(m, s)

(* It falls from step to step, from below (2n)^S to (2m)^S at the end.     *)
LEMMA ThresholdFalls ==
  ASSUME NEW n \in Nat, NEW m \in Nat, m <= n, NEW S \in Nat, NEW s \in 1 .. S
  PROVE  /\ Threshold(n, m, S, s) \in Nat
         /\ Threshold(n, m, S, s) <= Power(2 * n, S)
         /\ Power(2 * m, S) <= Threshold(n, m, S, s)
         /\ s = S => Threshold(n, m, S, s) = Power(2 * m, S)
         /\ s < S => Threshold(n, m, S, s + 1) <= Threshold(n, m, S, s)
<1> DEFINE a == Power(2, S)
           u == Power(n, S - s)
           v == Power(m, s)
<1>1. S - s \in Nat /\ s \in Nat /\ (S - s) + s = S
  OBVIOUS
<1>2. a \in Nat /\ u \in Nat /\ v \in Nat /\ Power(n, s) \in Nat /\ Power(m, S - s) \in Nat
  BY <1>1, PowerSteps
<1>3. Power(n, S) = u * Power(n, s) /\ Power(m, S) = Power(m, S - s) * v
  <2>1. Power(n, (S - s) + s) = u * Power(n, s) /\ Power(m, (S - s) + s) = Power(m, S - s) * v
    BY <1>1, PowersMultiply
  <2> QED  BY <1>1, <2>1
<1>4. Power(2 * n, S) = a * Power(n, S) /\ Power(2 * m, S) = a * Power(m, S)
  BY PowersMultiply
<1>5. v <= Power(n, s) /\ Power(m, S - s) <= u
  BY <1>1, PowersRise
<1>6. Threshold(n, m, S, s) = a * (u * v)
  <2>1. \A x, y, z \in Nat : (x * y) * z = x * (y * z)
    OBVIOUS
  <2> QED  BY <1>2, <2>1 DEF Threshold
<1>7. s < S => Threshold(n, m, S, s + 1) <= Threshold(n, m, S, s)
  <2> SUFFICES ASSUME s < S PROVE Threshold(n, m, S, s + 1) <= Threshold(n, m, S, s)
    OBVIOUS
  <2> DEFINE w == Power(n, S - (s + 1))
  <2>1. S - (s + 1) \in Nat /\ (S - (s + 1)) + 1 = S - s
    BY <1>1
  <2>2. w \in Nat /\ u = n * w /\ Power(m, s + 1) = m * v
    <3>1. w \in Nat /\ Power(n, (S - (s + 1)) + 1) = n * w
      BY <2>1, PowerSteps
    <3>2. Power(m, s + 1) = m * v
      BY <1>1, PowerSteps
    <3> QED  BY <2>1, <3>1, <3>2
  <2>3. Threshold(n, m, S, s + 1) = (a * w) * (m * v)
    BY <2>2 DEF Threshold
  <2> HIDE DEF a, u, v, w
  <2>4. m * (a * (w * v)) <= n * (a * (w * v))
    BY <1>2, <2>2, ProductsRise
  <2>5. (a * w) * (m * v) = m * (a * (w * v)) /\ a * ((n * w) * v) = n * (a * (w * v))
    <3>1. \A x, y, z, t \in Nat : (x * y) * (z * t) = z * (x * (y * t)) /\ x * ((z * y) * t) = z * (x * (y * t))
      OBVIOUS
    <3> QED  BY <1>2, <2>2, <3>1
  <2> QED  BY <1>6, <2>2, <2>3, <2>4, <2>5
<1> HIDE DEF a, u, v
<1>8. u * v \in Nat /\ u * v <= u * Power(n, s) /\ Power(m, S - s) * v <= u * v
  BY <1>2, <1>5, ProductsRise
<1>9. a * (u * v) \in Nat /\ a * (u * v) <= a * Power(n, S) /\ a * Power(m, S) <= a * (u * v)
  <2>1. Power(n, S) \in Nat /\ Power(m, S) \in Nat
    BY PowerSteps
  <2> QED  BY <1>2, <1>3, <1>8, <2>1, ProductsRise
<1>10. s = S => a * (u * v) = a * Power(m, S)
  <2> SUFFICES ASSUME s = S PROVE a * (u * v) = a * Power(m, S)
    OBVIOUS
  <2>1. u = 1
    <3>1. S - s = 0
      OBVIOUS
    <3> QED  BY <3>1, PowerSteps DEF u
  <2>2. v = Power(m, S)
    BY DEF v
  <2> QED  BY <1>2, <2>1, <2>2
<1> QED  BY <1>4, <1>6, <1>7, <1>9, <1>10

(* A test that holds of zero has a last number up to n that it holds of.   *)
LEMMA LastOfRun ==
  ASSUME NEW n \in Nat, NEW T \in SUBSET (0 .. n), 0 \in T
  PROVE  \E k \in T : k < n => k + 1 \notin T
<1> SUFFICES ASSUME \A k \in T : k < n /\ k + 1 \in T PROVE FALSE
  OBVIOUS
<1>1. \A k \in 0 .. n - 1 : k \in T => k + 1 \in T
  OBVIOUS
<1>2. 0 .. n \subseteq T
  BY <1>1, BoundedInduction
<1> QED  BY <1>2

(* By the last step exactly the surplus is gone, never more before it, and *)
(* never less after a later step than after an earlier one.                *)
LEMMA GoneByRises ==
  ASSUME NEW n \in Nat, NEW m \in Nat, m <= n, NEW S \in Nat, NEW s \in 1 .. S
  PROVE  /\ GoneBy(n, m, S, s) \in 0 .. n - m
         /\ s = S => GoneBy(n, m, S, s) = n - m
         /\ s < S => GoneBy(n, m, S, s) <= GoneBy(n, m, S, s + 1)
<1> DEFINE Side(j) == Power(2 * n - 2 * j + 1, S)
           Meets(t, j) == Side(j) >= Threshold(n, m, S, t)
           LastThat(t, k) == Meets(t, k) /\ (k < n => ~ Meets(t, k + 1))
<1>1. \A t : GoneBy(n, m, S, t) = CHOOSE k \in 0 .. n : LastThat(t, k)
  BY DEF GoneBy, Threshold
<1>2. S \in Nat \ {0}
  OBVIOUS
<1>3. \A j \in 0 .. n : 2 * n - 2 * j + 1 \in Nat /\ Side(j) \in Nat
  <2>1. \A j \in 0 .. n : 2 * n - 2 * j + 1 \in Nat
    OBVIOUS
  <2> QED  BY <2>1, PowerSteps
<1>4. \A i, j \in 0 .. n : i <= j => Side(j) <= Side(i)
  <2> SUFFICES ASSUME NEW i \in 0 .. n, NEW j \in 0 .. n, i <= j PROVE Side(j) <= Side(i)
    OBVIOUS
  <2>1. 2 * n - 2 * j + 1 \in Nat /\ 2 * n - 2 * i + 1 \in Nat /\ 2 * n - 2 * j + 1 <= 2 * n - 2 * i + 1
    OBVIOUS
  <2> QED  BY <2>1, PowersRise
<1>5. \A t \in 1 .. S :
        /\ Threshold(n, m, S, t) \in Nat
        /\ Threshold(n, m, S, t) <= Power(2 * n, S)
        /\ Power(2 * m, S) <= Threshold(n, m, S, t)
        /\ t = S => Threshold(n, m, S, t) = Power(2 * m, S)
        /\ t < S => Threshold(n, m, S, t + 1) <= Threshold(n, m, S, t)
  BY ThresholdFalls
<1>6. Power(2 * n, S) <= Side(0)
  <2>1. 2 * n \in Nat /\ 2 * n - 2 * 0 + 1 \in Nat /\ 2 * n <= 2 * n - 2 * 0 + 1
    OBVIOUS
  <2> QED  BY <2>1, PowersRise
<1>7. Power(2 * m, S) <= Side(n - m)
  <2>1. 2 * m \in Nat /\ 2 * n - 2 * (n - m) + 1 \in Nat /\ 2 * m <= 2 * n - 2 * (n - m) + 1
    OBVIOUS
  <2> QED  BY <2>1, PowersRise
<1>8. m > 0 => Side(n - m + 1) < Power(2 * m, S)
  <2> SUFFICES ASSUME m > 0 PROVE Side(n - m + 1) < Power(2 * m, S)
    OBVIOUS
  <2>1. /\ 2 * m \in Nat /\ 2 * n - 2 * (n - m + 1) + 1 \in Nat
        /\ 2 * n - 2 * (n - m + 1) + 1 < 2 * m
    OBVIOUS
  <2> QED  BY <1>2, <2>1, PowersRise
<1>9. Power(2 * n, S) \in Nat /\ Power(2 * m, S) \in Nat /\ 0 \in 0 .. n
  <2>1. 2 * n \in Nat /\ 2 * m \in Nat
    OBVIOUS
  <2>2. \A b \in Nat : Power(b, S) \in Nat
    BY PowerSteps
  <2> QED  BY <2>1, <2>2
<1> HIDE DEF Side
<1>10. ASSUME NEW t \in 1 .. S
       PROVE  GoneBy(n, m, S, t) \in 0 .. n /\ LastThat(t, GoneBy(n, m, S, t))
  <2> DEFINE T == {k \in 0 .. n : Meets(t, k)}
  <2>1. 0 \in T
    BY <1>3, <1>5, <1>6, <1>9
  <2>2. \E k \in T : k < n => k + 1 \notin T
    <3> HIDE DEF T
    <3>1. T \in SUBSET (0 .. n)
      BY DEF T
    <3> QED  BY <2>1, <3>1, LastOfRun
  <2>3. \E k \in 0 .. n : LastThat(t, k)
    BY <2>2
  <2> HIDE DEF LastThat
  <2> QED  BY <1>1, <2>3
<1>11. ASSUME NEW t \in 1 .. S, NEW k \in 0 .. n, LastThat(t, k), NEW j \in 0 .. n
       PROVE  Meets(t, j) <=> j <= k
  <2>1. j <= k => Meets(t, j)
    BY <1>3, <1>4, <1>5, <1>11
  <2>2. j > k => ~ Meets(t, j)
    <3> SUFFICES ASSUME j > k PROVE ~ Meets(t, j)
      OBVIOUS
    <3>1. k + 1 \in 0 .. n /\ k + 1 <= j
      OBVIOUS
    <3>2. Side(j) <= Side(k + 1) /\ ~ Meets(t, k + 1)
      BY <1>4, <1>11, <3>1
    <3> QED  BY <1>3, <1>5, <3>1, <3>2
  <2> QED  BY <2>1, <2>2
<1>12. ASSUME NEW t \in 1 .. S PROVE GoneBy(n, m, S, t) <= n - m
  <2>1. CASE m = 0
    BY <1>10, <2>1
  <2>2. CASE m > 0
    <3>1. n - m + 1 \in 0 .. n
      BY <2>2
    <3>2. ~ Meets(t, n - m + 1)
      BY <1>3, <1>5, <1>8, <1>9, <2>2, <3>1
    <3>3. ~ (n - m + 1 <= GoneBy(n, m, S, t))
      BY <1>10, <1>11, <3>1, <3>2
    <3> QED  BY <1>10, <3>3
  <2> QED  BY <2>1, <2>2
<1>13. s = S => GoneBy(n, m, S, s) = n - m
  <2> SUFFICES ASSUME s = S PROVE GoneBy(n, m, S, s) = n - m
    OBVIOUS
  <2>1. Meets(s, n - m) /\ n - m \in 0 .. n
    BY <1>5, <1>7
  <2>2. n - m <= GoneBy(n, m, S, s)
    BY <1>10, <1>11, <2>1
  <2> QED  BY <1>10, <1>12, <2>2
<1>14. s < S => GoneBy(n, m, S, s) <= GoneBy(n, m, S, s + 1)
  <2> SUFFICES ASSUME s < S PROVE GoneBy(n, m, S, s) <= GoneBy(n, m, S, s + 1)
    OBVIOUS
  <2>1. s + 1 \in 1 .. S
    OBVIOUS
  <2>2. GoneBy(n, m, S, s) \in 0 .. n /\ Meets(s, GoneBy(n, m, S, s))
    BY <1>10
  <2>3. Meets(s + 1, GoneBy(n, m, S, s))
    BY <1>3, <1>5, <2>1, <2>2
  <2> QED  BY <1>10, <1>11, <2>1, <2>2, <2>3
<1> QED  BY <1>10, <1>12, <1>13, <1>14

-----------------------------------------------------------------------------
(* The weakest of some columns. *)

(* A sequence without repetitions.                                         *)
Distinct(s) == \A i, j \in DOMAIN s : s[i] = s[j] => i = j

(* A sequence without repetitions has as many members as places.           *)
LEMMA DistinctLength ==
  ASSUME NEW k \in Nat, NEW T, NEW s \in [1 .. k -> T], Distinct(s)
  PROVE  IsFiniteSet(ToSet(s)) /\ Cardinality(ToSet(s)) = k
<1> DEFINE M == ToSet(s)
<1>1. M = {s[i] : i \in 1 .. k}
  BY DEF ToSet
<1>2. s \in Bijection(1 .. k, M)
  BY <1>1 DEF Distinct, Bijection, Injection, Surjection, IsInjective
<1>3. ExistsBijection(1 .. k, M)
  BY <1>2 DEF ExistsBijection
<1>4. IsFiniteSet(1 .. k)
  BY FS_Interval
<1> HIDE DEF M
<1>5. IsFiniteSet(M) /\ Cardinality(M) = k
  BY <1>3, <1>4, FS_Bijection, FS_CountingElements
<1> QED  BY <1>5 DEF M

(* The members that rank below a count, and their order.                   *)
Below(S, R, count) == {x \in S : Rank(S, R, x) < count}
InOrder(S, R, count) ==
  [i \in 1 .. Cardinality(Below(S, R, count)) |-> CHOOSE x \in Below(S, R, count) : Rank(S, R, x) = i - 1]

(* They are as many as the count and come before all others.               *)
LEMMA FirstRanked ==
  ASSUME NEW S, IsFiniteSet(S), NEW R, Ordered(S, R),
         NEW count \in Nat, count <= Cardinality(S)
  PROVE  /\ InOrder(S, R, count) \in [1 .. count -> Below(S, R, count)]
         /\ ToSet(InOrder(S, R, count)) = Below(S, R, count)
         /\ Distinct(InOrder(S, R, count))
         /\ \A x \in Below(S, R, count), y \in S \ Below(S, R, count) : <<x, y>> \in R
<1> DEFINE taken == Below(S, R, count)
           s == InOrder(S, R, count)
<1>0. /\ taken = {x \in S : Rank(S, R, x) < count}
      /\ s = [i \in 1 .. Cardinality(taken) |-> CHOOSE x \in taken : Rank(S, R, x) = i - 1]
  BY DEF Below, InOrder
<1> HIDE DEF taken, s
<1>1. /\ \A x \in S : Rank(S, R, x) \in 0 .. Cardinality(S) - 1
      /\ \A x, y \in S : <<x, y>> \in R => Rank(S, R, x) < Rank(S, R, y)
  BY RanksRise
<1>2. OnePerRank(S, R)
  BY RanksAreTaken
<1>3. Cardinality(S) \in Nat
  BY FS_CardinalityType
<1> DEFINE At(i) == CHOOSE x \in taken : Rank(S, R, x) = i - 1
           f == [i \in 1 .. count |-> At(i)]
<1>4. ASSUME NEW i \in 1 .. count PROVE At(i) \in taken /\ Rank(S, R, At(i)) = i - 1
  <2>1. i - 1 \in 0 .. Cardinality(S) - 1 /\ i - 1 < count
    BY <1>3
  <2>2. \E x \in taken : Rank(S, R, x) = i - 1
    BY <1>0, <1>2, <2>1 DEF OnePerRank
  <2> QED  BY <2>2
<1> HIDE DEF At
<1>5. f \in [1 .. count -> taken] /\ Distinct(f)
  BY <1>4 DEF Distinct
<1>6. ToSet(f) = taken
  <2>1. ASSUME NEW x \in taken PROVE \E i \in 1 .. count : f[i] = x
    <3>1. Rank(S, R, x) \in 0 .. Cardinality(S) - 1 /\ Rank(S, R, x) < count
      BY <1>0, <1>1
    <3>2. Rank(S, R, x) + 1 \in 1 .. count /\ (Rank(S, R, x) + 1) - 1 = Rank(S, R, x)
      BY <1>3, <3>1
    <3>3. At(Rank(S, R, x) + 1) \in taken /\ Rank(S, R, At(Rank(S, R, x) + 1)) = Rank(S, R, x)
      BY <1>4, <3>2
    <3>4. At(Rank(S, R, x) + 1) = x
      BY <1>0, <1>2, <3>3 DEF OnePerRank
    <3> QED  BY <3>2, <3>4
  <2> HIDE DEF f
  <2>2. DOMAIN f = 1 .. count /\ \A i \in 1 .. count : f[i] \in taken
    BY <1>5
  <2> QED  BY <2>1, <2>2 DEF ToSet
<1>7. Cardinality(taken) = count
  <2> HIDE DEF f
  <2> QED  BY <1>5, <1>6, DistinctLength
<1>8. s = f
  BY <1>0, <1>7 DEF At
<1>9. ASSUME NEW x \in taken, NEW y \in S \ taken PROVE <<x, y>> \in R
  <2>1. Rank(S, R, x) < count /\ ~ (Rank(S, R, y) < count) /\ x \in S /\ x # y
    BY <1>0
  <2>2. Rank(S, R, x) \in Int /\ Rank(S, R, y) \in Int
    BY <1>1, <2>1
  <2>3. <<y, x>> \notin R
    BY <1>1, <2>1, <2>2
  <2> QED  BY <2>1, <2>3 DEF Ordered
<1> HIDE DEF f
<1> QED  BY <1>5, <1>6, <1>8, <1>9 DEF taken, s

(* A listing numbers the members of its set one to one.                    *)
LEMMA ListedOnce ==
  ASSUME NEW S \in SUBSET Int, NEW s, Listed(S, s), Cardinality(S) \in Nat
  PROVE  Distinct(s) /\ ToSet(s) = S
<1>1. /\ s \in [1 .. Cardinality(S) -> S]
      /\ \A x \in S : \E i \in 1 .. Cardinality(S) : s[i] = x
      /\ \A i, j \in 1 .. Cardinality(S) : i < j => s[i] < s[j]
  BY DEF Listed
<1>2. ASSUME NEW i \in 1 .. Cardinality(S), NEW j \in 1 .. Cardinality(S), s[i] = s[j], i # j
      PROVE  FALSE
  <2>1. s[i] < s[j] \/ s[j] < s[i]
    BY <1>1, <1>2
  <2>2. s[i] \in Int
    BY <1>1
  <2> QED  BY <1>2, <2>1, <2>2
<1> QED  BY <1>1, <1>2 DEF Distinct, ToSet

(* What Weakest returns: that many candidates, none of them twice, and     *)
(* none worth more than a candidate that is left.                          *)
LEMMA WeakestAre ==
  ASSUME NEW n \in Nat, NEW cols \in SUBSET (1 .. n), NEW candidates \in SUBSET cols,
         NEW count \in Nat, count <= Cardinality(candidates),
         \A f \in cols : Importance(cols, f) \in Int
  PROVE  /\ Weakest(cols, candidates, count) \in [1 .. count -> candidates]
         /\ Distinct(Weakest(cols, candidates, count))
         /\ \A f \in ToSet(Weakest(cols, candidates, count)),
               g \in candidates \ ToSet(Weakest(cols, candidates, count)) :
              Importance(cols, f) <= Importance(cols, g)
<1> DEFINE size == Cardinality(cols)
           at == Sorted(cols)
           worth(l) == Importance(cols, at[l])
           eligible == {l \in 1 .. size : at[l] \in candidates}
           before(l) == {m \in eligible : worth(m) < worth(l) \/ (worth(m) = worth(l) /\ m < l)}
           taken == {l \in eligible : Cardinality(before(l)) < count}
           places == [i \in 1 .. Cardinality(taken) |-> CHOOSE l \in taken : Cardinality(before(l)) = i - 1]
           R == {p \in eligible \X eligible : worth(p[1]) < worth(p[2]) \/ (worth(p[1]) = worth(p[2]) /\ p[1] < p[2])}
           out == Weakest(cols, candidates, count)
<1>1. IsFiniteSet(cols) /\ size \in Nat /\ cols \in SUBSET Int
  <2>1. IsFiniteSet(1 .. n)
    BY FS_Interval
  <2>2. IsFiniteSet(cols)
    BY <2>1, FS_Subset
  <2> QED  BY <2>2, FS_CardinalityType
<1>2. Listed(cols, at)
  BY <1>1, SortedLists
<1>3. Distinct(at) /\ at \in [1 .. size -> cols] /\ \A x \in cols : \E i \in 1 .. size : at[i] = x
  BY <1>1, <1>2, ListedOnce DEF Listed
<1>4. out = [i \in 1 .. Cardinality(taken) |-> at[places[i]]]
  BY DEF Weakest, ToGlobal
<1>5. IsFiniteSet(eligible) /\ Cardinality(eligible) = Cardinality(candidates)
  <2> DEFINE b == [l \in eligible |-> at[l]]
  <2>1. b \in [eligible -> candidates]
    OBVIOUS
  <2>2. \A i, j \in eligible : b[i] = b[j] => i = j
    BY <1>3 DEF Distinct
  <2>3. \A x \in candidates : \E i \in eligible : b[i] = x
    <3> SUFFICES ASSUME NEW x \in candidates PROVE \E i \in eligible : b[i] = x
      OBVIOUS
    <3>1. PICK i \in 1 .. size : at[i] = x
      BY <1>3
    <3> QED  BY <3>1
  <2>4. IsFiniteSet(eligible)
    <3>1. IsFiniteSet(1 .. size) /\ eligible \in SUBSET (1 .. size)
      BY <1>1, FS_Interval
    <3> QED  BY <3>1, FS_Subset
  <2> HIDE DEF b, eligible
  <2>5. ExistsBijection(eligible, candidates)
    BY <2>1, <2>2, <2>3 DEF ExistsBijection, Bijection, Injection, Surjection, IsInjective
  <2> QED  BY <2>4, <2>5, FS_Bijection
<1>6. \A l \in eligible : worth(l) \in Int /\ l \in Int
  <2> HIDE DEF at, size
  <2>1. ASSUME NEW l \in eligible PROVE at[l] \in cols /\ l \in Int
    <3>1. l \in 1 .. size /\ at[l] \in candidates
      OBVIOUS
    <3>2. size \in Nat
      BY <1>1
    <3> HIDE DEF eligible
    <3>3. at[l] \in cols
      BY <3>1
    <3>4. l \in Int
      BY <3>1, <3>2
    <3> QED  BY <3>3, <3>4
  <2> HIDE DEF eligible
  <2> QED  BY <2>1
<1>7. Ordered(eligible, R)
  <2> HIDE DEF worth, eligible
  <2> QED  BY <1>6 DEF Ordered
<1>8. \A l \in eligible : before(l) = Lower(eligible, R, l)
  <2> HIDE DEF worth, eligible
  <2> QED  BY DEF Lower
<1>9. \A l \in eligible : Cardinality(before(l)) = Rank(eligible, R, l)
  <2> HIDE DEF before, R, eligible
  <2> QED  BY <1>8 DEF Rank
<1>10. taken = Below(eligible, R, count) /\ places = InOrder(eligible, R, count)
  <2> HIDE DEF before, R, eligible
  <2>1. taken = Below(eligible, R, count)
    BY <1>9 DEF Below
  <2>2. \A l \in taken : Cardinality(before(l)) = Rank(eligible, R, l)
    BY <1>9
  <2> HIDE DEF taken
  <2> DEFINE byRank(i) == CHOOSE l \in taken : Rank(eligible, R, l) = i - 1
             byCount(i) == CHOOSE l \in taken : Cardinality(before(l)) = i - 1
  <2>3. ASSUME NEW i PROVE byCount(i) = byRank(i)
    BY <2>2
  <2>4. /\ places = [i \in 1 .. Cardinality(taken) |-> byCount(i)]
        /\ InOrder(eligible, R, count) = [i \in 1 .. Cardinality(taken) |-> byRank(i)]
    BY <2>1 DEF InOrder
  <2> HIDE DEF byRank, byCount
  <2>5. places = InOrder(eligible, R, count)
    BY <2>3, <2>4
  <2> QED  BY <2>1, <2>5
<1> HIDE DEF eligible, before, R, places, taken
<1>11. /\ places \in [1 .. count -> taken]
       /\ ToSet(places) = taken
       /\ Distinct(places)
       /\ \A x \in taken, y \in eligible \ taken : <<x, y>> \in R
  <2>1. count <= Cardinality(eligible)
    BY <1>5
  <2> QED  BY <1>5, <1>7, <1>10, <2>1, FirstRanked
<1>12. taken \subseteq eligible /\ Cardinality(taken) = count
  <2>1. Cardinality(taken) = count
    BY <1>11, DistinctLength
  <2> QED  BY <1>10, <2>1 DEF Below
<1>13. \A l \in eligible : l \in 1 .. size /\ at[l] \in candidates
  BY DEF eligible
<1>14. out \in [1 .. count -> candidates] /\ \A i \in 1 .. count : out[i] = at[places[i]]
  <2> HIDE DEF out, at
  <2> QED  BY <1>4, <1>11, <1>12, <1>13
<1>15. Distinct(out)
  <2> HIDE DEF out, at, size
  <2>1. ASSUME NEW i \in 1 .. count, NEW j \in 1 .. count, out[i] = out[j] PROVE i = j
    <3>1. places[i] \in 1 .. size /\ places[j] \in 1 .. size
      BY <1>11, <1>12, <1>13
    <3>2. at[places[i]] = at[places[j]]
      BY <1>14, <2>1
    <3>3. places[i] = places[j]
      BY <1>3, <3>1, <3>2 DEF Distinct
    <3> QED  BY <1>11, <3>3 DEF Distinct
  <2> QED  BY <1>14, <2>1 DEF Distinct
<1>16. ASSUME NEW f \in ToSet(out), NEW g \in candidates \ ToSet(out)
       PROVE  Importance(cols, f) <= Importance(cols, g)
  <2>1. PICK i \in 1 .. count : f = out[i]
    <3> HIDE DEF out
    <3> QED  BY <1>14 DEF ToSet
  <2>2. PICK l \in 1 .. size : at[l] = g
    BY <1>3
  <2>3. l \in eligible
    BY <2>2 DEF eligible
  <2>4. l \notin taken
    <3> SUFFICES ASSUME l \in taken PROVE FALSE
      OBVIOUS
    <3>1. PICK j \in 1 .. count : places[j] = l
      BY <1>11 DEF ToSet
    <3>2. out[j] = g
      BY <1>14, <2>2, <3>1
    <3>3. out[j] \in ToSet(out)
      <4> HIDE DEF out
      <4> QED  BY <1>14 DEF ToSet
    <3> QED  BY <3>2, <3>3
  <2>5. <<places[i], l>> \in R
    BY <1>11, <2>3, <2>4
  <2>6. places[i] \in eligible /\ f = at[places[i]]
    BY <1>11, <1>12, <1>14, <2>1
  <2>7. worth(places[i]) <= worth(l)
    <3>1. worth(places[i]) < worth(l) \/ worth(places[i]) = worth(l)
      BY <2>5 DEF R
    <3>2. worth(places[i]) \in Int /\ worth(l) \in Int
      BY <1>6, <2>3, <2>6
    <3> HIDE DEF worth
    <3> QED  BY <3>1, <3>2
  <2> QED  BY <2>2, <2>6, <2>7
<1> HIDE DEF out
<1> QED  BY <1>14, <1>15, <1>16 DEF out

-----------------------------------------------------------------------------
(* Feature selection. *)

(* Sequences without repetitions, of members of two sets that are apart.   *)
Apart(A, B, s, t) ==
  A \intersect B = {} /\ s \in Seq(A) /\ Distinct(s) /\ t \in Seq(B) /\ Distinct(t)

Joined(A, B, s, t) ==
  /\ s \o t \in Seq(A \union B) /\ Len(s \o t) = Len(s) + Len(t)
  /\ Distinct(s \o t)
  /\ ToSet(s \o t) = ToSet(s) \union ToSet(t)

(* One such sequence after the other is another.                           *)
LEMMA DistinctAppend ==
  ASSUME NEW A, NEW B, NEW s, NEW t, Apart(A, B, s, t)
  PROVE  Joined(A, B, s, t)
<1> DEFINE AB == A \union B
           u == s \o t
           k == Len(t)
<1>0. A \intersect B = {} /\ s \in Seq(A) /\ Distinct(s) /\ t \in Seq(B) /\ Distinct(t)
  BY DEF Apart
<1>1. t \in Seq(B) /\ Len(t) = k /\ k \in Nat
  BY <1>0
<1>2. s \in Seq(AB) /\ t \in Seq(AB)
  BY <1>0
<1>3. /\ u \in Seq(AB) /\ Len(u) = Len(s) + k
      /\ \A i \in 1 .. Len(s) + k : u[i] = IF i <= Len(s) THEN s[i] ELSE t[i - Len(s)]
  BY <1>1, <1>2
<1>4. Len(s) \in Nat /\ DOMAIN s = 1 .. Len(s) /\ DOMAIN t = 1 .. k /\ DOMAIN u = 1 .. Len(s) + k
  BY <1>0, <1>1, <1>3
<1>5. /\ \A i \in 1 .. Len(s) : s[i] \in A
      /\ \A i \in 1 .. k : t[i] \in B
  BY <1>0
<1> HIDE DEF u, k
<1>6. ASSUME NEW i \in 1 .. Len(s) + k
      PROVE  \/ i \in 1 .. Len(s) /\ u[i] = s[i] /\ u[i] \in A
             \/ i - Len(s) \in 1 .. k /\ u[i] = t[i - Len(s)] /\ u[i] \in B
  <2>1. CASE i <= Len(s)
    BY <1>1, <1>3, <1>4, <1>5, <2>1
  <2>2. CASE ~ (i <= Len(s))
    <3>1. i - Len(s) \in 1 .. k
      BY <1>1, <1>4, <2>2
    <3> QED  BY <1>1, <1>3, <1>4, <1>5, <2>2, <3>1
  <2> QED  BY <2>1, <2>2
<1>7. ASSUME NEW i \in 1 .. Len(s) + k, NEW j \in 1 .. Len(s) + k, u[i] = u[j]
      PROVE  i = j
  <2>1. \/ i \in 1 .. Len(s) /\ j \in 1 .. Len(s) /\ s[i] = s[j]
        \/ i - Len(s) \in 1 .. k /\ j - Len(s) \in 1 .. k /\ t[i - Len(s)] = t[j - Len(s)]
    BY <1>0, <1>6, <1>7
  <2>2. i = j \/ i - Len(s) = j - Len(s)
    BY <1>0, <1>4, <2>1 DEF Distinct
  <2> QED  BY <1>4, <2>2
<1>8. Distinct(u)
  BY <1>4, <1>7 DEF Distinct
<1>9. ToSet(u) \subseteq ToSet(s) \union ToSet(t)
  BY <1>4, <1>6 DEF ToSet
<1>10. ToSet(s) \subseteq ToSet(u)
  <2>1. ASSUME NEW i \in 1 .. Len(s) PROVE i \in 1 .. Len(s) + k /\ u[i] = s[i]
    BY <1>1, <1>3, <1>4
  <2> QED  BY <1>4, <2>1 DEF ToSet
<1>11. ToSet(t) \subseteq ToSet(u)
  <2>1. ASSUME NEW i \in 1 .. k PROVE Len(s) + i \in 1 .. Len(s) + k /\ u[Len(s) + i] = t[i]
    <3>1. Len(s) + i \in 1 .. Len(s) + k /\ ~ (Len(s) + i <= Len(s)) /\ (Len(s) + i) - Len(s) = i
      BY <1>1, <1>4
    <3> QED  BY <1>3, <3>1
  <2> QED  BY <1>4, <2>1 DEF ToSet
<1> QED  BY <1>1, <1>3, <1>8, <1>9, <1>10, <1>11 DEF u, Joined

(* What a legal request offers and asks for.                               *)
LEMMA LegalRequest ==
  ASSUME NEW r \in Selections, ~ Invalid(r)
  PROVE  /\ r.features \in Nat /\ r.steps \in Nat \ {0} /\ r.keep \in Nat
         /\ Len(r.selectable) \in Nat /\ r.keep <= Len(r.selectable)
         /\ Selectable(r) \in SUBSET (1 .. r.features)
         /\ IsFiniteSet(Selectable(r)) /\ Cardinality(Selectable(r)) = Len(r.selectable)
         /\ \A cols \in SUBSET (1 .. r.features) : \A f \in cols : Importance(cols, f) \in Int
<1>1. /\ r.features \in Nat /\ r.steps \in Nat /\ r.keep \in Nat /\ r.selectable \in Seq(Nat \ {0})
      /\ \A cols \in SUBSET (1 .. r.features) : \A f \in cols : Importance(cols, f) \in Int
  BY SelectionsAssumption
<1>2. Selectable(r) \in SUBSET (Nat \ {0})
  BY <1>1 DEF Selectable, ToSet
<1>3. Selectable(r) \in SUBSET (1 .. r.features)
  BY <1>1, <1>2 DEF Invalid
<1>4. IsFiniteSet(Selectable(r))
  <2> DEFINE n == r.features
  <2>1. n \in Int /\ 1 \in Int
    BY <1>1
  <2> HIDE DEF n
  <2>2. IsFiniteSet(1 .. n)
    BY <2>1, FS_Interval
  <2> QED  BY <1>3, <2>2, FS_Subset DEF n
<1> QED  BY <1>1, <1>3, <1>4 DEF Invalid

(* A legal request under way, and at its end: after each step exactly what *)
(* the schedule wants has gone, all of it offered, none of it twice.       *)
Eliminating ==
  /\ step \in 1 .. asked.steps + 1
  /\ eliminated \in Seq(Selectable(asked)) /\ Distinct(eliminated)
  /\ Len(eliminated) =
       IF step = 1 THEN 0 ELSE GoneBy(Len(asked.selectable), asked.keep, asked.steps, step - 1)
  /\ retained = (1 .. asked.features) \ ToSet(eliminated)
  /\ partition \notin {None, TrainingError} =>
       /\ step = asked.steps + 1
       /\ partition = [kind |-> "selected",
                       selected |-> Sorted(Selectable(asked) \ ToSet(eliminated)),
                       eliminated |-> eliminated]

(* The invariant of feature selection.                                     *)
SelectionInv ==
  /\ asked = None => partition = None /\ eliminated = <<>>
  /\ asked # None => /\ asked \in Selections
                     /\ Invalid(asked) => partition = SelectionError
                     /\ ~ Invalid(asked) => Eliminating

(* A training that fails ends the selection and leaves the rest as it is.  *)
LEMMA FailureEnds ==
  ASSUME SelectionInv, asked # None, ~ Invalid(asked), TrainingFails, asked' = asked
  PROVE  SelectionInv' /\ eliminated' = eliminated
<1>1. /\ partition' = TrainingError /\ step' = step
      /\ retained' = retained /\ eliminated' = eliminated
  BY DEF TrainingFails
<1>2. asked \in Selections /\ Eliminating
  BY DEF SelectionInv
<1>3. Eliminating'
  BY <1>1, <1>2 DEF Eliminating
<1> QED  BY <1>1, <1>2, <1>3 DEF SelectionInv

(* What a step that eliminates does to a legal request: it drops what its  *)
(* own model ranks lowest among the offered columns that are left, as many *)
(* as the schedule has due.                                                *)
LEMMA EliminateDrops ==
  ASSUME SelectionInv, Eliminate, partition' # TrainingError
  PROVE  /\ Eliminating'
         /\ LET gone == ToSet(eliminated') \ ToSet(eliminated)
            IN gone # {} => \A f \in gone, g \in retained' \intersect Selectable(asked) :
                  Importance(retained, f) <= Importance(retained, g)
<1> DEFINE n == Len(asked.selectable)
           m == asked.keep
           S == asked.steps
           Sel == Selectable(asked)
           E == ToSet(eliminated)
           upTo == IF step = 1 THEN 0 ELSE GoneBy(n, m, S, step - 1)
           rest == ToEliminate(asked) - Len(eliminated)
           due == Schedule(asked)[step]
           count == IF due < rest THEN due ELSE rest
           candidates == Sel \ E
           gone == Weakest(retained, candidates, count)
<1>1. asked \in Selections /\ ~ Invalid(asked) /\ Eliminating /\ partition = None
  BY DEF SelectionInv, Eliminate, None, SelectionError
<1>2. /\ asked.features \in Nat /\ S \in Nat \ {0} /\ m \in Nat
      /\ n \in Nat /\ m <= n
      /\ Sel \in SUBSET (1 .. asked.features)
      /\ IsFiniteSet(Sel) /\ Cardinality(Sel) = n
      /\ \A cols \in SUBSET (1 .. asked.features) : \A f \in cols : Importance(cols, f) \in Int
  BY <1>1, LegalRequest
<1>3. /\ step \in 1 .. S
      /\ eliminated \in Seq(Sel) /\ Distinct(eliminated)
      /\ Len(eliminated) = upTo
      /\ retained = (1 .. asked.features) \ E
  BY <1>1, <1>2 DEF Eliminating, Eliminate
<1>4. /\ step' = step + 1 /\ asked' = asked /\ partition' = partition
      /\ IF count = 0 THEN retained' = retained /\ eliminated' = eliminated
         ELSE eliminated' = eliminated \o gone /\ retained' = retained \ ToSet(gone)
  BY DEF Eliminate, TrainingFails
<1>5. due = GoneBy(n, m, S, step) - upTo /\ rest = n - m - upTo
  BY <1>3 DEF Schedule, calc_num_to_eliminate_by_steps, ToEliminate
<1>6. /\ GoneBy(n, m, S, step) \in 0 .. n - m
      /\ upTo \in 0 .. n - m /\ upTo <= GoneBy(n, m, S, step)
  <2>1. \A s \in 1 .. S : /\ GoneBy(n, m, S, s) \in 0 .. n - m
                          /\ s < S => GoneBy(n, m, S, s) <= GoneBy(n, m, S, s + 1)
    <3> HIDE DEF n, m, S
    <3> QED  BY <1>2, GoneByRises
  <2>2. CASE step = 1
    BY <1>2, <1>3, <2>1, <2>2
  <2>3. CASE step # 1
    <3>1. step - 1 \in 1 .. S /\ step - 1 < S /\ (step - 1) + 1 = step
      BY <1>2, <1>3, <2>3
    <3>2. GoneBy(n, m, S, step - 1) <= GoneBy(n, m, S, (step - 1) + 1)
      BY <2>1, <3>1
    <3> QED  BY <1>3, <2>1, <2>3, <3>1, <3>2
  <2> QED  BY <2>2, <2>3
<1> HIDE DEF upTo, due, rest, n, m, S
<1>7. count \in Nat /\ upTo + count = GoneBy(n, m, S, step) /\ count <= n - upTo
  BY <1>2, <1>5, <1>6
<1>8. step + 1 \in 1 .. S + 1 /\ step + 1 # 1 /\ (step + 1) - 1 = step
  BY <1>2, <1>3
<1> HIDE DEF count
<1>9. E \in SUBSET Sel /\ IsFiniteSet(E) /\ Cardinality(E) = upTo
  <2>1. eliminated \in [1 .. upTo -> Sel] /\ upTo \in Nat
    BY <1>3, <1>6
  <2>2. IsFiniteSet(E) /\ Cardinality(E) = upTo
    BY <1>3, <2>1, DistinctLength
  <2>3. E \in SUBSET Sel
    BY <1>3 DEF ToSet
  <2> QED  BY <2>2, <2>3
<1> HIDE DEF E, Sel
<1>10. Cardinality(candidates) = n - upTo /\ candidates \in SUBSET retained
  <2>1. Sel \intersect E = E
    BY <1>9
  <2>2. Cardinality(candidates) = n - upTo
    BY <1>2, <1>9, <2>1, FS_Difference
  <2> QED  BY <1>2, <1>3, <2>2
<1>11. retained \in SUBSET (1 .. asked.features) /\ \A f \in retained : Importance(retained, f) \in Int
  BY <1>2, <1>3
<1> HIDE DEF candidates
<1>12. /\ gone \in [1 .. count -> candidates]
       /\ Distinct(gone)
       /\ \A f \in ToSet(gone), g \in candidates \ ToSet(gone) :
            Importance(retained, f) <= Importance(retained, g)
  <2>1. count <= Cardinality(candidates)
    BY <1>7, <1>10
  <2> QED  BY <1>2, <1>7, <1>10, <1>11, <2>1, WeakestAre
<1> HIDE DEF gone
<1>13. /\ eliminated' \in Seq(Sel) /\ Distinct(eliminated')
       /\ Len(eliminated') = GoneBy(n, m, S, step)
       /\ retained' = (1 .. asked.features) \ ToSet(eliminated')
       /\ ToSet(eliminated') \ E \subseteq ToSet(gone)
       /\ retained' \intersect Sel \intersect ToSet(gone) = {} \/ eliminated' = eliminated
  <2>1. CASE count = 0
    BY <1>3, <1>4, <1>6, <1>7, <2>1 DEF E
  <2>2. CASE count # 0
    <3>1. eliminated' = eliminated \o gone /\ retained' = retained \ ToSet(gone)
      BY <1>4, <2>2
    <3>2. E \intersect candidates = {} /\ E \union candidates = Sel
      BY <1>9 DEF candidates
    <3>3. eliminated \in Seq(E)
      BY <1>3 DEF E, ToSet
    <3>4. gone \in Seq(candidates) /\ Len(gone) = count
      BY <1>7, <1>12
    <3>5. /\ eliminated \o gone \in Seq(E \union candidates)
          /\ Len(eliminated \o gone) = Len(eliminated) + Len(gone)
          /\ Distinct(eliminated \o gone)
          /\ ToSet(eliminated \o gone) = ToSet(eliminated) \union ToSet(gone)
      <4> DEFINE s == eliminated
                 A == E
                 B == candidates
      <4>1. Apart(A, B, s, gone)
        BY <1>3, <1>12, <3>2, <3>3, <3>4 DEF Apart
      <4> HIDE DEF s, A, B
      <4>2. Joined(A, B, s, gone)
        BY <4>1, DistinctAppend
      <4> QED  BY <4>2 DEF s, A, B, Joined
    <3>6. ToSet(eliminated') = E \union ToSet(gone)
      BY <3>1, <3>5 DEF E
    <3> QED  BY <1>3, <1>7, <3>1, <3>2, <3>4, <3>5, <3>6
  <2> QED  BY <2>1, <2>2
<1>14. Eliminating'
  <2>1. step' \in 1 .. S + 1 /\ step' # 1 /\ step' - 1 = step
    BY <1>4, <1>8
  <2>2. partition' = None
    BY <1>1, <1>4
  <2>3. asked' = asked
    BY <1>4
  <2> QED  BY <1>13, <2>1, <2>2, <2>3 DEF Eliminating, n, m, S, Sel
<1>15. ASSUME NEW f \in ToSet(eliminated') \ E, NEW g \in retained' \intersect Sel
       PROVE  Importance(retained, f) <= Importance(retained, g)
  <2>1. f \in ToSet(gone) /\ eliminated' # eliminated
    BY <1>13 DEF E
  <2>2. g \notin ToSet(gone)
    BY <1>13, <2>1
  <2>3. g \in retained
    BY <1>4
  <2>4. g \in candidates
    BY <1>3, <2>3 DEF candidates
  <2> QED  BY <1>12, <2>1, <2>2, <2>4
<1> QED  BY <1>14, <1>15 DEF E, Sel

(* What a legal selection returns.                                         *)
LEMMA SelectedIsKept ==
  ASSUME SelectionInv
  PROVE  EliminationMeetsTheBudget
<1> SUFFICES ASSUME asked # None, ~ Invalid(asked), partition \notin {None, TrainingError}
             PROVE  EliminationMeetsTheBudget
  BY DEF EliminationMeetsTheBudget
<1> DEFINE n == Len(asked.selectable)
           m == asked.keep
           S == asked.steps
           Sel == Selectable(asked)
           E == ToSet(eliminated)
<1>1. asked \in Selections /\ Eliminating
  BY DEF SelectionInv
<1>2. /\ asked.features \in Nat /\ S \in Nat \ {0} /\ m \in Nat
      /\ n \in Nat /\ m <= n
      /\ Sel \in SUBSET (1 .. asked.features)
      /\ IsFiniteSet(Sel) /\ Cardinality(Sel) = n
  BY <1>1, LegalRequest
<1>3. /\ step = S + 1 /\ eliminated \in Seq(Sel) /\ Distinct(eliminated)
      /\ Len(eliminated) = IF step = 1 THEN 0 ELSE GoneBy(n, m, S, step - 1)
      /\ retained = (1 .. asked.features) \ E
      /\ partition = [kind |-> "selected", selected |-> Sorted(Sel \ E), eliminated |-> eliminated]
  BY <1>1 DEF Eliminating
<1> HIDE DEF n, m, S
<1>4. Len(eliminated) = n - m
  <2>1. step # 1 /\ step - 1 = S /\ S \in 1 .. S
    BY <1>2, <1>3
  <2>2. GoneBy(n, m, S, S) = n - m
    BY <1>2, <2>1, GoneByRises
  <2> QED  BY <1>3, <2>1, <2>2
<1>5. E \in SUBSET Sel /\ Cardinality(E) = n - m
  <2>1. eliminated \in [1 .. n - m -> Sel] /\ n - m \in Nat
    BY <1>2, <1>3, <1>4
  <2>2. IsFiniteSet(E) /\ Cardinality(E) = n - m
    BY <1>3, <2>1, DistinctLength
  <2>3. E \in SUBSET Sel
    BY <1>3 DEF ToSet
  <2> QED  BY <2>2, <2>3
<1> HIDE DEF E, Sel
<1> DEFINE kept == Sel \ E
<1>6. IsFiniteSet(kept) /\ Cardinality(kept) = m /\ kept \in SUBSET Int
  <2>1. Sel \intersect E = E
    BY <1>5
  <2>2. IsFiniteSet(kept) /\ Cardinality(kept) = n - (n - m)
    <3>1. IsFiniteSet(Sel \ E) /\ Cardinality(Sel \ E) = Cardinality(Sel) - Cardinality(Sel \intersect E)
      BY <1>2, FS_Difference
    <3>2. Cardinality(Sel) = n /\ Cardinality(Sel \intersect E) = n - m
      BY <1>2, <1>5, <2>1
    <3> QED  BY <3>1, <3>2
  <2>3. ASSUME NEW x \in kept PROVE x \in Int
    <3>1. x \in Sel
      OBVIOUS
    <3> HIDE DEF kept
    <3>2. x \in 1 .. asked.features /\ asked.features \in Int
      BY <1>2, <3>1
    <3> QED  BY <3>2
  <2> HIDE DEF kept
  <2> QED  BY <1>2, <2>2, <2>3
<1> HIDE DEF kept
<1>7. Listed(kept, Sorted(kept))
  BY <1>6, SortedLists
<1>8. Len(Sorted(kept)) = m /\ ToSet(Sorted(kept)) = kept
  <2>1. Sorted(kept) \in [1 .. m -> kept]
    BY <1>6, <1>7 DEF Listed
  <2>2. ToSet(Sorted(kept)) = kept
    BY <1>2, <1>6, <1>7, ListedOnce
  <2> QED  BY <1>2, <2>1, <2>2
<1>9. /\ partition.kind = "selected" /\ partition.selected = Sorted(kept)
      /\ partition.eliminated = eliminated
  BY <1>3 DEF kept
<1>10. kept \union E = Sel
  BY <1>5 DEF kept
<1> QED
  BY <1>2, <1>3, <1>4, <1>5, <1>8, <1>9, <1>10 DEF EliminationMeetsTheBudget, Sel, E, m

(* A request is not the absence of one.                                    *)
LEMMA RequestIsSome == \A r \in Selections : r # None
<1> SUFFICES ASSUME NEW r \in Selections, r = None PROVE FALSE
  OBVIOUS
<1>1. r \in [features : Nat, bordered : Nat, selectable : Seq(Nat \ {0}), keep : Nat, steps : Nat,
             final : BOOLEAN]
  BY SelectionsAssumption
<1>2. DOMAIN r = {"features", "bordered", "selectable", "keep", "steps", "final"}
  BY <1>1
<1>3. DOMAIN r = {"kind"}
  BY DEF None
<1> QED  BY <1>2, <1>3

(* Asking starts a legal request on all columns with nothing eliminated.   *)
LEMMA AskingStarts ==
  ASSUME SelectionInv, NEW r \in Selections, select_features(r)
  PROVE  SelectionInv' /\ eliminated' = eliminated
<1>1. asked' = r /\ eliminated' = eliminated /\ partition = None /\ eliminated = <<>>
  BY DEF select_features, SelectionInv
<1>2. CASE Invalid(r)
  <2>1. partition' = SelectionError
    BY <1>2 DEF select_features
  <2> QED  BY <1>1, <1>2, <2>1, RequestIsSome DEF SelectionInv
<1>3. CASE ~ Invalid(r)
  <2>1. step' = 1 /\ retained' = 1 .. r.features /\ partition' = partition
    BY <1>3 DEF select_features
  <2>2. r.steps \in Nat \ {0}
    BY <1>3, LegalRequest
  <2>3. eliminated' = <<>> /\ partition' = None
    BY <1>1, <2>1
  <2>4. Eliminating'
    <3>1. <<>> \in Seq(Selectable(r)) /\ Len(<<>>) = 0 /\ Distinct(<<>>) /\ ToSet(<<>>) = {}
      BY DEF Distinct, ToSet
    <3> QED  BY <1>1, <2>1, <2>2, <2>3, <3>1 DEF Eliminating
  <2> QED  BY <1>1, <1>3, <2>4, RequestIsSome DEF SelectionInv
<1> QED  BY <1>1, <1>2, <1>3

(* At the end the budget is met, so the partition is returned.             *)
LEMMA FinishSelects ==
  ASSUME SelectionInv, Finish, partition' # TrainingError
  PROVE  SelectionInv' /\ eliminated' = eliminated
<1> DEFINE n == Len(asked.selectable)
           m == asked.keep
           S == asked.steps
<1>1. asked \in Selections /\ ~ Invalid(asked) /\ Eliminating
  BY DEF SelectionInv, Finish, None, SelectionError
<1>2. S \in Nat \ {0} /\ m \in Nat /\ n \in Nat /\ m <= n
  BY <1>1, LegalRequest
<1>3. step \in 1 .. S + 1 /\ step > S
  BY <1>1 DEF Eliminating, Finish
<1>4. Len(eliminated) = GoneBy(n, m, S, step - 1) /\ step - 1 = S /\ S \in 1 .. S
  BY <1>1, <1>2, <1>3 DEF Eliminating
<1> HIDE DEF n, m, S
<1>5. GoneBy(n, m, S, S) = n - m
  BY <1>2, <1>4, GoneByRises
<1>6. Len(eliminated) = ToEliminate(asked)
  BY <1>4, <1>5 DEF ToEliminate, n, m
<1>7. /\ partition' = [kind |-> "selected", selected |-> Sorted(Selectable(asked) \ ToSet(eliminated)),
                       eliminated |-> eliminated]
      /\ asked' = asked /\ step' = step /\ retained' = retained /\ eliminated' = eliminated
  BY <1>6 DEF Finish, TrainingFails
<1>8. step = asked.steps + 1
  BY <1>2, <1>3 DEF S
<1>9. Eliminating'
  BY <1>1, <1>7, <1>8 DEF Eliminating
<1> QED  BY <1>1, <1>7, <1>9 DEF SelectionInv, Finish

(* The invariant from step to step.                                        *)
LEMMA SelectionStep ==
  ASSUME SelectionInv, SelectionNext \/ UNCHANGED fvars
  PROVE  /\ SelectionInv'
         /\ LET gone == ToSet(eliminated') \ ToSet(eliminated)
            IN gone # {} => \A f \in gone, g \in retained' \intersect Selectable(asked) :
                  Importance(retained, f) <= Importance(retained, g)
<1>1. CASE UNCHANGED fvars
  <2>1. /\ asked' = asked /\ step' = step /\ retained' = retained /\ eliminated' = eliminated
        /\ partition' = partition
    BY <1>1 DEF fvars
  <2>2. ToSet(eliminated') \ ToSet(eliminated) = {}
    BY <2>1
  <2>3. SelectionInv'
    BY <2>1 DEF SelectionInv, Eliminating
  <2> QED  BY <2>2, <2>3
<1>2. CASE asked = None /\ \E r \in Selections : select_features(r)
  <2>1. SelectionInv' /\ eliminated' = eliminated
    BY <1>2, AskingStarts
  <2>2. ToSet(eliminated') \ ToSet(eliminated) = {}
    BY <2>1
  <2> QED  BY <2>1, <2>2
<1>3. CASE (Eliminate \/ Finish) /\ partition' = TrainingError
  <2>1. asked # None /\ ~ Invalid(asked) /\ asked' = asked /\ partition = None
    BY <1>3 DEF SelectionInv, Eliminate, Finish, None, SelectionError
  <2>2. TrainingFails
    BY <1>3, <2>1 DEF Eliminate, Finish, None, SelectionError, TrainingError
  <2>3. SelectionInv' /\ eliminated' = eliminated
    BY <2>1, <2>2, FailureEnds
  <2>4. ToSet(eliminated') \ ToSet(eliminated) = {}
    BY <2>3
  <2> QED  BY <2>3, <2>4
<1>4. CASE Eliminate /\ partition' # TrainingError
  <2>1. asked \in Selections /\ ~ Invalid(asked) /\ asked' = asked
    BY <1>4 DEF SelectionInv, Eliminate, None, SelectionError
  <2>2. Eliminating'
    BY <1>4, EliminateDrops
  <2>3. SelectionInv'
    BY <1>4, <2>1, <2>2 DEF SelectionInv, Eliminate
  <2> QED  BY <1>4, <2>3, EliminateDrops
<1>5. CASE Finish /\ partition' # TrainingError
  <2>1. SelectionInv' /\ eliminated' = eliminated
    BY <1>5, FinishSelects
  <2>2. ToSet(eliminated') \ ToSet(eliminated) = {}
    BY <2>1
  <2> QED  BY <2>1, <2>2
<1> QED  BY <1>1, <1>2, <1>3, <1>4, <1>5 DEF SelectionNext

(* Feature selection keeps its promises: unless a training fails, a legal  *)
(* request returns exactly as many features as asked for, from those       *)
(* offered, after steps that each dropped what their own model ranked      *)
(* lowest.                                                                 *)
THEOREM SelectionMeetsItsBudget == Spec => []EliminationMeetsTheBudget /\ WeakestGoFirst
<1>1. Init => SelectionInv
  BY DEF Init, SelectionInit, SelectionInv
<1>2. [Next]_vars => SelectionNext \/ UNCHANGED fvars
  BY DEF Next, Returned, vars, fvars
<1>3. SelectionInv /\ [Next]_vars => SelectionInv'
  BY <1>2, SelectionStep
<1>4. SelectionInv => EliminationMeetsTheBudget
  BY SelectedIsKept
<1>5. SelectionInv /\ [Next]_vars =>
        [LET gone == ToSet(eliminated') \ ToSet(eliminated)
         IN gone # {} => \A f \in gone, g \in retained' \intersect Selectable(asked) :
               Importance(retained, f) <= Importance(retained, g)]_fvars
  BY <1>2, SelectionStep
<1> QED  BY <1>1, <1>3, <1>4, <1>5, PTL DEF Spec, WeakestGoFirst

-----------------------------------------------------------------------------
(* Cutting a range. *)

(* Cutting 1 .. len into count parts: part k ends at cut[k + 1].           *)
Cuts(len, count, cut) ==
  /\ cut \in [1 .. count + 1 -> Int] /\ cut[1] = 0 /\ cut[count + 1] = len
  /\ \A k \in 1 .. count : cut[k] < cut[k + 1]
Within(cut, k, p) == cut[k] < p /\ p <= cut[k + 1]

(* The cuts rise, and every place is within exactly one part.              *)
LEMMA CutsPartition ==
  ASSUME NEW len \in Nat, NEW count \in Nat, NEW cut, Cuts(len, count, cut)
  PROVE  /\ \A j, k \in 1 .. count + 1 : j < k => cut[j] < cut[k]
         /\ \A p \in 1 .. len : \E k \in 1 .. count : Within(cut, k, p)
         /\ \A p \in Int, j, k \in 1 .. count : Within(cut, j, p) /\ Within(cut, k, p) => j = k
<1>1. /\ \A k \in 1 .. count + 1 : cut[k] \in Int
      /\ cut[1] = 0 /\ cut[count + 1] = len
      /\ \A k \in 1 .. count : cut[k] < cut[k + 1]
  BY DEF Cuts
<1>2. \A j, k \in 1 .. count + 1 : j < k => cut[j] < cut[k]
  <2> DEFINE T == {k \in 0 .. count : \A j \in 1 .. k : cut[j] < cut[k + 1]}
  <2>1. 0 \in T
    OBVIOUS
  <2>2. ASSUME NEW k \in 0 .. count - 1, k \in T PROVE k + 1 \in T
    <3> SUFFICES ASSUME NEW j \in 1 .. k + 1 PROVE cut[j] < cut[(k + 1) + 1]
      OBVIOUS
    <3>1. k + 1 \in 1 .. count /\ (k + 1) + 1 \in 1 .. count + 1 /\ j \in 1 .. count + 1
      OBVIOUS
    <3>2. cut[k + 1] < cut[(k + 1) + 1]
      BY <1>1, <3>1
    <3>3. CASE j = k + 1
      BY <3>2, <3>3
    <3>4. CASE j # k + 1
      <4>1. cut[j] < cut[k + 1]
        BY <2>2, <3>4
      <4>2. cut[j] \in Int /\ cut[k + 1] \in Int /\ cut[(k + 1) + 1] \in Int
        BY <1>1, <3>1
      <4> QED  BY <3>2, <4>1, <4>2
    <3> QED  BY <3>3, <3>4
  <2>3. 0 .. count \subseteq T
    <3> HIDE DEF T
    <3> QED  BY <2>1, <2>2, BoundedInduction
  <2> SUFFICES ASSUME NEW j \in 1 .. count + 1, NEW k \in 1 .. count + 1, j < k PROVE cut[j] < cut[k]
    OBVIOUS
  <2>4. k - 1 \in 0 .. count /\ j \in 1 .. k - 1 /\ (k - 1) + 1 = k
    OBVIOUS
  <2> QED  BY <2>3, <2>4
<1>3. ASSUME NEW p \in 1 .. len PROVE \E k \in 1 .. count : Within(cut, k, p)
  <2> DEFINE T == {k \in 0 .. count : cut[k + 1] < p}
  <2>1. 0 \in T /\ T \in SUBSET (0 .. count)
    BY <1>1
  <2>2. \E k \in T : k < count => k + 1 \notin T
    <3> HIDE DEF T
    <3> QED  BY <2>1, LastOfRun
  <2>3. PICK k \in T : k < count => k + 1 \notin T
    BY <2>2
  <2>4. k # count
    BY <1>1, <2>3
  <2>5. k + 1 \in 1 .. count /\ k + 1 \in 0 .. count /\ k + 1 \notin T /\ (k + 1) + 1 \in 1 .. count + 1
    BY <2>3, <2>4
  <2>6. cut[k + 1] < p /\ ~ (cut[(k + 1) + 1] < p)
    BY <2>3, <2>5
  <2>7. cut[(k + 1) + 1] \in Int
    BY <1>1, <2>5
  <2> QED  BY <2>5, <2>6, <2>7 DEF Within
<1>4. ASSUME NEW p \in Int, NEW j \in 1 .. count, NEW k \in 1 .. count,
             Within(cut, j, p), Within(cut, k, p), j < k
      PROVE  FALSE
  <2>1. j + 1 \in 1 .. count + 1 /\ k \in 1 .. count + 1 /\ (j + 1 = k \/ j + 1 < k)
    BY <1>4
  <2>2. cut[j + 1] <= cut[k] /\ cut[j + 1] \in Int /\ cut[k] \in Int
    BY <1>1, <1>2, <2>1
  <2> QED  BY <1>4, <2>2 DEF Within
<1>5. \A p \in Int, j, k \in 1 .. count : Within(cut, j, p) /\ Within(cut, k, p) => j = k
  BY <1>4
<1> QED  BY <1>2, <1>3, <1>5

(* The blocks of a range cut it, into parts that differ by at most one.    *)
Even(count, cut, q) == \A k \in 1 .. count : cut[k + 1] - cut[k] \in {q, q + 1}
LEMMA BlocksCut ==
  ASSUME NEW len \in Nat, NEW count \in Nat \ {0}, count <= len
  PROVE  \E cut, q : /\ Cuts(len, count, cut)
                     /\ q \in Nat \ {0} /\ Even(count, cut, q)
                     /\ \A k \in 1 .. count : Block(len, count, k) = [from |-> cut[k] + 1, upto |-> cut[k + 1]]
<1> DEFINE q == len \div count
           rem == len % count
           start(b) == (b - 1) * q + Least(b - 1, rem)
           cut == [b \in 1 .. count + 1 |-> start(b)]
<1>1. q \in Int /\ rem \in 0 .. count - 1 /\ len = count * q + rem
  OBVIOUS
<1>2. ASSUME NEW k \in 1 .. count
      PROVE  Block(len, count, k) = [from |-> start(k) + 1, upto |-> start(k + 1)]
  BY DEF Block
<1> HIDE DEF q, rem
<1>3. q \in Nat \ {0}
  <2> SUFFICES ASSUME q <= 0 PROVE FALSE
    BY <1>1
  <2>1. CASE q <= -1
    <3>1. count * q <= -count
      BY <1>1, <2>1
    <3> QED  BY <1>1, <3>1
  <2>2. CASE q = 0
    <3>1. count * q = 0
      BY <2>2
    <3> QED  BY <1>1, <3>1
  <2> QED  BY <1>1, <2>1, <2>2
<1>4. ASSUME NEW b \in 1 .. count + 1 PROVE start(b) \in Int
  <2>1. (b - 1) * q \in Int
    BY <1>1
  <2> QED  BY <1>1, <2>1 DEF Least
<1>5. start(1) = 0
  <2>1. (1 - 1) * q = 0
    BY <1>1
  <2> QED  BY <1>1, <2>1 DEF Least
<1>6. start(count + 1) = len
  <2>1. ((count + 1) - 1) * q = count * q
    BY <1>1
  <2> QED  BY <1>1, <2>1 DEF Least
<1>7. ASSUME NEW k \in 1 .. count PROVE start(k + 1) - start(k) \in {q, q + 1}
  <2>1. ((k + 1) - 1) * q = (k - 1) * q + q
    BY <1>1
  <2>2. (k - 1) * q \in Int
    BY <1>1
  <2>3. Least((k + 1) - 1, rem) - Least(k - 1, rem) \in {0, 1} /\ Least(k - 1, rem) \in Int /\ Least((k + 1) - 1, rem) \in Int
    BY <1>1 DEF Least
  <2> QED  BY <1>1, <2>1, <2>2, <2>3
<1> HIDE DEF start
<1>8. cut \in [1 .. count + 1 -> Int] /\ cut[1] = 0 /\ cut[count + 1] = len
  BY <1>4, <1>5, <1>6
<1>9. ASSUME NEW k \in 1 .. count
      PROVE  /\ cut[k + 1] - cut[k] \in {q, q + 1} /\ cut[k] < cut[k + 1]
             /\ Block(len, count, k) = [from |-> cut[k] + 1, upto |-> cut[k + 1]]
  <2>1. k \in 1 .. count + 1 /\ k + 1 \in 1 .. count + 1
    OBVIOUS
  <2>2. cut[k] = start(k) /\ cut[k + 1] = start(k + 1)
    BY <2>1
  <2>3. start(k) \in Int /\ start(k + 1) \in Int
    BY <1>4, <2>1
  <2> QED  BY <1>2, <1>3, <1>7, <2>2, <2>3
<1> HIDE DEF cut
<1>10. Cuts(len, count, cut) /\ Even(count, cut, q)
  BY <1>8, <1>9 DEF Cuts, Even
<1> QED  BY <1>3, <1>9, <1>10

(* The spans of the groups cut the rows, and a span has one id.            *)
LEMMA SpansCut ==
  ASSUME NEW n \in Nat \ {0}, NEW ids \in [1 .. n -> Nat]
  PROVE  /\ Len(RunStarts(ids)) \in Nat \ {0}
         /\ RunStarts(ids) \in [1 .. Len(RunStarts(ids)) -> 1 .. n]
         /\ \E cut : /\ Cuts(n, Len(RunStarts(ids)), cut)
                     /\ \A g \in 1 .. Len(RunStarts(ids)) :
                          /\ Span(ids, g) = cut[g] + 1 .. cut[g + 1]
                          /\ \A r \in Span(ids, g) : ids[r] = ids[RunStarts(ids)[g]]
<1> DEFINE B == {i \in DOMAIN ids : i = 1 \/ ids[i - 1] # ids[i]}
           starts == RunStarts(ids)
           G == Cardinality(B)
           cut == [g \in 1 .. G + 1 |-> IF g = G + 1 THEN n ELSE starts[g] - 1]
<1>1. B \in SUBSET (1 .. n) /\ 1 \in B /\ \A i \in 1 .. n : i \notin B => i # 1 /\ ids[i - 1] = ids[i]
  OBVIOUS
<1>2. starts = Ascending(B)
  BY DEF RunStarts
<1> HIDE DEF B, starts
<1>3. IsFiniteSet(B) /\ G \in Nat /\ B \in SUBSET Int
  <2>1. IsFiniteSet(1 .. n)
    BY FS_Interval
  <2>2. IsFiniteSet(B)
    BY <1>1, <2>1, FS_Subset
  <2> QED  BY <1>1, <2>2, FS_CardinalityType
<1>4. Listed(B, starts)
  BY <1>2, <1>3, SortedLists
<1> HIDE DEF G
<1>5. /\ starts \in [1 .. G -> B]
      /\ \A x \in B : \E i \in 1 .. G : starts[i] = x
      /\ \A i, j \in 1 .. G : i < j => starts[i] < starts[j]
  BY <1>4 DEF Listed, G
<1>6. G \in Nat \ {0} /\ Len(starts) = G /\ \A g \in 1 .. G : starts[g] \in 1 .. n
  <2>1. \E i \in 1 .. G : starts[i] = 1
    BY <1>1, <1>5
  <2>2. G # 0
    BY <2>1
  <2>3. \A g \in 1 .. G : starts[g] \in 1 .. n
    BY <1>1, <1>5
  <2> QED  BY <1>3, <1>5, <2>2, <2>3
<1>7. starts[1] = 1
  <2>1. PICK i \in 1 .. G : starts[i] = 1
    BY <1>1, <1>5
  <2>2. 1 \in 1 .. G /\ starts[1] \in 1 .. n
    BY <1>6
  <2>3. i = 1 \/ starts[1] < starts[i]
    BY <1>5, <2>2
  <2> QED  BY <2>1, <2>2, <2>3
<1>8. ASSUME NEW g \in 1 .. G
      PROVE  /\ cut[g] = starts[g] - 1 /\ cut[g] \in Int
             /\ cut[g + 1] = (IF g = G THEN n ELSE starts[g + 1] - 1) /\ cut[g + 1] \in Int
             /\ cut[g] < cut[g + 1] /\ cut[g + 1] <= n
  <2>1. g \in 1 .. G + 1 /\ g # G + 1 /\ g + 1 \in 1 .. G + 1 /\ starts[g] \in 1 .. n
    BY <1>6
  <2>2. CASE g = G
    BY <1>6, <2>1, <2>2
  <2>3. CASE g # G
    <3>1. g + 1 \in 1 .. G /\ g + 1 # G + 1
      BY <1>6, <2>3
    <3>2. starts[g] < starts[g + 1] /\ starts[g + 1] \in 1 .. n
      BY <1>5, <1>6, <3>1
    <3> QED  BY <2>1, <2>3, <3>1, <3>2
  <2> QED  BY <2>2, <2>3
<1>9. cut \in [1 .. G + 1 -> Int] /\ cut[1] = 0 /\ cut[G + 1] = n
  <2>1. \A g \in 1 .. G + 1 : cut[g] \in Int
    <3>1. \A g \in 1 .. G + 1 : g = G + 1 \/ g \in 1 .. G
      BY <1>6
    <3> QED  BY <1>6, <3>1
  <2>2. 1 \in 1 .. G /\ G + 1 \in 1 .. G + 1
    BY <1>6
  <2>3. cut[1] = 0
    <3> HIDE DEF cut
    <3>1. cut[1] = starts[1] - 1
      BY <1>8, <2>2
    <3> QED  BY <1>7, <3>1
  <2> QED  BY <2>1, <2>2, <2>3
<1> HIDE DEF cut
<1>10. Cuts(n, G, cut)
  BY <1>8, <1>9 DEF Cuts
<1>11. ASSUME NEW g \in 1 .. G PROVE Span(ids, g) = cut[g] + 1 .. cut[g + 1] /\ cut[g] + 1 = starts[g]
  <2>1. Span(ids, g) = starts[g] .. (IF g = Len(starts) THEN Len(ids) ELSE starts[g + 1] - 1)
    BY DEF Span, starts
  <2>2. Len(ids) = n
    OBVIOUS
  <2>3. starts[g] \in Int
    BY <1>6
  <2>4. (IF g = Len(starts) THEN Len(ids) ELSE starts[g + 1] - 1) = cut[g + 1]
    BY <1>6, <1>8, <2>2
  <2>5. cut[g] + 1 = starts[g]
    BY <1>8, <2>3
  <2> QED  BY <2>1, <2>4, <2>5
<1>12. ASSUME NEW g \in 1 .. G, NEW r \in 1 .. n, starts[g] < r, r <= cut[g + 1] PROVE r \notin B
  <2> SUFFICES ASSUME r \in B PROVE FALSE
    OBVIOUS
  <2>1. PICK h \in 1 .. G : starts[h] = r
    BY <1>5
  <2>2. starts[g] \in Int /\ starts[h] \in Int
    BY <1>6
  <2>3. h > g
    <3>1. h = g \/ h > g \/ (h < g /\ starts[h] < starts[g])
      BY <1>5
    <3> QED  BY <1>12, <2>1, <2>2, <3>1
  <2>4. g # G /\ g + 1 \in 1 .. G
    BY <1>6, <2>3
  <2>5. cut[g + 1] = starts[g + 1] - 1 /\ starts[g + 1] \in Int
    <3>1. cut[g + 1] = IF g = G THEN n ELSE starts[g + 1] - 1
      BY <1>8
    <3>2. starts[g + 1] \in 1 .. n
      BY <1>6, <2>4
    <3> QED  BY <2>4, <3>1, <3>2
  <2>6. g + 1 = h \/ starts[g + 1] < starts[h]
    BY <1>5, <2>3, <2>4
  <2> QED  BY <1>12, <2>1, <2>2, <2>5, <2>6
<1>13. ASSUME NEW g \in 1 .. G, NEW r \in Span(ids, g) PROVE ids[r] = ids[starts[g]]
  <2> DEFINE T == {d \in 0 .. n : starts[g] + d <= cut[g + 1] => ids[starts[g] + d] = ids[starts[g]]}
  <2>1. starts[g] \in 1 .. n /\ cut[g + 1] \in Int /\ cut[g + 1] <= n
    BY <1>6, <1>8
  <2>2. 0 \in T
    BY <2>1
  <2>3. ASSUME NEW d \in 0 .. n - 1, d \in T PROVE d + 1 \in T
    <3> SUFFICES ASSUME starts[g] + (d + 1) <= cut[g + 1]
                 PROVE  ids[starts[g] + (d + 1)] = ids[starts[g]]
      BY <2>3
    <3>1. ids[starts[g] + d] = ids[starts[g]]
      BY <2>1, <2>3
    <3>2. starts[g] + (d + 1) \in 1 .. n /\ (starts[g] + (d + 1)) - 1 = starts[g] + d
      <4> DEFINE a == starts[g]
                 b == cut[g + 1]
      <4>1. a \in 1 .. n /\ b \in Int /\ b <= n /\ a + (d + 1) <= b /\ n \in Nat
        BY <2>1
      <4> HIDE DEF a, b
      <4>2. a + (d + 1) \in 1 .. n /\ (a + (d + 1)) - 1 = a + d
        BY <4>1
      <4> QED  BY <4>2 DEF a
    <3>3. starts[g] + (d + 1) \notin B
      <4>1. starts[g] < starts[g] + (d + 1)
        BY <2>1
      <4> QED  BY <1>12, <3>2, <4>1
    <3> QED  BY <1>1, <3>1, <3>2, <3>3
  <2>4. 0 .. n \subseteq T
    <3> HIDE DEF T
    <3> QED  BY <2>2, <2>3, BoundedInduction
  <2>5. r - starts[g] \in 0 .. n /\ r <= cut[g + 1] /\ starts[g] + (r - starts[g]) = r
    BY <1>11, <2>1
  <2> QED  BY <2>4, <2>5
<1> QED
  <2>1. starts \in [1 .. G -> 1 .. n]
    BY <1>5, <1>6
  <2>2. \A g \in 1 .. G : /\ Span(ids, g) = cut[g] + 1 .. cut[g + 1]
                          /\ \A r \in Span(ids, g) : ids[r] = ids[starts[g]]
    BY <1>11, <1>13
  <2> QED  BY <1>6, <1>10, <2>1, <2>2 DEF starts

-----------------------------------------------------------------------------
(* Folds. *)

(* A sequence of the members of a set, each once.                          *)
Enumerates(S, s) ==
  /\ Len(s) \in Nat /\ s \in [1 .. Len(s) -> S] /\ Distinct(s)
  /\ \A x \in S : \E i \in 1 .. Len(s) : s[i] = x

(* Such a sequence has just those members.                                 *)
LEMMA ListsHoldAll ==
  ASSUME NEW S, NEW s, Enumerates(S, s)
  PROVE  ToSet(s) = S
<1>1. /\ Len(s) \in Nat /\ s \in [1 .. Len(s) -> S] /\ DOMAIN s = 1 .. Len(s)
      /\ \A x \in S : \E i \in 1 .. Len(s) : s[i] = x
  BY DEF Enumerates
<1> QED  BY <1>1 DEF ToSet

(* What is sorted is listed.                                               *)
LEMMA AscendingLists ==
  ASSUME NEW S \in SUBSET Int, IsFiniteSet(S)
  PROVE  Enumerates(S, Ascending(S))
<1> DEFINE s == Ascending(S)
           n == Cardinality(S)
<1>1. n \in Nat
  BY FS_CardinalityType
<1>2. Listed(S, s)
  BY SortedLists
<1> HIDE DEF s
<1>3. /\ s \in [1 .. n -> S]
      /\ \A x \in S : \E i \in 1 .. n : s[i] = x
      /\ \A i, j \in 1 .. n : i < j => s[i] < s[j]
  BY <1>2 DEF Listed
<1> HIDE DEF n
<1>4. Len(s) = n /\ DOMAIN s = 1 .. n
  BY <1>1, <1>3
<1>5. ASSUME NEW i \in 1 .. n, NEW j \in 1 .. n, s[i] = s[j] PROVE i = j
  <2>1. s[i] \in Int /\ s[j] \in Int
    BY <1>3
  <2>2. i = j \/ i < j \/ j < i
    BY <1>1
  <2> QED  BY <1>3, <1>5, <2>1, <2>2
<1>6. Enumerates(S, s)
  BY <1>1, <1>3, <1>4, <1>5 DEF Enumerates, Distinct
<1> QED  BY <1>6 DEF s

(* The rows whose place is within part k.                                  *)
Part(n, cut, at, k) == {r \in 1 .. n : Within(cut, k, at[r])}

(* What it takes for lists to hold the parts of a cut.                     *)
HoldParts(n, len, count, cut, at, tests) ==
  /\ n \in Nat /\ len \in Nat /\ count \in Nat /\ Cuts(len, count, cut)
  /\ at \in [1 .. n -> 1 .. len]
  /\ \A k \in 1 .. count : Enumerates(Part(n, cut, at, k), tests[k])

(* Lists of the parts hold every row at exactly one place.                 *)
LEMMA RowsAreHeldOnce ==
  ASSUME NEW n, NEW len, NEW count, NEW cut, NEW at, NEW tests,
         HoldParts(n, len, count, cut, at, tests), NEW row \in 1 .. n
  PROVE  Cardinality({a \in (1 .. count) \X (1 .. n) :
                        a[2] \in DOMAIN tests[a[1]] /\ tests[a[1]][a[2]] = row}) = 1
<1> DEFINE A == {a \in (1 .. count) \X (1 .. n) : a[2] \in DOMAIN tests[a[1]] /\ tests[a[1]][a[2]] = row}
<1>1. /\ n \in Nat /\ len \in Nat /\ count \in Nat /\ Cuts(len, count, cut)
      /\ at \in [1 .. n -> 1 .. len]
      /\ \A k \in 1 .. count : Enumerates(Part(n, cut, at, k), tests[k])
  BY DEF HoldParts
<1>2. /\ \A p \in 1 .. len : \E k \in 1 .. count : Within(cut, k, p)
      /\ \A p \in Int, j, k \in 1 .. count : Within(cut, j, p) /\ Within(cut, k, p) => j = k
  BY <1>1, CutsPartition
<1>3. PICK k \in 1 .. count : Within(cut, k, at[row])
  BY <1>1, <1>2
<1>4. /\ Len(tests[k]) \in Nat /\ tests[k] \in [1 .. Len(tests[k]) -> Part(n, cut, at, k)] /\ Distinct(tests[k])
      /\ \A x \in Part(n, cut, at, k) : \E i \in 1 .. Len(tests[k]) : tests[k][i] = x
  BY <1>1 DEF Enumerates
<1>5. PICK i \in 1 .. Len(tests[k]) : tests[k][i] = row
  BY <1>3, <1>4 DEF Part
<1>6. Len(tests[k]) <= n
  <2>1. IsFiniteSet(1 .. n) /\ Cardinality(1 .. n) = n
    BY <1>1, FS_Interval
  <2>2. Cardinality(ToSet(tests[k])) = Len(tests[k])
    BY <1>4, DistinctLength
  <2>3. ToSet(tests[k]) \in SUBSET (1 .. n)
    BY <1>4 DEF ToSet, Part
  <2>4. Cardinality(ToSet(tests[k])) <= Cardinality(1 .. n)
    BY <2>1, <2>3, FS_Subset
  <2> QED  BY <2>1, <2>2, <2>4
<1>7. i \in 1 .. n
  BY <1>1, <1>4, <1>6
<1>8. <<k, i>> \in A
  BY <1>4, <1>5, <1>7
<1>9. ASSUME NEW j \in 1 .. count, NEW h \in 1 .. n, h \in DOMAIN tests[j], tests[j][h] = row
      PROVE  j = k /\ h = i
  <2>1. tests[j] \in [1 .. Len(tests[j]) -> Part(n, cut, at, j)]
    BY <1>1 DEF Enumerates
  <2>2. row \in Part(n, cut, at, j)
    BY <1>9, <2>1
  <2>3. at[row] \in Int /\ Within(cut, j, at[row])
    BY <1>1, <2>2 DEF Part
  <2>4. j = k
    BY <1>2, <1>3, <2>3
  <2>5. h \in DOMAIN tests[k] /\ i \in DOMAIN tests[k] /\ tests[k][h] = tests[k][i]
    BY <1>4, <1>5, <1>9, <2>4
  <2> QED  BY <1>4, <2>4, <2>5 DEF Distinct
<1>10. ASSUME NEW a \in A PROVE a = <<k, i>>
  <2>1. a[1] \in 1 .. count /\ a[2] \in 1 .. n /\ a = <<a[1], a[2]>>
    OBVIOUS
  <2>2. a[2] \in DOMAIN tests[a[1]] /\ tests[a[1]][a[2]] = row
    OBVIOUS
  <2> QED  BY <1>9, <2>1, <2>2
<1>11. A = {<<k, i>>}
  <2> HIDE DEF A
  <2> QED  BY <1>8, <1>10
<1> QED  BY <1>11, FS_Singleton

(* The place of every member in a permutation.                             *)
PlacedAt(n, order, at) ==
  /\ order \in [1 .. n -> 1 .. n] /\ at \in [1 .. n -> 1 .. n]
  /\ \A p \in 1 .. n : at[order[p]] = p
  /\ \A r \in 1 .. n : order[at[r]] = r

(* Every permutation has its places.                                       *)
LEMMA PlacesExist ==
  ASSUME NEW n \in Nat, NEW order \in Bijection(1 .. n, 1 .. n)
  PROVE  \E at : PlacedAt(n, order, at)
<1> DEFINE at == [r \in 1 .. n |-> CHOOSE p \in 1 .. n : order[p] = r]
<1>1. /\ order \in [1 .. n -> 1 .. n]
      /\ \A p, q \in 1 .. n : order[p] = order[q] => p = q
      /\ \A r \in 1 .. n : \E p \in 1 .. n : order[p] = r
  BY DEF Bijection, Injection, Surjection, IsInjective
<1>2. ASSUME NEW r \in 1 .. n PROVE at[r] \in 1 .. n /\ order[at[r]] = r
  BY <1>1
<1>3. at \in [1 .. n -> 1 .. n]
  <2>1. \A r \in 1 .. n : (CHOOSE p \in 1 .. n : order[p] = r) \in 1 .. n
    BY <1>1
  <2> QED  BY <2>1
<1> HIDE DEF at
<1>4. \A p \in 1 .. n : at[order[p]] = p
  BY <1>1, <1>2, <1>3
<1> QED  BY <1>1, <1>2, <1>3, <1>4 DEF PlacedAt

(* The members of two sequences, one after the other.                      *)
LEMMA JoinedMembers ==
  ASSUME NEW T, NEW s \in Seq(T), NEW t \in Seq(T)
  PROVE  ToSet(s \o t) = ToSet(s) \union ToSet(t)
<1> DEFINE u == s \o t
<1>1. /\ Len(s) \in Nat /\ DOMAIN s = 1 .. Len(s) /\ Len(t) \in Nat /\ DOMAIN t = 1 .. Len(t)
      /\ DOMAIN u = 1 .. Len(s) + Len(t)
      /\ \A i \in 1 .. Len(s) + Len(t) : u[i] = IF i <= Len(s) THEN s[i] ELSE t[i - Len(s)]
  OBVIOUS
<1> HIDE DEF u
<1>2. ASSUME NEW i \in 1 .. Len(s) + Len(t) PROVE u[i] \in ToSet(s) \union ToSet(t)
  <2>1. CASE i <= Len(s)
    <3>1. i \in 1 .. Len(s) /\ u[i] = s[i]
      BY <1>1, <2>1
    <3> QED  BY <1>1, <3>1 DEF ToSet
  <2>2. CASE ~ (i <= Len(s))
    <3>1. i - Len(s) \in 1 .. Len(t) /\ u[i] = t[i - Len(s)]
      BY <1>1, <2>2
    <3> QED  BY <1>1, <3>1 DEF ToSet
  <2> QED  BY <2>1, <2>2
<1>3. ASSUME NEW i \in 1 .. Len(s) PROVE s[i] \in ToSet(u)
  <2>1. i \in 1 .. Len(s) + Len(t) /\ u[i] = s[i]
    BY <1>1
  <2> QED  BY <1>1, <2>1 DEF ToSet
<1>4. ASSUME NEW i \in 1 .. Len(t) PROVE t[i] \in ToSet(u)
  <2>1. /\ Len(s) + i \in 1 .. Len(s) + Len(t) /\ ~ (Len(s) + i <= Len(s))
        /\ (Len(s) + i) - Len(s) = i
    BY <1>1
  <2>2. u[Len(s) + i] = t[i]
    BY <1>1, <2>1
  <2> QED  BY <1>1, <2>1, <2>2 DEF ToSet
<1>5. ToSet(u) \subseteq ToSet(s) \union ToSet(t)
  BY <1>1, <1>2 DEF ToSet
<1>6. ToSet(s) \subseteq ToSet(u) /\ ToSet(t) \subseteq ToSet(u)
  BY <1>1, <1>3, <1>4 DEF ToSet
<1> QED  BY <1>5, <1>6 DEF u

(* A block of a permutation and the rest of it.                            *)
Placed(n, at, a, b) == {r \in 1 .. n : a < at[r] /\ at[r] <= b}
BlockAndRest(n, order, at, a, b) ==
  /\ Enumerates(Placed(n, at, a, b), SubSeq(order, a + 1, b))
  /\ Len(SubSeq(order, a + 1, b)) = b - a
  /\ ToSet(SubSeq(order, 1, a) \o SubSeq(order, b + 1, Len(order))) =
       (1 .. n) \ ToSet(SubSeq(order, a + 1, b))

(* The block lists the rows placed in it, the rest the others.             *)
LEMMA BlockOfOrder ==
  ASSUME NEW n \in Nat, NEW order, NEW at, PlacedAt(n, order, at),
         NEW a \in 0 .. n, NEW b \in 0 .. n, a <= b
  PROVE  BlockAndRest(n, order, at, a, b)
<1> DEFINE S == {r \in 1 .. n : a < at[r] /\ at[r] <= b}
           mid == SubSeq(order, a + 1, b)
           low == SubSeq(order, 1, a)
           high == SubSeq(order, b + 1, Len(order))
<1>1. /\ order \in [1 .. n -> 1 .. n] /\ at \in [1 .. n -> 1 .. n]
      /\ \A p \in 1 .. n : at[order[p]] = p
      /\ \A r \in 1 .. n : order[at[r]] = r
  BY DEF PlacedAt
<1>2. order \in Seq(1 .. n) /\ Len(order) = n
  BY <1>1
<1>3. /\ mid \in Seq(1 .. n) /\ Len(mid) = b - a
      /\ \A i \in 1 .. b - a : mid[i] = order[a + i]
  <2>1. a + 1 \in 1 .. n + 1 /\ b <= Len(order) /\ b - (a + 1) + 1 = b - a
    BY <1>2
  <2>2. mid \in Seq(1 .. n)
    BY <1>2, <2>1
  <2>3. Len(mid) = b - a
    BY <1>2, <2>1
  <2>4. ASSUME NEW i \in 1 .. b - a PROVE mid[i] = order[a + i]
    <3>1. (a + 1) + i - 1 = a + i
      OBVIOUS
    <3> QED  BY <1>2, <2>1, <3>1
  <2> QED  BY <2>2, <2>3, <2>4
<1>4. /\ low \in Seq(1 .. n) /\ Len(low) = a
      /\ \A i \in 1 .. a : low[i] = order[i]
  BY <1>2
<1>5. /\ high \in Seq(1 .. n) /\ Len(high) = n - b
      /\ \A i \in 1 .. n - b : high[i] = order[b + i]
  BY <1>2
<1> HIDE DEF mid, low, high
<1>6. ASSUME NEW i \in 1 .. b - a PROVE a + i \in 1 .. n /\ mid[i] \in S /\ at[mid[i]] = a + i
  <2>1. a + i \in 1 .. n /\ a < a + i /\ a + i <= b
    OBVIOUS
  <2>2. mid[i] = order[a + i] /\ at[order[a + i]] = a + i /\ order[a + i] \in 1 .. n
    BY <1>1, <1>3, <2>1
  <2> QED  BY <2>1, <2>2
<1>7. ASSUME NEW r \in S PROVE \E i \in 1 .. b - a : mid[i] = r
  <2>1. r \in 1 .. n /\ at[r] \in 1 .. n /\ a < at[r] /\ at[r] <= b
    BY <1>1
  <2>2. at[r] - a \in 1 .. b - a /\ a + (at[r] - a) = at[r]
    BY <2>1
  <2>3. mid[at[r] - a] = order[at[r]]
    BY <1>3, <2>2
  <2>4. order[at[r]] = r
    BY <1>1, <2>1
  <2> QED  BY <2>2, <2>3, <2>4
<1>8. ASSUME NEW i \in 1 .. b - a, NEW j \in 1 .. b - a, mid[i] = mid[j] PROVE i = j
  BY <1>6, <1>8
<1>9. DOMAIN mid = 1 .. b - a /\ b - a \in Nat
  BY <1>3
<1>10. Enumerates(S, mid)
  <2> HIDE DEF S
  <2>1. mid = [i \in 1 .. b - a |-> mid[i]]
    BY <1>3
  <2>2. mid \in [1 .. b - a -> S]
    BY <1>6, <2>1
  <2> QED  BY <1>3, <1>7, <1>8, <1>9, <2>2 DEF Enumerates, Distinct
<1>11. ToSet(mid) = S
  <2>1. ToSet(mid) \subseteq S
    BY <1>6, <1>9 DEF ToSet
  <2>2. S \subseteq ToSet(mid)
    <3> HIDE DEF S
    <3> QED  BY <1>7, <1>9 DEF ToSet
  <2> QED  BY <2>1, <2>2
<1>12. ToSet(low \o high) = ToSet(low) \union ToSet(high)
  BY <1>4, <1>5, JoinedMembers
<1>13. ToSet(low) \union ToSet(high) = (1 .. n) \ S
  <2>1. DOMAIN low = 1 .. a /\ DOMAIN high = 1 .. n - b
    BY <1>4, <1>5
  <2>2. ASSUME NEW i \in 1 .. a PROVE low[i] \in (1 .. n) \ S
    <3>1. i \in 1 .. n
      OBVIOUS
    <3>2. at[order[i]] = i /\ order[i] \in 1 .. n
      BY <1>1, <3>1
    <3> QED  BY <1>4, <3>2
  <2>3. ASSUME NEW i \in 1 .. n - b PROVE high[i] \in (1 .. n) \ S
    <3>1. b + i \in 1 .. n
      OBVIOUS
    <3>2. at[order[b + i]] = b + i /\ order[b + i] \in 1 .. n
      BY <1>1, <3>1
    <3> QED  BY <1>5, <3>2
  <2>4. ASSUME NEW r \in (1 .. n) \ S PROVE r \in ToSet(low) \union ToSet(high)
    <3>1. at[r] \in 1 .. n /\ order[at[r]] = r
      BY <1>1
    <3>2. CASE at[r] <= a
      <4>1. at[r] \in 1 .. a /\ low[at[r]] = r
        BY <1>4, <3>1, <3>2
      <4> QED  BY <2>1, <4>1 DEF ToSet
    <3>3. CASE b < at[r]
      <4>1. at[r] - b \in 1 .. n - b /\ b + (at[r] - b) = at[r]
        BY <3>1, <3>3
      <4>2. high[at[r] - b] = r
        BY <1>5, <3>1, <4>1
      <4> QED  BY <2>1, <4>1, <4>2 DEF ToSet
    <3> QED  BY <3>1, <3>2, <3>3
  <2>5. ToSet(low) \subseteq (1 .. n) \ S /\ ToSet(high) \subseteq (1 .. n) \ S
    <3> HIDE DEF S
    <3> QED  BY <2>1, <2>2, <2>3 DEF ToSet
  <2> HIDE DEF S
  <2> QED  BY <2>4, <2>5
<1> QED  BY <1>3, <1>10, <1>11, <1>12, <1>13 DEF mid, low, high, BlockAndRest, Placed

(* The place of every row's group in the order of the groups.              *)
GroupPlaces(n, count, ids, order, at) ==
  /\ at \in [1 .. n -> 1 .. count]
  /\ \A p \in 1 .. count : Span(ids, order[p]) = {r \in 1 .. n : at[r] = p}
  /\ \A r, s \in 1 .. n : ids[r] = ids[s] <=> at[r] = at[s]
  /\ \A p \in 1 .. count : \E r \in 1 .. n : at[r] = p

(* Contiguous groups, in any order, have their places.                     *)
LEMMA GroupPlacesExist ==
  ASSUME NEW n \in Nat \ {0}, NEW ids \in [1 .. n -> Nat], Contiguous(ids),
         NEW count, count = Len(RunStarts(ids)),
         NEW order \in Bijection(1 .. count, 1 .. count)
  PROVE  \E at : GroupPlaces(n, count, ids, order, at)
<1> DEFINE starts == RunStarts(ids)
<1>1. count \in Nat \ {0} /\ starts \in [1 .. count -> 1 .. n]
  BY SpansCut
<1>2. PICK cut : /\ Cuts(n, count, cut)
                 /\ \A g \in 1 .. count :
                      /\ Span(ids, g) = cut[g] + 1 .. cut[g + 1]
                      /\ \A r \in Span(ids, g) : ids[r] = ids[starts[g]]
  <2>1. \E cut : /\ Cuts(n, Len(RunStarts(ids)), cut)
                 /\ \A g \in 1 .. Len(RunStarts(ids)) :
                      /\ Span(ids, g) = cut[g] + 1 .. cut[g + 1]
                      /\ \A r \in Span(ids, g) : ids[r] = ids[RunStarts(ids)[g]]
    BY SpansCut
  <2> QED  BY <2>1
<1>3. \A g, h \in 1 .. count : ids[starts[g]] = ids[starts[h]] => g = h
  BY <1>1 DEF Contiguous
<1> HIDE DEF starts
<1>4. PICK place : PlacedAt(count, order, place)
  BY <1>1, PlacesExist
<1>5. /\ \A p \in 1 .. n : \E k \in 1 .. count : Within(cut, k, p)
      /\ \A p \in Int, j, k \in 1 .. count : Within(cut, j, p) /\ Within(cut, k, p) => j = k
  BY <1>1, <1>2, CutsPartition
<1>6. /\ order \in [1 .. count -> 1 .. count] /\ place \in [1 .. count -> 1 .. count]
      /\ \A p \in 1 .. count : place[order[p]] = p
      /\ \A g \in 1 .. count : order[place[g]] = g
  BY <1>4 DEF PlacedAt
<1>7. \A k \in 1 .. count + 1 : cut[k] \in Int
  BY <1>2 DEF Cuts
<1>8. ASSUME NEW g \in 1 .. count PROVE cut[g] \in 0 .. n /\ cut[g + 1] \in 0 .. n /\ cut[g] < cut[g + 1]
  <2>1. /\ \A j, k \in 1 .. count + 1 : j < k => cut[j] < cut[k]
        /\ cut[1] = 0 /\ cut[count + 1] = n
    BY <1>1, <1>2, CutsPartition DEF Cuts
  <2>2. /\ g \in 1 .. count + 1 /\ g + 1 \in 1 .. count + 1 /\ 1 \in 1 .. count + 1 /\ count + 1 \in 1 .. count + 1
        /\ (g = 1 \/ 1 < g) /\ (g + 1 = count + 1 \/ g + 1 < count + 1) /\ g < g + 1 /\ 1 < g + 1 /\ g < count + 1
    BY <1>1
  <2>3. cut[1] <= cut[g] /\ cut[g] < cut[g + 1] /\ cut[g + 1] <= cut[count + 1]
    <3>1. cut[g] \in Int /\ cut[g + 1] \in Int
      BY <1>7, <2>2
    <3>2. (g = 1 \/ cut[1] < cut[g]) /\ cut[g] < cut[g + 1]
      BY <2>1, <2>2
    <3>3. g + 1 = count + 1 \/ cut[g + 1] < cut[count + 1]
      BY <2>1, <2>2
    <3> QED  BY <2>1, <3>1, <3>2, <3>3
  <2>4. cut[g] \in Int /\ cut[g + 1] \in Int /\ n \in Nat
    BY <1>7, <2>2
  <2> QED  BY <2>1, <2>3, <2>4
<1> DEFINE group == [r \in 1 .. n |-> CHOOSE g \in 1 .. count : Within(cut, g, r)]
           at == [r \in 1 .. n |-> place[group[r]]]
<1>9. group \in [1 .. n -> 1 .. count] /\ \A r \in 1 .. n : Within(cut, group[r], r)
  <2>1. \A r \in 1 .. n : /\ (CHOOSE g \in 1 .. count : Within(cut, g, r)) \in 1 .. count
                          /\ Within(cut, (CHOOSE g \in 1 .. count : Within(cut, g, r)), r)
    BY <1>5
  <2> QED  BY <2>1
<1> HIDE DEF group
<1>10. ASSUME NEW g \in 1 .. count, NEW r \in 1 .. n PROVE r \in Span(ids, g) <=> group[r] = g
  <2>1. r \in Span(ids, g) <=> Within(cut, g, r)
    <3>1. Span(ids, g) = cut[g] + 1 .. cut[g + 1]
      BY <1>2
    <3>2. cut[g] \in Int /\ cut[g + 1] \in Int
      BY <1>8
    <3> QED  BY <3>1, <3>2 DEF Within
  <2>2. group[r] \in 1 .. count /\ Within(cut, group[r], r)
    BY <1>9
  <2> QED  BY <1>5, <2>1, <2>2
<1>11. at \in [1 .. n -> 1 .. count] /\ \A r \in 1 .. n : order[at[r]] = group[r]
  BY <1>6, <1>9
<1>12. ASSUME NEW g \in 1 .. count
       PROVE  Span(ids, g) \in SUBSET (1 .. n) /\ cut[g] + 1 \in Span(ids, g)
  <2>1. Span(ids, g) = cut[g] + 1 .. cut[g + 1]
    BY <1>2
  <2>2. cut[g] \in 0 .. n /\ cut[g + 1] \in 0 .. n /\ cut[g] < cut[g + 1]
    BY <1>8
  <2> QED  BY <2>1, <2>2
<1>13. ASSUME NEW p \in 1 .. count PROVE Span(ids, order[p]) = {r \in 1 .. n : at[r] = p}
  <2>1. order[p] \in 1 .. count
    BY <1>6
  <2>2. Span(ids, order[p]) \in SUBSET (1 .. n)
    BY <1>12, <2>1
  <2>3. ASSUME NEW r \in 1 .. n PROVE at[r] = p <=> group[r] = order[p]
    BY <1>6, <1>9, <2>1
  <2> HIDE DEF at
  <2> QED  BY <1>10, <2>1, <2>2, <2>3
<1>14. ASSUME NEW r \in 1 .. n, NEW s \in 1 .. n PROVE ids[r] = ids[s] <=> at[r] = at[s]
  <2>1. group[r] \in 1 .. count /\ group[s] \in 1 .. count
    BY <1>9
  <2>2. ids[r] = ids[starts[group[r]]] /\ ids[s] = ids[starts[group[s]]]
    BY <1>2, <1>10, <2>1
  <2>3. ids[r] = ids[s] <=> group[r] = group[s]
    BY <1>3, <2>1, <2>2
  <2>4. at[r] = at[s] <=> group[r] = group[s]
    BY <1>6, <2>1
  <2> QED  BY <2>3, <2>4
<1>15. ASSUME NEW p \in 1 .. count PROVE \E r \in 1 .. n : at[r] = p
  <2>1. order[p] \in 1 .. count
    BY <1>6
  <2>2. cut[order[p]] + 1 \in Span(ids, order[p]) /\ cut[order[p]] + 1 \in 1 .. n
    BY <1>12, <2>1
  <2> HIDE DEF at
  <2> QED  BY <1>13, <2>2
<1> HIDE DEF at
<1> QED  BY <1>11, <1>13, <1>14, <1>15 DEF GroupPlaces

WholeGroups(n, ids, order, at, a, b) ==
  LET test == Placed(n, at, a, b)
  IN /\ UNION {Span(ids, order[p]) : p \in a + 1 .. b} = test
     /\ Cardinality({ids[r] : r \in test}) = b - a
     /\ {ids[r] : r \in test} \intersect {ids[r] : r \in (1 .. n) \ test} = {}

(* Part k of the groups holds as many groups as part k of their order has  *)
(* places, and a group of that part is in no other.                        *)
LEMMA PartsKeepGroups ==
  ASSUME NEW n \in Nat, NEW count \in Nat, NEW ids, NEW order, NEW at,
         GroupPlaces(n, count, ids, order, at),
         NEW a \in 0 .. count, NEW b \in 0 .. count, a <= b
  PROVE  WholeGroups(n, ids, order, at, a, b)
<1> DEFINE test == {r \in 1 .. n : a < at[r] /\ at[r] <= b}
           names == {ids[r] : r \in test}
           name == [p \in a + 1 .. b |-> ids[CHOOSE r \in 1 .. n : at[r] = p]]
<1>1. /\ at \in [1 .. n -> 1 .. count]
      /\ \A p \in 1 .. count : Span(ids, order[p]) = {r \in 1 .. n : at[r] = p}
      /\ \A r, s \in 1 .. n : ids[r] = ids[s] <=> at[r] = at[s]
      /\ \A p \in 1 .. count : \E r \in 1 .. n : at[r] = p
  BY DEF GroupPlaces
<1>2. a + 1 .. b \in SUBSET (1 .. count)
  OBVIOUS
<1>3. \A r \in 1 .. n : r \in test <=> at[r] \in a + 1 .. b
  BY <1>1
<1>4. test \in SUBSET (1 .. n)
  OBVIOUS
<1> HIDE DEF test
<1>5. UNION {Span(ids, order[p]) : p \in a + 1 .. b} = test
  <2>1. ASSUME NEW p \in a + 1 .. b, NEW r \in Span(ids, order[p]) PROVE r \in test
    <3>1. r \in 1 .. n /\ at[r] = p
      BY <1>1, <1>2
    <3> QED  BY <1>3, <3>1
  <2>2. ASSUME NEW r \in test PROVE at[r] \in a + 1 .. b /\ r \in Span(ids, order[at[r]])
    <3>1. r \in 1 .. n /\ at[r] \in a + 1 .. b
      BY <1>3, <1>4
    <3>2. Span(ids, order[at[r]]) = {s \in 1 .. n : at[s] = at[r]}
      BY <1>1, <3>1
    <3> QED  BY <3>1, <3>2
  <2> QED  BY <2>1, <2>2
<1>6. ASSUME NEW p \in a + 1 .. b PROVE \E r \in test : at[r] = p /\ name[p] = ids[r]
  <2>1. (CHOOSE r \in 1 .. n : at[r] = p) \in 1 .. n /\ at[CHOOSE r \in 1 .. n : at[r] = p] = p
    BY <1>1, <1>2
  <2> QED  BY <1>3, <2>1
<1>7. ASSUME NEW r \in test PROVE at[r] \in a + 1 .. b /\ name[at[r]] = ids[r]
  <2>1. r \in 1 .. n /\ at[r] \in a + 1 .. b
    BY <1>3, <1>4
  <2>2. PICK s \in test : at[s] = at[r] /\ name[at[r]] = ids[s]
    BY <1>6, <2>1
  <2> QED  BY <1>1, <1>4, <2>1, <2>2
<1>8. DOMAIN name = a + 1 .. b /\ name = [p \in a + 1 .. b |-> name[p]]
  OBVIOUS
<1> HIDE DEF name
<1>9. name \in Bijection(a + 1 .. b, names)
  <2>1. name \in [a + 1 .. b -> names]
    BY <1>6, <1>8
  <2>2. ASSUME NEW p \in a + 1 .. b, NEW q \in a + 1 .. b, name[p] = name[q] PROVE p = q
    <3>1. PICK r \in test : at[r] = p /\ name[p] = ids[r]
      BY <1>6
    <3>2. PICK s \in test : at[s] = q /\ name[q] = ids[s]
      BY <1>6
    <3>3. r \in 1 .. n /\ s \in 1 .. n /\ ids[r] = ids[s]
      BY <1>4, <2>2, <3>1, <3>2
    <3>4. at[r] = at[s]
      BY <1>1, <3>3
    <3> QED  BY <3>1, <3>2, <3>4
  <2>3. \A x \in names : \E p \in a + 1 .. b : name[p] = x
    BY <1>7
  <2> QED  BY <2>1, <2>2, <2>3 DEF Bijection, Injection, Surjection, IsInjective
<1>10. Cardinality(names) = b - a
  <2>1. IsFiniteSet(a + 1 .. b) /\ Cardinality(a + 1 .. b) = b - a
    <3>1. a + 1 \in Int /\ b \in Int
      OBVIOUS
    <3>2. IsFiniteSet(a + 1 .. b) /\ Cardinality(a + 1 .. b) = (IF a + 1 > b THEN 0 ELSE b - (a + 1) + 1)
      BY <3>1, FS_Interval
    <3> QED  BY <3>2
  <2>2. ExistsBijection(a + 1 .. b, names)
    BY <1>9 DEF ExistsBijection
  <2> HIDE DEF names
  <2> QED  BY <2>1, <2>2, FS_Bijection
<1>11. names \intersect {ids[r] : r \in (1 .. n) \ test} = {}
  <2>1. ASSUME NEW r \in test, NEW s \in (1 .. n) \ test PROVE ids[r] # ids[s]
    BY <1>1, <1>3, <1>4
  <2> QED  BY <2>1
<1> QED  BY <1>5, <1>10, <1>11 DEF test, WholeGroups, Placed

(* What a fold holds out for its test, and what it keeps; inverted, the    *)
(* other way around.                                                       *)
Held(fold, inverted) == IF inverted THEN fold.train ELSE fold.test
Kept(fold, inverted) == IF inverted THEN fold.test ELSE fold.train
HeldGroups(ids, rows) == IF ids = <<>> THEN Len(rows) ELSE Cardinality(Groups(ids, rows))

(* An oriented fold holds its test rows and keeps its train rows.          *)
LEMMA OrientHolds ==
  ASSUME NEW others, NEW test, NEW inverted
  PROVE  /\ Held(orient(others, test, inverted), inverted) = test
         /\ Kept(orient(others, test, inverted), inverted) = others
BY DEF orient, Held, Kept

(* What FoldsPartitionThePool asks of the folds of a pool.                 *)
PartTheRows(n, ids, count, inverted, fs) ==
  /\ DOMAIN fs = 1 .. count
  /\ \A row \in 1 .. n :
       Cardinality({at \in (1 .. count) \X (1 .. n) :
                      /\ at[2] \in DOMAIN Held(fs[at[1]], inverted)
                      /\ Held(fs[at[1]], inverted)[at[2]] = row}) = 1
  /\ \A k \in 1 .. count :
       /\ ToSet(Kept(fs[k], inverted)) = (1 .. n) \ ToSet(Held(fs[k], inverted))
       /\ HeldGroups(ids, Held(fs[k], inverted)) > 0
       /\ ids # <<>> => Groups(ids, Held(fs[k], inverted)) \intersect Groups(ids, Kept(fs[k], inverted)) = {}
       /\ \A other \in 1 .. count :
            HeldGroups(ids, Held(fs[k], inverted)) <= HeldGroups(ids, Held(fs[other], inverted)) + 1

(* It follows from what every fold holds and keeps, part by part.          *)
Blockwise(n, ids, count, inverted, fs, len, cut, q, at) ==
  /\ DOMAIN fs = 1 .. count /\ q \in Nat \ {0}
  /\ HoldParts(n, len, count, cut, at, [k \in 1 .. count |-> Held(fs[k], inverted)])
  /\ \A k \in 1 .. count :
       /\ ToSet(Kept(fs[k], inverted)) = (1 .. n) \ ToSet(Held(fs[k], inverted))
       /\ HeldGroups(ids, Held(fs[k], inverted)) \in {q, q + 1}
       /\ ids # <<>> => Groups(ids, Held(fs[k], inverted)) \intersect Groups(ids, Kept(fs[k], inverted)) = {}

(* The rows are parted by what is so.                                      *)
LEMMA BlocksPartTheRows ==
  ASSUME NEW n, NEW ids, NEW count, NEW inverted, NEW fs, NEW len, NEW cut, NEW q, NEW at,
         Blockwise(n, ids, count, inverted, fs, len, cut, q, at)
  PROVE  PartTheRows(n, ids, count, inverted, fs)
<1> DEFINE tests == [k \in 1 .. count |-> Held(fs[k], inverted)]
<1>1. /\ DOMAIN fs = 1 .. count /\ q \in Nat \ {0}
      /\ HoldParts(n, len, count, cut, at, tests)
      /\ \A k \in 1 .. count :
           /\ ToSet(Kept(fs[k], inverted)) = (1 .. n) \ ToSet(Held(fs[k], inverted))
           /\ HeldGroups(ids, Held(fs[k], inverted)) \in {q, q + 1}
           /\ ids # <<>> => Groups(ids, Held(fs[k], inverted)) \intersect Groups(ids, Kept(fs[k], inverted)) = {}
  BY DEF Blockwise
<1>2. \A k \in 1 .. count : tests[k] = Held(fs[k], inverted)
  OBVIOUS
<1> HIDE DEF tests
<1>3. ASSUME NEW row \in 1 .. n
      PROVE  Cardinality({a \in (1 .. count) \X (1 .. n) :
                            /\ a[2] \in DOMAIN Held(fs[a[1]], inverted)
                            /\ Held(fs[a[1]], inverted)[a[2]] = row}) = 1
  <2>1. Cardinality({a \in (1 .. count) \X (1 .. n) :
                       a[2] \in DOMAIN tests[a[1]] /\ tests[a[1]][a[2]] = row}) = 1
    BY <1>1, RowsAreHeldOnce
  <2>2. \A a \in (1 .. count) \X (1 .. n) : tests[a[1]] = Held(fs[a[1]], inverted)
    BY <1>2
  <2>3. {a \in (1 .. count) \X (1 .. n) : a[2] \in DOMAIN tests[a[1]] /\ tests[a[1]][a[2]] = row}
        = {a \in (1 .. count) \X (1 .. n) : /\ a[2] \in DOMAIN Held(fs[a[1]], inverted)
                                            /\ Held(fs[a[1]], inverted)[a[2]] = row}
    BY <2>2
  <2> QED  BY <2>1, <2>3
<1>4. ASSUME NEW k \in 1 .. count, NEW other \in 1 .. count
      PROVE  /\ HeldGroups(ids, Held(fs[k], inverted)) > 0
             /\ HeldGroups(ids, Held(fs[k], inverted)) <= HeldGroups(ids, Held(fs[other], inverted)) + 1
  BY <1>1
<1>5. \A k \in 1 .. count :
        /\ ToSet(Kept(fs[k], inverted)) = (1 .. n) \ ToSet(Held(fs[k], inverted))
        /\ HeldGroups(ids, Held(fs[k], inverted)) > 0
        /\ ids # <<>> => Groups(ids, Held(fs[k], inverted)) \intersect Groups(ids, Kept(fs[k], inverted)) = {}
        /\ \A other \in 1 .. count :
             HeldGroups(ids, Held(fs[k], inverted)) <= HeldGroups(ids, Held(fs[other], inverted)) + 1
  BY <1>1, <1>4
<1> QED  BY <1>1, <1>3, <1>5 DEF PartTheRows

(* The folds of rows part them.                                            *)
LEMMA PlainFoldsPart ==
  ASSUME NEW n \in Nat, NEW count \in Nat \ {0}, count <= n,
         NEW order \in Bijection(1 .. n, 1 .. n), NEW inverted,
         NEW fs, fs = [k \in 1 .. count |-> plain_fold(order, Block(n, count, k), inverted)]
  PROVE  PartTheRows(n, <<>>, count, inverted, fs)
<1>1. PICK cut, q : /\ Cuts(n, count, cut)
                    /\ q \in Nat \ {0} /\ Even(count, cut, q)
                    /\ \A k \in 1 .. count : Block(n, count, k) = [from |-> cut[k] + 1, upto |-> cut[k + 1]]
  BY BlocksCut
<1>2. PICK at : PlacedAt(n, order, at)
  BY PlacesExist
<1>3. ASSUME NEW k \in 1 .. count
      PROVE  /\ cut[k] \in 0 .. n /\ cut[k + 1] \in 0 .. n /\ cut[k] <= cut[k + 1]
             /\ cut[k + 1] - cut[k] \in {q, q + 1}
  <2>1. /\ \A i, j \in 1 .. count + 1 : i < j => cut[i] < cut[j]
        /\ cut[1] = 0 /\ cut[count + 1] = n /\ \A i \in 1 .. count + 1 : cut[i] \in Int
    BY <1>1, CutsPartition DEF Cuts
  <2>2. /\ k \in 1 .. count + 1 /\ k + 1 \in 1 .. count + 1 /\ 1 \in 1 .. count + 1 /\ count + 1 \in 1 .. count + 1
        /\ (k = 1 \/ 1 < k) /\ (k + 1 = count + 1 \/ k + 1 < count + 1) /\ k < k + 1 /\ 1 < k + 1 /\ k < count + 1
    OBVIOUS
  <2>3. cut[k + 1] - cut[k] \in {q, q + 1}
    BY <1>1 DEF Even
  <2> QED  BY <2>1, <2>2, <2>3
<1>4. ASSUME NEW k \in 1 .. count
      PROVE  /\ Enumerates(Part(n, cut, at, k), Held(fs[k], inverted))
             /\ Len(Held(fs[k], inverted)) = cut[k + 1] - cut[k]
             /\ ToSet(Kept(fs[k], inverted)) = (1 .. n) \ ToSet(Held(fs[k], inverted))
  <2> DEFINE a == cut[k]
             b == cut[k + 1]
  <2>1. a \in 0 .. n /\ b \in 0 .. n /\ a <= b
    BY <1>3
  <2>2. Block(n, count, k) = [from |-> a + 1, upto |-> b]
    BY <1>1
  <2>3. Part(n, cut, at, k) = Placed(n, at, a, b)
    BY DEF Part, Within, Placed
  <2> HIDE DEF a, b
  <2> DEFINE rest == SubSeq(order, 1, a) \o SubSeq(order, b + 1, Len(order))
             test == SubSeq(order, a + 1, b)
  <2>4. (a + 1) - 1 = a
    BY <2>1
  <2>5. fs[k] = orient(rest, test, inverted)
    BY <2>2, <2>4 DEF plain_fold
  <2>6. BlockAndRest(n, order, at, a, b)
    BY <1>2, <2>1, BlockOfOrder
  <2>7. /\ Enumerates(Placed(n, at, a, b), test) /\ Len(test) = b - a
        /\ ToSet(rest) = (1 .. n) \ ToSet(test)
    BY <2>6 DEF BlockAndRest
  <2> HIDE DEF rest, test
  <2>8. Held(fs[k], inverted) = test /\ Kept(fs[k], inverted) = rest
    BY <2>5, OrientHolds
  <2> QED  BY <2>3, <2>7, <2>8 DEF a, b
<1>5. at \in [1 .. n -> 1 .. n]
  BY <1>2 DEF PlacedAt
<1>6. DOMAIN fs = 1 .. count
  OBVIOUS
<1>7. HoldParts(n, n, count, cut, at, [k \in 1 .. count |-> Held(fs[k], inverted)])
  BY <1>1, <1>4, <1>5 DEF HoldParts
<1>8. Blockwise(n, <<>>, count, inverted, fs, n, cut, q, at)
  BY <1>1, <1>3, <1>4, <1>6, <1>7 DEF Blockwise, HeldGroups
<1> QED  BY <1>8, BlocksPartTheRows

(* The folds of groups part the rows, and no group is in two of them.      *)
LEMMA GroupedFoldsPart ==
  ASSUME NEW n \in Nat \ {0}, NEW ids \in [1 .. n -> Nat], Contiguous(ids),
         NEW len, len = Len(RunStarts(ids)),
         NEW order \in Bijection(1 .. len, 1 .. len),
         NEW count \in Nat \ {0}, count <= len, NEW inverted,
         NEW fs, fs = [k \in 1 .. count |-> grouped_fold(ids, order, Block(len, count, k), inverted)]
  PROVE  PartTheRows(n, ids, count, inverted, fs)
<1>0. len \in Nat
  BY SpansCut
<1>1. PICK cut, q : /\ Cuts(len, count, cut)
                    /\ q \in Nat \ {0} /\ Even(count, cut, q)
                    /\ \A k \in 1 .. count : Block(len, count, k) = [from |-> cut[k] + 1, upto |-> cut[k + 1]]
  BY <1>0, BlocksCut
<1>2. PICK at : GroupPlaces(n, len, ids, order, at)
  BY GroupPlacesExist
<1>3. ASSUME NEW k \in 1 .. count
      PROVE  /\ cut[k] \in 0 .. len /\ cut[k + 1] \in 0 .. len /\ cut[k] <= cut[k + 1]
             /\ cut[k + 1] - cut[k] \in {q, q + 1}
  <2>1. /\ \A i, j \in 1 .. count + 1 : i < j => cut[i] < cut[j]
        /\ cut[1] = 0 /\ cut[count + 1] = len /\ \A i \in 1 .. count + 1 : cut[i] \in Int
    BY <1>0, <1>1, CutsPartition DEF Cuts
  <2>2. /\ k \in 1 .. count + 1 /\ k + 1 \in 1 .. count + 1 /\ 1 \in 1 .. count + 1 /\ count + 1 \in 1 .. count + 1
        /\ (k = 1 \/ 1 < k) /\ (k + 1 = count + 1 \/ k + 1 < count + 1) /\ k < k + 1 /\ 1 < k + 1 /\ k < count + 1
    OBVIOUS
  <2>3. cut[k + 1] - cut[k] \in {q, q + 1}
    BY <1>1 DEF Even
  <2>4. cut[k] \in Int /\ cut[k + 1] \in Int
    BY <2>1, <2>2
  <2>5. (k = 1 \/ cut[1] < cut[k]) /\ cut[k] < cut[k + 1]
    BY <2>1, <2>2
  <2>6. k + 1 = count + 1 \/ cut[k + 1] < cut[count + 1]
    BY <2>1, <2>2
  <2>7. cut[k] \in 0 .. len /\ cut[k + 1] \in 0 .. len /\ cut[k] <= cut[k + 1]
    <3>1. cut[1] = 0 /\ cut[count + 1] = len /\ len \in Int
      BY <1>0, <2>1
    <3>2. 0 <= cut[k]
      BY <2>4, <2>5, <3>1
    <3>3. cut[k + 1] <= len
      BY <2>4, <2>6, <3>1
    <3> QED  BY <2>4, <2>5, <3>2, <3>3, <3>1
  <2> QED  BY <2>3, <2>7
<1>4. DOMAIN ids = 1 .. n
  OBVIOUS
<1>5. ASSUME NEW k \in 1 .. count
      PROVE  /\ Enumerates(Part(n, cut, at, k), Held(fs[k], inverted))
             /\ Cardinality(Groups(ids, Held(fs[k], inverted))) = cut[k + 1] - cut[k]
             /\ ToSet(Kept(fs[k], inverted)) = (1 .. n) \ ToSet(Held(fs[k], inverted))
             /\ Groups(ids, Held(fs[k], inverted)) \intersect Groups(ids, Kept(fs[k], inverted)) = {}
  <2> DEFINE a == cut[k]
             b == cut[k + 1]
             test == Placed(n, at, a, b)
  <2>1. a \in 0 .. len /\ b \in 0 .. len /\ a <= b
    BY <1>3
  <2>2. Block(len, count, k) = [from |-> a + 1, upto |-> b]
    BY <1>1
  <2>3. Part(n, cut, at, k) = test
    BY DEF Part, Within, Placed
  <2> HIDE DEF a, b
  <2>4. /\ UNION {Span(ids, order[p]) : p \in a + 1 .. b} = test
        /\ Cardinality({ids[r] : r \in test}) = b - a
        /\ {ids[r] : r \in test} \intersect {ids[r] : r \in (1 .. n) \ test} = {}
    <3>1. WholeGroups(n, ids, order, at, a, b)
      BY <1>0, <1>2, <2>1, PartsKeepGroups
    <3> QED  BY <3>1 DEF WholeGroups
  <2>5. test \in SUBSET (1 .. n)
    BY DEF Placed
  <2> HIDE DEF test
  <2> DEFINE block == Block(len, count, k)
             rest == (1 .. n) \ test
             first == Ascending(rest)
             second == Ascending(test)
  <2>6. fs[k] = orient(first, second, inverted)
    <3>1. block.from = a + 1 /\ block.upto = b
      BY <2>2
    <3>2. fs[k] = grouped_fold(ids, order, block, inverted)
      OBVIOUS
    <3> HIDE DEF block
    <3>3. UNION {Span(ids, order[p]) : p \in block.from .. block.upto} = test
      BY <2>4, <3>1
    <3> QED  BY <1>4, <3>2, <3>3 DEF grouped_fold
  <2> HIDE DEF first, second
  <2>7. Held(fs[k], inverted) = second /\ Kept(fs[k], inverted) = first
    BY <2>6, OrientHolds
  <2>8. test \in SUBSET Int /\ IsFiniteSet(test) /\ rest \in SUBSET Int /\ IsFiniteSet(rest)
    <3>1. IsFiniteSet(1 .. n) /\ rest \in SUBSET (1 .. n)
      BY FS_Interval
    <3> HIDE DEF rest
    <3>2. IsFiniteSet(test) /\ IsFiniteSet(rest)
      BY <2>5, <3>1, FS_Subset
    <3> QED  BY <2>5, <3>1, <3>2
  <2>9. Enumerates(test, second) /\ Enumerates(rest, first)
    <3> HIDE DEF rest
    <3> QED  BY <2>8, AscendingLists DEF first, second
  <2>10. ToSet(second) = test /\ ToSet(first) = rest
    <3> HIDE DEF rest
    <3> QED  BY <2>9, ListsHoldAll
  <2>11. /\ Groups(ids, Held(fs[k], inverted)) = {ids[r] : r \in test}
         /\ Groups(ids, Kept(fs[k], inverted)) = {ids[r] : r \in rest}
    BY <2>7, <2>10 DEF Groups
  <2> QED  BY <2>3, <2>4, <2>7, <2>9, <2>10, <2>11 DEF a, b
<1>6. at \in [1 .. n -> 1 .. len]
  BY <1>2 DEF GroupPlaces
<1>7. DOMAIN fs = 1 .. count /\ ids # <<>>
  BY <1>4
<1>8. HoldParts(n, len, count, cut, at, [k \in 1 .. count |-> Held(fs[k], inverted)])
  BY <1>0, <1>1, <1>5, <1>6 DEF HoldParts
<1>9. Blockwise(n, ids, count, inverted, fs, len, cut, q, at)
  BY <1>1, <1>3, <1>5, <1>7, <1>8 DEF Blockwise, HeldGroups
<1> QED  BY <1>9, BlocksPartTheRows

-----------------------------------------------------------------------------
(* Scores. *)

(* A sum of integers.                                                      *)
LEMMA AddedIsInt ==
  ASSUME NEW n \in Nat, NEW values \in [1 .. n -> Int]
  PROVE  Added(values) \in Int
<1> DEFINE Rec(f) == f = [k \in 0 .. n |-> IF k = 0 THEN 0 ELSE f[k - 1] + values[k]]
           sum == CHOOSE f : Rec(f)
           X == Int
           F == [k \in 1 .. n |-> [x \in X |-> x + values[k]]]
<1>1. Added(values) = sum[n]
  <2>1. Len(values) = n
    OBVIOUS
  <2>2. \A f : (f = [k \in 0 .. Len(values) |-> IF k = 0 THEN 0 ELSE f[k - 1] + values[k]]) <=> Rec(f)
    BY <2>1
  <2>3. (CHOOSE f : f = [k \in 0 .. Len(values) |-> IF k = 0 THEN 0 ELSE f[k - 1] + values[k]]) = sum
    BY <2>2
  <2> QED  BY <2>1, <2>3 DEF Added
<1>2. F \in [1 .. n -> [X -> X]] /\ 0 \in X
  OBVIOUS
<1>3. PICK g : Stepwise(X, n, 0, F, g)
  <2> HIDE DEF X, F
  <2> QED  BY <1>2, StepsExist
<1>4. g \in [0 .. n -> Int] /\ g[0] = 0 /\ \A k \in 1 .. n : g[k] = F[k][g[k - 1]]
  BY <1>3 DEF Stepwise
<1>5. ASSUME NEW k \in 0 .. n PROVE g[k] = IF k = 0 THEN 0 ELSE g[k - 1] + values[k]
  <2>1. CASE k = 0
    BY <1>4, <2>1
  <2>2. CASE k # 0
    <3>1. k \in 1 .. n /\ k - 1 \in 0 .. n
      BY <2>2
    <3>2. g[k - 1] \in Int
      BY <1>4, <3>1
    <3>3. F[k][g[k - 1]] = g[k - 1] + values[k]
      BY <3>1, <3>2
    <3> QED  BY <1>4, <2>2, <3>1, <3>3
  <2> QED  BY <2>1, <2>2
<1>6. Rec(g)
  BY <1>4, <1>5
<1>7. Rec(sum)
  <2> HIDE DEF Rec
  <2> QED  BY <1>6
<1> HIDE DEF sum
<1> DEFINE In == {k \in 0 .. n : sum[k] \in Int}
<1>8. 0 \in In
  BY <1>7
<1>9. ASSUME NEW k \in 0 .. n - 1, k \in In PROVE k + 1 \in In
  <2>1. k + 1 \in 0 .. n /\ k + 1 # 0 /\ (k + 1) - 1 = k /\ k + 1 \in 1 .. n
    OBVIOUS
  <2>2. sum[k + 1] = sum[k] + values[k + 1]
    BY <1>7, <2>1
  <2> QED  BY <1>9, <2>1, <2>2
<1>10. 0 .. n \subseteq In
  <2> HIDE DEF In
  <2> QED  BY <1>8, <1>9, BoundedInduction
<1> QED  BY <1>1, <1>10

(* The number of points of a grid.                                         *)
LEMMA CombinationsAreNat ==
  ASSUME NEW grid, Len(grid) \in Nat, \A d \in 1 .. Len(grid) : Len(grid[d]) \in Nat
  PROVE  CombinationsAfter(grid, 0) \in Nat
<1> DEFINE n == Len(grid)
           Rec(f) == f = [k \in 0 .. n |-> IF k = 0 THEN 1 ELSE f[k - 1] * Len(grid[k])]
           product == CHOOSE f : Rec(f)
           X == Nat
           F == [k \in 1 .. n |-> [x \in X |-> x * Len(grid[k])]]
<1>1. CombinationsAfter(grid, 0) = product[n]
  <2>1. n - 0 = n /\ \A k \in 0 .. n : 0 + k = k
    OBVIOUS
  <2>2. \A f : (f = [k \in 0 .. n - 0 |-> IF k = 0 THEN 1 ELSE f[k - 1] * Len(grid[0 + k])]) <=> Rec(f)
    BY <2>1
  <2>3. (CHOOSE f : f = [k \in 0 .. n - 0 |-> IF k = 0 THEN 1 ELSE f[k - 1] * Len(grid[0 + k])]) = product
    BY <2>2
  <2> QED  BY <2>1, <2>3 DEF CombinationsAfter
<1>2. n \in Nat /\ \A k \in 1 .. n : Len(grid[k]) \in Nat
  OBVIOUS
<1> HIDE DEF n
<1>3. F \in [1 .. n -> [X -> X]] /\ 1 \in X
  <2>1. \A k \in 1 .. n : \A x \in Nat : x * Len(grid[k]) \in Nat
    BY <1>2, ProductsRise
  <2> QED  BY <2>1
<1>4. PICK g : Stepwise(X, n, 1, F, g)
  <2> HIDE DEF X, F
  <2> QED  BY <1>2, <1>3, StepsExist
<1>5. g \in [0 .. n -> Nat] /\ g[0] = 1 /\ \A k \in 1 .. n : g[k] = F[k][g[k - 1]]
  BY <1>4 DEF Stepwise
<1>6. ASSUME NEW k \in 0 .. n PROVE g[k] = IF k = 0 THEN 1 ELSE g[k - 1] * Len(grid[k])
  <2>1. CASE k = 0
    BY <1>5, <2>1
  <2>2. CASE k # 0
    <3>1. k \in 1 .. n /\ k - 1 \in 0 .. n
      BY <1>2, <2>2
    <3>2. g[k - 1] \in Nat
      BY <1>5, <3>1
    <3>3. F[k][g[k - 1]] = g[k - 1] * Len(grid[k])
      BY <3>1, <3>2
    <3> QED  BY <1>5, <2>2, <3>1, <3>3
  <2> QED  BY <2>1, <2>2
<1>7. Rec(g)
  BY <1>5, <1>6
<1>8. Rec(product)
  <2> HIDE DEF Rec
  <2> QED  BY <1>7
<1> HIDE DEF product
<1> DEFINE In == {k \in 0 .. n : product[k] \in Nat}
<1>9. 0 \in In
  BY <1>2, <1>8
<1>10. ASSUME NEW k \in 0 .. n - 1, k \in In PROVE k + 1 \in In
  <2>1. k + 1 \in 0 .. n /\ k + 1 # 0 /\ (k + 1) - 1 = k /\ k + 1 \in 1 .. n
    BY <1>2
  <2>2. product[k + 1] = product[k] * Len(grid[k + 1])
    BY <1>8, <2>1
  <2> QED  BY <1>2, <1>10, <2>1, <2>2, ProductsRise
<1>11. 0 .. n \subseteq In
  <2> HIDE DEF In
  <2> QED  BY <1>2, <1>9, <1>10, BoundedInduction
<1> QED  BY <1>1, <1>2, <1>11

(* The first of the best of n scores, 0 when none is finite.               *)
FirstBest(n, scores, max, best) ==
  /\ best \in 0 .. n
  /\ best = 0 => \A c \in 1 .. n : scores[c] = NotFinite
  /\ best # 0 =>
       /\ scores[best] # NotFinite
       /\ \A c \in 1 .. n : scores[c] # NotFinite =>
            /\ IF max THEN scores[c] <= scores[best] ELSE scores[best] <= scores[c]
            /\ c < best => scores[c] # scores[best]

(* One score more.                                                         *)
Improves(s, t, max) == IF max THEN s > t ELSE s < t
LEMMA FirstBestGoesOn ==
  ASSUME NEW n \in Nat, NEW scores \in [1 .. n -> Int \union {NotFinite}], NEW max,
         NEW k \in 1 .. n, NEW b, FirstBest(k - 1, scores, max, b)
  PROVE  FirstBest(k, scores, max,
           IF scores[k] # NotFinite /\ (b = 0 \/ Improves(scores[k], scores[b], max)) THEN k ELSE b)
<1>1. /\ b \in 0 .. k - 1
      /\ b = 0 => \A c \in 1 .. k - 1 : scores[c] = NotFinite
      /\ b # 0 =>
           /\ scores[b] # NotFinite
           /\ \A c \in 1 .. k - 1 : scores[c] # NotFinite =>
                /\ IF max THEN scores[c] <= scores[b] ELSE scores[b] <= scores[c]
                /\ c < b => scores[c] # scores[b]
  BY DEF FirstBest
<1>2. \A c \in 1 .. k : c \in 1 .. n /\ scores[c] \in Int \union {NotFinite} /\ (c = k \/ c \in 1 .. k - 1)
  OBVIOUS
<1>3. CASE scores[k] # NotFinite /\ b = 0
  <2>1. FirstBest(k, scores, max, k)
    BY <1>1, <1>2, <1>3 DEF FirstBest
  <2> QED  BY <1>3, <2>1
<1>4. CASE scores[k] # NotFinite /\ b # 0 /\ Improves(scores[k], scores[b], max)
  <2>1. scores[k] \in Int /\ scores[b] \in Int /\ b \in 1 .. k - 1
    BY <1>1, <1>2, <1>4
  <2>2. ASSUME NEW c \in 1 .. k, scores[c] # NotFinite
        PROVE  /\ IF max THEN scores[c] <= scores[k] ELSE scores[k] <= scores[c]
               /\ c < k => scores[c] # scores[k]
    <3>1. scores[c] \in Int
      BY <1>2, <2>2
    <3>2. CASE c = k
      BY <2>1, <3>2
    <3>3. CASE c \in 1 .. k - 1
      <4>1. IF max THEN scores[c] <= scores[b] ELSE scores[b] <= scores[c]
        BY <1>1, <2>1, <2>2, <3>3
      <4>2. IF max THEN scores[k] > scores[b] ELSE scores[k] < scores[b]
        BY <1>4 DEF Improves
      <4> QED  BY <2>1, <3>1, <4>1, <4>2
    <3> QED  BY <1>2, <3>2, <3>3
  <2>3. FirstBest(k, scores, max, k)
    BY <1>4, <2>2 DEF FirstBest
  <2> QED  BY <1>4, <2>3
<1>5. CASE scores[k] = NotFinite
  <2>1. FirstBest(k, scores, max, b)
    BY <1>1, <1>2, <1>5 DEF FirstBest
  <2> QED  BY <1>5, <2>1
<1>6. CASE scores[k] # NotFinite /\ b # 0 /\ ~ Improves(scores[k], scores[b], max)
  <2>1. scores[k] \in Int /\ scores[b] \in Int /\ b \in 1 .. k - 1
    BY <1>1, <1>2, <1>6
  <2>2. IF max THEN scores[k] <= scores[b] ELSE scores[b] <= scores[k]
    BY <1>6, <2>1 DEF Improves
  <2>3. FirstBest(k, scores, max, b)
    BY <1>1, <1>2, <1>6, <2>1, <2>2 DEF FirstBest
  <2> QED  BY <1>6, <2>3
<1> QED  BY <1>3, <1>4, <1>5, <1>6

(* What select_index selects.                                              *)
LEMMA SelectedIsFirstBest ==
  ASSUME NEW n \in Nat, NEW scores \in [1 .. n -> Int \union {NotFinite}], NEW max
  PROVE  FirstBest(n, scores, max, select_index(scores, max))
<1> DEFINE Next1(k, b) == IF scores[k] # NotFinite /\ (b = 0 \/ Improves(scores[k], scores[b], max)) THEN k ELSE b
           Rec(f) == f = [k \in 0 .. n |-> IF k = 0 THEN 0 ELSE Next1(k, f[k - 1])]
           best == CHOOSE f : Rec(f)
           X == 0 .. n
           F == [k \in 1 .. n |-> [b \in X |-> Next1(k, b)]]
<1>1. select_index(scores, max) = best[n]
  <2>1. Len(scores) = n
    OBVIOUS
  <2> QED  BY <2>1 DEF select_index, Improves
<1>2. F \in [1 .. n -> [X -> X]] /\ 0 \in X
  OBVIOUS
<1> HIDE DEF Next1
<1>3. PICK g : Stepwise(X, n, 0, F, g)
  <2> HIDE DEF X, F
  <2> QED  BY <1>2, StepsExist
<1>4. g \in [0 .. n -> X] /\ g[0] = 0 /\ \A k \in 1 .. n : g[k] = F[k][g[k - 1]]
  BY <1>3 DEF Stepwise
<1>5. ASSUME NEW k \in 0 .. n PROVE g[k] = IF k = 0 THEN 0 ELSE Next1(k, g[k - 1])
  <2>1. CASE k = 0
    BY <1>4, <2>1
  <2>2. CASE k # 0
    <3>1. k \in 1 .. n /\ k - 1 \in 0 .. n
      BY <2>2
    <3>2. g[k - 1] \in X
      BY <1>4, <3>1
    <3>3. F[k][g[k - 1]] = Next1(k, g[k - 1])
      BY <3>1, <3>2
    <3> QED  BY <1>4, <2>2, <3>1, <3>3
  <2> QED  BY <2>1, <2>2
<1>6. Rec(g)
  BY <1>4, <1>5
<1>7. Rec(best)
  <2> HIDE DEF Rec
  <2> QED  BY <1>6
<1> HIDE DEF best
<1> DEFINE T == {k \in 0 .. n : FirstBest(k, scores, max, best[k])}
<1>8. 0 \in T
  <2>1. best[0] = 0
    BY <1>7
  <2> QED  BY <2>1 DEF FirstBest
<1>9. ASSUME NEW k \in 0 .. n - 1, k \in T PROVE k + 1 \in T
  <2>1. k + 1 \in 0 .. n /\ k + 1 # 0 /\ (k + 1) - 1 = k /\ k + 1 \in 1 .. n
    OBVIOUS
  <2>2. best[k + 1] = Next1(k + 1, best[k])
    BY <1>7, <2>1
  <2>3. FirstBest((k + 1) - 1, scores, max, best[k])
    BY <1>9, <2>1
  <2>4. FirstBest(k + 1, scores, max, Next1(k + 1, best[k]))
    BY <2>1, <2>3, FirstBestGoesOn DEF Next1
  <2> QED  BY <2>1, <2>2, <2>4
<1>10. 0 .. n \subseteq T
  <2> HIDE DEF T
  <2> QED  BY <1>8, <1>9, BoundedInduction
<1> QED  BY <1>1, <1>10

(* A finite set of integers has a greatest and a least member.             *)
LEMMA ExtremesExist ==
  ASSUME NEW S \in SUBSET Int, IsFiniteSet(S), S # {}
  PROVE  /\ \E v \in S : \A w \in S : v >= w
         /\ \E v \in S : \A w \in S : v <= w
<1> DEFINE R == Smaller(S)
           n == Cardinality(S)
<1>1. Ordered(S, R)
  BY NumbersAreOrdered
<1>2. \A x, y \in S : <<x, y>> \in R <=> x < y
  BY DEF Smaller
<1> HIDE DEF R
<1>3. /\ \A x \in S : Rank(S, R, x) \in 0 .. n - 1
      /\ \A x, y \in S : <<x, y>> \in R => Rank(S, R, x) < Rank(S, R, y)
  BY <1>1, RanksRise
<1>4. \A k \in 0 .. n - 1 : \E x \in S : Rank(S, R, x) = k
  BY <1>1, RanksAreTaken DEF OnePerRank
<1>5. n \in Nat /\ n # 0
  BY FS_CardinalityType, FS_EmptySet
<1> HIDE DEF n
<1>6. \E v \in S : \A w \in S : v >= w
  <2>1. PICK v \in S : Rank(S, R, v) = n - 1
    BY <1>4, <1>5
  <2>2. ASSUME NEW w \in S PROVE v >= w
    <3>1. ASSUME v < w PROVE FALSE
      <4>1. Rank(S, R, v) < Rank(S, R, w)
        BY <1>2, <1>3, <3>1
      <4>2. Rank(S, R, v) \in 0 .. n - 1 /\ Rank(S, R, w) \in 0 .. n - 1
        BY <1>3
      <4> QED  BY <1>5, <2>1, <4>1, <4>2
    <3> QED  BY <3>1
  <2> QED  BY <2>2
<1>7. \E v \in S : \A w \in S : v <= w
  <2>1. PICK v \in S : Rank(S, R, v) = 0
    BY <1>4, <1>5
  <2>2. ASSUME NEW w \in S PROVE v <= w
    <3>1. ASSUME w < v PROVE FALSE
      <4>1. Rank(S, R, w) < Rank(S, R, v)
        BY <1>2, <1>3, <3>1
      <4>2. Rank(S, R, v) \in 0 .. n - 1 /\ Rank(S, R, w) \in 0 .. n - 1
        BY <1>3
      <4> QED  BY <1>5, <2>1, <4>1, <4>2
    <3> QED  BY <3>1
  <2> QED  BY <2>2
<1> QED  BY <1>6, <1>7

(* The best value of a curve is one of its values.                         *)
LEMMA BestOfCurve ==
  ASSUME NEW column \in Curves, NEW max
  PROVE  best_over_iters(column, max) \in Int \union {NotFinite}
<1> DEFINE n == Len(column)
           M == {column[i] : i \in DOMAIN column}
           finite == M \ {NotFinite}
<1>1. n \in Nat /\ DOMAIN column = 1 .. n /\ \A i \in 1 .. n : column[i] \in Int \union {NotFinite}
  BY DEF Curves
<1>2. IsFiniteSet(1 .. n)
  BY <1>1, FS_Interval
<1>3. column \in Surjection(1 .. n, M)
  <2>1. column = [i \in 1 .. n |-> column[i]]
    BY <1>1 DEF Curves
  <2>2. column \in [1 .. n -> M]
    BY <1>1, <2>1
  <2> QED  BY <1>1, <2>2 DEF Surjection
<1>4. M \in SUBSET (Int \union {NotFinite})
  BY <1>1
<1> HIDE DEF n, M
<1>5. IsFiniteSet(M)
  BY <1>2, <1>3, FS_Surjection
<1>6. finite \in SUBSET Int /\ IsFiniteSet(finite)
  BY <1>4, <1>5, FS_Subset
<1> HIDE DEF finite
<1>7. CASE finite = {}
  <2>1. best_over_iters(column, max) = NotFinite
    BY <1>7 DEF best_over_iters, finite, M
  <2> QED  BY <2>1
<1>8. CASE finite # {}
  <2>1. \E v \in finite : \A w \in finite : IF max THEN v >= w ELSE v <= w
    BY <1>6, <1>8, ExtremesExist
  <2>2. (CHOOSE v \in finite : \A w \in finite : IF max THEN v >= w ELSE v <= w) \in finite
    BY <2>1
  <2>3. best_over_iters(column, max) = CHOOSE v \in finite : \A w \in finite : IF max THEN v >= w ELSE v <= w
    BY <1>8 DEF best_over_iters, finite, M
  <2> QED  BY <1>6, <2>2, <2>3
<1> QED  BY <1>7, <1>8

(* A score is an integer, or not finite.                                   *)
LEMMA ScoresAreIntegers ==
  ASSUME NEW r \in Requests, NEW curve \in Curves \union {Failed}
  PROVE  Score(r, curve) \in Int \union {NotFinite}
<1>1. r.error_score \in Int \union {NotFinite}
  BY RequestsAssumption
<1>2. score_candidate(r, curve) \in Int \union {NotFinite}
  <2>1. CASE curve = Failed
    BY <2>1 DEF score_candidate
  <2>2. CASE curve # Failed
    <3>1. curve \in Curves
      BY <2>2
    <3> QED  BY <2>2, <3>1, BestOfCurve DEF score_candidate
  <2> QED  BY <2>1, <2>2
<1> QED  BY <1>1, <1>2 DEF Score

(* What the curves of the folds are aggregated to.                         *)
LEMMA AggregateIsCurve ==
  ASSUME NEW n \in Nat \ {0}, NEW curves \in [1 .. n -> Curves]
  PROVE  aggregate_folds(curves) \in Curves \union {Failed}
<1> DEFINE m == Len(curves[1])
           At(i) == [k \in DOMAIN curves |-> curves[k][i]]
           means == [i \in 1 .. m |-> IF NotFinite \in ToSet(At(i)) THEN NotFinite ELSE Added(At(i))]
<1>1. aggregate_folds(curves) = Failed \/ (aggregate_folds(curves) = means /\ \A k \in DOMAIN curves : Len(curves[k]) = m)
  BY DEF aggregate_folds
<1>2. CASE aggregate_folds(curves) = means /\ \A k \in DOMAIN curves : Len(curves[k]) = m
  <2>1. m \in Nat /\ DOMAIN curves = 1 .. n
    BY DEF Curves
  <2>2. ASSUME NEW i \in 1 .. m
        PROVE  (IF NotFinite \in ToSet(At(i)) THEN NotFinite ELSE Added(At(i))) \in Int \union {NotFinite}
    <3>1. \A k \in 1 .. n : curves[k][i] \in Int \union {NotFinite}
      <4>1. \A k \in 1 .. n : curves[k] \in Seq(Int \union {NotFinite}) /\ Len(curves[k]) = m
        BY <1>2, <2>1 DEF Curves
      <4> QED  BY <4>1
    <3>2. CASE NotFinite \in ToSet(At(i))
      BY <3>2
    <3>3. CASE NotFinite \notin ToSet(At(i))
      <4>1. \A k \in 1 .. n : curves[k][i] \in ToSet(At(i))
        BY <2>1 DEF ToSet
      <4>2. \A k \in 1 .. n : curves[k][i] \in Int
        BY <3>1, <3>3, <4>1
      <4>3. At(i) \in [1 .. n -> Int]
        BY <2>1, <4>2
      <4> HIDE DEF At
      <4>4. Added(At(i)) \in Int
        BY <4>3, AddedIsInt
      <4> QED  BY <3>3, <4>4
    <3> QED  BY <3>2, <3>3
  <2> HIDE DEF m, At
  <2>3. means \in [1 .. m -> Int \union {NotFinite}]
    BY <2>2
  <2> HIDE DEF means
  <2>4. means \in Seq(Int \union {NotFinite})
    BY <2>1, <2>3
  <2> QED  BY <1>2, <2>4 DEF Curves
<1> QED  BY <1>1, <1>2

-----------------------------------------------------------------------------
(* Search. *)

(* The candidates of a request: as many as are served, each another point  *)
(* of the grid, in the grid's order unless they are sampled.               *)
ServedAre(r, n) ==
  /\ n = Len(Served(r)) /\ n \in Nat
  /\ Len(expand_param_grid(r.grid)) \in Nat
  /\ Served(r) \in [1 .. n -> 1 .. Len(expand_param_grid(r.grid))]
  /\ \A b, c \in 1 .. n : Served(r)[b] = Served(r)[c] => b = c
  /\ r.kind = "cv" => n = 1 /\ Served(r)[1] = 1

(* It is so.                                                               *)
LEMMA ServedOnce ==
  ASSUME NEW r \in Requests
  PROVE  \E n : ServedAre(r, n)
<1> DEFINE L == Len(expand_param_grid(r.grid))
<1>1. Len(r.grid) \in Nat /\ \A d \in 1 .. Len(r.grid) : Len(r.grid[d]) \in Nat
  BY RequestsAssumption
<1>2. CombinationsAfter(r.grid, 0) \in Nat
  BY <1>1, CombinationsAreNat
<1>3. L \in Nat
  BY <1>2 DEF expand_param_grid
<1>4. r.kind = "cv" => L = 1
  BY RequestsAssumption
<1>5. r.n_iter \in Nat /\ (r.kind = "randomized" => r.sample \in Bijection(1 .. L, 1 .. L))
  BY RequestsAssumption
<1>6. CASE r.kind # "randomized"
  <2>1. Served(r) = Rows(L)
    BY <1>6 DEF Served
  <2> HIDE DEF L
  <2>2. Len(Served(r)) = L /\ Served(r) \in [1 .. L -> 1 .. L] /\ \A c \in 1 .. L : Served(r)[c] = c
    BY <1>3, <2>1 DEF Rows
  <2>3. ServedAre(r, L)
    BY <1>3, <1>4, <2>2 DEF ServedAre, L
  <2> QED  BY <2>3
<1>7. CASE r.kind = "randomized"
  <2> DEFINE s == r.sample
             n == Least(r.n_iter, Len(s))
  <2>1. Served(r) = SubSeq(s, 1, n)
    BY <1>7 DEF Served, sample_indices
  <2>2. s \in [1 .. L -> 1 .. L] /\ \A b, c \in 1 .. L : s[b] = s[c] => b = c
    BY <1>5, <1>7 DEF Bijection, Injection, Surjection, IsInjective
  <2> HIDE DEF L, s
  <2>3. Len(s) = L /\ s \in Seq(1 .. L)
    BY <1>3, <2>2
  <2>4. n \in Nat /\ n <= L
    BY <1>3, <1>5, <2>3 DEF Least
  <2> HIDE DEF n
  <2>5. Served(r) \in Seq(1 .. L) /\ Len(Served(r)) = n /\ \A i \in 1 .. n : Served(r)[i] = s[i]
    BY <1>3, <2>1, <2>3, <2>4
  <2>6. \A i \in 1 .. n : i \in 1 .. L
    BY <1>3, <2>4
  <2>7. Served(r) \in [1 .. n -> 1 .. L] /\ \A b, c \in 1 .. n : Served(r)[b] = Served(r)[c] => b = c
    BY <2>2, <2>4, <2>5, <2>6
  <2>8. ServedAre(r, n)
    BY <1>3, <1>7, <2>4, <2>5, <2>7 DEF ServedAre, L
  <2> QED  BY <2>8
<1> QED  BY <1>6, <1>7

(* The number of folds a request asks for.                                 *)
FoldsAsked(r) == IF r.explicit THEN Len(r.list) ELSE r.fold_count
FoldsNumbered(r, m) == m = FoldsAsked(r) /\ m \in Nat \ {0} /\ DOMAIN CvFolds(r) = 1 .. m

(* It gets as many, when it gets any.                                      *)
LEMMA FoldsAreNumbered ==
  ASSUME NEW r \in Requests, CvFolds(r) # Failed
  PROVE  \E m : FoldsNumbered(r, m)
<1>1. r.fold_count \in Nat /\ (r.explicit => r.list \in Seq(Seq(Nat \ {0})))
  BY RequestsAssumption
<1>2. CASE r.explicit
  <2> DEFINE s == r.list
  <2>1. CvFolds(r) = folds_from_explicit(s, r.pool.rows)
    BY <1>2 DEF CvFolds
  <2>2. s # <<>> /\ DOMAIN CvFolds(r) = DOMAIN s
    BY <2>1 DEF folds_from_explicit
  <2>3. s \in Seq(Seq(Nat \ {0}))
    BY <1>1, <1>2
  <2> HIDE DEF s
  <2>4. Len(s) \in Nat \ {0} /\ DOMAIN s = 1 .. Len(s)
    BY <2>2, <2>3
  <2>5. FoldsNumbered(r, Len(s))
    BY <1>2, <2>2, <2>4 DEF FoldsNumbered, FoldsAsked, s
  <2> QED  BY <2>5
<1>3. CASE ~ r.explicit
  <2>1. CvFolds(r) = make_cv_folds(r.pool, r.fold_count, r.order, r.inverted)
    BY <1>3 DEF CvFolds
  <2>2. DOMAIN CvFolds(r) = 1 .. r.fold_count /\ ~ (r.fold_count < 2)
    BY <2>1 DEF make_cv_folds
  <2>3. FoldsNumbered(r, r.fold_count)
    BY <1>1, <1>3, <2>2 DEF FoldsNumbered, FoldsAsked
  <2> QED  BY <2>3
<1> QED  BY <1>2, <1>3

(* The folds that are made for a pool part its rows.                       *)
LEMMA MadeFoldsPart ==
  ASSUME NEW r \in Requests, ~ r.explicit, CvFolds(r) # Failed
  PROVE  PartTheRows(r.pool.rows, r.pool.groups, r.fold_count, r.inverted, CvFolds(r))
<1> DEFINE n == r.pool.rows
           ids == r.pool.groups
           len == Items(r.pool)
           count == r.fold_count
           fs == CvFolds(r)
<1>1. /\ n \in Nat /\ count \in Nat
      /\ ids = <<>> \/ ids \in [1 .. n -> Nat]
      /\ r.order \in Bijection(1 .. len, 1 .. len)
  BY RequestsAssumption
<1>2. fs = make_cv_folds(r.pool, count, r.order, r.inverted)
  BY DEF CvFolds
<1>3. n # 0 /\ ~ (count < 2) /\ ~ (count > len) /\ Contiguous(ids)
  BY <1>2 DEF make_cv_folds
<1>4. CASE ids = <<>>
  <2>1. len = n
    BY <1>4 DEF Items
  <2>2. fs = [k \in 1 .. count |-> plain_fold(r.order, Block(len, count, k), r.inverted)]
    BY <1>2, <1>3, <1>4 DEF make_cv_folds
  <2> HIDE DEF n, ids, len, count, fs
  <2>3. PartTheRows(n, <<>>, count, r.inverted, fs)
    BY <1>1, <1>3, <2>1, <2>2, PlainFoldsPart
  <2> QED  BY <1>4, <2>3 DEF n, ids, count, fs
<1>5. CASE ids # <<>>
  <2>1. len = Len(RunStarts(ids))
    BY <1>5 DEF Items
  <2>2. fs = [k \in 1 .. count |-> grouped_fold(ids, r.order, Block(len, count, k), r.inverted)]
    BY <1>2, <1>3, <1>5 DEF make_cv_folds
  <2> HIDE DEF n, ids, len, count, fs
  <2>3. len \in Nat
    BY <1>1, <1>3, <1>5, <2>1, SpansCut
  <2>4. PartTheRows(n, ids, count, r.inverted, fs)
    BY <1>1, <1>3, <1>5, <2>1, <2>2, <2>3, GroupedFoldsPart
  <2> QED  BY <2>4 DEF n, ids, count, fs
<1> QED  BY <1>4, <1>5

(* What fold k of candidate c returns, whenever it is fitted.              *)
FoldResult(c, k) == run_fold(call.pool, folds[k], call.ranking, Learns(points[c], k))

(* A search under way has the folds and the candidates of its request.     *)
Asking ==
  /\ folds = CvFolds(call)
  /\ points = [c \in DOMAIN Served(call) |-> Point(call, c)]

(* The true curves of candidates are curves.                               *)
LEMMA TrueCurvesAre ==
  ASSUME call \in Requests, Asking, NEW c \in DOMAIN points
  PROVE  TrueCurve(call, c) \in Curves \union {Failed}
<1>1. CASE folds = Failed
  BY <1>1 DEF TrueCurve
<1>2. CASE folds # Failed
  <2> DEFINE curves == [k \in DOMAIN folds |-> FoldResult(c, k)]
  <2>1. PICK n : ServedAre(call, n)
    BY ServedOnce
  <2>2. PICK m : FoldsNumbered(call, m)
    BY <1>2, FoldsAreNumbered DEF Asking
  <2>3. DOMAIN folds = 1 .. m /\ m \in Nat \ {0} /\ m = FoldsAsked(call)
    BY <2>2 DEF FoldsNumbered, Asking
  <2>4. c \in DOMAIN Served(call) /\ points[c] = Point(call, c)
    BY DEF Asking
  <2>5. Served(call)[c] \in 1 .. Len(expand_param_grid(call.grid))
    BY <2>1, <2>4 DEF ServedAre
  <2>6. ASSUME NEW k \in 1 .. m PROVE Learns(points[c], k) \in Curves \union {Failed}
    <3>1. k \in 1 .. (IF call.explicit THEN Len(call.list) ELSE call.fold_count)
      BY <2>3 DEF FoldsAsked
    <3> QED  BY <2>4, <2>5, <3>1, RequestsAssumption DEF Point
  <2>7. ASSUME NEW k \in 1 .. m PROVE FoldResult(c, k) \in Curves \union {Failed}
    BY <2>6 DEF FoldResult, run_fold
  <2>8. TrueCurve(call, c) = IF Failed \in ToSet(curves) THEN Failed ELSE aggregate_folds(curves)
    BY <1>2 DEF TrueCurve, FoldResult
  <2>9. CASE Failed \in ToSet(curves)
    BY <2>8, <2>9
  <2>10. CASE Failed \notin ToSet(curves)
    <3>1. \A k \in 1 .. m : FoldResult(c, k) \in ToSet(curves)
      BY <2>3 DEF ToSet
    <3>2. curves \in [1 .. m -> Curves]
      BY <2>3, <2>7, <2>10, <3>1
    <3> HIDE DEF curves
    <3>3. aggregate_folds(curves) \in Curves \union {Failed}
      BY <2>3, <3>2, AggregateIsCurve
    <3> QED  BY <2>8, <2>10, <3>3
  <2> QED  BY <2>9, <2>10
<1> QED  BY <1>1, <1>2

(* A search under way: what has returned is what a serial reading of the   *)
(* request would return; without folds every candidate has failed.         *)
ReturnsTruly ==
  /\ Asking
  /\ DOMAIN fitted = DOMAIN points /\ DOMAIN crossed = DOMAIN points
  /\ \A c \in DOMAIN points :
       /\ crossed[c] \in {Open, TrueCurve(call, c)}
       /\ folds = Failed => crossed[c] = Failed
       /\ folds # Failed =>
            /\ fitted[c] = [k \in DOMAIN folds |-> fitted[c][k]]
            /\ \A k \in DOMAIN folds : fitted[c][k] \in {Open, FoldResult(c, k)}

(* The first best candidate, by the scores of the true curves.             *)
ScoreOf(c) == Score(call, TrueCurve(call, c))
NoneBetter(best) ==
  \A c \in DOMAIN points :
    /\ ScoreOf(c) # NotFinite =>
         IF metric_is_max_optimal(call) THEN ScoreOf(c) <= ScoreOf(best) ELSE ScoreOf(best) <= ScoreOf(c)
    /\ c < best => ScoreOf(c) # ScoreOf(best)
Found(best) ==
  /\ result.best_index = Served(call)[best]
  /\ result.columns = TrueCurve(call, best)
  /\ call.kind # "cv" =>
       /\ ScoreOf(best) # NotFinite
       /\ result.failures =
            {Served(call)[c] : c \in {d \in DOMAIN points : FailedToScore(call, TrueCurve(call, d))}}
  /\ NoneBetter(best)

(* The invariant of a search.                                              *)
NothingYet == folds = Failed /\ points = <<>> /\ fitted = <<>> /\ crossed = <<>>
SearchInv ==
  /\ call = Idle => NothingYet /\ result = Pending
  /\ call # Idle =>
       /\ call \in Requests
       /\ Rejected(call) => NothingYet /\ result = Raised
       /\ ~ Rejected(call) => ReturnsTruly
  /\ result.kind = "found" =>
       \E best \in DOMAIN points : Found(best) /\ (estimator.fitted => estimator.params = points[best])
  /\ estimator.fitted => result.kind = "found"

(* Nothing that a search keeps moves but what it is told.                  *)
Settled == call' = call /\ folds' = folds /\ points' = points

(* Then the true curves stay.                                              *)
LEMMA TruthStays ==
  ASSUME Settled
  PROVE  /\ Asking' = Asking
         /\ \A c : TrueCurve(call, c)' = TrueCurve(call, c)
         /\ \A c, k : FoldResult(c, k)' = FoldResult(c, k)
         /\ \A c : ScoreOf(c)' = ScoreOf(c)
         /\ \A c : NoneBetter(c)' = NoneBetter(c)
<1>1. call' = call /\ folds' = folds /\ points' = points
  BY DEF Settled
<1>2. Asking' = Asking
  BY <1>1 DEF Asking
<1>3. \A c : TrueCurve(call, c)' = TrueCurve(call, c)
  BY <1>1 DEF TrueCurve
<1>4. \A c, k : FoldResult(c, k)' = FoldResult(c, k)
  BY <1>1 DEF FoldResult
<1>5. \A c : ScoreOf(c)' = ScoreOf(c)
  BY <1>1, <1>3 DEF ScoreOf
<1>6. \A c : NoneBetter(c)' = NoneBetter(c)
  BY <1>1, <1>5 DEF NoneBetter
<1> QED  BY <1>2, <1>3, <1>4, <1>5, <1>6

(* A request that is asked starts with nothing returned.                   *)
LEMMA SearchStarts ==
  ASSUME SearchInv, NEW r \in Requests, Search(r)
  PROVE  SearchInv'
<1>1. call = Idle /\ call' = r /\ NothingYet /\ result = Pending /\ estimator' = estimator
  BY DEF Search, SearchInv
<1>2. r # Idle
  <2>1. r.kind \in {"grid", "randomized", "cv"}
    BY RequestsAssumption
  <2> QED  BY <2>1 DEF Idle
<1>3. result.kind # "found" /\ ~ estimator.fitted
  BY <1>1 DEF Pending, SearchInv
<1>4. CASE Rejected(r)
  <2>1. result' = Raised /\ folds' = folds /\ points' = points /\ fitted' = fitted /\ crossed' = crossed
    BY <1>4 DEF Search
  <2>2. NothingYet' /\ result'.kind # "found" /\ ~ estimator'.fitted
    BY <1>1, <1>3, <2>1 DEF NothingYet, Raised
  <2>3. Rejected(call)' = Rejected(r)
    BY <1>1
  <2> QED  BY <1>1, <1>2, <1>4, <2>1, <2>2, <2>3 DEF SearchInv
<1>5. CASE ~ Rejected(r)
  <2>1. /\ folds' = CvFolds(r) /\ points' = [c \in DOMAIN Served(r) |-> Point(r, c)]
        /\ fitted' = [c \in DOMAIN points' |-> IF folds' = Failed THEN <<>> ELSE [k \in DOMAIN folds' |-> Open]]
        /\ crossed' = [c \in DOMAIN points' |-> IF folds' = Failed THEN Failed ELSE Open]
        /\ result' = result
    BY <1>5 DEF Search
  <2>2. Asking'
    BY <1>1, <2>1 DEF Asking
  <2>3. ASSUME NEW c \in DOMAIN points'
        PROVE  /\ crossed'[c] \in {Open, TrueCurve(call, c)'}
               /\ folds' = Failed => crossed'[c] = Failed
               /\ folds' # Failed =>
                    /\ fitted'[c] = [k \in DOMAIN folds' |-> fitted'[c][k]]
                    /\ \A k \in DOMAIN folds' : fitted'[c][k] = Open
    <3>1. CASE folds' = Failed
      <4>1. TrueCurve(call, c)' = Failed
        BY <3>1 DEF TrueCurve
      <4> QED  BY <2>1, <3>1, <4>1
    <3>2. CASE folds' # Failed
      <4>1. crossed'[c] = Open
        BY <2>1, <3>2
      <4>2. fitted'[c] = [k \in DOMAIN folds' |-> Open]
        BY <2>1, <3>2
      <4> QED  BY <3>2, <4>1, <4>2
    <3> QED  BY <3>1, <3>2
  <2>4. DOMAIN fitted' = DOMAIN points' /\ DOMAIN crossed' = DOMAIN points'
    BY <2>1
  <2>5. ReturnsTruly'
    BY <2>2, <2>3, <2>4 DEF ReturnsTruly
  <2>6. Rejected(call)' = Rejected(r)
    BY <1>1
  <2> QED  BY <1>1, <1>2, <1>3, <1>5, <2>1, <2>5, <2>6 DEF SearchInv
<1> QED  BY <1>4, <1>5

(* A candidate that is open belongs to a search under way, with folds.     *)
LEMMA OpenIsUnderWay ==
  ASSUME SearchInv, NEW c \in DOMAIN crossed, crossed[c] = Open
  PROVE  /\ call # Idle /\ call \in Requests /\ ~ Rejected(call) /\ ReturnsTruly
         /\ c \in DOMAIN points /\ folds # Failed
         /\ DOMAIN fitted[c] = DOMAIN folds
<1>1. ~ NothingYet
  BY DEF NothingYet
<1>2. call # Idle /\ call \in Requests /\ ~ Rejected(call) /\ ReturnsTruly
  BY <1>1 DEF SearchInv
<1>3. Open # Failed
  BY RequestsAssumption
<1>4. c \in DOMAIN points /\ folds # Failed
  BY <1>2, <1>3 DEF ReturnsTruly
<1>5. fitted[c] = [k \in DOMAIN folds |-> fitted[c][k]]
  BY <1>2, <1>4 DEF ReturnsTruly
<1>6. DOMAIN [k \in DOMAIN folds |-> fitted[c][k]] = DOMAIN folds
  OBVIOUS
<1> QED  BY <1>2, <1>4, <1>5, <1>6

(* A fold or a candidate that returns truly leaves the invariant.          *)
LEMMA ReturnKeeps ==
  ASSUME SearchInv, call # Idle, ~ Rejected(call), Settled, ReturnsTruly',
         result' = result, estimator' = estimator
  PROVE  SearchInv'
<1>1. call' = call /\ points' = points /\ folds' = folds
  BY DEF Settled
<1>2. ASSUME NEW best \in DOMAIN points, Found(best) PROVE Found(best)'
  <2>1. \A c : TrueCurve(call, c)' = TrueCurve(call, c)
    BY TruthStays
  <2>2. ScoreOf(best)' = ScoreOf(best) /\ NoneBetter(best)' = NoneBetter(best)
    BY TruthStays
  <2> QED  BY <1>1, <1>2, <2>1, <2>2 DEF Found
<1>3. call \in Requests
  BY DEF SearchInv
<1>4. Rejected(call)' = Rejected(call)
  BY <1>1
<1> QED  BY <1>1, <1>2, <1>3, <1>4 DEF SearchInv

(* A fold returns what it would in any order.                              *)
LEMMA FoldFits ==
  ASSUME SearchInv, NEW c \in DOMAIN crossed, NEW k \in DOMAIN fitted[c], FitFold(c, k)
  PROVE  SearchInv'
<1>1. /\ call # Idle /\ ~ Rejected(call) /\ ReturnsTruly
      /\ c \in DOMAIN points /\ folds # Failed /\ DOMAIN fitted[c] = DOMAIN folds
  BY OpenIsUnderWay DEF FitFold
<1>2. Settled /\ crossed' = crossed /\ result' = result /\ estimator' = estimator
  BY DEF FitFold, Settled
<1>3. fitted' = [fitted EXCEPT ![c][k] = FoldResult(c, k)]
  BY DEF FitFold, FoldResult
<1>4. /\ Asking' = Asking
      /\ \A d : TrueCurve(call, d)' = TrueCurve(call, d)
      /\ \A d, j : FoldResult(d, j)' = FoldResult(d, j)
  BY <1>2, TruthStays
<1>5. points' = points /\ folds' = folds /\ call' = call
  BY <1>2 DEF Settled
<1>6. /\ DOMAIN fitted' = DOMAIN fitted
      /\ DOMAIN fitted = DOMAIN points /\ DOMAIN crossed = DOMAIN points
  BY <1>1, <1>3 DEF ReturnsTruly
<1>7. ASSUME NEW d \in DOMAIN points
      PROVE  /\ fitted'[d] = [j \in DOMAIN folds |-> fitted'[d][j]]
             /\ \A j \in DOMAIN folds : fitted'[d][j] \in {Open, FoldResult(d, j)}
  <2>1. /\ fitted[d] = [j \in DOMAIN folds |-> fitted[d][j]]
        /\ \A j \in DOMAIN folds : fitted[d][j] \in {Open, FoldResult(d, j)}
    BY <1>1 DEF ReturnsTruly
  <2>2. CASE d # c
    <3>1. fitted'[d] = fitted[d]
      BY <1>3, <1>6, <2>2
    <3> QED  BY <2>1, <3>1
  <2>3. CASE d = c
    <3>1. fitted'[c] = [fitted[c] EXCEPT ![k] = FoldResult(c, k)]
      BY <1>1, <1>3, <1>6
    <3>2. fitted'[c] = [j \in DOMAIN folds |-> IF j = k THEN FoldResult(c, k) ELSE fitted[c][j]]
      BY <1>1, <3>1
    <3>3. \A j \in DOMAIN folds : fitted'[c][j] \in {Open, FoldResult(c, j)}
      BY <2>1, <2>3, <3>2
    <3>4. fitted'[c] = [j \in DOMAIN folds |-> fitted'[c][j]]
      BY <3>2
    <3> QED  BY <2>3, <3>3, <3>4
  <2> QED  BY <2>2, <2>3
<1>8. ReturnsTruly'
  <2>1. Asking'
    BY <1>1, <1>4 DEF ReturnsTruly
  <2>2. DOMAIN fitted' = DOMAIN points' /\ DOMAIN crossed' = DOMAIN points'
    BY <1>2, <1>5, <1>6
  <2>3. ASSUME NEW d \in DOMAIN points'
        PROVE  /\ crossed'[d] \in {Open, TrueCurve(call, d)'}
               /\ folds' = Failed => crossed'[d] = Failed
               /\ folds' # Failed =>
                    /\ fitted'[d] = [j \in DOMAIN folds' |-> fitted'[d][j]]
                    /\ \A j \in DOMAIN folds' : fitted'[d][j] \in {Open, FoldResult(d, j)'}
    <3>1. crossed[d] \in {Open, TrueCurve(call, d)} /\ d \in DOMAIN points
      BY <1>1, <1>5 DEF ReturnsTruly
    <3>2. /\ fitted'[d] = [j \in DOMAIN folds' |-> fitted'[d][j]]
          /\ \A j \in DOMAIN folds' : fitted'[d][j] \in {Open, FoldResult(d, j)'}
      BY <1>4, <1>5, <1>7, <3>1
    <3> QED  BY <1>1, <1>2, <1>4, <1>5, <3>1, <3>2
  <2> QED  BY <2>1, <2>2, <2>3 DEF ReturnsTruly
<1> QED  BY <1>1, <1>2, <1>8, ReturnKeeps

(* A candidate fails, or is aggregated, as its folds decide.               *)
LEMMA CandidateSettles ==
  ASSUME SearchInv, NEW c \in DOMAIN crossed, CvFails(c) \/ CvReturns(c)
  PROVE  SearchInv'
<1> DEFINE curves == [k \in DOMAIN folds |-> FoldResult(c, k)]
<1>1. crossed[c] = Open
  BY DEF CvFails, CvReturns
<1>2. /\ call # Idle /\ ~ Rejected(call) /\ ReturnsTruly
      /\ c \in DOMAIN points /\ folds # Failed /\ DOMAIN fitted[c] = DOMAIN folds
  BY <1>1, OpenIsUnderWay
<1>3. Settled /\ fitted' = fitted /\ result' = result /\ estimator' = estimator
  BY DEF CvFails, CvReturns, Settled
<1>4. /\ Asking' = Asking
      /\ \A d : TrueCurve(call, d)' = TrueCurve(call, d)
      /\ \A d, j : FoldResult(d, j)' = FoldResult(d, j)
  BY <1>3, TruthStays
<1>5. points' = points /\ folds' = folds /\ call' = call
  BY <1>3 DEF Settled
<1>6. TrueCurve(call, c) = IF Failed \in ToSet(curves) THEN Failed ELSE aggregate_folds(curves)
  BY <1>2 DEF TrueCurve, FoldResult
<1>7. /\ fitted[c] = [k \in DOMAIN folds |-> fitted[c][k]]
      /\ \A k \in DOMAIN folds : fitted[c][k] \in {Open, FoldResult(c, k)}
  BY <1>2 DEF ReturnsTruly
<1>8. crossed' = [crossed EXCEPT ![c] = TrueCurve(call, c)]
  <2>1. CASE CvFails(c)
    <3>1. PICK k \in DOMAIN folds : fitted[c][k] = Failed
      BY <1>2, <2>1 DEF CvFails
    <3>2. Open # Failed
      BY RequestsAssumption
    <3>3. FoldResult(c, k) = Failed
      BY <1>7, <3>1, <3>2
    <3>4. Failed \in ToSet(curves)
      BY <3>3 DEF ToSet
    <3> QED  BY <1>6, <2>1, <3>4 DEF CvFails
  <2>2. CASE CvReturns(c)
    <3>1. \A k \in DOMAIN folds : fitted[c][k] # Open /\ fitted[c][k] # Failed
      BY <1>2, <2>2 DEF CvReturns
    <3>2. \A k \in DOMAIN folds : fitted[c][k] = FoldResult(c, k)
      BY <1>7, <3>1
    <3>3. fitted[c] = curves
      BY <1>7, <3>2
    <3>4. Failed \notin ToSet(curves)
      BY <3>1, <3>2 DEF ToSet
    <3>5. crossed' = [crossed EXCEPT ![c] = aggregate_folds(fitted[c])]
      BY <2>2 DEF CvReturns
    <3> HIDE DEF curves
    <3> QED  BY <1>6, <3>3, <3>4, <3>5
  <2> QED  BY <2>1, <2>2
<1>9. ReturnsTruly'
  <2>1. Asking' /\ DOMAIN fitted' = DOMAIN points' /\ DOMAIN crossed' = DOMAIN points'
    BY <1>2, <1>3, <1>4, <1>5, <1>8 DEF ReturnsTruly
  <2>2. ASSUME NEW d \in DOMAIN points'
        PROVE  /\ crossed'[d] \in {Open, TrueCurve(call, d)'}
               /\ folds' = Failed => crossed'[d] = Failed
               /\ folds' # Failed =>
                    /\ fitted'[d] = [j \in DOMAIN folds' |-> fitted'[d][j]]
                    /\ \A j \in DOMAIN folds' : fitted'[d][j] \in {Open, FoldResult(d, j)'}
    <3>1. /\ d \in DOMAIN points /\ d \in DOMAIN crossed
          /\ crossed[d] \in {Open, TrueCurve(call, d)}
          /\ fitted[d] = [j \in DOMAIN folds |-> fitted[d][j]]
          /\ \A j \in DOMAIN folds : fitted[d][j] \in {Open, FoldResult(d, j)}
      BY <1>2, <1>5 DEF ReturnsTruly
    <3>2. crossed'[d] \in {Open, TrueCurve(call, d)}
      BY <1>8, <3>1
    <3>3. folds' # Failed
      BY <1>2, <1>5
    <3>4. /\ fitted'[d] = [j \in DOMAIN folds' |-> fitted'[d][j]]
          /\ \A j \in DOMAIN folds' : fitted'[d][j] \in {Open, FoldResult(d, j)'}
      BY <1>3, <1>4, <1>5, <3>1
    <3> QED  BY <1>4, <3>2, <3>3, <3>4
  <2> QED  BY <2>1, <2>2 DEF ReturnsTruly
<1> QED  BY <1>2, <1>3, <1>9, ReturnKeeps

(* An answer keeps the invariant when it is that of the true curves.       *)
LEMMA AnswerKeeps ==
  ASSUME SearchInv, call # Idle, result = Pending, Settled,
         fitted' = fitted, crossed' = crossed, estimator' = estimator,
         result'.kind = "found" => \E best \in DOMAIN points : Found(best)'
  PROVE  SearchInv'
<1>1. call' = call /\ points' = points /\ folds' = folds
  BY DEF Settled
<1>2. ~ Rejected(call) /\ ReturnsTruly /\ call \in Requests
  BY DEF SearchInv, Pending, Raised
<1>3. ~ estimator.fitted
  BY DEF SearchInv, Pending
<1>4. ReturnsTruly'
  <2>1. /\ Asking' = Asking
        /\ \A d : TrueCurve(call, d)' = TrueCurve(call, d)
        /\ \A d, j : FoldResult(d, j)' = FoldResult(d, j)
    BY TruthStays
  <2> QED  BY <1>1, <1>2, <2>1 DEF ReturnsTruly
<1>5. Rejected(call)' = Rejected(call)
  BY <1>1
<1> QED  BY <1>1, <1>2, <1>3, <1>4, <1>5 DEF SearchInv

(* A search selects the first best.                                        *)
LEMMA SelectAnswers ==
  ASSUME SearchInv, Select
  PROVE  SearchInv'
<1> DEFINE scores == [c \in DOMAIN crossed |-> Score(call, crossed[c])]
           max == metric_is_max_optimal(call)
           best == select_index(scores, max)
           failures == {c \in DOMAIN crossed : FailedToScore(call, crossed[c])}
<1>1. call # Idle /\ result = Pending /\ call.kind # "cv" /\ \A c \in DOMAIN crossed : crossed[c] # Open
  BY DEF Select
<1>2. ReturnsTruly /\ call \in Requests
  BY <1>1 DEF SearchInv, Pending, Raised
<1>3. /\ Settled /\ call' = call /\ folds' = folds /\ points' = points
      /\ fitted' = fitted /\ crossed' = crossed /\ estimator' = estimator
  BY DEF Select, Settled
<1>4. /\ Asking /\ DOMAIN crossed = DOMAIN points
      /\ \A c \in DOMAIN points : crossed[c] = TrueCurve(call, c)
  BY <1>1, <1>2 DEF ReturnsTruly
<1>5. PICK n : ServedAre(call, n)
  BY <1>2, ServedOnce
<1>6. n \in Nat /\ DOMAIN points = 1 .. n
  BY <1>4, <1>5 DEF ServedAre, Asking
<1>7. ASSUME NEW c \in 1 .. n PROVE scores[c] = ScoreOf(c) /\ ScoreOf(c) \in Int \union {NotFinite}
  <2>1. scores[c] = Score(call, TrueCurve(call, c))
    BY <1>4, <1>6
  <2>2. TrueCurve(call, c) \in Curves \union {Failed}
    BY <1>2, <1>4, <1>6, TrueCurvesAre
  <2> QED  BY <1>2, <2>1, <2>2, ScoresAreIntegers DEF ScoreOf
<1>8. scores \in [1 .. n -> Int \union {NotFinite}]
  BY <1>4, <1>6, <1>7
<1>9. result' = IF (call.raise /\ failures # {}) \/ best = 0 THEN Raised
                ELSE IF crossed[best] = Failed THEN Raised
                ELSE [kind |-> "found", best_index |-> BestIndex(best), columns |-> crossed[best],
                      failures |-> {Served(call)[c] : c \in failures}]
  BY DEF Select
<1>10. failures = {d \in DOMAIN points : FailedToScore(call, TrueCurve(call, d))}
  BY <1>4
<1> HIDE DEF scores, failures, max
<1>11. FirstBest(n, scores, max, best)
  BY <1>6, <1>8, SelectedIsFirstBest
<1> HIDE DEF best
<1>12. PICK b : b = best /\ FirstBest(n, scores, max, b)
  BY <1>11
<1>13. ASSUME result'.kind = "found" PROVE b \in DOMAIN points /\ Found(b)'
  <2>1. /\ b # 0
        /\ result' = [kind |-> "found", best_index |-> BestIndex(b), columns |-> crossed[b],
                      failures |-> {Served(call)[c] : c \in failures}]
    BY <1>9, <1>12, <1>13 DEF Raised
  <2>2. /\ b \in 1 .. n /\ scores[b] # NotFinite
        /\ \A c \in 1 .. n : scores[c] # NotFinite =>
             /\ IF max THEN scores[c] <= scores[b] ELSE scores[b] <= scores[c]
             /\ c < b => scores[c] # scores[b]
    BY <1>6, <1>12, <2>1 DEF FirstBest
  <2>3. NoneBetter(b)
    <3> SUFFICES ASSUME NEW c \in DOMAIN points
                 PROVE  /\ ScoreOf(c) # NotFinite =>
                             IF max THEN ScoreOf(c) <= ScoreOf(b) ELSE ScoreOf(b) <= ScoreOf(c)
                        /\ c < b => ScoreOf(c) # ScoreOf(b)
      BY DEF NoneBetter, max
    <3>1. c \in 1 .. n /\ scores[c] = ScoreOf(c) /\ scores[b] = ScoreOf(b)
      BY <1>6, <1>7, <2>2
    <3> QED  BY <2>2, <3>1
  <2>4. ScoreOf(b) # NotFinite
    BY <1>7, <2>2
  <2>5. result'.best_index = Served(call)[b] /\ result'.columns = TrueCurve(call, b)
    BY <1>4, <1>6, <2>1, <2>2 DEF BestIndex
  <2>6. result'.failures = {Served(call)[c] : c \in {d \in DOMAIN points : FailedToScore(call, TrueCurve(call, d))}}
    BY <1>10, <2>1
  <2>7. /\ \A c : TrueCurve(call, c)' = TrueCurve(call, c)
        /\ ScoreOf(b)' = ScoreOf(b) /\ NoneBetter(b)' = NoneBetter(b)
    BY <1>3, TruthStays
  <2>8. {Served(call)[c] : c \in {d \in DOMAIN points : FailedToScore(call, TrueCurve(call, d))}}'
        = {Served(call)[c] : c \in {d \in DOMAIN points : FailedToScore(call, TrueCurve(call, d))}}
    BY <1>3, <2>7
  <2> QED  BY <1>3, <1>6, <2>2, <2>3, <2>4, <2>5, <2>6, <2>7, <2>8 DEF Found
<1> QED  BY <1>1, <1>3, <1>13, AnswerKeeps

(* A plain cross-validation has one candidate.                             *)
LEMMA CvAnswersTruly ==
  ASSUME SearchInv, CvAnswers
  PROVE  SearchInv'
<1>1. call # Idle /\ result = Pending /\ call.kind = "cv" /\ crossed[1] # Open
  BY DEF CvAnswers, Idle
<1>2. ReturnsTruly /\ call \in Requests
  BY <1>1 DEF SearchInv, Pending, Raised
<1>3. /\ Settled /\ call' = call /\ folds' = folds /\ points' = points
      /\ fitted' = fitted /\ crossed' = crossed /\ estimator' = estimator
  BY DEF CvAnswers, Settled
<1>4. PICK n : ServedAre(call, n)
  BY <1>2, ServedOnce
<1>5. DOMAIN points = 1 .. 1 /\ Served(call)[1] = 1 /\ Asking
  BY <1>1, <1>2, <1>4 DEF ServedAre, ReturnsTruly, Asking
<1>6. crossed[1] = TrueCurve(call, 1)
  BY <1>1, <1>2, <1>5 DEF ReturnsTruly
<1>7. NoneBetter(1)
  <2>1. TrueCurve(call, 1) \in Curves \union {Failed}
    BY <1>2, <1>5, TrueCurvesAre
  <2>2. ScoreOf(1) \in Int \union {NotFinite}
    BY <1>2, <2>1, ScoresAreIntegers DEF ScoreOf
  <2>3. \A c \in DOMAIN points : c = 1
    BY <1>5
  <2> QED  BY <2>2, <2>3 DEF NoneBetter
<1>8. ASSUME result'.kind = "found" PROVE 1 \in DOMAIN points /\ Found(1)'
  <2>1. result' = [kind |-> "found", best_index |-> 1, columns |-> crossed[1], failures |-> {}]
    BY <1>8 DEF CvAnswers, Raised
  <2>2. /\ \A c : TrueCurve(call, c)' = TrueCurve(call, c)
        /\ NoneBetter(1)' = NoneBetter(1)
    BY <1>3, TruthStays
  <2> QED  BY <1>1, <1>3, <1>5, <1>6, <1>7, <2>1, <2>2 DEF Found
<1> QED  BY <1>1, <1>3, <1>8, AnswerKeeps

(* The estimator is refitted with the point that won.                      *)
LEMMA RefitKeeps ==
  ASSUME SearchInv, refit_estimator
  PROVE  SearchInv'
<1>1. /\ call # Idle /\ call \in Requests /\ ~ Rejected(call) /\ ReturnsTruly
  BY DEF SearchInv, refit_estimator, Pending, Raised
<1>2. PICK best \in DOMAIN points : Found(best)
  BY DEF SearchInv, refit_estimator
<1>3. /\ Settled /\ call' = call /\ folds' = folds /\ points' = points
      /\ fitted' = fitted /\ crossed' = crossed
  BY DEF refit_estimator, Settled
<1> DEFINE point == expand_param_grid(call.grid)[result.best_index]
<1>4. /\ estimator' = [params |-> point, fitted |-> Refits(point)]
      /\ result' = IF Refits(point) THEN result ELSE Raised
  BY DEF refit_estimator
<1>5. points[best] = point
  BY <1>1, <1>2 DEF Found, ReturnsTruly, Asking, Point
<1>6. /\ Asking' = Asking
      /\ \A d : TrueCurve(call, d)' = TrueCurve(call, d)
      /\ \A d, j : FoldResult(d, j)' = FoldResult(d, j)
      /\ ScoreOf(best)' = ScoreOf(best) /\ NoneBetter(best)' = NoneBetter(best)
  BY <1>3, TruthStays
<1>7. ReturnsTruly'
  BY <1>1, <1>3, <1>6 DEF ReturnsTruly
<1>8. Rejected(call)' = Rejected(call)
  BY <1>3
<1> HIDE DEF point
<1>9. CASE Refits(point)
  <2>1. result' = result /\ result.kind = "found" /\ estimator'.params = points[best]
    BY <1>4, <1>5, <1>9 DEF refit_estimator
  <2>2. Found(best)'
    BY <1>2, <1>3, <1>6, <2>1 DEF Found
  <2> QED  BY <1>1, <1>3, <1>7, <1>8, <2>1, <2>2 DEF SearchInv
<1>10. CASE ~ Refits(point)
  <2>1. result'.kind # "found" /\ ~ estimator'.fitted
    BY <1>4, <1>10 DEF Raised
  <2> QED  BY <1>1, <1>3, <1>7, <1>8, <2>1 DEF SearchInv
<1> QED  BY <1>9, <1>10

(* The invariant from step to step.                                        *)
LEMMA SearchStep ==
  ASSUME SearchInv, SearchNext \/ UNCHANGED svars
  PROVE  SearchInv'
<1>1. CASE UNCHANGED svars
  <2>1. /\ Settled /\ call' = call /\ folds' = folds /\ points' = points /\ fitted' = fitted
        /\ crossed' = crossed /\ result' = result /\ estimator' = estimator
    BY <1>1 DEF svars, Settled
  <2>2. NothingYet' = NothingYet
    BY <2>1 DEF NothingYet
  <2>3. Rejected(call)' = Rejected(call)
    BY <2>1
  <2>4. CASE call # Idle /\ ~ Rejected(call)
    <3>1. /\ Asking' = Asking
          /\ \A d : TrueCurve(call, d)' = TrueCurve(call, d)
          /\ \A d, j : FoldResult(d, j)' = FoldResult(d, j)
      BY <2>1, TruthStays
    <3>2. ReturnsTruly'
      BY <2>1, <2>4, <3>1 DEF ReturnsTruly, SearchInv
    <3> QED  BY <2>1, <2>4, <3>2, ReturnKeeps
  <2>5. CASE call = Idle \/ Rejected(call)
    <3>1. result.kind # "found"
      BY <2>5 DEF SearchInv, Pending, Raised
    <3> QED  BY <2>1, <2>2, <2>3, <2>5, <3>1 DEF SearchInv
  <2> QED  BY <2>4, <2>5
<1>2. CASE \E r \in Requests : Search(r)
  BY <1>2, SearchStarts
<1>3. CASE \E c \in DOMAIN crossed : (\E k \in DOMAIN fitted[c] : FitFold(c, k)) \/ CvFails(c) \/ CvReturns(c)
  BY <1>3, FoldFits, CandidateSettles
<1>4. CASE Select
  BY <1>4, SelectAnswers
<1>5. CASE CvAnswers
  BY <1>5, CvAnswersTruly
<1>6. CASE refit_estimator
  BY <1>6, RefitKeeps
<1> QED  BY <1>1, <1>2, <1>3, <1>4, <1>5, <1>6 DEF SearchNext

(* The folds of a search in any of its states part the rows of its pool.   *)
LEMMA SearchedFoldsPart ==
  ASSUME SearchInv
  PROVE  FoldsPartitionThePool
<1> SUFFICES ASSUME call # Idle, ~ call.explicit, folds # Failed
             PROVE  FoldsPartitionThePool
  BY DEF FoldsPartitionThePool
<1>1. call \in Requests /\ folds = CvFolds(call)
  BY DEF SearchInv, NothingYet, ReturnsTruly, Asking
<1>2. PartTheRows(call.pool.rows, call.pool.groups, call.fold_count, call.inverted, folds)
  BY <1>1, MadeFoldsPart
<1> QED  BY <1>2 DEF PartTheRows, Held, Kept, HeldGroups, FoldsPartitionThePool

(* What was found is the first best.                                       *)
LEMMA FoundIsFirstBest ==
  ASSUME SearchInv
  PROVE  SearchFindsTheFirstBest
<1> SUFFICES ASSUME result.kind = "found" PROVE SearchFindsTheFirstBest
  BY DEF SearchFindsTheFirstBest
<1>1. /\ call # Idle /\ call \in Requests /\ ~ Rejected(call) /\ ReturnsTruly
  BY DEF SearchInv, Pending, Raised
<1>2. PICK best \in DOMAIN points : Found(best) /\ (estimator.fitted => estimator.params = points[best])
  BY DEF SearchInv
<1>3. PICK n : ServedAre(call, n)
  BY <1>1, ServedOnce
<1>4. DOMAIN points = 1 .. n /\ DOMAIN Served(call) = 1 .. n
  BY <1>1, <1>3 DEF ServedAre, ReturnsTruly, Asking
<1>5. (CHOOSE c \in Candidates : Served(call)[c] = result.best_index) = best
  <2>1. Served(call)[best] = result.best_index
    BY <1>2 DEF Found
  <2>2. \A c \in DOMAIN points : Served(call)[c] = result.best_index => c = best
    BY <1>2, <1>3, <1>4, <2>1 DEF ServedAre
  <2> QED  BY <2>1, <2>2 DEF Candidates
<1>6. result.best_index \in ToSet(Served(call))
  BY <1>2, <1>4 DEF Found, ToSet
<1> QED  BY <1>2, <1>5, <1>6 DEF Found, NoneBetter, ScoreOf, Candidates, SearchFindsTheFirstBest

(* Cross-validation and the searches keep theirs: the folds they are       *)
(* served with part the pool, and in whatever order folds and candidates   *)
(* return, what is found is the first best of the points that were served. *)
THEOREM SearchKeepsItsPromises == Spec => [](FoldsPartitionThePool /\ SearchFindsTheFirstBest)
<1>1. Init => SearchInv
  BY DEF Init, SearchInit, SearchInv, NothingYet, Pending
<1>2. [Next]_vars => SearchNext \/ UNCHANGED svars
  BY DEF Next, Returned, vars, svars
<1>3. SearchInv /\ [Next]_vars => SearchInv'
  BY <1>2, SearchStep
<1>4. SearchInv => FoldsPartitionThePool /\ SearchFindsTheFirstBest
  BY SearchedFoldsPart, FoundIsFirstBest
<1> QED  BY <1>1, <1>3, <1>4, PTL DEF Spec

-----------------------------------------------------------------------------
(* Options. *)

(* What the prologue and the gates after it leave of the options.          *)
Sane(o) ==
  /\ o.columns \in {"floats", "one_hot", "ctr"}
  /\ o.rsm \in 1 .. 10 /\ (o.rsm < 10 => o.grow_policy = "SymmetricTree")
  /\ o.langevin => o.boosting_type # "Ordered" /\ o.grow_policy = "SymmetricTree"
  /\ o.leaf_estimation_iterations \in Int /\ o.penalties \in BOOLEAN
  /\ o.leaf_estimation_iterations # 1 => o.loss \notin NewtonOnly

(* The data arrives as it was passed, but for the groups of a builder.     *)
AsPassed(o, w) ==
  /\ o.columns = w.columns /\ o.evals = w.evals
  /\ o.groups = (w.groups /\ w.entry # "fit")

(* The entry points change nothing of a wish but what they do not take.    *)
LEMMA EntriesPassOn ==
  ASSUME NEW w \in Wishes
  PROVE  /\ AsPassed(Entered(w), w)
         /\ Entered(w).rsm = w.rsm /\ Entered(w).penalties = w.penalties
         /\ Entered(w).leaf_estimation_iterations = w.leaf_estimation_iterations
         /\ DOMAIN Entered(w) = DOMAIN w
<1> DEFINE b == boost_params(w)
<1>1. /\ DOMAIN b = DOMAIN w
      /\ b.columns = w.columns /\ b.evals = w.evals /\ b.groups = w.groups
      /\ b.rsm = w.rsm /\ b.penalties = w.penalties /\ b.leaf_estimation_iterations = w.leaf_estimation_iterations
  BY WishesAssumption DEF boost_params
<1> HIDE DEF b
<1>2. w.entry = "fit" => Entered(w) = builder_fit(b)
  BY DEF Entered, b
<1> QED
  BY <1>1, <1>2, WishesAssumption
  DEF Entered, AsPassed, b, builder_fit, train, train_with_eval, train_with_eval_sets, train_ranking,
      train_cat, train_cat_with_eval_sets

(* What was admitted is sane, and is what was passed.                      *)
LEMMA AdmittedIsSane ==
  ASSUME NEW w \in Wishes, Admissible(Entered(w))
  PROVE  Sane(posterior(Entered(w))) /\ AsPassed(posterior(Entered(w)), w)
<1> DEFINE e == Entered(w)
           o == posterior(e)
<1>1. /\ AsPassed(e, w) /\ DOMAIN e = DOMAIN w
      /\ e.rsm = w.rsm /\ e.leaf_estimation_iterations = w.leaf_estimation_iterations
      /\ e.penalties = w.penalties
  BY EntriesPassOn
<1>w. w.rsm \in Int /\ w.leaf_estimation_iterations \in Int /\ w.penalties \in BOOLEAN
  BY WishesAssumption
<1> HIDE DEF e
<1>2. /\ o.columns = e.columns /\ o.evals = e.evals /\ o.groups = e.groups
      /\ o.rsm = e.rsm /\ o.penalties = e.penalties /\ o.grow_policy = e.grow_policy /\ o.boosting_type = e.boosting_type
      /\ o.leaf_estimation_iterations = e.leaf_estimation_iterations /\ o.loss = e.loss
  BY <1>1, WishesAssumption DEF posterior
<1> HIDE DEF o
<1>3. /\ e.rsm \in 1 .. 10 /\ (e.rsm < 10 => e.grow_policy = "SymmetricTree")
      /\ o.langevin => o.boosting_type # "Ordered" /\ o.grow_policy = "SymmetricTree"
      /\ e.leaf_estimation_iterations >= 1
      /\ e.leaf_estimation_iterations > 1 => e.loss \notin NewtonOnly
      /\ o.columns # "both"
  BY DEF Admissible, prologue, validate_rsm, validate_langevin, OneEncoding,
         validate_leaf_estimation_iterations, e, o
<1> QED  BY <1>1, <1>w, <1>2, <1>3, WishesAssumption DEF Sane, AsPassed, e, o

(* Every tree of the host reads the options it does not except.            *)
LEMMA HostReadsAll ==
  ASSUME NEW o, Sane(o), NEW n \in OffDefault(o), n \notin Unread(o),
         n \notin {"floats", "auto_learning_rate"}
  PROVE  n \in HostStructure(o) \union HostLeaves(o) \union {"model_shrink_rate"}
<1>1. n \in {"rsm", "langevin", "monotone_constraints", "penalties", "random_strength",
             "model_shrink_rate", "leaf_estimation_iterations", "model_size_reg", "weights",
             "groups", "one_hot", "ctr"}
  BY DEF OffDefault, Neutral, Sane
<1>2. CASE n \in {"rsm", "penalties", "random_strength", "one_hot"}
  <2>1. /\ o.grow_policy = "SymmetricTree" /\ ~PairwiseScoring(o) /\ o.columns # "ctr"
        /\ o.boosting_type # "Ordered"
    BY <1>2 DEF Unread, If, OffDefault, Neutral, Sane
  <2>2. n \in {"rsm", "random_strength"} => draws_active(o)
    BY DEF OffDefault, Neutral, Sane, draws_active
  <2> QED  BY <1>2, <2>1, <2>2 DEF HostStructure, search_perturbed, If
<1>3. CASE n \in {"model_size_reg", "ctr"}
  <2>1. o.grow_policy = "SymmetricTree" /\ ~PairwiseScoring(o) /\ o.columns = "ctr"
    BY <1>3 DEF Unread, If, OffDefault, Neutral, Sane
  <2> QED  BY <1>3, <2>1 DEF HostStructure, search_with_ctr
<1>4. CASE n = "langevin"
  <2>1. /\ Noisy(o) /\ o.langevin /\ o.boosting_type # "Ordered"
        /\ ~PairwiseScoring(o) /\ o.grow_policy = "SymmetricTree"
    BY <1>4 DEF Unread, If, OffDefault, Neutral, Sane, Noisy
  <2> QED  BY <1>4, <2>1 DEF HostStructure, search_with_ctr, search_perturbed, score_channels, If
<1>5. CASE n \in {"monotone_constraints", "leaf_estimation_iterations"}
  <2>1. ~PairwiseScoring(o) /\ o.loss # "MultiClass"
    BY <1>5 DEF Unread, If, OffDefault, Neutral, Sane, NewtonOnly, MultiClassLosses
  <2> QED  BY <1>5, <2>1 DEF HostLeaves
<1>6. CASE n = "weights"
  <2>1. ~uses_pairwise_weights(o) /\ ~PairwiseScoring(o)
    BY <1>6 DEF Unread, If, uses_pairwise_weights, PairwiseScoring
  <2>2. "weights" \in Weighted(o)
    BY <2>1 DEF Weighted
  <2> QED
    BY <1>6, <2>1, <2>2
    DEF HostStructure, region_grower, leaf_wise_grower, search_with_ctr, search_ordered,
        search_perturbed, score_channels
<1>7. CASE n = "groups"
  <2>1. o.loss \in GroupedLosses
    BY <1>7 DEF Unread, If
  <2>2. "groups" \in Weighted(o) /\ o.loss # "MultiClass"
    BY <2>1 DEF Weighted, If, GroupedLosses
  <2>3. CASE PairwiseScoring(o)
    BY <1>7, <2>2, <2>3 DEF HostLeaves, compute_pairwise_leaf_deltas
  <2>4. CASE ~PairwiseScoring(o)
    BY <1>7, <2>2, <2>4 DEF HostLeaves, compute_leaf_deltas
  <2> QED  BY <2>3, <2>4
<1>8. CASE n = "model_shrink_rate"
  BY <1>8
<1> QED  BY <1>1, <1>2, <1>3, <1>4, <1>5, <1>6, <1>7, <1>8

(* What the gate of the device lets through.                               *)
Offered(o) ==
  /\ o.loss \notin GroupedLosses \union MultiClassLosses
  /\ o.model_shrink_rate = 0 /\ o.leaf_estimation_iterations = 1
  /\ o.rsm = 10 /\ ~Noisy(o) /\ ~o.penalties /\ o.monotone_constraints = {}
  /\ o.random_strength = 0
  /\ o.leaf_method \in {"Gradient", "Simple"} \/ device_exact_leaf_config(o)

(* It is so.                                                               *)
LEMMA EligibleIsOffered ==
  ASSUME NEW o, Sane(o), device_host_eligible(o)
  PROVE  Offered(o) /\ OffDefault(o) \subseteq {"groups", "weights", "model_size_reg", "auto_learning_rate",
                                             o.columns}
<1>1. Offered(o)
  BY DEF Offered, device_host_eligible, Sane, Noisy
<1>2. OffDefault(o) \subseteq {"groups", "weights", "model_size_reg", "auto_learning_rate", o.columns}
  <2> SUFFICES ASSUME NEW n \in OffDefault(o), n # o.columns
               PROVE  n \in {"groups", "weights", "model_size_reg", "auto_learning_rate"}
    OBVIOUS
  <2>1. n \in DOMAIN Neutral /\ (IF n = "langevin" THEN Noisy(o) ELSE o[n] # Neutral[n])
    BY DEF OffDefault
  <2>2. n # "langevin" /\ n # "rsm"
    BY <1>1, <2>1 DEF Offered, Neutral
  <2>3. n \notin {"penalties", "random_strength", "monotone_constraints", "model_shrink_rate"}
    <3>1. n # "penalties"
      <4>1. o.penalties = FALSE
        BY <1>1, Zenon DEF Offered, Sane
      <4>2. Neutral.penalties = FALSE
        BY DEF Neutral
      <4> QED  BY <2>1, <4>1, <4>2
    <3>2. n # "random_strength"  BY <1>1, <2>1 DEF Offered, Neutral
    <3>3. n # "monotone_constraints"  BY <1>1, <2>1 DEF Offered, Neutral
    <3>4. n # "model_shrink_rate"  BY <1>1, <2>1 DEF Offered, Neutral
    <3> QED  BY <3>1, <3>2, <3>3, <3>4
  <2>4. n # "leaf_estimation_iterations"
    BY <1>1, <2>1 DEF Offered, Neutral
  <2>5. n \in {"rsm", "langevin", "monotone_constraints", "penalties", "random_strength",
               "model_shrink_rate", "leaf_estimation_iterations", "model_size_reg",
               "auto_learning_rate", "weights", "groups"}
    BY <2>1 DEF Neutral
  <2> QED  BY <2>2, <2>3, <2>4, <2>5
<1> QED  BY <1>1, <1>2

(* Scores of the two sides read the same channels.                         *)
LEMMA ChannelsAgree ==
  ASSUME NEW o, Offered(o)
  PROVE  /\ score_channels(o) = DeviceChannels(GpuTrainSession(o, device_config(o)))
         /\ Weighted(o) = {"weights"} /\ ~PairwiseScoring(o)
<1>1. Weighted(o) = {"weights"} /\ ~PairwiseScoring(o)
  BY DEF Offered, Weighted, GroupedLosses, uses_pairwise_weights, PairwiseScoring, If
<1>2. map_bootstrap_kernel(device_config(o)) = "none" <=> o.bootstrap_type = "No"
  BY DEF map_bootstrap_kernel, device_config
<1>3. GpuTrainSession(o, device_config(o)).sampler = map_bootstrap_kernel(device_config(o))
  BY DEF GpuTrainSession
<1>4. score_channels(o) = {"derivatives", "weights"} \union If(o.bootstrap_type # "No", {"sample"})
  BY <1>1 DEF score_channels, Offered, If
<1> QED  BY <1>1, <1>2, <1>3, <1>4 DEF DeviceChannels

(* A tree of the device reads what one of the host would.                  *)
Agree(part, o) ==
  Heard(grow_one(o, GpuTrainSession(o, device_config(o)))[part], o) \ Known(part, o)
    = Heard(HostTree(o)[part], o) \ Known(part, o)

(* Its sample, but for the weights of MVS.                                 *)
LEMMA SamplesAgree ==
  ASSUME NEW o, Offered(o)
  PROVE  Agree("sample", o)
<1>1. Weighted(o) = {"weights"}
  BY ChannelsAgree
<1>2. o.bootstrap_type = "Mvs" => Known("sample", o) = {"weights"}
  BY DEF Known, If
<1>3. HostSample(o) = bootstrap(o) \union If(o.bootstrap_type = "Mvs", {"weights"})
  BY <1>1 DEF HostSample
<1>4. grow_one(o, GpuTrainSession(o, device_config(o))).sample = bootstrap(o) /\ HostTree(o).sample = HostSample(o)
  BY DEF grow_one, HostTree
<1> QED  BY <1>2, <1>3, <1>4 DEF Agree, Heard, If

(* Its leaves.                                                             *)
LEMMA LeavesAgree ==
  ASSUME NEW o, Offered(o), Sane(o), NEW raw, begin(o, device_config(o), raw),
         OffDefault(o) \subseteq {"groups", "weights", "model_size_reg", "auto_learning_rate", o.columns}
  PROVE  Agree("leaves", o) /\ "sample" \notin DeviceLeaves(GpuTrainSession(o, device_config(o)))
<1> DEFINE c == device_config(o)
           s == GpuTrainSession(o, c)
<1>1. /\ Weighted(o) = {"weights"} /\ ~PairwiseScoring(o) /\ o.loss # "MultiClass"
  BY ChannelsAgree DEF Offered, MultiClassLosses
<1>2. grow_one(o, s).leaves = DeviceLeaves(s) /\ HostTree(o).leaves = HostLeaves(o)
  BY DEF grow_one, HostTree
<1>3. c.exact_leaf = device_exact_leaf_config(o) /\ (c.ctr <=> o.columns = "ctr")
  BY DEF device_config
<1>4. s.leaf_method = map_leaf_method(o, c) /\ s.ctr_search = c.ctr
  BY DEF GpuTrainSession
<1>5. HostLeaves(o) = If(o.columns = "ctr", {"permutation"}) \union compute_leaf_deltas(o)
                        \union {"leaf_estimation_iterations", "monotone_constraints"}
  BY <1>1 DEF HostLeaves
<1>6. {"leaf_estimation_iterations", "monotone_constraints"} \intersect (Always \union OffDefault(o)) = {}
  BY DEF Always, Sane
<1>7. CASE device_exact_leaf_config(o)
  <2>1. o.loss \in {"MAE", "Quantile"} /\ o.leaf_method = "Exact"
    BY <1>7 DEF device_exact_leaf_config
  <2>2. ~c.ctr
    BY <1>3, <1>7 DEF begin, FamilyCovered, ObliviousCovered, FamilyDefault, is_covered_regime, ctr_covered
  <2>3. DeviceLeaves(s) = {"exact", "weights"}
    BY <1>3, <1>4, <1>7, <2>1 DEF DeviceLeaves, map_leaf_method, compute_exact_leaf_values
  <2>4. HostLeaves(o) = {"exact", "weights"} \union {"leaf_estimation_iterations", "monotone_constraints"}
    BY <1>1, <1>3, <1>5, <2>1, <2>2 DEF compute_leaf_deltas, If
  <2> QED  BY <1>2, <1>6, <2>3, <2>4 DEF Agree, Heard
<1>8. CASE ~device_exact_leaf_config(o)
  <2>1. o.leaf_method \in {"Gradient", "Simple"} /\ ~Noisy(o)
    BY <1>8 DEF Offered
  <2>2. DeviceLeaves(s) = If(o.columns = "ctr", {"permutation"}) \union {"average", "weights", "l2_leaf_reg"}
    BY <1>3, <1>4, <1>8 DEF DeviceLeaves, map_leaf_method, gathered_leaf_values, If
  <2>3. compute_leaf_deltas(o) = {"average", "weights", "l2_leaf_reg"}
    BY <1>1, <2>1 DEF compute_leaf_deltas, If
  <2> QED  BY <1>2, <1>5, <1>6, <2>2, <2>3 DEF Agree, Heard, If
<1> QED  BY <1>7, <1>8

(* Its structure, but for what the device knows another way.               *)
LEMMA StructuresAgree ==
  ASSUME NEW o, Offered(o), Sane(o), NEW raw, begin(o, device_config(o), raw),
         OffDefault(o) \subseteq {"groups", "weights", "model_size_reg", "auto_learning_rate", o.columns}
  PROVE  Agree("structure", o)
<1> DEFINE c == device_config(o)
           s == GpuTrainSession(o, c)
<1>1. score_channels(o) = DeviceChannels(s) /\ ~PairwiseScoring(o)
  BY ChannelsAgree
<1>2. grow_one(o, s).structure = DeviceStructure(s) /\ HostTree(o).structure = HostStructure(o)
  BY DEF grow_one, HostTree
<1>3. /\ c.grow_policy = o.grow_policy /\ c.ordered = (o.boosting_type = "Ordered")
      /\ c.ctr = (o.columns = "ctr") /\ c.one_hot = (o.columns = "one_hot")
      /\ c.max_leaves = (o.grow_policy = "Lossguide")
  BY DEF device_config
<1>4. /\ s.ctr_search = c.ctr /\ s.one_hot = c.one_hot /\ s.max_leaves = c.max_leaves
      /\ s.grower = IF c.grow_policy = "Region" THEN "region"
                    ELSE IF c.grow_policy # "SymmetricTree" THEN "nonsym"
                    ELSE IF c.ordered THEN "ordered" ELSE "oblivious"
  BY DEF GpuTrainSession
<1>5. "model_size_reg" \in Known("structure", o)
  BY DEF Known
<1>6. o.grow_policy # "SymmetricTree" \/ o.boosting_type = "Ordered" => "one_hot" \in Known("structure", o)
  BY DEF Known, If
<1>7. {"penalties", "rsm", "random_strength"} \intersect (Always \union OffDefault(o)) = {}
  BY DEF Always, Sane
<1>8. o.columns # "ctr" => "ctr" \notin Always \union OffDefault(o)
  BY DEF Always
<1>9. o.columns # "one_hot" => "one_hot" \notin Always \union OffDefault(o)
  BY DEF Always
<1> HIDE DEF c, s
<1>10. CASE o.grow_policy = "Region"
  <2>1. HostStructure(o) = score_channels(o)
                             \union {"l2_leaf_reg", "depth", "min_data_in_leaf", "score_function"}
    BY <1>10 DEF HostStructure, region_grower
  <2>2. DeviceStructure(s) = HostStructure(o) \union If(s.one_hot, {"one_hot"})
    BY <1>1, <1>3, <1>4, <1>10, <2>1 DEF DeviceStructure, grow_region_tree
  <2> QED  BY <1>2, <1>6, <1>10, <2>2 DEF Agree, Heard, If, s, c
<1>11. CASE o.grow_policy \notin {"Region", "SymmetricTree"}
  <2>1. HostStructure(o) = score_channels(o) \union If(o.grow_policy = "Lossguide", {"max_leaves"})
                             \union {"l2_leaf_reg", "depth", "min_data_in_leaf", "score_function"}
    BY <1>11 DEF HostStructure, leaf_wise_grower
  <2>2. DeviceStructure(s) = HostStructure(o) \union If(s.one_hot, {"one_hot"})
    BY <1>1, <1>3, <1>4, <1>11, <2>1 DEF DeviceStructure, grow_nonsym_tree
  <2> QED  BY <1>2, <1>6, <1>11, <2>2 DEF Agree, Heard, If, s, c
<1>12. CASE o.grow_policy = "SymmetricTree" /\ o.boosting_type = "Ordered"
  <2>1. ~c.ctr
    BY <1>12 DEF begin, map_ordered_coverage, FamilyDefault, c
  <2>2. HostStructure(o) = {"derivatives", "weights", "permutation", "fold_len_multiplier",
                            "l2_leaf_reg", "depth"}
    BY <1>1, <1>3, <1>12, <2>1 DEF HostStructure, search_ordered
  <2>3. DeviceStructure(s) = HostStructure(o) \union If(s.one_hot, {"one_hot"})
    BY <1>3, <1>4, <1>12, <2>2 DEF DeviceStructure, grow_oblivious_tree_ordered_resident
  <2> QED  BY <1>2, <1>6, <1>12, <2>3 DEF Agree, Heard, If, s, c
<1>13. CASE o.grow_policy = "SymmetricTree" /\ o.boosting_type # "Ordered"
  <2> DEFINE common == score_channels(o) \union {"l2_leaf_reg", "depth", "score_function"}
  <2>1. DeviceStructure(s) = common \union If(o.columns = "one_hot", {"one_hot"})
                               \union If(o.columns = "ctr", {"ctr", "permutation"})
    BY <1>1, <1>3, <1>4, <1>13 DEF DeviceStructure, grow_oblivious_tree_resident
  <2>2. CASE o.columns = "ctr"
    <3>1. HostStructure(o) = common \union {"ctr", "permutation", "model_size_reg"}
      BY <1>1, <1>13, <2>2 DEF HostStructure, search_with_ctr
    <3> HIDE DEF common
    <3>2. DeviceStructure(s) = common \union {"ctr", "permutation"}
      BY <2>1, <2>2 DEF If
    <3> QED  BY <1>2, <1>5, <3>1, <3>2 DEF Agree, Heard, s, c
  <2>3. CASE o.columns # "ctr"
    <3>1. HostStructure(o) = common \union {"one_hot", "penalties"}
                               \union If(draws_active(o), {"random_strength", "rsm"})
      BY <1>1, <1>13, <2>3 DEF HostStructure, search_perturbed
    <3> HIDE DEF common
    <3>2. DeviceStructure(s) = common \union If(o.columns = "one_hot", {"one_hot"})
      BY <2>1, <2>3 DEF If
    <3> QED  BY <1>2, <1>7, <1>9, <3>1, <3>2 DEF Agree, Heard, If, s, c
  <2> QED  BY <2>2, <2>3
<1> QED  BY <1>10, <1>11, <1>12, <1>13

(* A tree of the device, all in all.                                       *)
Device(o) == grow_one(o, GpuTrainSession(o, device_config(o)))

LEMMA DeviceAgrees ==
  ASSUME NEW o, Sane(o), device_host_eligible(o), NEW raw, begin(o, device_config(o), raw)
  PROVE  /\ \A part \in {"sample", "structure", "leaves", "after"} : Agree(part, o)
         /\ Device(o).der = HostTree(o).der /\ Device(o).rate = HostTree(o).rate
         /\ "sample" \notin Device(o).leaves /\ Device(o).by = "device"
         /\ OffDefault(o) \ (Unread(o) \union {"floats", "auto_learning_rate", "model_size_reg"})
              \subseteq Device(o).structure \union Device(o).leaves \union Device(o).after
<1> DEFINE c == device_config(o)
           s == GpuTrainSession(o, c)
<1>1. Offered(o) /\ OffDefault(o) \subseteq {"groups", "weights", "model_size_reg", "auto_learning_rate", o.columns}
  BY EligibleIsOffered
<1>2. Agree("sample", o) /\ Agree("structure", o) /\ Agree("leaves", o) /\ "sample" \notin DeviceLeaves(s)
  BY <1>1, SamplesAgree, StructuresAgree, LeavesAgree
<1>3. Agree("after", o)
  <2>1. Device(o).after = {} /\ HostTree(o).after = {"model_shrink_rate"}
    BY DEF Device, grow_one, HostTree
  <2>2. "model_shrink_rate" \notin Always \union OffDefault(o)
    BY <1>1 DEF Always, Sane
  <2> QED  BY <2>1, <2>2 DEF Agree, Heard, Device
<1>4. /\ Device(o).der = resident_der1(o, c) /\ Device(o).rate = rate(o)
      /\ Device(o).structure = DeviceStructure(s) /\ Device(o).leaves = DeviceLeaves(s)
      /\ Device(o).by = "device"
      /\ HostTree(o).der = compute_gradients(o) /\ HostTree(o).rate = rate(o)
      /\ HostTree(o).structure = HostStructure(o)
  BY DEF Device, grow_one, HostTree, GpuTrainSession
<1>5. resident_der1(o, c) = compute_gradients(o)
  <2>1. CASE device_exact_leaf_config(o)
    BY <2>1 DEF resident_der1, compute_gradients, device_config, device_exact_leaf_config
  <2>2. CASE ~device_exact_leaf_config(o)
    <3>1. resident_der1(o, c) = map_der_kernel(o.loss) /\ map_der_kernel(o.loss) # "none"
      BY <2>2 DEF resident_der1, device_config, begin
    <3>2. o.loss \notin {"MAE", "Quantile"}
      BY <3>1 DEF map_der_kernel
    <3> QED  BY <3>1, <3>2 DEF compute_gradients
  <2> QED  BY <2>1, <2>2
<1>6. ASSUME NEW n \in OffDefault(o), n \notin Unread(o),
             n \notin {"floats", "auto_learning_rate", "model_size_reg"}
      PROVE  n \in DeviceStructure(s)
  <2>1. n \in {"groups", "weights", "one_hot", "ctr"} /\ n # "groups"
    BY <1>1, <1>6 DEF Offered, Unread, If, Sane
  <2>2. n \in Heard(HostStructure(o), o) \ Known("structure", o)
    <3>1. CASE n = "weights"
      <4>1. Weighted(o) = {"weights"} /\ ~PairwiseScoring(o)
        BY <1>1, ChannelsAgree
      <4> QED
        BY <3>1, <4>1, <1>6
        DEF Heard, Known, If, HostStructure, region_grower, leaf_wise_grower, search_with_ctr,
            search_ordered, search_perturbed, score_channels
    <3>2. CASE n = "one_hot"
      <4>1. o.grow_policy = "SymmetricTree" /\ o.boosting_type # "Ordered" /\ o.columns # "ctr"
            /\ ~PairwiseScoring(o)
        BY <1>1, <1>6, <3>2 DEF Unread, If, OffDefault, Neutral, Sane
      <4> QED  BY <3>2, <4>1, <1>6 DEF Heard, Known, If, HostStructure, search_perturbed
    <3>3. CASE n = "ctr"
      <4>1. o.grow_policy = "SymmetricTree" /\ o.columns = "ctr" /\ ~PairwiseScoring(o)
        BY <1>1, <1>6, <3>3 DEF Unread, If, OffDefault, Neutral, Sane
      <4> QED  BY <3>3, <4>1, <1>6 DEF Heard, Known, If, HostStructure, search_with_ctr
    <3> QED  BY <2>1, <3>1, <3>2, <3>3
  <2> QED  BY <1>2, <1>4, <2>2 DEF Agree, Heard, Device
<1> QED  BY <1>2, <1>3, <1>4, <1>5, <1>6

(* The host reads its sample nowhere but in the structure.                 *)
LEMMA HostLeavesAreWhole ==
  ASSUME NEW o
  PROVE  "sample" \notin HostLeaves(o)
BY DEF HostLeaves, compute_leaf_deltas, compute_pairwise_leaf_deltas, compute_softmax_leaf_deltas,
       Weighted, If

(* Where a fit stands, by the stage it is in.                              *)
Admitted == Admissible(Entered(wish)) /\ options = posterior(Entered(wish))
OptionsInv ==
  /\ stage # "idle" => wish \in Wishes
  /\ stage = "entered" => options = Entered(wish)
  /\ stage \in {"admitted", "declined", "host", "open", "grown"} => Admitted
  /\ stage \in {"declined", "open"} => device_host_eligible(options)
  /\ stage = "open" =>
       /\ \E raw \in BOOLEAN : begin(options, device_config(options), raw)
       /\ session = GpuTrainSession(options, device_config(options))
  /\ stage = "grown" =>
       \/ grown = HostTree(options)
       \/ /\ grown = Device(options) /\ device_host_eligible(options)
          /\ \E raw \in BOOLEAN : begin(options, device_config(options), raw)

(* Every step of a fit keeps it.                                           *)
LEMMA OptionsStep ==
  ASSUME OptionsInv, OptionsNext
  PROVE  OptionsInv'
<1>1. CASE Ask
  BY <1>1 DEF Ask, OptionsInv
<1>2. CASE Enter
  BY <1>2 DEF Enter, OptionsInv
<1>3. CASE Admit
  BY <1>3 DEF Admit, OptionsInv, Admitted
<1>4. CASE Refuse
  <2>1. stage # "idle"
    BY <1>4 DEF Refuse
  <2> QED  BY <1>4, <2>1 DEF Refuse, OptionsInv
<1>5. ASSUME NEW raw \in BOOLEAN, NEW declined \in {"declined", "host"}, Offer(raw, declined),
             Admitted, device_host_eligible(options), stage # "idle"
      PROVE  OptionsInv'
  BY <1>5 DEF Offer, OptionsInv, Admitted
<1>6. CASE OfferRaw
  <2>1. Admitted /\ device_host_eligible(options) /\ Offer(TRUE, "declined") /\ stage # "idle"
    BY <1>6 DEF OfferRaw, OptionsInv, raw_device_channel
  <2> QED  BY <1>5, <2>1
<1>7. CASE OfferBins
  <2>1. Admitted /\ device_host_eligible(options) /\ Offer(FALSE, "host") /\ stage # "idle"
    BY <1>7 DEF OfferBins, OptionsInv
  <2> QED  BY <1>5, <2>1
<1>8. CASE StayOnHost
  BY <1>8 DEF StayOnHost, OptionsInv, Admitted
<1>9. CASE GrowOnDevice
  BY <1>9 DEF GrowOnDevice, OptionsInv, Admitted, Device
<1>10. CASE GrowOnHost
  BY <1>10 DEF GrowOnHost, OptionsInv, Admitted
<1> QED  BY <1>1, <1>2, <1>3, <1>4, <1>6, <1>7, <1>8, <1>9, <1>10 DEF OptionsNext

(* A tree that was grown heard what was accepted.                          *)
LEMMA GrownHeard ==
  ASSUME OptionsInv
  PROVE  AcceptedIsHeard
<1> SUFFICES ASSUME stage = "grown" PROVE AcceptedIsHeard
  BY DEF AcceptedIsHeard
<1>1. Sane(options) /\ AsPassed(options, wish)
  BY AdmittedIsSane DEF OptionsInv, Admitted
<1>2. CASE grown = HostTree(options)
  <2>1. /\ grown.by = "host" /\ grown.structure = HostStructure(options)
        /\ grown.leaves = HostLeaves(options) /\ grown.after = {"model_shrink_rate"}
    BY <1>2 DEF HostTree
  <2>2. OffDefault(options) \ (Unread(options) \union {"floats", "auto_learning_rate"})
          \subseteq grown.structure \union grown.leaves \union grown.after
    BY <1>1, <2>1, HostReadsAll
  <2> QED  BY <1>1, <1>2, <2>1, <2>2, HostLeavesAreWhole DEF AcceptedIsHeard, AsPassed, If
<1>3. CASE /\ grown = Device(options) /\ device_host_eligible(options)
           /\ \E raw \in BOOLEAN : begin(options, device_config(options), raw)
  <2>1. /\ \A part \in {"sample", "structure", "leaves", "after"} : Agree(part, options)
        /\ grown.der = HostTree(options).der /\ grown.rate = HostTree(options).rate
        /\ "sample" \notin grown.leaves /\ grown.by = "device"
        /\ OffDefault(options) \ (Unread(options) \union {"floats", "auto_learning_rate", "model_size_reg"})
              \subseteq grown.structure \union grown.leaves \union grown.after
    BY <1>1, <1>3, DeviceAgrees
  <2>2. OnDeviceAsOnHost
    BY <1>3, <2>1 DEF OnDeviceAsOnHost, Agree, Device
  <2> QED  BY <1>1, <2>1, <2>2 DEF AcceptedIsHeard, AsPassed, If
<1> QED  BY <1>2, <1>3 DEF OptionsInv

(* What a fit accepts, whoever grows its trees hears: every option that is *)
(* off its default, the weights, the evaluation sets and the columns as    *)
(* they were passed, and the device what the host would have heard.        *)
THEOREM EveryOptionIsHeard == Spec => []AcceptedIsHeard
<1>1. Init => OptionsInv
  BY DEF Init, OptionsInit, OptionsInv
<1>2. [Next]_vars => OptionsNext \/ UNCHANGED ovars
  BY DEF Next, Returned, vars, ovars
<1>3. OptionsInv /\ UNCHANGED ovars => OptionsInv'
  BY DEF OptionsInv, Admitted, ovars
<1>4. OptionsInv /\ [Next]_vars => OptionsInv'
  BY <1>2, <1>3, OptionsStep
<1>5. OptionsInv => AcceptedIsHeard
  BY GrownHeard
<1> QED  BY <1>1, <1>4, <1>5, PTL DEF Spec

-----------------------------------------------------------------------------
(* Estimators. *)

(* What a caller has said, in the order of saying it, has left these       *)
(* parameters: each is the last word under its spelling.                   *)
LastIn(words, s, k) ==
  /\ k \in 1 .. Len(words) /\ s \in DOMAIN words[k]
  /\ \A j \in k + 1 .. Len(words) : s \notin DOMAIN words[j]
Speaks(words, params) ==
  /\ words \in Seq(UNION {{s.kwargs} \union s.settings : s \in Sessions})
  /\ \A k \in 1 .. Len(words) : DOMAIN words[k] \subseteq DOMAIN params
  /\ \A s \in DOMAIN params : \E k \in 1 .. Len(words) : LastIn(words, s, k) /\ params[s] = words[k][s]

(* One more dictionary is taken over those before it.                      *)
LEMMA SaidOver ==
  ASSUME NEW words, NEW params, Speaks(words, params), NEW request \in Sessions,
         NEW given \in {request.kwargs} \union request.settings
  PROVE  Speaks(Append(words, given), Over(given, params))
<1> DEFINE more == Append(words, given)
           over == Over(given, params)
           All == UNION {{s.kwargs} \union s.settings : s \in Sessions}
<1>1. words \in Seq(All) /\ given \in All
  BY DEF Speaks
<1> HIDE DEF All
<1>2. /\ more \in Seq(All) /\ Len(words) \in Nat /\ Len(more) = Len(words) + 1
      /\ more[Len(words) + 1] = given
      /\ \A k \in 1 .. Len(words) : more[k] = words[k]
  BY <1>1
<1>3. /\ DOMAIN over = DOMAIN given \union DOMAIN params
      /\ \A s \in DOMAIN given : over[s] = given[s]
      /\ \A s \in DOMAIN params : s \notin DOMAIN given => over[s] = params[s]
  BY DEF Over
<1> HIDE DEF more, over
<1>4. ASSUME NEW k \in 1 .. Len(more) PROVE DOMAIN more[k] \subseteq DOMAIN over
  <2>1. CASE k = Len(words) + 1
    BY <1>2, <1>3, <2>1
  <2>2. CASE k # Len(words) + 1
    <3>1. k \in 1 .. Len(words)
      BY <1>2, <2>2
    <3> QED  BY <1>2, <1>3, <3>1 DEF Speaks
  <2> QED  BY <2>1, <2>2
<1>5. ASSUME NEW s \in DOMAIN over
      PROVE  \E k \in 1 .. Len(more) : LastIn(more, s, k) /\ over[s] = more[k][s]
  <2>1. CASE s \in DOMAIN given
    <3>1. LastIn(more, s, Len(words) + 1)
      BY <1>2, <2>1 DEF LastIn
    <3> QED  BY <1>2, <1>3, <2>1, <3>1
  <2>2. CASE s \notin DOMAIN given
    <3>1. PICK k \in 1 .. Len(words) : LastIn(words, s, k) /\ params[s] = words[k][s]
      BY <1>3, <2>2 DEF Speaks
    <3>2. ASSUME NEW j \in k + 1 .. Len(more) PROVE s \notin DOMAIN more[j]
      <4>1. CASE j = Len(words) + 1
        BY <1>2, <2>2, <4>1
      <4>2. CASE j # Len(words) + 1
        <5>1. j \in k + 1 .. Len(words) /\ j \in 1 .. Len(words)
          BY <1>2, <4>2
        <5> QED  BY <1>2, <3>1, <5>1 DEF LastIn
      <4> QED  BY <4>1, <4>2
    <3>3. LastIn(more, s, k)
      BY <1>2, <3>1, <3>2 DEF LastIn
    <3>4. over[s] = more[k][s]
      BY <1>2, <1>3, <2>2, <3>1
    <3>5. k \in 1 .. Len(more)
      BY <1>2
    <3> QED  BY <3>3, <3>4, <3>5
  <2> QED  BY <2>1, <2>2
<1>6. more \in Seq(UNION {{s.kwargs} \union s.settings : s \in Sessions})
  BY <1>2 DEF All
<1> QED  BY <1>4, <1>5, <1>6 DEF Speaks, more, over

(* A caller who has said nothing has left no parameters, and one who has   *)
(* made an object has left those it was made with.                         *)
LEMMA FirstWords ==
  /\ Speaks(<<>>, [x \in {} |-> Nil])
  /\ \A s \in Sessions : Speaks(<<s.kwargs>>, s.kwargs)
<1>1. Speaks(<<>>, [x \in {} |-> Nil])
  BY DEF Speaks
<1>2. ASSUME NEW s \in Sessions PROVE Speaks(<<s.kwargs>>, s.kwargs)
  <2>1. <<s.kwargs>> \in Seq(UNION {{t.kwargs} \union t.settings : t \in Sessions})
    OBVIOUS
  <2> DEFINE words == <<s.kwargs>>
  <2>2. Len(words) = 1 /\ words[1] = s.kwargs
    OBVIOUS
  <2> HIDE DEF words
  <2>3. ASSUME NEW k \in 1 .. Len(words) PROVE k = 1
    BY <2>2
  <2>4. ASSUME NEW p \in DOMAIN s.kwargs PROVE LastIn(words, p, 1)
    BY <2>2 DEF LastIn
  <2> QED  BY <2>1, <2>2, <2>3, <2>4 DEF Speaks, words
<1> QED  BY <1>1, <1>2

(* What is found under a spelling is the last word under it.               *)
LEMMA LastWordIsFound ==
  ASSUME NEW words, NEW params, Speaks(words, params), NEW s \in DOMAIN params
  PROVE  LastWord(words, s) = params[s]
<1>1. PICK k \in 1 .. Len(words) : LastIn(words, s, k) /\ params[s] = words[k][s]
  BY DEF Speaks
<1>2. Len(words) \in Nat /\ DOMAIN words = 1 .. Len(words)
  BY DEF Speaks
<1>3. ASSUME NEW i, LastIn(words, s, i) PROVE i = k
  <2>1. i \in 1 .. Len(words) /\ ~(i < k) /\ ~(k < i)
    BY <1>1, <1>2, <1>3 DEF LastIn
  <2> QED  BY <1>2, <2>1
<1>4. LastUse(words, s) = k
  BY <1>1, <1>2, <1>3 DEF LastUse, LastIn
<1> QED  BY <1>1, <1>4 DEF LastWord

(* Short lists.                                                            *)
LEMMA ShortLists ==
  /\ \A S : <<>> \in Seq(S)
  /\ \A S : \A a \in S : <<a>> \in Seq(S) /\ Len(<<a>>) = 1 /\ <<a>>[1] = a
  /\ \A S : \A a, b, c \in S : <<a, b, c>> \in Seq(S)
  /\ \A S : \A a \in S, t \in Seq(S) :
       /\ <<a>> \o t \in Seq(S) /\ Len(<<a>> \o t) = 1 + Len(t) /\ (<<a>> \o t)[1] = a
  /\ \A S : \A a, b \in S : Range(<<a>> \o <<b>>) = {a, b}
<1>1. \A S : <<>> \in Seq(S)
  OBVIOUS
<1>2. ASSUME NEW S, NEW a \in S PROVE <<a>> \in Seq(S) /\ Len(<<a>>) = 1 /\ <<a>>[1] = a
  OBVIOUS
<1>3. ASSUME NEW S, NEW a \in S, NEW b \in S, NEW c \in S PROVE <<a, b, c>> \in Seq(S)
  OBVIOUS
<1>4. ASSUME NEW S, NEW a \in S, NEW t \in Seq(S)
      PROVE  <<a>> \o t \in Seq(S) /\ Len(<<a>> \o t) = 1 + Len(t) /\ (<<a>> \o t)[1] = a
  <2> DEFINE one == <<a>>
  <2>1. one \in Seq(S) /\ Len(one) = 1 /\ one[1] = a
    OBVIOUS
  <2> HIDE DEF one
  <2>2. one \o t \in Seq(S) /\ Len(one \o t) = 1 + Len(t) /\ (one \o t)[1] = one[1]
    <3>1. \A i \in 1 .. Len(one) + Len(t) : (one \o t)[i] = IF i <= Len(one) THEN one[i] ELSE t[i - Len(one)]
      BY <2>1, ConcatProperties
    <3>2. one \o t \in Seq(S) /\ Len(one \o t) = Len(one) + Len(t)
      BY <2>1, ConcatProperties
    <3>3. Len(t) \in Nat
      OBVIOUS
    <3> QED  BY <2>1, <3>1, <3>2, <3>3
  <2> QED  BY <2>1, <2>2 DEF one
<1>5. ASSUME NEW S, NEW a \in S, NEW b \in S PROVE Range(<<a>> \o <<b>>) = {a, b}
  <2> DEFINE one == <<a>>
             other == <<b>>
  <2>1. one \in Seq(S) /\ Len(one) = 1 /\ one[1] = a /\ other \in Seq(S) /\ Len(other) = 1 /\ other[1] = b
    OBVIOUS
  <2> HIDE DEF one, other
  <2>2. one \o other \in Seq(S) /\ Len(one \o other) = Len(one) + Len(other)
    BY <2>1, ConcatProperties
  <2>3. \A i \in 1 .. Len(one) + Len(other) :
          (one \o other)[i] = IF i <= Len(one) THEN one[i] ELSE other[i - Len(one)]
    BY <2>1, ConcatProperties
  <2>4. DOMAIN (one \o other) = 1 .. 2 /\ (one \o other)[1] = a /\ (one \o other)[2] = b
    BY <2>1, <2>2, <2>3
  <2>5. Range(one \o other) = {a, b}
    BY <2>4 DEF Range
  <2> QED  BY <2>5 DEF one, other
<1> QED  BY <1>1, <1>2, <1>3, <1>4, <1>5

(* The other spellings of a name are a list.                               *)
OtherSpellings == UNION {Range(ALIASES[c]) : c \in DOMAIN ALIASES}
LEMMA AliasesAreLists ==
  ASSUME NEW c \in DOMAIN ALIASES
  PROVE  ALIASES[c] \in Seq(OtherSpellings)
<1>1. c \in {"depth", "iterations", "random_seed", "l2_leaf_reg", "loss_function", "learning_rate",
            "border_count", "rsm", "max_leaves", "min_data_in_leaf"}
  BY DEF ALIASES
<1>2. ASSUME NEW a, ALIASES[c] = <<a>> PROVE ALIASES[c] \in Seq(OtherSpellings)
  <2>1. a \in Range(ALIASES[c])
    BY <1>2 DEF Range
  <2> QED  BY <1>2, <2>1, ShortLists DEF OtherSpellings
<1>3. ASSUME NEW a, NEW b, NEW d, ALIASES[c] = <<a, b, d>> PROVE ALIASES[c] \in Seq(OtherSpellings)
  <2>1. {a, b, d} \subseteq Range(ALIASES[c])
    BY <1>3 DEF Range
  <2> QED  BY <1>3, <2>1, ShortLists DEF OtherSpellings
<1>4. CASE c = "depth"
  <2>1. ALIASES[c] = <<"max_depth">>
    BY <1>4 DEF ALIASES
  <2> QED  BY <2>1, <1>2
<1>5. CASE c = "iterations"
  <2>1. ALIASES[c] = <<"n_estimators", "num_trees", "num_boost_round">>
    BY <1>5 DEF ALIASES
  <2> QED  BY <2>1, <1>3
<1>6. CASE c = "random_seed"
  <2>1. ALIASES[c] = <<"random_state">>
    BY <1>6 DEF ALIASES
  <2> QED  BY <2>1, <1>2
<1>7. CASE c = "l2_leaf_reg"
  <2>1. ALIASES[c] = <<"reg_lambda">>
    BY <1>7 DEF ALIASES
  <2> QED  BY <2>1, <1>2
<1>8. CASE c = "loss_function"
  <2>1. ALIASES[c] = <<"objective">>
    BY <1>8 DEF ALIASES
  <2> QED  BY <2>1, <1>2
<1>9. CASE c = "learning_rate"
  <2>1. ALIASES[c] = <<"eta">>
    BY <1>9 DEF ALIASES
  <2> QED  BY <2>1, <1>2
<1>10. CASE c = "border_count"
  <2>1. ALIASES[c] = <<"max_bin">>
    BY <1>10 DEF ALIASES
  <2> QED  BY <2>1, <1>2
<1>11. CASE c = "rsm"
  <2>1. ALIASES[c] = <<"colsample_bylevel">>
    BY <1>11 DEF ALIASES
  <2> QED  BY <2>1, <1>2
<1>12. CASE c = "max_leaves"
  <2>1. ALIASES[c] = <<"num_leaves">>
    BY <1>12 DEF ALIASES
  <2> QED  BY <2>1, <1>2
<1>13. CASE c = "min_data_in_leaf"
  <2>1. ALIASES[c] = <<"min_child_samples">>
    BY <1>13 DEF ALIASES
  <2> QED  BY <2>1, <1>2
<1> QED  BY <1>1, <1>4, <1>5, <1>6, <1>7, <1>8, <1>9, <1>10, <1>11, <1>12, <1>13

(* A name has some spellings, itself first.                                *)
LEMMA SpellingsAreSome ==
  ASSUME NEW name
  PROVE  /\ Len(Spellings(name)) \in Nat /\ DOMAIN Spellings(name) = 1 .. Len(Spellings(name))
         /\ name \in Range(Spellings(name))
         /\ IsFiniteSet(Range(Spellings(name)))
<1> DEFINE sp == Spellings(name)
           All == {name} \union OtherSpellings
<1>1. \A t \in Seq(OtherSpellings) : t \in Seq(All)
  OBVIOUS
<1>2. sp \in Seq(All) /\ Len(sp) >= 1 /\ sp[1] = name
  <2>1. PICK t \in Seq(All) : sp = <<name>> \o t
    <3>1. CASE name \in DOMAIN ALIASES
      BY <1>1, <3>1, AliasesAreLists DEF Spellings
    <3>2. CASE name \notin DOMAIN ALIASES
      BY <3>2, ShortLists DEF Spellings
    <3> QED  BY <3>1, <3>2
  <2>2. name \in All
    OBVIOUS
  <2> HIDE DEF sp, All
  <2>3. sp \in Seq(All) /\ Len(sp) = 1 + Len(t) /\ sp[1] = name
    BY <2>1, <2>2, ShortLists
  <2> QED  BY <2>1, <2>3
<1> HIDE DEF sp
<1>3. Len(sp) \in Nat /\ DOMAIN sp = 1 .. Len(sp)
  BY <1>2
<1>4. name \in Range(sp)
  <2>1. 1 \in DOMAIN sp /\ sp[1] = name
    BY <1>2, <1>3
  <2> QED  BY <2>1 DEF Range
<1>5. sp \in Surjection(1 .. Len(sp), Range(sp))
  BY <1>2, <1>3 DEF Surjection, Range
<1>6. IsFiniteSet(1 .. Len(sp))
  BY <1>3, FS_Interval
<1>7. IsFiniteSet(Range(sp))
  BY <1>5, <1>6, FS_Surjection
<1> QED  BY <1>3, <1>4, <1>7 DEF sp

(* What a name that was given under no spelling, or one, is found to be.   *)
LEMMA OneSpellingIsFound ==
  ASSUME NEW params, NEW name
  PROVE  /\ Range(Spellings(name)) \intersect DOMAIN params = {} => get_with_aliases(params, name) = Nil
         /\ \A s : Range(Spellings(name)) \intersect DOMAIN params = {s} =>
                     get_with_aliases(params, name) = params[s]
<1> DEFINE sp == Spellings(name)
<1> DEFINE given == {k \in DOMAIN sp : sp[k] \in DOMAIN params /\ params[sp[k]] # Nil}
<1>1. DOMAIN sp = 1 .. Len(sp) /\ Len(sp) \in Nat
  BY SpellingsAreSome
<1>2. get_with_aliases(params, name) =
        IF given = {} THEN Nil ELSE params[sp[CHOOSE k \in given : \A j \in given : k <= j]]
  BY DEF get_with_aliases
<1>3. \A k \in given : sp[k] \in Range(sp) \intersect DOMAIN params /\ params[sp[k]] # Nil
  BY DEF Range
<1>4. Range(sp) \intersect DOMAIN params = {} => given = {}
  BY <1>3
<1>5. ASSUME NEW s, Range(sp) \intersect DOMAIN params = {s}
      PROVE  get_with_aliases(params, name) = params[s]
  <2>1. \A k \in given : sp[k] = s
    BY <1>3, <1>5
  <2>2. CASE given = {}
    <3>1. PICK k \in DOMAIN sp : sp[k] = s
      BY <1>5 DEF Range
    <3>2. params[s] = Nil
      BY <1>5, <2>2, <3>1
    <3> QED  BY <1>2, <2>2, <3>2
  <2>3. CASE given # {}
    <3>1. given \in SUBSET Nat
      <4> HIDE DEF sp
      <4> QED  BY <1>1
    <3>2. \E k \in given : \A j \in given : k <= j
      <4> HIDE DEF given
      <4> QED  BY <2>3, <3>1, LeastElement
    <3>3. (CHOOSE k \in given : \A j \in given : k <= j) \in given
      <4> HIDE DEF given
      <4> QED  BY <3>2
    <3> HIDE DEF given
    <3> QED  BY <1>2, <2>1, <2>3, <3>3
  <2> QED  BY <2>2, <2>3
<1> QED  BY <1>2, <1>4, <1>5

(* Every name that is implemented is asked for, by make_builder or another.*)
LEMMA EveryNameIsRead == (IMPLEMENTED \ Elsewhere) \subseteq Read
BY DEF IMPLEMENTED, Elsewhere, Read, Numbers, Words, Flags, Lists

(* What a name is trained as, unless another option sets it.               *)
LEMMA OptionsAreTold ==
  ASSUME NEW kind, NEW params, NEW name \in Read \ Shared
  PROVE  LET v == get_with_aliases(params, name)
             unsaid == name = "loss_function" /\ "loss_function" \in DOMAIN ClassifierLoss(kind, params)
         IN  /\ name \in DOMAIN Builder(kind, params) <=> (v # Nil \/ unsaid)
             /\ (v # Nil /\ ~unsaid) => Builder(kind, params)[name] = Told(name, v)
             /\ unsaid => /\ Builder(kind, params)[name] = Logloss
                          /\ {"loss_function", "objective"} \intersect DOMAIN params = {}
<1> DEFINE v == get_with_aliases(params, name)
           heard == {n \in Read : get_with_aliases(params, n) # Nil}
           told == [n \in heard |-> Told(n, get_with_aliases(params, n))]
           loss == ClassifierLoss(kind, params)
<1>1. name \notin DOMAIN NoCombinations(params) /\ name \notin DOMAIN Shorthand(params)
  BY DEF NoCombinations, Shorthand, Shared
<1>2. (name \in DOMAIN told <=> v # Nil) /\ (v # Nil => told[name] = Told(name, v))
  OBVIOUS
<1>3. /\ name \in DOMAIN make_builder(params) <=> name \in DOMAIN told
      /\ name \in DOMAIN told => make_builder(params)[name] = told[name]
  <2> HIDE DEF told
  <2>1. make_builder(params) = Over(NoCombinations(params), Over(Shorthand(params), told))
    BY DEF make_builder, told
  <2> QED  BY <1>1, <2>1 DEF Over
<1>4. /\ DOMAIN loss \subseteq {"loss_function"}
      /\ "loss_function" \in DOMAIN loss =>
           loss["loss_function"] = Logloss /\ {"loss_function", "objective"} \intersect DOMAIN params = {}
  BY DEF ClassifierLoss
<1> HIDE DEF v, told, loss
<1>5. /\ name \in DOMAIN Builder(kind, params) <=> name \in DOMAIN loss \/ name \in DOMAIN make_builder(params)
      /\ name \in DOMAIN loss => Builder(kind, params)[name] = loss[name]
      /\ (name \notin DOMAIN loss /\ name \in DOMAIN make_builder(params)) =>
            Builder(kind, params)[name] = make_builder(params)[name]
  BY DEF Builder, Over, loss
<1> QED  BY <1>2, <1>3, <1>4, <1>5 DEF v, loss

(* What has been said last is trained.                                     *)
LEMMA TrainedIsSaid ==
  ASSUME NEW words, NEW kind, NEW params, Speaks(words, params)
  PROVE  LastWordIsTrained(words, Builder(kind, params))
<1> SUFFICES ASSUME NEW name \in (IMPLEMENTED \ Elsewhere) \ Shared
             PROVE  CASE Uses(words, name) = {} ->
                           name \in DOMAIN Builder(kind, params) =>
                             (name = "loss_function" /\ Builder(kind, params)[name] = Logloss)
                      [] Cardinality(Uses(words, name)) = 1 ->
                           \A s \in Uses(words, name) :
                             IF LastWord(words, s) = Nil THEN name \notin DOMAIN Builder(kind, params)
                             ELSE /\ name \in DOMAIN Builder(kind, params)
                                  /\ Builder(kind, params)[name] = Told(name, LastWord(words, s))
                      [] OTHER -> TRUE
  BY DEF LastWordIsTrained
<1>1. name \in Read \ Shared
  BY EveryNameIsRead
<1>2. DOMAIN words = 1 .. Len(words)
  BY DEF Speaks
<1>3. Uses(words, name) = Range(Spellings(name)) \intersect DOMAIN params
  <2>1. ASSUME NEW s \in Range(Spellings(name))
        PROVE  (\E k \in DOMAIN words : s \in DOMAIN words[k]) <=> s \in DOMAIN params
    BY <1>2 DEF Speaks, LastIn
  <2> QED  BY <2>1 DEF Uses
<1>4. name \in Range(Spellings(name)) /\ IsFiniteSet(Range(Spellings(name)))
  BY <1>1, SpellingsAreSome
<1>5. IsFiniteSet(Uses(words, name)) /\ (Uses(words, name) = {} => Cardinality(Uses(words, name)) = 0)
  <2>1. Uses(words, name) \in SUBSET Range(Spellings(name))
    BY <1>3
  <2>2. IsFiniteSet(Uses(words, name))
    BY <1>4, <2>1, FS_Subset
  <2> QED  BY <2>2, FS_EmptySet
<1>6. CASE Uses(words, name) = {}
  BY <1>1, <1>3, <1>5, <1>6, OneSpellingIsFound, OptionsAreTold
<1>7. CASE Cardinality(Uses(words, name)) = 1
  <2>1. PICK s : Uses(words, name) = {s}
    BY <1>5, <1>7, FS_Singleton
  <2>2. get_with_aliases(params, name) = params[s] /\ s \in DOMAIN params
    BY <1>1, <1>3, <2>1, OneSpellingIsFound
  <2>3. LastWord(words, s) = params[s]
    BY <2>2, LastWordIsFound
  <2>4. name # "loss_function" \/ "loss_function" \notin DOMAIN ClassifierLoss(kind, params)
    <3> SUFFICES ASSUME name = "loss_function", "loss_function" \in DOMAIN ClassifierLoss(kind, params)
                 PROVE  FALSE
      OBVIOUS
    <3>1. {"loss_function", "objective"} \intersect DOMAIN params = {}
      BY <1>1, OptionsAreTold
    <3>2. Range(Spellings("loss_function")) = {"loss_function", "objective"}
      <4>1. "loss_function" \in DOMAIN ALIASES /\ ALIASES["loss_function"] = <<"objective">>
        BY DEF ALIASES
      <4>2. Spellings("loss_function") = <<"loss_function">> \o <<"objective">>
        BY <4>1 DEF Spellings
      <4> DEFINE both == {"loss_function", "objective"}
      <4>3. \A a, b \in both : Range(<<a>> \o <<b>>) = {a, b}
        BY ShortLists
      <4> QED  BY <4>2, <4>3
    <3> QED  BY <1>3, <2>1, <3>1, <3>2
  <2> QED  BY <1>1, <1>5, <1>7, <2>1, <2>2, <2>3, <2>4, OptionsAreTold
<1>8. CASE Uses(words, name) # {} /\ Cardinality(Uses(words, name)) # 1
  BY <1>8
<1> QED  BY <1>6, <1>7, <1>8

(* Columns are the places of a table, and the categorical ones are some.   *)
Parted(n, floats, cats) == n \in Nat /\ cats \subseteq 1 .. n /\ floats = (1 .. n) \ cats

(* The columns of a pool, however it was given.                            *)
LEMMA PoolIsParted ==
  ASSUME NEW x, Columned(x), NEW y, NEW cats, NEW other
  PROVE  \E n : Parted(n, data_to_pool(x, y, cats).floats, data_to_pool(x, y, cats).cats)
<1>1. ASSUME NEW d, Len(d.columns) \in Nat, NEW label, NEW set
      PROVE  LET p == ingest_to_owned(d, label, set) IN Parted(Len(d.columns), p.floats, p.cats)
  BY <1>1 DEF ingest_to_owned, Parted, Places
<1>2. CASE x.form = "pool"
  <2> DEFINE p == ingest_to_owned(x.data, x.label, x.declared)
  <2>1. Parted(Len(x.data.columns), p.floats, p.cats)
    BY <1>1, <1>2 DEF Columned
  <2>2. data_to_pool(x, y, cats) = [p EXCEPT !.grouped = x.grouped]
    BY <1>2 DEF data_to_pool
  <2>3. data_to_pool(x, y, cats).floats = p.floats /\ data_to_pool(x, y, cats).cats = p.cats
    BY <2>2 DEF ingest_to_owned
  <2> QED  BY <2>1, <2>3
<1>3. CASE x.form # "pool"
  <2>1. data_to_pool(x, y, cats) = ingest_to_owned(x, y, Range(cats))
    BY <1>3 DEF data_to_pool
  <2> QED  BY <1>1, <1>3, <2>1 DEF Columned
<1> QED  BY <1>2, <1>3

(* The categorical columns of a table are those that are named, each once. *)
LEMMA NamedColumnsAreKept ==
  ASSUME NEW x, x.form # "pool", Columned(x), NEW y, NEW cats, Itemized(cats), Pooled(x, y, cats)
  PROVE  data_to_pool(x, y, cats).cats = Range(cats)
<1> DEFINE R == Range(cats)
           kept == IF PandasRoute(x, R) THEN R \intersect Places(x) ELSE {}
<1>1. data_to_pool(x, y, cats).cats = kept /\ Cardinality(kept) = Len(cats) /\ IsInjective(cats)
  BY DEF data_to_pool, Pooled, ingest_to_owned
<1>2. Len(cats) \in Nat /\ cats \in [1 .. Len(cats) -> R] /\ DOMAIN cats = 1 .. Len(cats)
  BY DEF Itemized, Range
<1>3. IsFiniteSet(ToSet(cats)) /\ Cardinality(ToSet(cats)) = Len(cats)
  <2>1. Distinct(cats)
    BY <1>1 DEF Distinct, IsInjective
  <2> HIDE DEF R
  <2> QED  BY <1>2, <2>1, DistinctLength
<1>4. R = ToSet(cats)
  BY DEF Range, ToSet
<1>5. kept \in SUBSET R
  OBVIOUS
<1> HIDE DEF R, kept
<1>6. kept = R
  BY <1>1, <1>3, <1>4, <1>5, FS_Subset
<1> QED  BY <1>1, <1>6 DEF R

(* Tables of one shape with the same categorical columns have the same     *)
(* others.                                                                 *)
LEMMA OneShapeOneSplit ==
  ASSUME NEW n, NEW m, NEW floats, NEW others, NEW cats, Parted(n, floats, cats), Parted(m, others, cats),
         Cardinality(floats) = Cardinality(others)
  PROVE  floats = others
<1>1. n \in Nat /\ m \in Nat
  BY DEF Parted
<1>2. ASSUME NEW k \in Nat, cats \subseteq 1 .. k
      PROVE  Cardinality((1 .. k) \ cats) = k - Cardinality(cats) /\ Cardinality(cats) \in Nat
  <2>1. IsFiniteSet(1 .. k) /\ Cardinality(1 .. k) = k
    BY FS_Interval
  <2>2. (1 .. k) \intersect cats = cats
    BY <1>2
  <2>3. IsFiniteSet(cats)
    BY <1>2, <2>1, FS_Subset
  <2>4. Cardinality(cats) \in Nat
    BY <2>3, FS_CardinalityType
  <2> DEFINE all == 1 .. k
  <2> HIDE DEF all
  <2>5. Cardinality(all \ cats) = Cardinality(all) - Cardinality(all \intersect cats)
    BY <2>1, FS_Difference DEF all
  <2> QED  BY <2>1, <2>2, <2>4, <2>5 DEF all
<1>3. n = m
  BY <1>1, <1>2 DEF Parted
<1> QED  BY <1>3 DEF Parted

(* Labels that were encoded by a list of names are decoded by it.          *)
LEMMA LabelsDecode ==
  ASSUME NEW y, Itemized(y.items), NEW names, names = <<>> \/ Itemized(names),
         names # <<>> /\ y.given => Range(y.items) \subseteq Range(names),
         ~y.given => y.items = <<>>, encode_labels(y, names).items # <<>>
  PROVE  decode_labels(encode_labels(y, names).items, names) = y.items
<1>1. CASE names = <<>>
  BY <1>1 DEF decode_labels, encode_labels
<1>2. CASE names # <<>> /\ ~y.given
  BY <1>2 DEF encode_labels
<1>3. CASE names # <<>> /\ y.given
  <2> DEFINE e == encode_labels(y, names).items
             place(r) == CHOOSE i \in DOMAIN names : names[i] = y.items[r]
  <2>1. e = [r \in DOMAIN y.items |-> -1 + place(r)]
    BY <1>3 DEF encode_labels
  <2>2. ASSUME NEW r \in DOMAIN y.items
        PROVE  place(r) \in DOMAIN names /\ names[place(r)] = y.items[r]
    <3>1. y.items[r] \in Range(names)
      BY <1>3 DEF Range
    <3>2. \E i \in DOMAIN names : names[i] = y.items[r]
      BY <3>1 DEF Range
    <3> QED  BY <3>2
  <2>3. \A i \in DOMAIN names : i \in Int
    BY <1>3 DEF Itemized
  <2>4. decode_labels(e, names) = [r \in DOMAIN e |-> names[e[r] + 1]]
    BY <1>3 DEF decode_labels
  <2> HIDE DEF e, place
  <2>5. \A r \in DOMAIN y.items : e[r] + 1 = place(r)
    BY <2>1, <2>2, <2>3
  <2>6. decode_labels(e, names) = [r \in DOMAIN y.items |-> y.items[r]]
    BY <2>1, <2>2, <2>4, <2>5
  <2>7. y.items = [r \in DOMAIN y.items |-> y.items[r]]
    BY DEF Itemized
  <2> QED  BY <2>6, <2>7 DEF e
<1> QED  BY <1>1, <1>2, <1>3

(* The lists among the parameters are lists.                               *)
LEMMA ParametersAreListed ==
  ASSUME NEW words, NEW params, Speaks(words, params),
         NEW name \in {"class_names", "cat_features"}, name \in DOMAIN params, params[name].type = "list"
  PROVE  Itemized(params[name].items)
<1>1. PICK k \in 1 .. Len(words) : LastIn(words, name, k) /\ params[name] = words[k][name]
  BY DEF Speaks
<1>2. words[k] \in UNION {{s.kwargs} \union s.settings : s \in Sessions}
  BY <1>1 DEF Speaks
<1>3. PICK s \in Sessions : words[k] \in {s.kwargs} \union s.settings
  BY <1>2
<1> QED  BY <1>1, <1>3, SessionsAssumption DEF LastIn

(* An empty list is one.                                                   *)
LEMMA NothingIsListed == Itemized(<<>>)
<1>1. <<>> \in Seq({}) /\ Len(<<>>) = 0
  OBVIOUS
<1> QED  BY <1>1 DEF Itemized

(* What the object keeps of a fit: the last words as its options, labels   *)
(* and names that belong together, and the columns that predict reads.     *)
FitKept ==
  /\ LastWordIsTrained(lastFit.said, held.model.options)
  /\ LabelsComeBack
  /\ Itemized(held.cat_features)
  /\ \E n : Parted(n, held.model.floats, held.model.cats)
  /\ held.model.cats = Range(held.cat_features) \/ held.cat_features = <<>>
  /\ (reply.kind = "predicted" /\ reply.input.form # "pool") =>
        reply.floats = held.model.floats /\ reply.cats = held.model.cats
AnObject ==
  held = [kind |-> held.kind, params |-> held.params, model |-> held.model,
          cat_features |-> held.cat_features, class_names |-> held.class_names]
EstimatorInv ==
  \/ held = Nobody /\ lastFit = NoFit
  \/ /\ menu \in Sessions /\ AnObject
     /\ Speaks(said, held.params)
     /\ lastFit # NoFit => FitKept

(* A fit that succeeds is kept.                                            *)
LEMMA FitIsKept ==
  ASSUME EstimatorInv, held # Nobody, NEW f \in menu.fits, FitAccepted(held, f), Trains(held, f),
         held' = AfterFit(held, f), lastFit' = [kind |-> "fit", said |-> said, call |-> f],
         reply' = Silence
  PROVE  AnObject' /\ held'.params = held.params /\ FitKept'
<1> DEFINE names == read_class_names(held.kind, held.params)
           cats == resolve_cat_features(held.params, f)
           y == encode_labels(f.y, names)
           pool == data_to_pool(f.x, y, cats)
<1>1. menu \in Sessions /\ AnObject /\ Speaks(said, held.params)
  BY DEF EstimatorInv
<1>2. /\ Columned(f.x) /\ (f.cats.given => Itemized(f.cats.items))
      /\ Itemized(f.y.items) /\ (~f.y.given => f.y.items = <<>>)
  BY <1>1, SessionsAssumption
<1>3. /\ held'.kind = held.kind /\ held'.params = held.params /\ held'.model = Trained(held, f)
      /\ held'.cat_features = cats /\ held'.class_names = names /\ AnObject'
  BY <1>1 DEF AnObject, AfterFit
<1>4. /\ Pooled(f.x, y, cats) /\ CatsGiven(held.params, f)
      /\ held.kind = "classifier" => NamesRead(held.params)
      /\ names # <<>> /\ f.y.given => Range(f.y.items) \subseteq Range(names)
  BY DEF FitAccepted
<1>5. FitPool(held, f) = pool /\ pool.label # <<>>
  BY DEF FitPool, Trains
<1>6. /\ held'.model.options = Builder(held.kind, held.params)
      /\ held'.model.floats = pool.floats /\ held'.model.cats = pool.cats /\ held'.model.label = pool.label
  BY <1>3, <1>5 DEF Trained
<1>7. LastWordIsTrained(lastFit.said, held.model.options)'
  BY <1>1, <1>6, TrainedIsSaid
<1>8. Itemized(cats)
  <2>1. CASE f.cats.given
    BY <1>2, <2>1 DEF resolve_cat_features
  <2>2. CASE ~f.cats.given /\ "cat_features" \in DOMAIN held.params
    BY <1>1, <1>4, <2>2, ParametersAreListed DEF resolve_cat_features, CatsGiven
  <2>3. CASE ~f.cats.given /\ "cat_features" \notin DOMAIN held.params
    BY <2>3, NothingIsListed DEF resolve_cat_features
  <2> QED  BY <2>1, <2>2, <2>3
<1>9. names = <<>> \/ Itemized(names)
  BY <1>1, <1>4, ParametersAreListed DEF read_class_names, NamesRead, is_set
<1>10. f.x.form = "pool" => cats = <<>>
  BY <1>4 DEF Pooled
<1> HIDE DEF names, cats
<1>11. LabelsComeBack'
  <2> SUFFICES ASSUME f.x.form # "pool"
               PROVE  decode_labels(held'.model.label, held'.class_names) = f.y.items
    BY DEF LabelsComeBack
  <2>1. pool.label = y.items
    BY DEF data_to_pool, ingest_to_owned
  <2> QED  BY <1>2, <1>3, <1>4, <1>5, <1>6, <1>9, <2>1, LabelsDecode
<1> HIDE DEF y
<1>12. \E n : Parted(n, held'.model.floats, held'.model.cats)
  BY <1>2, <1>6, PoolIsParted
<1>13. held'.model.cats = Range(held'.cat_features) \/ held'.cat_features = <<>>
  <2>1. CASE f.x.form = "pool"
    BY <1>3, <1>10, <2>1
  <2>2. CASE f.x.form # "pool"
    BY <1>2, <1>3, <1>4, <1>6, <1>8, <2>2, NamedColumnsAreKept
  <2> QED  BY <2>1, <2>2
<1>14. Itemized(held'.cat_features) /\ reply'.kind # "predicted"
  BY <1>3, <1>8 DEF Silence
<1> QED  BY <1>3, <1>7, <1>11, <1>12, <1>13, <1>14 DEF FitKept

(* A prediction reads the columns of the fit.                              *)
LEMMA PredictReadsTheColumns ==
  ASSUME EstimatorInv, held # Nobody, lastFit # NoFit, NEW x \in menu.inputs, Scored(x), x.form # "pool"
  PROVE  /\ data_to_pool(x, NoLabel, held.cat_features).floats = held.model.floats
         /\ data_to_pool(x, NoLabel, held.cat_features).cats = held.model.cats
<1> DEFINE pool == data_to_pool(x, NoLabel, held.cat_features)
<1>1. FitKept /\ menu \in Sessions
  BY DEF EstimatorInv
<1>2. Columned(x)
  BY <1>1, SessionsAssumption
<1>3. /\ Pooled(x, NoLabel, held.cat_features)
      /\ Cardinality(pool.floats) = Cardinality(held.model.floats)
      /\ Cardinality(pool.cats) = Cardinality(held.model.cats)
  BY DEF Scored
<1>4. pool.cats = Range(held.cat_features)
  BY <1>1, <1>2, <1>3, NamedColumnsAreKept DEF FitKept
<1>5. PICK n : Parted(n, held.model.floats, held.model.cats)
  BY <1>1 DEF FitKept
<1>6. PICK m : Parted(m, pool.floats, pool.cats)
  BY <1>2, PoolIsParted
<1> HIDE DEF pool
<1>7. pool.cats = held.model.cats
  <2>1. CASE held.model.cats = Range(held.cat_features)
    BY <1>4, <2>1
  <2>2. CASE held.cat_features = <<>>
    <3>1. pool.cats = {}
      BY <1>4, <2>2 DEF Range
    <3>2. IsFiniteSet(1 .. n) /\ held.model.cats \in SUBSET (1 .. n)
      BY <1>5, FS_Interval DEF Parted
    <3>3. IsFiniteSet(held.model.cats)
      BY <3>2, FS_Subset
    <3> QED  BY <1>3, <3>1, <3>3, FS_EmptySet
  <2> QED  BY <1>1, <2>1, <2>2 DEF FitKept
<1>8. pool.floats = held.model.floats
  BY <1>3, <1>5, <1>6, <1>7, OneShapeOneSplit
<1> QED  BY <1>7, <1>8 DEF pool

(* What leaves the object and the last fit alone, and predicts nothing     *)
(* else than the fit's columns, keeps it.                                  *)
LEMMA AskingKeeps ==
  ASSUME EstimatorInv, held # Nobody, UNCHANGED <<menu, held, said, lastFit>>,
         lastFit # NoFit => ((reply'.kind = "predicted" /\ reply'.input.form # "pool") =>
           reply'.floats = held.model.floats /\ reply'.cats = held.model.cats)
  PROVE  EstimatorInv'
BY DEF EstimatorInv, FitKept, LabelsComeBack, AnObject

(* An object that was made of a model has no parameters and no fit.        *)
LEMMA ReplacingKeeps ==
  ASSUME EstimatorInv, held # Nobody, NEW model, Replaced(model), UNCHANGED menu
  PROVE  EstimatorInv'
<1>1. menu \in Sessions
  BY DEF EstimatorInv
<1>2. AnObject' /\ Speaks(said, held.params)' /\ lastFit' = NoFit
  BY FirstWords DEF Replaced, EstimatorBase, AnObject
<1> QED  BY <1>1, <1>2 DEF EstimatorInv

(* Every step keeps it.                                                    *)
LEMMA EstimatorStep ==
  ASSUME EstimatorInv, EstimatorNext
  PROVE  EstimatorInv'
<1>1. CASE New
  <2>1. PICK s \in Sessions :
          /\ menu' = s /\ held' = EstimatorBase(s.kind, s.kwargs, NoModel) /\ said' = <<s.kwargs>>
    BY <1>1 DEF New
  <2>2. lastFit' = NoFit
    BY <1>1 DEF New, EstimatorInv, AnObject, Nobody
  <2>3. AnObject' /\ Speaks(said, held.params)'
    BY <2>1, FirstWords DEF EstimatorBase, AnObject
  <2> QED  BY <2>1, <2>2, <2>3 DEF EstimatorInv
<1>2. CASE set_params
  <2>1. PICK given \in menu.settings :
          held' = [held EXCEPT !.params = Over(given, @)] /\ said' = Append(said, given)
    BY <1>2 DEF set_params
  <2>2. menu \in Sessions /\ AnObject /\ Speaks(said, held.params) /\ (lastFit # NoFit => FitKept)
    BY <1>2 DEF EstimatorInv, set_params, Called
  <2>3. /\ AnObject' /\ held'.params = Over(given, held.params) /\ held'.model = held.model
        /\ held'.cat_features = held.cat_features /\ held'.class_names = held.class_names
    BY <2>1, <2>2 DEF AnObject
  <2>4. Speaks(said, held.params)'
    BY <2>1, <2>2, <2>3, SaidOver
  <2>5. menu' = menu /\ lastFit' = lastFit /\ reply'.kind # "predicted"
    BY <1>2 DEF set_params, Called, Silence
  <2>6. lastFit' # NoFit => FitKept'
    BY <2>2, <2>3, <2>5 DEF FitKept, LabelsComeBack
  <2> QED  BY <2>2, <2>3, <2>4, <2>5, <2>6 DEF EstimatorInv
<1>3. CASE fit_called
  <2>1. PICK f \in menu.fits :
          /\ held' = AfterFit(held, f)
          /\ IF FitAccepted(held, f) /\ Trains(held, f)
             THEN lastFit' = [kind |-> "fit", said |-> said, call |-> f] /\ reply' = Silence
             ELSE UNCHANGED lastFit /\ reply' = Refused
    BY <1>3 DEF fit_called
  <2>2. held # Nobody /\ UNCHANGED <<menu, said>>
    BY <1>3 DEF fit_called, Called
  <2>3. CASE FitAccepted(held, f) /\ Trains(held, f)
    <3>1. AnObject' /\ held'.params = held.params /\ FitKept'
      BY <2>1, <2>2, <2>3, FitIsKept
    <3> QED  BY <2>2, <3>1 DEF EstimatorInv
  <2>4. CASE ~(FitAccepted(held, f) /\ Trains(held, f))
    <3>1. held' = held /\ lastFit' = lastFit /\ reply'.kind # "predicted"
      BY <2>1, <2>4 DEF AfterFit, Refused
    <3> QED  BY <2>2, <3>1, AskingKeeps
  <2> QED  BY <2>3, <2>4
<1>4. CASE predict
  <2>1. held # Nobody /\ UNCHANGED <<menu, held, said, lastFit>>
    BY <1>4 DEF predict, Called
  <2>2. PICK x \in menu.inputs :
          reply' = IF ~Scored(x) THEN Refused
                   ELSE LET pool == data_to_pool(x, NoLabel, held.cat_features)
                        IN  [kind |-> "predicted", input |-> x, floats |-> pool.floats,
                             cats |-> pool.cats, values |-> Predicted]
    BY <1>4 DEF predict
  <2>3. CASE ~Scored(x)
    BY <2>1, <2>2, <2>3, AskingKeeps DEF Refused
  <2>4. CASE Scored(x)
    <3>1. reply'.input = x /\ reply'.floats = data_to_pool(x, NoLabel, held.cat_features).floats
          /\ reply'.cats = data_to_pool(x, NoLabel, held.cat_features).cats
      BY <2>2, <2>4
    <3> QED  BY <2>1, <2>4, <3>1, PredictReadsTheColumns, AskingKeeps
  <2> QED  BY <2>3, <2>4
<1>5. CASE score
  <2>1. held # Nobody /\ UNCHANGED <<menu, held, said, lastFit>> /\ reply'.kind # "predicted"
    BY <1>5 DEF score, Called, Refused
  <2> QED  BY <2>1, AskingKeeps
<1>6. CASE classes_
  <2>1. held # Nobody /\ UNCHANGED <<menu, held, said, lastFit>> /\ reply'.kind # "predicted"
    BY <1>6 DEF classes_, Called, Refused
  <2> QED  BY <2>1, AskingKeeps
<1>7. CASE load_model
  BY <1>7, ReplacingKeeps DEF load_model, Called
<1>8. CASE sum_models
  <2>1. CASE is_fitted(held)
    BY <1>8, <2>1, ReplacingKeeps DEF sum_models, Called
  <2>2. CASE ~is_fitted(held)
    <3>1. held # Nobody /\ UNCHANGED <<menu, held, said, lastFit>> /\ reply'.kind # "predicted"
      BY <1>8, <2>2 DEF sum_models, Called, Refused
    <3> QED  BY <3>1, AskingKeeps
  <2> QED  BY <2>1, <2>2
<1> QED  BY <1>1, <1>2, <1>3, <1>4, <1>5, <1>6, <1>7, <1>8 DEF EstimatorNext

(* A Python estimator keeps its word whatever is called on it, and         *)
(* whatever of it fails: its model was trained on the caller's last words, *)
(* its labels come back as the last fit was given them, and a prediction   *)
(* reads the columns as that fit did.                                      *)
THEOREM EstimatorsKeepTheirWord == Spec => []EstimatorKeepsItsWord
<1>1. Init => EstimatorInv
  BY DEF Init, EstimatorInit, EstimatorInv
<1>2. [Next]_vars => EstimatorNext \/ UNCHANGED evars
  BY DEF Next, Returned, vars, evars
<1>3. EstimatorInv /\ UNCHANGED evars => EstimatorInv'
  BY DEF EstimatorInv, AnObject, FitKept, LabelsComeBack, evars
<1>4. EstimatorInv /\ [Next]_vars => EstimatorInv'
  BY <1>2, <1>3, EstimatorStep
<1>5. EstimatorInv => EstimatorKeepsItsWord
  BY DEF EstimatorInv, FitKept, EstimatorKeepsItsWord
<1> QED  BY <1>1, <1>4, <1>5, PTL DEF Spec

-----------------------------------------------------------------------------
(* Fits: the greatest of a list. *)

-----------------------------------------------------------------------------
(* Fits: the pool. *)

(* A pool has a label for every row, the source's, or none.                *)
LabelsOf(s, d) ==
  /\ Len(d.label) \in Nat /\ DOMAIN d.label = 1 .. Len(d.label)
  /\ d.label = <<>> \/ Len(d.label) = d.rows
  /\ Len(d.label) = 0 => d.label = <<>>
  /\ \A i \in DOMAIN d.label : d.label[i] \in Int \union {NaN} /\ d.label[i] = SourceLabel(s, i)

(* What the ingestion makes of a source: row by row its numbers and its    *)
(* categories, and its labels and weights if it has any.                   *)
PoolOf(s, d) ==
  /\ d.kind = "pool" /\ d.rows \in Nat
  /\ Len(d.floats) = SourceWidth(s) /\ SourceWidth(s) \in Nat
  /\ \A f \in 1 .. SourceWidth(s), i \in 1 .. d.rows : d.floats[f][i] = SourceFloat(s, f, i)
  /\ d.cats = SourceCats(s) /\ Len(d.cats) \in Nat /\ DOMAIN d.cats = 1 .. Len(d.cats)
  /\ \A c \in DOMAIN d.cats : DOMAIN d.cats[c] = 1 .. d.rows
  /\ LabelsOf(s, d)
  /\ d.weights = <<>> \/ d.weights \in [1 .. d.rows -> Int]
  /\ d.weights = IF s.kind = "owned" THEN s.weights ELSE <<>>
  /\ d.f32 # <<>> =>
       \A f \in 1 .. SourceWidth(s), i \in 1 .. d.rows : d.f32[f][i] = Narrow(d.floats[f][i])

(* Owned columns become a pool of them.                                    *)
LEMMA OwnedIsPooled ==
  ASSUME NEW s, s.kind = "owned", SoundOwned(s), NEW d, d = OwnedIntoPool(s), d.kind = "pool"
  PROVE  PoolOf(s, d)
<1> DEFINE n == reference_n_rows(s)
<1>1. /\ Len(s.floats) \in Nat /\ DOMAIN s.floats = 1 .. Len(s.floats)
      /\ Len(s.f32) \in Nat /\ DOMAIN s.f32 = 1 .. Len(s.f32)
      /\ Len(s.label) \in Nat /\ DOMAIN s.label = 1 .. Len(s.label)
      /\ Len(s.cats) \in Nat /\ DOMAIN s.cats = 1 .. Len(s.cats)
      /\ Len(s.weights) \in Nat /\ DOMAIN s.weights = 1 .. Len(s.weights)
      /\ s.weights \in Seq(ToSet(s.weights)) /\ s.label \in Seq(ToSet(s.label))
      /\ \A f \in DOMAIN s.floats : Len(s.floats[f]) \in Nat /\ DOMAIN s.floats[f] = 1 .. Len(s.floats[f])
      /\ \A f \in DOMAIN s.f32 : Len(s.f32[f]) \in Nat /\ DOMAIN s.f32[f] = 1 .. Len(s.f32[f])
      /\ \A c \in DOMAIN s.cats : Len(s.cats[c]) \in Nat /\ DOMAIN s.cats[c] = 1 .. Len(s.cats[c])
  BY DEF SoundOwned, AList, AreLists
<1>2. n \in Nat
  <2>1. s.floats # <<>> => 1 \in DOMAIN s.floats
    BY DEF SoundOwned, AList, AreLists
  <2> QED  BY <1>1, <2>1 DEF reference_n_rows
<1> HIDE DEF n
<1>3. /\ d = MadePool(n, s)
      /\ \A f \in DOMAIN s.floats : Len(s.floats[f]) = n
      /\ \A f \in DOMAIN s.f32 : Len(s.f32[f]) = n
      /\ \A c \in DOMAIN s.cats : Len(s.cats[c]) = n
      /\ s.f32 # <<>> => Len(s.f32) = Len(s.floats)
      /\ Len(s.label) \in {0, n} /\ Len(s.weights) \in {0, n}
  BY DEF OwnedIntoPool, Rejection, Metadata, n
<1>4. /\ d.kind = "pool" /\ d.rows = n /\ d.floats = s.floats /\ d.f32 = s.f32 /\ d.cats = s.cats
      /\ d.label = s.label /\ d.weights = s.weights
  BY <1>3 DEF MadePool
<1>5. \A i \in DOMAIN s.label : s.label[i] \in Int \union {NaN}
  BY DEF SoundOwned, ToSet
<1>6. s.weights = <<>> \/ s.weights \in [1 .. n -> Int]
  BY <1>1, <1>3 DEF SoundOwned, ToSet
<1>7. s.label = <<>> \/ Len(s.label) = n
  BY <1>1, <1>3
<1>8. s.f32 # <<>> => \A f \in 1 .. Len(s.floats), i \in 1 .. n : s.f32[f][i] = Narrow(s.floats[f][i])
  BY <1>1, <1>3 DEF SoundOwned
<1>9. SourceWidth(s) = Len(s.floats) /\ SourceCats(s) = s.cats
  BY DEF SourceWidth, SourceCats
<1>10. /\ \A f \in 1 .. SourceWidth(s), i \in 1 .. n : SourceFloat(s, f, i) = s.floats[f][i]
       /\ \A i \in DOMAIN s.label : SourceLabel(s, i) = s.label[i]
  BY DEF SourceFloat, SourceLabel
<1>11. Len(d.floats) = SourceWidth(s) /\ SourceWidth(s) \in Nat /\ d.cats = SourceCats(s)
  BY <1>1, <1>4, <1>9
<1>12. \A f \in 1 .. SourceWidth(s), i \in 1 .. d.rows : d.floats[f][i] = SourceFloat(s, f, i)
  BY <1>4, <1>10
<1>13. /\ Len(d.cats) \in Nat /\ DOMAIN d.cats = 1 .. Len(d.cats)
       /\ \A c \in DOMAIN d.cats : DOMAIN d.cats[c] = 1 .. d.rows
  BY <1>1, <1>3, <1>4
<1>14. s.label \in Seq(ToSet(s.label)) /\ Len(s.label) = 0 => s.label = <<>>
  OBVIOUS
<1>15. LabelsOf(s, d)
  BY <1>1, <1>4, <1>5, <1>7, <1>10, <1>14 DEF LabelsOf
<1>16. /\ d.weights = <<>> \/ d.weights \in [1 .. d.rows -> Int]
       /\ d.weights = IF s.kind = "owned" THEN s.weights ELSE <<>>
  BY <1>4, <1>6
<1>17. d.f32 # <<>> =>
         \A f \in 1 .. SourceWidth(s), i \in 1 .. d.rows : d.f32[f][i] = Narrow(d.floats[f][i])
  BY <1>4, <1>8, <1>9
<1> QED  BY <1>2, <1>4, <1>11, <1>12, <1>13, <1>15, <1>16, <1>17 DEF PoolOf

(* What becomes of the columns of an Arrow array, missing values and all.  *)
ArrowPool(s, d) ==
         /\ d.rows \in Nat /\ d.cats = <<>> /\ d.f32 = <<>> /\ d.weights = <<>>
         /\ Len(d.floats) = Len(s.floats) /\ Len(s.floats) \in Nat
         /\ \A f \in 1 .. Len(s.floats), i \in 1 .. d.rows : d.floats[f][i] = Given(s.floats[f].cells[i])
         /\ Len(d.label) = d.rows /\ DOMAIN d.label = 1 .. d.rows /\ (d.rows = 0 => d.label = <<>>)
         /\ \A i \in 1 .. d.rows : d.label[i] \in Int \union {NaN} /\ d.label[i] = Given(s.label.cells[i])

(* Such a pool does.                                                       *)
LEMMA ArrowIsPooled ==
  ASSUME NEW s, SoundArrow(s), NEW d, d = ArrowIntoPool(s), d.kind = "pool"
  PROVE  ArrowPool(s, d)
<1> DEFINE n == Len(s.label.cells)
<1>1. /\ n \in Nat /\ DOMAIN s.label.cells = 1 .. n
      /\ Len(s.floats) \in Nat /\ DOMAIN s.floats = 1 .. Len(s.floats)
      /\ \A f \in DOMAIN s.floats : DOMAIN s.floats[f].cells = 1 .. Len(s.floats[f].cells)
  BY DEF SoundArrow, SoundLabel, AList
<1>2. /\ d = MadePool(n, [floats |-> [f \in DOMAIN s.floats |-> arrow_f64_column(s.floats[f])],
                         label |-> arrow_f64_column(s.label),
                         f32 |-> <<>>, cats |-> <<>>, weights |-> <<>>, groups |-> <<>>, pairs |-> <<>>])
      /\ \A f \in DOMAIN s.floats : Len(s.floats[f].cells) = n
  BY DEF ArrowIntoPool, Rejection
<1>3. /\ d.rows = n /\ d.cats = <<>> /\ d.f32 = <<>> /\ d.weights = <<>>
      /\ d.floats = [f \in DOMAIN s.floats |-> arrow_f64_column(s.floats[f])]
      /\ d.label = arrow_f64_column(s.label)
  BY <1>2 DEF MadePool
<1> HIDE DEF n
<1>4. d.label = [k \in 1 .. n |-> Given(s.label.cells[k])]
  BY <1>1, <1>3 DEF arrow_f64_column, Given
<1>5. Len(d.label) = n /\ Len(d.floats) = Len(s.floats) /\ (n = 0 => d.label = <<>>)
  BY <1>1, <1>3, <1>4
<1>6. ASSUME NEW f \in 1 .. Len(s.floats), NEW i \in 1 .. n
      PROVE  d.floats[f][i] = Given(s.floats[f].cells[i])
  <2>1. d.floats[f] = arrow_f64_column(s.floats[f]) /\ DOMAIN s.floats[f].cells = 1 .. n
    BY <1>1, <1>2, <1>3
  <2> QED  BY <2>1 DEF arrow_f64_column, Given
<1>7. \A i \in 1 .. n : s.label.cells[i] \in Int \union {NaN, Null}
  BY <1>1 DEF SoundArrow, SoundLabel, ToSet
<1>8. \A i \in 1 .. n : d.label[i] \in Int \union {NaN} /\ d.label[i] = Given(s.label.cells[i])
  BY <1>4, <1>7 DEF Given
<1>9. DOMAIN d.label = 1 .. n
  BY <1>4
<1> QED  BY <1>1, <1>3, <1>5, <1>6, <1>8, <1>9 DEF ArrowPool

(* A source whose numbers are those of an Arrow array.                     *)
LEMMA ArrowSource ==
  ASSUME NEW s, NEW a, NEW d, ArrowPool(a, d), d.kind = "pool", s.kind # "owned",
         SourceWidth(s) = Len(a.floats), SourceCats(s) = <<>>,
         \A g \in 1 .. Len(a.floats), i \in 1 .. d.rows : SourceFloat(s, g, i) = Given(a.floats[g].cells[i]),
         \A i \in 1 .. d.rows : SourceLabel(s, i) = Given(a.label.cells[i])
  PROVE  PoolOf(s, d)
<1>1. Len(d.floats) = SourceWidth(s) /\ SourceWidth(s) \in Nat /\ d.cats = SourceCats(s) /\ d.rows \in Nat
  BY DEF ArrowPool
<1>2. \A f \in 1 .. SourceWidth(s), i \in 1 .. d.rows : d.floats[f][i] = SourceFloat(s, f, i)
  BY DEF ArrowPool
<1>3. /\ Len(d.cats) \in Nat /\ DOMAIN d.cats = 1 .. Len(d.cats)
      /\ \A c \in DOMAIN d.cats : DOMAIN d.cats[c] = 1 .. d.rows
  BY <1>1
<1>4. LabelsOf(s, d)
  BY DEF ArrowPool, LabelsOf
<1>5. d.weights = <<>> /\ d.f32 = <<>>
  BY DEF ArrowPool
<1> QED  BY <1>1, <1>2, <1>3, <1>4, <1>5 DEF PoolOf

(* Whatever the source, its pool is of it.                                 *)
LEMMA SourceIsPooled ==
  ASSUME NEW f \in Fits, NEW d, d.kind = "pool",
         d = CASE f.source.kind = "owned" -> OwnedIntoPool(f.source)
               [] f.source.kind = "arrow" -> ArrowIntoPool(f.source)
               [] f.source.kind = "polars" -> PolarsIntoPool(f.source),
         f.source.kind \in {"owned", "arrow", "polars"}
  PROVE  PoolOf(f.source, d)
<1> DEFINE s == f.source
<1>1. CASE s.kind = "owned"
  <2>1. SoundOwned(s) /\ d = OwnedIntoPool(s)
    BY <1>1, FitsAssumption
  <2> QED  BY <1>1, <2>1, OwnedIsPooled
<1>2. CASE s.kind = "arrow"
  <2>1. SoundArrow(s) /\ d = ArrowIntoPool(s)
    BY <1>2, FitsAssumption
  <2>2. /\ SourceWidth(s) = Len(s.floats) /\ SourceCats(s) = <<>>
        /\ \A g \in 1 .. Len(s.floats), i \in 1 .. d.rows : SourceFloat(s, g, i) = Given(s.floats[g].cells[i])
        /\ \A i \in 1 .. d.rows : SourceLabel(s, i) = Given(s.label.cells[i])
    BY <1>2 DEF SourceWidth, SourceCats, SourceFloat, SourceLabel
  <2> HIDE DEF s
  <2>3. ArrowPool(s, d) /\ s.kind # "owned"
    BY <1>2, <2>1, ArrowIsPooled
  <2>4. PoolOf(s, d)
    BY <2>2, <2>3, ArrowSource
  <2> QED  BY <2>4 DEF s
<1>3. CASE s.kind = "polars"
  <2> DEFINE a == [floats |-> [g \in DOMAIN s.names |-> s.frame[s.names[g]]],
                   label |-> s.frame[s.label_name], declared |-> s.declared]
  <2>1. SoundPolars(s) /\ d = PolarsIntoPool(s)
    BY <1>3, FitsAssumption
  <2> HIDE DEF s
  <2>2. /\ d = ArrowIntoPool(a) /\ s.label_name \in DOMAIN s.frame
        /\ \A g \in DOMAIN s.names : s.names[g] \in DOMAIN s.frame
    BY <2>1 DEF PolarsIntoPool, Rejection, ToSet
  <2>3. Len(s.names) \in Nat /\ DOMAIN s.names = 1 .. Len(s.names)
    BY <2>1 DEF SoundPolars, AList
  <2>4. a.floats = [g \in 1 .. Len(s.names) |-> s.frame[s.names[g]]] /\ a.label = s.frame[s.label_name]
    BY <2>3
  <2> HIDE DEF a
  <2>5. Len(a.floats) = Len(s.names) /\ \A g \in 1 .. Len(s.names) : a.floats[g] = s.frame[s.names[g]]
    BY <2>3, <2>4
  <2>6. SoundArrow(a)
    <3>1. AList(a.floats)
      BY <2>3, <2>4 DEF AList, ToSet
    <3>2. SoundLabel(a.label)
      BY <2>1, <2>2, <2>4 DEF SoundPolars
    <3>3. ASSUME NEW g \in DOMAIN a.floats PROVE AList(a.floats[g].cells)
      BY <2>1, <2>2, <2>3, <2>4, <2>5 DEF SoundPolars
    <3> QED  BY <3>1, <3>2, <3>3 DEF SoundArrow
  <2>7. /\ SourceWidth(s) = Len(s.names) /\ SourceCats(s) = <<>> /\ s.kind # "owned"
        /\ \A g \in 1 .. Len(s.names), i \in 1 .. d.rows : SourceFloat(s, g, i) = Given(s.frame[s.names[g]].cells[i])
        /\ \A i \in 1 .. d.rows : SourceLabel(s, i) = Given(s.frame[s.label_name].cells[i])
    BY <1>3 DEF SourceWidth, SourceCats, SourceFloat, SourceLabel
  <2>8. ArrowPool(a, d)
    BY <2>2, <2>6, ArrowIsPooled
  <2>9. /\ SourceWidth(s) = Len(a.floats)
        /\ \A g \in 1 .. Len(a.floats), i \in 1 .. d.rows : SourceFloat(s, g, i) = Given(a.floats[g].cells[i])
        /\ \A i \in 1 .. d.rows : SourceLabel(s, i) = Given(a.label.cells[i])
    BY <2>4, <2>5, <2>7
  <2>10. PoolOf(s, d)
    BY <2>7, <2>8, <2>9, ArrowSource
  <2> QED  BY <2>10 DEF s
<1> QED  BY <1>1, <1>2, <1>3

-----------------------------------------------------------------------------
(* Fits: the hashes. *)

(* The first row of a column that has the hash of row k.                   *)
FirstAlike(column, k) == Min(Alike(column, k))

(* It has that hash, and brings it.                                        *)
LEMMA FirstBrings ==
  ASSUME NEW n \in Nat, NEW column, DOMAIN column = 1 .. n, NEW k \in 1 .. n
  PROVE  /\ FirstAlike(column, k) \in PerfectHash(column)
         /\ CatHash(column[FirstAlike(column, k)]) = CatHash(column[k])
         /\ \A j \in 1 .. n : CatHash(column[j]) = CatHash(column[k]) => FirstAlike(column, k) <= j
<1> DEFINE A == Alike(column, k)  m == FirstAlike(column, k)
<1>1. A \in SUBSET (1 .. n) /\ k \in A /\ \A j \in 1 .. n : j \in A <=> CatHash(column[j]) = CatHash(column[k])
  BY DEF Alike
<1> HIDE DEF A
<1>2. m = CHOOSE x \in A : \A y \in A : x =< y
  BY DEF FirstAlike, Min, A
<1>3. \E x \in A : \A y \in A : x <= y
  <2>1. A \in SUBSET Nat /\ A # {}
    BY <1>1
  <2> QED  BY <2>1, LeastElement
<1>4. m \in A /\ \A y \in A : m <= y
  BY <1>2, <1>3
<1>5. m \in 1 .. n /\ CatHash(column[m]) = CatHash(column[k])
  BY <1>1, <1>4
<1> HIDE DEF m
<1>6. Alike(column, m) = A
  BY <1>5 DEF Alike, A
<1>7. m \in PerfectHash(column)
  BY <1>4, <1>5, <1>6 DEF PerfectHash
<1> QED  BY <1>1, <1>4, <1>5, <1>7 DEF m

(* Two rows have one hash when one row brings both.                        *)
LEMMA AlikeFirsts ==
  ASSUME NEW n \in Nat, NEW column, DOMAIN column = 1 .. n, NEW i \in 1 .. n, NEW j \in 1 .. n
  PROVE  FirstAlike(column, i) = FirstAlike(column, j) <=> CatHash(column[i]) = CatHash(column[j])
<1>1. ASSUME CatHash(column[i]) = CatHash(column[j])
      PROVE  FirstAlike(column, i) = FirstAlike(column, j)
  <2>1. Alike(column, i) = Alike(column, j)
    BY <1>1 DEF Alike
  <2> QED  BY <2>1 DEF FirstAlike
<1> QED  BY <1>1, FirstBrings

(* The rows that bring a hash are finitely many numbers.                   *)
LEMMA BringersAreNumbers ==
  ASSUME NEW n \in Nat, NEW column, DOMAIN column = 1 .. n
  PROVE  /\ PerfectHash(column) \in SUBSET (1 .. n) /\ IsFiniteSet(PerfectHash(column))
         /\ learn_set_cardinality(column) \in Nat
<1>1. PerfectHash(column) \in SUBSET (1 .. n)
  BY DEF PerfectHash
<1>2. IsFiniteSet(1 .. n)
  BY FS_Interval
<1>3. IsFiniteSet(PerfectHash(column))
  BY <1>1, <1>2, FS_Subset
<1> QED  BY <1>1, <1>3, FS_CardinalityType DEF learn_set_cardinality

(* Bins tell hashes apart.                                                 *)
LEMMA BinsTellApart ==
  ASSUME NEW n \in Nat, NEW column, DOMAIN column = 1 .. n, NEW i \in 1 .. n, NEW j \in 1 .. n
  PROVE  perfect_hash_bins(column)[i] = perfect_hash_bins(column)[j]
           <=> CatHash(column[i]) = CatHash(column[j])
<1> DEFINE S == PerfectHash(column)  R == Smaller(S)
<1>1. S \in SUBSET Int /\ IsFiniteSet(S)
  BY BringersAreNumbers
<1> HIDE DEF S
<1>2. Ordered(S, R) /\ \A x \in S : Rank(S, R, x) = Cardinality({y \in S : y < x})
  BY <1>1, NumbersAreOrdered
<1> HIDE DEF R
<1>3. \A x, y \in S : Rank(S, R, x) = Rank(S, R, y) => x = y
  BY <1>1, <1>2, RanksAreTaken DEF OnePerRank
<1>4. ASSUME NEW k \in 1 .. n
      PROVE  /\ FirstAlike(column, k) \in S
             /\ perfect_hash_bins(column)[k] = Rank(S, R, FirstAlike(column, k))
  <2>1. FirstAlike(column, k) \in S
    BY FirstBrings DEF S
  <2>2. perfect_hash_bins(column)[k] = Cardinality({y \in S : y < FirstAlike(column, k)})
    BY DEF perfect_hash_bins, FirstAlike, S
  <2> QED  BY <1>2, <2>1, <2>2
<1> QED  BY <1>3, <1>4, AlikeFirsts

(* There are as many of them as the column has hashes.                     *)
LEMMA HashesAreCounted ==
  ASSUME NEW n \in Nat, NEW column, DOMAIN column = 1 .. n
  PROVE  learn_set_cardinality(column) = Cardinality({CatHash(column[i]) : i \in 1 .. n})
<1> DEFINE S == PerfectHash(column)
           T == {CatHash(column[i]) : i \in 1 .. n}
           h == [k \in S |-> CatHash(column[k])]
<1>1. S \in SUBSET (1 .. n) /\ IsFiniteSet(S)
  BY BringersAreNumbers
<1>2. h \in [S -> T]
  BY <1>1
<1>3. ASSUME NEW k \in S, NEW l \in S, h[k] = h[l] PROVE k = l
  <2>1. l \in Alike(column, k) /\ k \in Alike(column, l)
    BY <1>1, <1>3 DEF Alike
  <2>2. k <= l /\ l <= k
    BY <2>1 DEF PerfectHash
  <2> QED  BY <1>1, <2>2
<1>4. ASSUME NEW t \in T PROVE \E k \in S : h[k] = t
  <2>1. PICK i \in 1 .. n : t = CatHash(column[i])
    OBVIOUS
  <2>2. FirstAlike(column, i) \in S /\ CatHash(column[FirstAlike(column, i)]) = t
    BY <2>1, FirstBrings
  <2> QED  BY <2>2
<1> HIDE DEF S, T, h
<1>5. h \in Bijection(S, T)
  BY <1>2, <1>3, <1>4 DEF Bijection, Injection, Surjection, IsInjective
<1>6. Cardinality(T) = Cardinality(S)
  BY <1>1, <1>5, FS_Bijection DEF ExistsBijection
<1> QED  BY <1>6 DEF S, T, learn_set_cardinality

(* The columns on a route, each listed once.                               *)
Routed(f, cats, route) ==
  {c \in DOMAIN cats : route = IF learn_set_cardinality(cats[c]) <= 1 THEN "skip"
                               ELSE IF learn_set_cardinality(cats[c]) <= f.one_hot_max_size THEN "onehot"
                               ELSE "ctr"}

(* The partition lists them.                                               *)
LEMMA RoutesAreListed ==
  ASSUME NEW n \in Nat, NEW cats, DOMAIN cats = 1 .. n, NEW route
  PROVE  Listed(Routed(fit, cats, route), partition_cat_columns(cats, route))
<1> DEFINE S == Routed(fit, cats, route)
<1>1. S = {c \in DOMAIN cats : route_categorical(learn_set_cardinality(cats[c])) = route}
  BY DEF Routed, route_categorical
<1>2. S \in SUBSET (1 .. n)
  BY DEF Routed
<1> HIDE DEF S
<1>3. IsFiniteSet(S)
  <2>1. IsFiniteSet(1 .. n)
    BY FS_Interval
  <2> QED  BY <1>2, <2>1, FS_Subset
<1>4. Listed(S, Sorted(S))
  BY <1>2, <1>3, SortedLists
<1>5. partition_cat_columns(cats, route) = Sorted(S)
  BY <1>1 DEF partition_cat_columns, Sorted
<1> QED  BY <1>4, <1>5 DEF S

(* The places of a value in a list.                                        *)
PlacesIn(s, c) == {p \in DOMAIN s : s[p] = c}

(* A member of a listed set has one place, another has none.               *)
LEMMA PlacesOfListed ==
  ASSUME NEW S, IsFiniteSet(S), S \in SUBSET Int, NEW s, Listed(S, s), NEW c
  PROVE  Cardinality(PlacesIn(s, c)) = IF c \in S THEN 1 ELSE 0
<1>1. DOMAIN s = 1 .. Cardinality(S) /\ Cardinality(S) \in Nat
  BY FS_CardinalityType DEF Listed
<1>2. CASE c \in S
  <2>1. PICK p \in 1 .. Cardinality(S) : s[p] = c
    BY <1>2 DEF Listed
  <2>2. ASSUME NEW q \in 1 .. Cardinality(S), s[q] = c PROVE q = p
    <3>1. ~ (q < p) /\ ~ (p < q)
      <4>1. c \in Int /\ ~ (c < c)
        BY <1>2
      <4>2. (q < p => s[q] < s[p]) /\ (p < q => s[p] < s[q])
        BY DEF Listed
      <4> QED  BY <2>1, <2>2, <4>1, <4>2
    <3> QED  BY <1>1, <3>1
  <2>3. PlacesIn(s, c) = {p}
    BY <1>1, <2>1, <2>2 DEF PlacesIn
  <2> QED  BY <1>2, <2>3, FS_Singleton
<1>3. CASE c \notin S
  <2>1. PlacesIn(s, c) = {}
    BY <1>1, <1>3 DEF Listed, PlacesIn
  <2> QED  BY <1>3, <2>1, FS_EmptySet
<1> QED  BY <1>2, <1>3

-----------------------------------------------------------------------------
(* Fits: the weights. *)

(* What the pool says of an object, and of some of them together.          *)
Own(d, i) == IF d.weights = <<>> THEN 1 ELSE d.weights[i]
WeightIn(d, some) ==
  LET upTo[n \in 0 .. Len(d.label)] ==
        IF n = 0 THEN 0 ELSE upTo[n - 1] + (IF n \in some THEN Own(d, n) ELSE 0)
  IN  upTo[Len(d.label)]

(* It is a number.                                                         *)
LEMMA WeightsAdd ==
  ASSUME NEW d, NEW n \in Nat, Len(d.label) = n, \A i \in 1 .. n : Own(d, i) \in Int, NEW some
  PROVE  WeightIn(d, some) \in Int
<1> DEFINE Counted(k) == IF k \in some THEN Own(d, k) ELSE 0
           F == [k \in 1 .. n |-> [x \in Int |-> x + Counted(k)]]
           Adds(g) == g = [k \in 0 .. n |-> IF k = 0 THEN 0 ELSE g[k - 1] + Counted(k)]
           upTo == CHOOSE g : Adds(g)
           Numbered == {k \in 0 .. n : upTo[k] \in Int}
<1>1. \A k \in 1 .. n : Counted(k) \in Int
  OBVIOUS
<1>2. F \in [1 .. n -> [Int -> Int]]
  BY <1>1
<1> HIDE DEF F
<1>3. PICK g : Stepwise(Int, n, 0, F, g)
  <2> DEFINE X == Int
  <2>1. 0 \in X /\ F \in [1 .. n -> [X -> X]]
    BY <1>2
  <2> HIDE DEF X
  <2>2. \E g : Stepwise(X, n, 0, F, g)
    BY <2>1, StepsExist
  <2> QED  BY <2>2 DEF X
<1>4. Adds(g)
  <2>1. ASSUME NEW k \in 0 .. n PROVE g[k] = IF k = 0 THEN 0 ELSE g[k - 1] + Counted(k)
    <3>1. CASE k = 0
      BY <1>3, <3>1 DEF Stepwise
    <3>2. CASE k # 0
      <4>1. k \in 1 .. n /\ k - 1 \in 0 .. n
        BY <3>2
      <4>2. g[k - 1] \in Int /\ g[k] = F[k][g[k - 1]]
        BY <1>3, <4>1 DEF Stepwise
      <4>3. F[k][g[k - 1]] = g[k - 1] + Counted(k)
        BY <4>1, <4>2 DEF F
      <4> QED  BY <3>2, <4>2, <4>3
    <3> QED  BY <3>1, <3>2
  <2>2. g \in [0 .. n -> Int]
    BY <1>3 DEF Stepwise
  <2> HIDE DEF Counted
  <2> QED  BY <2>1, <2>2
<1>5. Adds(upTo)
  <2> HIDE DEF Adds
  <2> QED  BY <1>4
<1> HIDE DEF upTo
<1>6. 0 \in Numbered
  BY <1>5
<1>7. ASSUME NEW k \in 0 .. n - 1, k \in Numbered PROVE k + 1 \in Numbered
  <2>1. k + 1 \in 0 .. n /\ k + 1 # 0 /\ (k + 1) - 1 = k /\ k + 1 \in 1 .. n
    OBVIOUS
  <2>2. upTo[k + 1] = upTo[k] + Counted(k + 1)
    <3> HIDE DEF Counted
    <3> QED  BY <1>5, <2>1
  <2>3. upTo[k] \in Int /\ Counted(k + 1) \in Int
    BY <1>1, <1>7, <2>1
  <2> HIDE DEF Counted
  <2> QED  BY <2>1, <2>2, <2>3
<1>8. 0 .. n \subseteq Numbered
  <2> HIDE DEF Numbered
  <2> QED  BY <1>6, <1>7, BoundedInduction
<1>9. n \in Numbered
  BY <1>8
<1>10. WeightIn(d, some) = upTo[n]
  BY DEF WeightIn, upTo
<1> QED  BY <1>9, <1>10

(* Of a list of numbers, Max is the greatest.                              *)
LEMMA MaxOfList ==
  ASSUME NEW n \in Nat \ {0}, NEW g \in [1 .. n -> Int], NEW S, S = {g[i] : i \in 1 .. n}
  PROVE  Max(S) \in S /\ Max(S) \in Int /\ \A y \in S : Max(S) >= y
<1>1. \E x \in S : \A y \in S : x >= y
  BY GreatestOfList
<1>2. Max(S) \in S /\ \A y \in S : Max(S) >= y
  BY <1>1 DEF Max
<1> QED  BY <1>2

(* The objects of the class of object i, and what they weigh.              *)
Fellows(d, i) == {k \in DOMAIN d.label : d.label[k] \div 2 = d.label[i] \div 2}
Alone(d, i) == WeightIn(d, Fellows(d, i))
Balanced(d, w) ==
  \A i, j \in DOMAIN d.label :
    Alone(d, i) > 0 /\ Alone(d, j) > 0 =>
      w[i].class.num * Alone(d, i) * w[j].class.den = w[j].class.num * Alone(d, j) * w[i].class.den

(* Labels that are classes have a number of classes.                       *)
LEMMA ObservedCounts ==
  ASSUME NEW n \in Nat, DOMAIN data.label = 1 .. n, ClassLabels,
         \A i \in 1 .. n : data.label[i] \in Int \union {NaN}
  PROVE  Observed \in Nat /\ \A i \in 1 .. n : ClassOf(i) \in 0 .. Observed - 1
<1>1. \A i \in 1 .. n : ClassOf(i) \in Nat
  BY DEF ClassLabels, ClassOf
<1> DEFINE g == [i \in 1 .. n + 1 |-> IF i = n + 1 THEN 0 ELSE ClassOf(i) + 1]
           S == {0} \union {ClassOf(i) + 1 : i \in DOMAIN data.label}
<1>2. g \in [1 .. n + 1 -> Int] /\ n + 1 \in Nat \ {0}
  BY <1>1
<1>3. S = {g[i] : i \in 1 .. n + 1}
  <2>1. ASSUME NEW y \in S PROVE \E i \in 1 .. n + 1 : y = g[i]
    <3>1. CASE y = 0
      <4>1. n + 1 \in 1 .. n + 1 /\ g[n + 1] = 0
        OBVIOUS
      <4> QED  BY <3>1, <4>1
    <3>2. CASE y # 0
      <4>1. PICK i \in 1 .. n : y = ClassOf(i) + 1
        BY <3>2
      <4>2. i \in 1 .. n + 1 /\ i # n + 1
        OBVIOUS
      <4> QED  BY <4>1, <4>2
    <3> QED  BY <3>1, <3>2
  <2>2. ASSUME NEW i \in 1 .. n + 1 PROVE g[i] \in S
    OBVIOUS
  <2> QED  BY <2>1, <2>2
<1> HIDE DEF g
<1>4. Observed = Max(S)
  BY DEF Observed
<1>5. \A i \in 1 .. n : ClassOf(i) + 1 \in S
  OBVIOUS
<1>6. 0 \in S
  OBVIOUS
<1> HIDE DEF S
<1>7. Max(S) \in Int /\ \A y \in S : Max(S) >= y
  BY <1>2, <1>3, MaxOfList
<1> QED  BY <1>1, <1>4, <1>5, <1>6, <1>7

(* Weights made from the classes balance them.                             *)
LEMMA AutoBalances ==
  ASSUME NEW n \in Nat, Len(data.label) = n, DOMAIN data.label = 1 .. n, ClassLabels,
         \A i \in 1 .. n : data.label[i] \in Int \union {NaN},
         \A i \in 1 .. n : Own(data, i) \in Int, NEW root
  PROVE  Balanced(data, resolve_object_weights(auto_class_weights(root)))
<1> DEFINE total == summary_class_weights
           top == Max({total[c] : c \in DOMAIN total})
           Of(c) == {i \in DOMAIN data.label : ClassOf(i) = c}
           aw == auto_class_weights(root)
<1> SUFFICES ASSUME NEW i \in 1 .. n, NEW j \in 1 .. n, Alone(data, i) > 0, Alone(data, j) > 0
             PROVE  LET w == resolve_object_weights(aw)
                    IN  w[i].class.num * Alone(data, i) * w[j].class.den
                          = w[j].class.num * Alone(data, j) * w[i].class.den
  BY DEF Balanced
<1>1. Observed \in Nat /\ \A k \in 1 .. n : ClassOf(k) \in 0 .. Observed - 1
  BY ObservedCounts
<1>2. total = [c \in 0 .. Observed - 1 |-> WeightIn(data, Of(c))]
  BY DEF summary_class_weights, WeightOf, WeightIn, BaseWeight, Own
<1>3. \A c : WeightIn(data, Of(c)) \in Int
  <2> HIDE DEF Of
  <2> QED  BY WeightsAdd
<1>4. \A k \in 1 .. n : Alone(data, k) = total[ClassOf(k)] /\ Alone(data, k) \in Int
  <2> SUFFICES ASSUME NEW k \in 1 .. n
               PROVE  Alone(data, k) = total[ClassOf(k)] /\ Alone(data, k) \in Int
    OBVIOUS
  <2>1. Fellows(data, k) = Of(ClassOf(k))
    BY DEF Fellows, ClassOf
  <2> HIDE DEF Of, total
  <2> QED  BY <1>1, <1>2, <1>3, <2>1 DEF Alone
<1>5. aw = [c \in DOMAIN total |->
              IF total[c] > 0 THEN ClassWeight(top, total[c], root) ELSE ClassWeight(1, 1, FALSE)]
  BY DEF auto_class_weights
<1> HIDE DEF total, aw, Of
<1>6. top \in Int
  <2> DEFINE g == [k \in 1 .. Observed |-> total[k - 1]]
             S == {total[c] : c \in DOMAIN total}
  <2>1. Observed \in Nat \ {0}
    BY <1>1
  <2>2. g \in [1 .. Observed -> Int]
    <3>1. ASSUME NEW k \in 1 .. Observed PROVE total[k - 1] \in Int
      <4>1. k - 1 \in 0 .. Observed - 1
        BY <2>1
      <4> QED  BY <1>2, <1>3, <4>1
    <3> QED  BY <3>1
  <2>3. S = {g[k] : k \in 1 .. Observed}
    <3>1. ASSUME NEW c \in DOMAIN total PROVE \E k \in 1 .. Observed : total[c] = g[k]
      <4>1. c \in 0 .. Observed - 1
        BY <1>2
      <4>2. c + 1 \in 1 .. Observed /\ (c + 1) - 1 = c
        BY <2>1, <4>1
      <4>3. g[c + 1] = total[c]
        BY <4>2
      <4> QED  BY <4>2, <4>3
    <3>2. ASSUME NEW k \in 1 .. Observed PROVE g[k] \in S
      <4>1. k - 1 \in DOMAIN total
        BY <1>2, <2>1
      <4> QED  BY <4>1
    <3> QED  BY <3>1, <3>2
  <2> HIDE DEF g
  <2>4. Max(S) \in Int
    <3> HIDE DEF S
    <3> QED  BY <2>1, <2>2, <2>3, MaxOfList
  <2> QED  BY <2>4
<1> HIDE DEF top
<1>7. ASSUME NEW k \in 1 .. n, Alone(data, k) > 0
      PROVE  /\ resolve_object_weights(aw)[k].class.num = top
             /\ resolve_object_weights(aw)[k].class.den = Alone(data, k)
  <2>1. ClassOf(k) \in DOMAIN total /\ total[ClassOf(k)] > 0
    BY <1>1, <1>2, <1>4, <1>7
  <2>2. aw[ClassOf(k)] = ClassWeight(top, total[ClassOf(k)], root)
    BY <1>5, <2>1
  <2>3. resolve_object_weights(aw)[k].class = aw[ClassOf(k)]
    BY DEF resolve_object_weights
  <2> QED  BY <1>4, <2>2, <2>3 DEF ClassWeight
<1>8. ASSUME NEW a \in Int, NEW b \in Int, NEW c \in Int PROVE a * b * c = a * c * b
  OBVIOUS
<1> DEFINE w == resolve_object_weights(aw)
<1>9. /\ w[i].class.num = top /\ w[i].class.den = Alone(data, i)
      /\ w[j].class.num = top /\ w[j].class.den = Alone(data, j)
  BY <1>7
<1>10. top * Alone(data, i) * Alone(data, j) = top * Alone(data, j) * Alone(data, i)
  BY <1>4, <1>6, <1>8
<1> HIDE DEF w
<1>11. w[i].class.num * Alone(data, i) * w[j].class.den = w[j].class.num * Alone(data, j) * w[i].class.den
  BY <1>9, <1>10
<1> QED  BY <1>11 DEF w

(* No control of the weights is active.                                    *)
Unweighted(f) == f.class_weights = <<>> /\ f.auto = "None" /\ f.scale = 1

(* What the weights say of a pool's objects.                               *)
Weighed(f, d, w) ==
  /\ ~ Unweighted(f) => \A i \in DOMAIN d.label : w[i].base = Own(d, i)
  /\ f.auto # "None" => Balanced(d, w)

(* Two controls are one too many.                                          *)
LEMMA ControlsAreOne ==
  ASSUME ~ (Cardinality(ActiveControls) > 1)
  PROVE  \A x, y \in ActiveControls : x = y
<1> SUFFICES ASSUME NEW x \in ActiveControls, NEW y \in ActiveControls, x # y PROVE FALSE
  OBVIOUS
<1>1. ActiveControls \subseteq {"explicit"} \union {"auto"} \union {"scaled"}
  BY DEF ActiveControls
<1>2. IsFiniteSet({"explicit"} \union {"auto"} \union {"scaled"})
  <2>1. IsFiniteSet({"explicit"})
    BY FS_Singleton
  <2>2. IsFiniteSet({"explicit"} \union {"auto"})
    BY <2>1, FS_AddElement
  <2> QED  BY <2>2, FS_AddElement
<1>3. IsFiniteSet(ActiveControls)
  BY <1>1, <1>2, FS_Subset
<1>4. IsFiniteSet({x}) /\ Cardinality({x}) = 1
  BY FS_Singleton
<1>5. Cardinality({x} \union {y}) = 2
  BY <1>4, FS_AddElement
<1>6. Cardinality({x} \union {y}) <= Cardinality(ActiveControls)
  BY <1>3, FS_Subset
<1>7. Cardinality(ActiveControls) \in Nat
  BY <1>3, FS_CardinalityType
<1> QED  BY <1>5, <1>6, <1>7

(* So are the weights a fit resolves.                                      *)
LEMMA WeightsResolve ==
  ASSUME PoolOf(fit.source, data), ~ WeightsRejected
  PROVE  /\ Weighed(fit, data, resolve_weights)
         /\ Unweighted(fit) => resolve_weights = <<>>
         /\ ~ Unweighted(fit) /\ data.label # <<>> => resolve_weights # <<>>
<1> DEFINE n == Len(data.label)
<1>1. n \in Nat /\ DOMAIN data.label = 1 .. n /\ \A i \in 1 .. n : data.label[i] \in Int \union {NaN}
  BY DEF PoolOf, LabelsOf
<1>2. \A i \in 1 .. n : Own(data, i) \in Int
  <2> SUFFICES ASSUME NEW i \in 1 .. n PROVE Own(data, i) \in Int
    OBVIOUS
  <2>1. i \in 1 .. data.rows
    BY <1>1 DEF PoolOf, LabelsOf
  <2>2. data.weights = <<>> \/ data.weights \in [1 .. data.rows -> Int]
    BY DEF PoolOf, LabelsOf
  <2>3. CASE data.weights = <<>>
    BY <2>3 DEF Own
  <2>4. CASE data.weights # <<>>
    <3>1. data.weights[i] \in Int
      BY <2>1, <2>2, <2>4
    <3> QED  BY <2>4, <3>1 DEF Own
  <2> QED  BY <2>3, <2>4
<1>3. Unweighted(fit) <=> ActiveControls = {}
  BY DEF Unweighted, ActiveControls
<1>4. CASE Unweighted(fit)
  <2>1. resolve_weights = <<>>
    BY <1>3, <1>4 DEF resolve_weights
  <2> QED  BY <1>4, <2>1 DEF Weighed, Unweighted
<1>5. CASE ~ Unweighted(fit)
  <2>1. resolve_weights = resolve_object_weights(ClassWeights)
    BY <1>3, <1>5 DEF resolve_weights
  <2>2. resolve_object_weights(ClassWeights)
          = [i \in DOMAIN data.label |-> [base |-> Own(data, i), class |-> ClassWeights[ClassOf(i)]]]
    BY DEF resolve_object_weights, BaseWeight, Own
  <2>3. \A i \in DOMAIN data.label : resolve_weights[i].base = Own(data, i)
    BY <2>1, <2>2
  <2>4. data.label # <<>> => resolve_weights # <<>>
    <3> SUFFICES ASSUME data.label # <<>>, resolve_weights = <<>> PROVE FALSE
      OBVIOUS
    <3>1. DOMAIN resolve_weights = DOMAIN data.label
      BY <2>1, <2>2
    <3>2. DOMAIN data.label = {}
      BY <3>1
    <3>3. n = 0
      BY <1>1, <3>2
    <3> QED  BY <3>3 DEF PoolOf, LabelsOf
  <2>5. ASSUME fit.auto # "None" PROVE Balanced(data, resolve_weights)
    <3>1. ClassLabels /\ ~ (Cardinality(ActiveControls) > 1)
      BY <1>3, <1>5 DEF WeightsRejected
    <3>2. "auto" \in ActiveControls /\ ActiveControls = {"auto"}
      BY <2>5, <3>1, ControlsAreOne DEF ActiveControls
    <3>3. fit.class_weights = <<>> /\ fit.scale = 1
      BY <3>2 DEF ActiveControls
    <3>4. ClassWeights = auto_class_weights(fit.auto = "SqrtBalanced")
      BY <3>3 DEF ClassWeights
    <3> QED  BY <1>1, <1>2, <2>1, <3>1, <3>4, AutoBalances
  <2> QED  BY <1>5, <2>3, <2>4, <2>5 DEF Weighed
<1> QED  BY <1>4, <1>5

-----------------------------------------------------------------------------
(* Fits: the matrix. *)

(* A feature is ignored at its flat place.                                 *)
Hidden(f, place) == \E h \in ToSet(f.ignored) : h + 1 = place

(* Every categorical column that varies and is not ignored is encoded      *)
(* once, by bins that tell its values apart, and one-hot bins stand for    *)
(* their values.                                                           *)
CatsSeen(f, d, places, one_hot, ctr, ctr_bins) ==
  \A c \in DOMAIN d.cats :
    LET varied == Cardinality({CatHash(d.cats[c][i]) : i \in 1 .. d.rows}) > 1
    IN  /\ Cardinality(PlacesIn(places, c)) + Cardinality(PlacesIn(ctr, c))
              = IF varied /\ ~ Hidden(f, Len(d.floats) + c) THEN 1 ELSE 0
        /\ \A p \in PlacesIn(ctr, c), i, j \in 1 .. d.rows :
             ctr_bins[p][i] = ctr_bins[p][j] <=> CatHash(d.cats[c][i]) = CatHash(d.cats[c][j])
        /\ \A p \in PlacesIn(places, c), i \in 1 .. d.rows :
             one_hot[p].hash[one_hot[p].bins[i]] = CatHash(d.cats[c][i])

(* Of the categorical columns as the encoding finds them, the ignored have *)
(* one value and the others their own.                                     *)
LEMMA MaskedColumns ==
  ASSUME fit \in Fits, PoolOf(fit.source, data), NEW cats, cats = mask_ignored_cat_columns(data.cats, IgnoredCats),
         NEW c \in DOMAIN data.cats
  PROVE  /\ DOMAIN cats = DOMAIN data.cats /\ DOMAIN cats[c] = 1 .. data.rows
         /\ ~ Hidden(fit, Len(data.floats) + c) => cats[c] = data.cats[c]
         /\ Hidden(fit, Len(data.floats) + c) => learn_set_cardinality(cats[c]) <= 1
<1> DEFINE n == data.rows
<1>1. /\ n \in Nat /\ DOMAIN data.cats = 1 .. Len(data.cats) /\ Len(data.floats) \in Nat
      /\ Len(data.cats) \in Nat /\ DOMAIN data.cats[c] = 1 .. n
  BY DEF PoolOf
<1>2. c \in Int
  BY <1>1
<1>3. c \in IgnoredCats <=> Hidden(fit, Len(data.floats) + c)
  <2>1. ToSet(fit.ignored) \subseteq Nat
    BY FitsAssumption
  <2>2. \A h \in Nat : h + 1 - Len(data.floats) = c <=> h + 1 = Len(data.floats) + c
    <3> DEFINE l == Len(data.floats)
    <3>1. l \in Nat /\ c \in Int
      BY <1>1, <1>2
    <3> HIDE DEF l
    <3>2. \A h \in Nat : h + 1 - l = c <=> h + 1 = l + c
      BY <3>1
    <3> QED  BY <3>2 DEF l
  <2>3. c \in IgnoredCats <=> \E h \in ToSet(fit.ignored) : h + 1 - Len(data.floats) = c
    BY <1>1 DEF IgnoredCats
  <2> QED  BY <2>1, <2>2, <2>3 DEF Hidden
<1>4. cats[c] = IF c \in IgnoredCats THEN [k \in 1 .. n |-> ""] ELSE data.cats[c]
  BY DEF mask_ignored_cat_columns, PoolRows
<1>5. DOMAIN cats = DOMAIN data.cats
  BY DEF mask_ignored_cat_columns
<1>6. DOMAIN cats[c] = 1 .. n
  BY <1>1, <1>4
<1>7. ASSUME c \in IgnoredCats PROVE learn_set_cardinality(cats[c]) <= 1
  <2>1. \A i, j \in 1 .. n : j \in Alike(cats[c], i)
    BY <1>4, <1>6, <1>7 DEF Alike
  <2>2. \A i, j \in PerfectHash(cats[c]) : i = j
    <3> SUFFICES ASSUME NEW i \in PerfectHash(cats[c]), NEW j \in PerfectHash(cats[c]) PROVE i = j
      OBVIOUS
    <3>1. i \in 1 .. n /\ j \in 1 .. n
      BY <1>6 DEF PerfectHash
    <3>2. i <= j /\ j <= i
      BY <2>1, <3>1 DEF PerfectHash
    <3> QED  BY <1>1, <3>1, <3>2
  <2>3. CASE PerfectHash(cats[c]) = {}
    BY <2>3, FS_EmptySet DEF learn_set_cardinality
  <2>4. CASE PerfectHash(cats[c]) # {}
    <3>1. PICK i \in PerfectHash(cats[c]) : TRUE
      BY <2>4
    <3>2. PerfectHash(cats[c]) = {i}
      BY <2>2, <3>1
    <3>3. Cardinality({i}) = 1
      BY FS_Singleton
    <3> QED  BY <3>2, <3>3 DEF learn_set_cardinality
  <2> QED  BY <2>3, <2>4
<1> QED  BY <1>3, <1>4, <1>5, <1>6, <1>7

(* So the encoding sees them.                                              *)
LEMMA EncodedSees ==
  ASSUME fit \in Fits, PoolOf(fit.source, data), NEW cats, cats = mask_ignored_cat_columns(data.cats, IgnoredCats),
         NEW m, m.kind = "matrix", m = Encoded(cats)
  PROVE  CatsSeen(fit, data, m.places, m.one_hot, m.ctr, m.ctr_bins)
<1> DEFINE one_hot == partition_cat_columns(cats, "onehot")
           ctr == partition_cat_columns(cats, "ctr")
           O == Routed(fit, cats, "onehot")
           C == Routed(fit, cats, "ctr")
           n == data.rows
<1>1. /\ m.places = one_hot /\ m.ctr = ctr
      /\ m.one_hot = build_one_hot_columns(cats, one_hot)
      /\ m.ctr_bins = [p \in DOMAIN ctr |-> perfect_hash_bins(cats[ctr[p]])]
  BY DEF Encoded, Rejection
<1>2. n \in Nat /\ Len(data.cats) \in Nat /\ DOMAIN cats = 1 .. Len(data.cats) /\ DOMAIN data.cats = 1 .. Len(data.cats)
  BY DEF PoolOf, mask_ignored_cat_columns
<1>3. Listed(O, one_hot) /\ Listed(C, ctr)
  BY <1>2, RoutesAreListed
<1>4. O \in SUBSET Int /\ C \in SUBSET Int /\ IsFiniteSet(O) /\ IsFiniteSet(C)
  <2>1. IsFiniteSet(1 .. Len(data.cats))
    BY <1>2, FS_Interval
  <2>2. O \subseteq 1 .. Len(data.cats) /\ C \subseteq 1 .. Len(data.cats)
    BY <1>2 DEF Routed
  <2> QED  BY <2>1, <2>2, FS_Subset
<1> SUFFICES ASSUME NEW c \in DOMAIN data.cats
             PROVE  LET varied == Cardinality({CatHash(data.cats[c][i]) : i \in 1 .. n}) > 1
                    IN  /\ Cardinality(PlacesIn(m.places, c)) + Cardinality(PlacesIn(m.ctr, c))
                              = IF varied /\ ~ Hidden(fit, Len(data.floats) + c) THEN 1 ELSE 0
                        /\ \A p \in PlacesIn(m.ctr, c), i, j \in 1 .. n :
                             m.ctr_bins[p][i] = m.ctr_bins[p][j] <=> CatHash(data.cats[c][i]) = CatHash(data.cats[c][j])
                        /\ \A p \in PlacesIn(m.places, c), i \in 1 .. n :
                             m.one_hot[p].hash[m.one_hot[p].bins[i]] = CatHash(data.cats[c][i])
  BY DEF CatsSeen
<1> DEFINE varied == Cardinality({CatHash(data.cats[c][i]) : i \in 1 .. n}) > 1
           hidden == Hidden(fit, Len(data.floats) + c)
           size == learn_set_cardinality(cats[c])
<1>5. /\ DOMAIN cats[c] = 1 .. n
      /\ ~ hidden => cats[c] = data.cats[c]
      /\ hidden => size <= 1
  BY MaskedColumns
<1>6. size \in Nat
  BY <1>2, <1>5, BringersAreNumbers
<1>7. ~ hidden => (varied <=> size > 1)
  <2> SUFFICES ASSUME ~ hidden PROVE varied <=> size > 1
    OBVIOUS
  <2>1. size = Cardinality({CatHash(cats[c][i]) : i \in 1 .. n})
    BY <1>2, <1>5, HashesAreCounted
  <2> QED  BY <1>5, <2>1
<1>8. /\ c \in O => size > 1 /\ c \notin C
      /\ c \in C => size > 1
      /\ size > 1 => c \in O \/ c \in C
  <2> HIDE DEF size
  <2>1. c \in DOMAIN cats
    BY <1>2
  <2>2. /\ c \in O <=> "onehot" = IF size <= 1 THEN "skip" ELSE IF size <= fit.one_hot_max_size THEN "onehot" ELSE "ctr"
        /\ c \in C <=> "ctr" = IF size <= 1 THEN "skip" ELSE IF size <= fit.one_hot_max_size THEN "onehot" ELSE "ctr"
    BY <2>1 DEF Routed, size
  <2>3. size <= 1 <=> ~ (size > 1)
    BY <1>6
  <2> QED  BY <2>2, <2>3
<1>9. /\ Cardinality(PlacesIn(one_hot, c)) = IF c \in O THEN 1 ELSE 0
      /\ Cardinality(PlacesIn(ctr, c)) = IF c \in C THEN 1 ELSE 0
  <2> HIDE DEF O, C, one_hot, ctr
  <2> QED  BY <1>3, <1>4, PlacesOfListed
<1> HIDE DEF O, C, one_hot, ctr, varied, hidden, size
<1>10. Cardinality(PlacesIn(m.places, c)) + Cardinality(PlacesIn(m.ctr, c))
         = IF varied /\ ~ hidden THEN 1 ELSE 0
  <2>1. varied /\ ~ hidden <=> size > 1
    BY <1>5, <1>6, <1>7
  <2> QED  BY <1>1, <1>8, <1>9, <2>1
<1>11. size > 1 => cats[c] = data.cats[c]
  BY <1>5, <1>6
<1>12. ASSUME NEW i \in 1 .. n, NEW j \in 1 .. n
       PROVE  perfect_hash_bins(cats[c])[i] = perfect_hash_bins(cats[c])[j]
                <=> CatHash(cats[c][i]) = CatHash(cats[c][j])
  BY <1>2, <1>5, BinsTellApart
<1>13. ASSUME NEW p \in PlacesIn(m.ctr, c), NEW i \in 1 .. n, NEW j \in 1 .. n
       PROVE  m.ctr_bins[p][i] = m.ctr_bins[p][j] <=> CatHash(data.cats[c][i]) = CatHash(data.cats[c][j])
  <2>1. c \in C
    BY <1>1, <1>3, <1>13 DEF Listed, PlacesIn
  <2>2. cats[c] = data.cats[c]
    BY <1>8, <1>11, <2>1
  <2>3. m.ctr_bins[p] = perfect_hash_bins(cats[c])
    BY <1>1, <1>13 DEF PlacesIn
  <2> QED  BY <1>12, <2>2, <2>3
<1>14. ASSUME NEW p \in PlacesIn(m.places, c), NEW i \in 1 .. n
       PROVE  m.one_hot[p].hash[m.one_hot[p].bins[i]] = CatHash(data.cats[c][i])
  <2> DEFINE bins == perfect_hash_bins(cats[c])
             hash == [b \in ToSet(bins) |-> CatHash(cats[c][Min({k \in DOMAIN bins : bins[k] = b})])]
             K == {k \in DOMAIN bins : bins[k] = bins[i]}
  <2>1. c \in O
    BY <1>1, <1>3, <1>14 DEF Listed, PlacesIn
  <2>2. cats[c] = data.cats[c]
    BY <1>8, <1>11, <2>1
  <2>3. m.one_hot[p].bins = bins /\ m.one_hot[p].hash = hash
    <3>1. p \in DOMAIN one_hot /\ one_hot[p] = c /\ m.one_hot[p] = build_one_hot_columns(cats, one_hot)[p]
      BY <1>1, <1>14 DEF PlacesIn
    <3>2. build_one_hot_columns(cats, one_hot)[p] = [bins |-> bins, hash |-> hash]
      BY <3>1 DEF build_one_hot_columns
    <3> QED  BY <3>1, <3>2
  <2>4. DOMAIN bins = 1 .. n
    BY <1>5 DEF perfect_hash_bins
  <2> HIDE DEF bins
  <2>5. bins[i] \in ToSet(bins)
    BY <2>4 DEF ToSet
  <2>6. hash[bins[i]] = CatHash(cats[c][Min(K)])
    BY <2>5
  <2>7. Min(K) \in K
    <3>1. K \in SUBSET Nat /\ i \in K
      BY <1>2, <2>4
    <3> HIDE DEF K
    <3>2. \E x \in K : \A y \in K : x <= y
      BY <3>1, LeastElement
    <3> QED  BY <3>2 DEF Min
  <2>8. Min(K) \in 1 .. n /\ bins[Min(K)] = bins[i]
    BY <2>4, <2>7
  <2>9. CatHash(cats[c][Min(K)]) = CatHash(cats[c][i])
    <3> HIDE DEF K
    <3> QED  BY <1>12, <2>8 DEF bins
  <2> QED  BY <2>2, <2>3, <2>6, <2>9
<1> QED  BY <1>10, <1>13, <1>14 DEF varied, hidden

-----------------------------------------------------------------------------
(* Fits: the stages. *)

(* The numbers of a float column and the borders they call for, which an   *)
(* ignored column loses once the rest is prepared.                         *)
Stored(d, g) == IF d.f32 # <<>> THEN d.f32[g] ELSE [k \in 1 .. d.rows |-> Narrow(d.floats[g][k])]
BordersFor(f, column) ==
  IF HasNaN(column)
  THEN CASE f.nan_mode = "Min" -> select_borders(column, f.border_count, f.type, TRUE)
         [] f.nan_mode = "Max" ->
              Append(select_borders(column, real_border_budget(f.border_count, TRUE), f.type, FALSE), Highest)
         [] OTHER -> select_borders(column, f.border_count, f.type, FALSE)
  ELSE select_borders(column, f.border_count, f.type, FALSE)
ColumnOf(f, d, g, rest) ==
  [values |-> Stored(d, g),
   borders |-> IF rest /\ Hidden(f, g) THEN <<>> ELSE BordersFor(f, Stored(d, g))]
ColumnsOf(f, d, rest, cs) == \A g \in DOMAIN cs : g \in 1 .. Len(d.floats) /\ cs[g] = ColumnOf(f, d, g, rest)

(* Weights stand for the controls, and masked columns for the ignored.     *)
RestOf(f, d, p) ==
  /\ p.masked = {h + 1 - Len(d.floats) : h \in ToSet(f.ignored)} \intersect 1 .. Len(d.cats)
  /\ Weighed(f, d, p.weights)
  /\ Unweighted(f) => p.weights = <<>>
  /\ ~ Unweighted(f) /\ d.label # <<>> => p.weights # <<>>

(* What the trees are grown on is the pool, encoded and weighed.           *)
Sees(f, d, m) ==
  /\ f \in Fits /\ PoolOf(f.source, d)
  /\ DOMAIN m.floats = 1 .. Len(d.floats) /\ ColumnsOf(f, d, TRUE, m.floats)
  /\ m.label = d.label /\ d.label # <<>>
  /\ CatsSeen(f, d, m.places, m.one_hot, m.ctr, m.ctr_bins)
  /\ Weighed(f, d, m.weights)
  /\ Unweighted(f) => m.weights = d.weights \/ (d.weights = <<>> /\ m.weights = [i \in 1 .. d.rows |-> 1])

(* Each stage of a fit keeps what the stages before it made.               *)
Prepared(f, d, cs, p, m) ==
  /\ f = Unset \/ f \in Fits
  /\ f = Unset => d = Unset
  /\ d = Unset => cs = <<>> /\ p = Unset /\ m = Unset
  /\ d.kind = "pool" => f \in Fits /\ PoolOf(f.source, d)
  /\ ColumnsOf(f, d, p # Unset, cs)
  /\ p # Unset => RestOf(f, d, p)
  /\ m # Unset /\ m.kind = "matrix" => Sees(f, d, m)
PreparationInv == Prepared(fit, data, columns, prepared, matrix)

(* A rejection is no matrix.                                               *)
LEMMA RejectionIsNone == \A why : Rejection(why).kind = "rejected"
BY DEF Rejection

(* A call is asked for.                                                    *)
LEMMA AskedKeeps == PreparationInv /\ FitAsked => PreparationInv'
<1> SUFFICES ASSUME PreparationInv, FitAsked PROVE PreparationInv'
  OBVIOUS
<1>1. data = Unset /\ columns = <<>> /\ prepared = Unset /\ matrix = Unset /\ fit' \in Fits
  BY DEF PreparationInv, Prepared, FitAsked
<1>2. data' = Unset /\ columns' = <<>> /\ prepared' = Unset /\ matrix' = Unset
  BY <1>1 DEF FitAsked
<1>3. Unset.kind # "pool"
  BY DEF Unset
<1> QED  BY <1>1, <1>2, <1>3 DEF PreparationInv, Prepared, ColumnsOf

(* Its source is ingested.                                                 *)
LEMMA IngestKeeps == PreparationInv /\ Ingest => PreparationInv'
<1> SUFFICES ASSUME PreparationInv, Ingest PROVE PreparationInv'
  OBVIOUS
<1>1. fit \in Fits /\ fit # Unset /\ columns = <<>> /\ prepared = Unset /\ matrix = Unset
  BY DEF PreparationInv, Prepared, Ingest
<1>2. fit' = fit /\ columns' = <<>> /\ prepared' = Unset /\ matrix' = Unset
  BY <1>1 DEF Ingest
<1>3. data'.kind = "pool" => PoolOf(fit.source, data')
  <2>1. /\ fit.source.kind \in {"owned", "arrow", "polars"}
        /\ data' = CASE fit.source.kind = "owned" -> OwnedIntoPool(fit.source)
                     [] fit.source.kind = "arrow" -> ArrowIntoPool(fit.source)
                     [] fit.source.kind = "polars" -> PolarsIntoPool(fit.source)
    BY <1>1, FitsAssumption DEF Ingest
  <2> QED  BY <1>1, <2>1, SourceIsPooled
<1> QED  BY <1>1, <1>2, <1>3 DEF PreparationInv, Prepared, ColumnsOf

(* A step that only rejects or quantizes.                                  *)
LEMMA EndKeeps ==
  ASSUME PreparationInv, data # Unset, UNCHANGED <<fit, data, columns, prepared>>,
         matrix'.kind # "matrix"
  PROVE  PreparationInv'
BY DEF PreparationInv, Prepared

(* A column is prepared.                                                   *)
LEMMA ColumnKeeps ==
  ASSUME PreparationInv, NEW f, PrepareColumn(f) PROVE PreparationInv'
<1>1. /\ data.kind = "pool" /\ matrix = Unset /\ prepared = Unset /\ f \in 1 .. Len(data.floats)
      /\ UNCHANGED <<fit, data, prepared, matrix>>
      /\ columns' = [g \in DOMAIN columns \union {f} |->
                       IF g = f THEN [values |-> StorageColumn(f), borders |-> borders_for_col(StorageColumn(f))]
                       ELSE columns[g]]
  BY DEF PrepareColumn, Floats
<1>2. data # Unset
  BY <1>1 DEF Unset
<1>3. StorageColumn(f) = Stored(data, f)
  BY DEF StorageColumn, Stored, PoolRows
<1>4. borders_for_col(Stored(data, f)) = BordersFor(fit, Stored(data, f))
  BY DEF borders_for_col, BordersFor
<1>5. ColumnsOf(fit, data, FALSE, columns)
  BY <1>1 DEF PreparationInv, Prepared
<1>6. ColumnOf(fit, data, f, FALSE) = [values |-> Stored(data, f), borders |-> BordersFor(fit, Stored(data, f))]
  BY DEF ColumnOf
<1>7. ColumnsOf(fit, data, FALSE, columns')
  BY <1>1, <1>3, <1>4, <1>5, <1>6 DEF ColumnsOf
<1> QED  BY <1>1, <1>2, <1>7 DEF PreparationInv, Prepared

(* The rest is prepared.                                                   *)
LEMMA RestKeeps == PreparationInv /\ PrepareTheRest => PreparationInv'
<1> SUFFICES ASSUME PreparationInv, PrepareTheRest PROVE PreparationInv'
  OBVIOUS
<1>1. data.kind = "pool" /\ matrix = Unset /\ prepared = Unset /\ UNCHANGED <<fit, data>>
  BY DEF PrepareTheRest, AllPrepared
<1>2. data # Unset /\ fit \in Fits /\ PoolOf(fit.source, data) /\ ColumnsOf(fit, data, FALSE, columns)
  <2>1. data # Unset
    BY <1>1 DEF Unset
  <2> QED  BY <1>1, <2>1 DEF PreparationInv, Prepared
<1>3. CASE matrix' = Rejection("options") /\ UNCHANGED <<columns, prepared>>
  BY <1>1, <1>2, <1>3, EndKeeps, RejectionIsNone
<1>4. CASE /\ ~ WeightsRejected
           /\ prepared' = [kind |-> "prepared", weights |-> resolve_weights, masked |-> IgnoredCats]
           /\ columns' = [f \in DOMAIN columns |->
                            IF f \in IgnoredFloats THEN [columns[f] EXCEPT !.borders = <<>>] ELSE columns[f]]
           /\ UNCHANGED matrix
  <2>1. prepared' # Unset
    BY <1>4 DEF Unset
  <2>2. RestOf(fit, data, prepared')
    <3>1. prepared'.masked = IgnoredCats /\ prepared'.weights = resolve_weights
      BY <1>4
    <3> QED  BY <1>2, <1>4, <3>1, WeightsResolve DEF RestOf, IgnoredCats
  <2>3. ASSUME NEW g \in DOMAIN columns
        PROVE  g \in 1 .. Len(data.floats) /\ columns'[g] = ColumnOf(fit, data, g, TRUE)
    <3>1. g \in 1 .. Len(data.floats) /\ columns[g] = ColumnOf(fit, data, g, FALSE)
      BY <1>2 DEF ColumnsOf
    <3>2. g \in IgnoredFloats <=> Hidden(fit, g)
      BY <3>1 DEF IgnoredFloats, Hidden, Floats
    <3>3. columns[g] = [values |-> Stored(data, g), borders |-> BordersFor(fit, Stored(data, g))]
      BY <3>1 DEF ColumnOf
    <3>4. ColumnOf(fit, data, g, TRUE)
            = [values |-> Stored(data, g),
               borders |-> IF g \in IgnoredFloats THEN <<>> ELSE BordersFor(fit, Stored(data, g))]
      BY <3>2 DEF ColumnOf
    <3>5. columns'[g] = IF g \in IgnoredFloats THEN [columns[g] EXCEPT !.borders = <<>>] ELSE columns[g]
      BY <1>4
    <3>6. [columns[g] EXCEPT !.borders = <<>>] = [values |-> Stored(data, g), borders |-> <<>>]
      BY <3>3
    <3> QED  BY <3>1, <3>3, <3>4, <3>5, <3>6
  <2>4. ColumnsOf(fit, data, TRUE, columns')
    BY <1>4, <2>3 DEF ColumnsOf
  <2> QED  BY <1>1, <1>2, <1>4, <2>1, <2>2, <2>4 DEF PreparationInv, Prepared
<1> QED  BY <1>3, <1>4 DEF PrepareTheRest

(* The trainer is entered.                                                 *)
LEMMA DispatchKeeps == PreparationInv /\ Dispatch => PreparationInv'
<1> SUFFICES ASSUME PreparationInv, Dispatch PROVE PreparationInv'
  OBVIOUS
<1> DEFINE cats == mask_ignored_cat_columns(data.cats, prepared.masked)
           e == Encoded(cats)
           Dense == [e EXCEPT !.entry = "snapshot", !.weights = DenseWeights(e.weights)]
<1>1. /\ data.kind = "pool" /\ matrix = Unset /\ prepared # Unset /\ DOMAIN columns = 1 .. Len(data.floats)
      /\ UNCHANGED <<fit, data, columns, prepared>>
  BY DEF Dispatch, AllPrepared, Floats
<1>2. /\ data # Unset /\ fit \in Fits /\ PoolOf(fit.source, data) /\ ColumnsOf(fit, data, TRUE, columns)
      /\ RestOf(fit, data, prepared)
  <2>1. data # Unset
    BY <1>1 DEF Unset
  <2> QED  BY <1>1, <2>1 DEF PreparationInv, Prepared
<1>3. matrix' = Rejection("call") \/ matrix' = e \/ (e.kind = "matrix" /\ matrix' = Dense)
  BY DEF Dispatch
<1>4. CASE matrix'.kind # "matrix"
  BY <1>1, <1>2, <1>4, EndKeeps
<1>5. CASE matrix'.kind = "matrix"
  <2>1. cats = mask_ignored_cat_columns(data.cats, IgnoredCats)
    BY <1>2 DEF RestOf, IgnoredCats
  <2>2. e.kind = "matrix" /\ (matrix' = e \/ matrix' = Dense)
    BY <1>3, <1>5, RejectionIsNone
  <2> HIDE DEF cats
  <2>3. CatsSeen(fit, data, e.places, e.one_hot, e.ctr, e.ctr_bins)
    BY <1>2, <2>1, <2>2, EncodedSees
  <2> DEFINE one_hot == partition_cat_columns(cats, "onehot")
             ctr == partition_cat_columns(cats, "ctr")
             w == IF prepared.weights # <<>> THEN prepared.weights ELSE data.weights
  <2>4. /\ data.label # <<>>
        /\ e = [kind |-> "matrix", entry |-> "train", floats |-> columns,
                places |-> one_hot, one_hot |-> build_one_hot_columns(cats, one_hot),
                ctr |-> ctr, ctr_bins |-> [p \in DOMAIN ctr |-> perfect_hash_bins(cats[ctr[p]])],
                label |-> data.label, weights |-> w]
    BY <2>2, RejectionIsNone DEF Encoded
  <2>5. /\ matrix'.floats = columns /\ matrix'.label = data.label /\ matrix'.places = e.places
        /\ matrix'.one_hot = e.one_hot /\ matrix'.ctr = e.ctr /\ matrix'.ctr_bins = e.ctr_bins
        /\ matrix'.weights = w \/ matrix'.weights = DenseWeights(w)
    <3>1. /\ Dense.floats = e.floats /\ Dense.label = e.label /\ Dense.places = e.places
          /\ Dense.one_hot = e.one_hot /\ Dense.ctr = e.ctr /\ Dense.ctr_bins = e.ctr_bins
          /\ Dense.weights = DenseWeights(e.weights)
      <4>1. DOMAIN e = {"kind", "entry", "floats", "places", "one_hot", "ctr", "ctr_bins", "label", "weights"}
        <5> HIDE DEF e, one_hot, ctr, w
        <5> QED  BY <2>4
      <4> HIDE DEF e
      <4> QED  BY <4>1
    <3>2. CASE matrix' = e
      <4> HIDE DEF e, one_hot, ctr, w
      <4> QED  BY <2>4, <3>2
    <3>3. CASE matrix' = Dense
      <4> HIDE DEF e, one_hot, ctr, w, Dense
      <4> QED  BY <2>4, <3>1, <3>3
    <3> QED  BY <2>2, <3>2, <3>3
  <2> HIDE DEF e, one_hot, ctr, w
  <2>6. CatsSeen(fit, data, matrix'.places, matrix'.one_hot, matrix'.ctr, matrix'.ctr_bins)
    BY <2>3, <2>5
  <2>7. CASE Unweighted(fit)
    <3>1. w = data.weights
      BY <1>2, <2>7 DEF RestOf, w
    <3>2. DenseWeights(w) = IF w = <<>> THEN [i \in 1 .. data.rows |-> 1] ELSE w
      BY DEF DenseWeights, PoolRows
    <3>3. Weighed(fit, data, matrix'.weights)
      BY <2>7 DEF Weighed, Unweighted
    <3>4. matrix'.weights = data.weights \/ (data.weights = <<>> /\ matrix'.weights = [i \in 1 .. data.rows |-> 1])
      <4>1. matrix'.weights = w \/ matrix'.weights = DenseWeights(w)
        BY <2>5
      <4> QED  BY <3>1, <3>2, <4>1
    <3>5. Sees(fit, data, matrix')
      BY <1>1, <1>2, <2>4, <2>5, <2>6, <3>3, <3>4 DEF Sees
    <3> QED  BY <1>1, <1>2, <3>5 DEF PreparationInv, Prepared
  <2>8. CASE ~ Unweighted(fit)
    <3>1. w = prepared.weights /\ w # <<>> /\ DenseWeights(w) = w
      BY <1>2, <2>4, <2>8 DEF RestOf, DenseWeights, w
    <3>2. Weighed(fit, data, matrix'.weights)
      BY <1>2, <2>5, <3>1 DEF RestOf
    <3>3. Sees(fit, data, matrix')
      BY <1>1, <1>2, <2>4, <2>5, <2>6, <2>8, <3>2 DEF Sees
    <3> QED  BY <1>1, <1>2, <3>3 DEF PreparationInv, Prepared
  <2> QED  BY <2>7, <2>8
<1> QED  BY <1>4, <1>5

(* Whatever a fit does next keeps it.                                      *)
LEMMA PreparationStep == PreparationInv /\ PreparationNext => PreparationInv'
<1> SUFFICES ASSUME PreparationInv, PreparationNext PROVE PreparationInv'
  OBVIOUS
<1>1. Unset.kind # "pool"
  BY DEF Unset
<1>2. CASE FitRejected
  BY <1>1, <1>2, EndKeeps, RejectionIsNone DEF FitRejected
<1>3. CASE QuantizePool
  <2>1. data # Unset /\ UNCHANGED <<fit, data, columns, prepared>>
    BY <1>1, <1>3 DEF QuantizePool
  <2>2. matrix'.kind # "matrix"
    BY <1>3 DEF QuantizePool, Rejection
  <2> QED  BY <2>1, <2>2, EndKeeps
<1> QED  BY <1>2, <1>3, AskedKeeps, IngestKeeps, ColumnKeeps, RestKeeps, DispatchKeeps DEF PreparationNext

(* A pool's own weights are the source's.                                  *)
OwnWeight(s, i) == IF s.kind = "owned" /\ s.weights # <<>> THEN s.weights[i] ELSE 1

(* So what the trees are grown on is the data.                             *)
LEMMA SeenIsTheData == PreparationInv => TrainerSeesTheData
<1> SUFFICES ASSUME PreparationInv, matrix # Unset, matrix.kind = "matrix"
             PROVE  /\ NumbersArrive(fit.source)
                    /\ \A i \in PoolRows : matrix.label[i] = SourceLabel(fit.source, i)
                    /\ CategoriesArrive(SourceCats(fit.source))
                    /\ WeightsArrive(fit.source)
  BY DEF TrainerSeesTheData
<1> DEFINE s == fit.source
<1>1. Sees(fit, data, matrix)
  BY DEF PreparationInv, Prepared
<1>2. fit \in Fits /\ PoolOf(s, data) /\ data.rows \in Nat
  BY <1>1 DEF Sees, PoolOf
<1>3. NumbersArrive(s)
  <2>1. DOMAIN matrix.floats = 1 .. SourceWidth(s) /\ Len(data.floats) = SourceWidth(s)
    BY <1>1, <1>2 DEF Sees, PoolOf
  <2>2. ASSUME NEW f \in 1 .. SourceWidth(s)
        PROVE  /\ \A i \in PoolRows : matrix.floats[f].values[i] = Narrow(SourceFloat(s, f, i))
               /\ Ignored(f) => matrix.floats[f].borders = <<>>
               /\ ~ Ignored(f) => matrix.floats[f].borders = borders_for_col(matrix.floats[f].values)
    <3>1. matrix.floats[f] = ColumnOf(fit, data, f, TRUE)
      BY <1>1, <2>1 DEF Sees, ColumnsOf
    <3>2. /\ matrix.floats[f].values = Stored(data, f)
          /\ matrix.floats[f].borders = IF Hidden(fit, f) THEN <<>> ELSE BordersFor(fit, Stored(data, f))
      BY <3>1 DEF ColumnOf
    <3>3. Ignored(f) <=> Hidden(fit, f)
      BY DEF Ignored, Hidden
    <3>4. borders_for_col(Stored(data, f)) = BordersFor(fit, Stored(data, f))
      BY DEF borders_for_col, BordersFor
    <3>5. ASSUME NEW i \in 1 .. data.rows PROVE Stored(data, f)[i] = Narrow(SourceFloat(s, f, i))
      <4>1. data.floats[f][i] = SourceFloat(s, f, i)
        BY <1>2 DEF PoolOf
      <4>2. CASE data.f32 # <<>>
        <5>1. data.f32[f][i] = Narrow(data.floats[f][i])
          BY <1>2, <4>2 DEF PoolOf
        <5> QED  BY <4>1, <4>2, <5>1 DEF Stored
      <4>3. CASE data.f32 = <<>>
        BY <4>1, <4>3 DEF Stored
      <4> QED  BY <4>2, <4>3
    <3> QED  BY <3>2, <3>3, <3>4, <3>5 DEF PoolRows
  <2> HIDE DEF s
  <2> QED  BY <2>1, <2>2 DEF NumbersArrive
<1>4. /\ matrix.label = data.label /\ data.label # <<>>
      /\ DOMAIN data.label = 1 .. data.rows
      /\ \A i \in DOMAIN data.label : data.label[i] = SourceLabel(s, i)
  BY <1>1, <1>2 DEF Sees, PoolOf, LabelsOf
<1>5. CategoriesArrive(SourceCats(s))
  <2>1. SourceCats(s) = data.cats
    BY <1>2 DEF PoolOf
  <2>2. CatsSeen(fit, data, matrix.places, matrix.one_hot, matrix.ctr, matrix.ctr_bins)
    BY <1>1 DEF Sees
  <2>3. CategoriesArrive(data.cats)
    BY <2>2 DEF CategoriesArrive, CatsSeen, PlacesIn, Ignored, Hidden, Keeps, PoolRows
  <2> QED  BY <2>1, <2>3
<1>6. \A i : Own(data, i) = OwnWeight(s, i)
  <2>1. data.weights = IF s.kind = "owned" THEN s.weights ELSE <<>>
    BY <1>2 DEF PoolOf
  <2> QED  BY <2>1 DEF Own, OwnWeight
<1>7. WeightsArrive(s)
  <2>1. Unweighted(fit) <=> ActiveControls = {}
    BY DEF Unweighted, ActiveControls
  <2>2. Weighed(fit, data, matrix.weights)
    BY <1>1 DEF Sees
  <2>3. CASE Unweighted(fit)
    <3>1. matrix.weights = data.weights \/ (data.weights = <<>> /\ matrix.weights = [i \in 1 .. data.rows |-> 1])
      BY <1>1, <2>3 DEF Sees
    <3>2. data.weights = <<>> \/ data.weights = [i \in 1 .. data.rows |-> data.weights[i]]
      BY <1>2 DEF PoolOf
    <3>3. matrix.weights \in {<<>>, [i \in 1 .. data.rows |-> OwnWeight(s, i)]}
      BY <1>6, <3>1, <3>2 DEF Own
    <3>4. matrix.weights = <<>> => \A i \in 1 .. data.rows : OwnWeight(s, i) = 1
      BY <1>6, <3>1, <3>2 DEF Own
    <3>5. ActiveControls = {} /\ fit.auto = "None"
      BY <2>1, <2>3 DEF Unweighted
    <3> HIDE DEF s
    <3> QED  BY <3>3, <3>4, <3>5 DEF WeightsArrive, OwnWeight, PoolRows
  <2>4. CASE ~ Unweighted(fit) /\ fit.auto # "None"
    <3>1. Balanced(data, matrix.weights)
      BY <2>2, <2>4 DEF Weighed
    <3>2. \A i : WeightOf({n \in DOMAIN data.label : ClassOf(n) = ClassOf(i)}) = Alone(data, i)
      BY DEF WeightOf, BaseWeight, Own, WeightIn, Alone, Fellows, ClassOf
    <3>3. ClassesBalance
      <4> DEFINE Mass(k) == WeightOf({n \in DOMAIN data.label : ClassOf(n) = ClassOf(k)})
                 Fair(i, j) == Mass(i) > 0 /\ Mass(j) > 0 =>
                   matrix.weights[i].class.num * Mass(i) * matrix.weights[j].class.den
                     = matrix.weights[j].class.num * Mass(j) * matrix.weights[i].class.den
      <4>1. ASSUME NEW i \in PoolRows, NEW j \in PoolRows PROVE Fair(i, j)
        <5>1. Mass(i) = Alone(data, i) /\ Mass(j) = Alone(data, j)
          BY <3>2
        <5>2. i \in DOMAIN data.label /\ j \in DOMAIN data.label
          BY <1>4 DEF PoolRows
        <5> HIDE DEF Mass
        <5> QED  BY <3>1, <5>1, <5>2 DEF Balanced
      <4> HIDE DEF s
      <4> QED  BY <4>1 DEF ClassesBalance
    <3> QED  BY <2>1, <2>4, <3>3 DEF WeightsArrive
  <2>5. CASE ~ Unweighted(fit) /\ fit.auto = "None"
    <3>1. \A i \in PoolRows : matrix.weights[i].base = OwnWeight(s, i)
      BY <1>4, <1>6, <2>2, <2>5 DEF Weighed, PoolRows
    <3> QED  BY <2>1, <2>5, <3>1 DEF WeightsArrive, OwnWeight
  <2> QED  BY <2>3, <2>4, <2>5
<1> QED  BY <1>3, <1>4, <1>5, <1>7 DEF PoolRows

(* The trees of every fit are grown on the caller's own rows: its numbers  *)
(* and labels, its categories in one encoding each that tells them apart,  *)
(* and its weights, whatever the form of the data, the masked features and *)
(* the order in which the columns are prepared.                            *)
THEOREM TreesGrowOnTheData == Spec => []TrainerSeesTheData
<1>1. Init => PreparationInv
  BY DEF Init, PreparationInit, PreparationInv, Prepared, ColumnsOf, Unset
<1>2. [Next]_vars => PreparationNext \/ UNCHANGED pvars
  BY DEF Next, Returned, vars, pvars
<1>3. PreparationInv /\ UNCHANGED pvars => PreparationInv'
  BY DEF PreparationInv, pvars
<1>4. PreparationInv /\ [Next]_vars => PreparationInv'
  BY <1>2, <1>3, PreparationStep
<1> QED  BY <1>1, <1>4, SeenIsTheData, PTL DEF Spec
=============================================================================
