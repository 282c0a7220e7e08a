-------------------------- MODULE TreeGrowthProofs --------------------------
(***************************************************************************)
(* Why every tree grower keeps its books, for any objects, columns,        *)
(* weights, scores and depth: an object lies in the leaf the chosen splits *)
(* say, the histograms a level is scored from are those of its leaves, no  *)
(* leaf of a grown tree is empty, and the host's walk over a finished tree *)
(* ends in the leaf the grower filled.                                     *)
(***************************************************************************)
EXTENDS TreeGrowth, Induction, FiniteSetTheorems, SequenceTheorems

-----------------------------------------------------------------------------
(* Powers of two, sums, leaf numbers.                                      *)

(* The recursion of a power of two.                                        *)
LEMMA Pow2Steps ==
  /\ Pow2(0) = 1
  /\ \A k \in Nat : Pow2(k) \in Nat \ {0} /\ Pow2(k + 1) = 2 * Pow2(k)
<1> DEFINE Rec(p) == p = [k \in Nat |-> IF k = 0 THEN 1 ELSE 2 * p[k - 1]]
           pow == CHOOSE p : Rec(p)
           X == Nat
           F == [x \in X |-> 2 * x]
<1>1. PICK g : Recursion(X, 1, F, g)
  <2>1. F \in [X -> X] /\ 1 \in X
    OBVIOUS
  <2> HIDE DEF X, F
  <2> QED  BY <2>1, RecursionExists
<1>2. g \in [Nat -> Nat] /\ \A k \in Nat : g[k] = IF k = 0 THEN 1 ELSE F[g[k - 1]]
  <2>1. g \in [Nat -> Nat] /\ g = [k \in Nat |-> IF k = 0 THEN 1 ELSE F[g[k - 1]]]
    BY <1>1 DEF Recursion
  <2> HIDE DEF F
  <2> QED  BY <2>1
<1>3. ASSUME NEW k \in Nat PROVE g[k] = IF k = 0 THEN 1 ELSE 2 * g[k - 1]
  <2>1. CASE k = 0
    BY <1>2, <2>1
  <2>2. CASE k # 0
    <3>1. k - 1 \in Nat /\ g[k - 1] \in Nat
      BY <1>2, <2>2
    <3> QED  BY <1>2, <2>2, <3>1
  <2> QED  BY <2>1, <2>2
<1>4. Rec(g)
  BY <1>2, <1>3
<1>5. Rec(pow)
  <2> HIDE DEF Rec
  <2> QED  BY <1>4
<1>6. \A k : Pow2(k) = pow[k]
  BY DEF Pow2
<1> HIDE DEF pow
<1>7. \A k \in Nat : pow[k] = IF k = 0 THEN 1 ELSE 2 * pow[k - 1]
  BY <1>5
<1>8. ASSUME NEW k \in Nat PROVE pow[k + 1] = 2 * pow[k]
  <2>1. k + 1 \in Nat /\ k + 1 # 0 /\ (k + 1) - 1 = k
    OBVIOUS
  <2> QED  BY <1>7, <2>1
<1> DEFINE In == {k \in Nat : pow[k] \in Nat \ {0}}
<1>9. 0 \in In
  BY <1>7
<1>10. ASSUME NEW k \in Nat, k \in In PROVE k + 1 \in In
  BY <1>8, <1>10
<1>11. Nat \subseteq In
  <2> HIDE DEF In
  <2> QED  BY <1>9, <1>10, SetInduction
<1> QED  BY <1>6, <1>7, <1>8, <1>11

(* Powers of two rise.                                                     *)
LEMMA Pow2Rises ==
  ASSUME NEW j \in Nat, NEW k \in Nat, j <= k
  PROVE  Pow2(j) <= Pow2(k)
<1> DEFINE In == {d \in Nat : Pow2(j) <= Pow2(j + d)}
<1>1. 0 \in In
  BY Pow2Steps
<1>2. ASSUME NEW d \in Nat, d \in In PROVE d + 1 \in In
  <2>1. j + (d + 1) = (j + d) + 1 /\ j + d \in Nat
    OBVIOUS
  <2> QED  BY <1>2, <2>1, Pow2Steps
<1>3. Nat \subseteq In
  <2> HIDE DEF In
  <2> QED  BY <1>1, <1>2, SetInduction
<1>4. k - j \in In /\ j + (k - j) = k
  BY <1>3
<1> QED  BY <1>4

(* The partial sums of n values.                                           *)
Adds(n, value, s) ==
  s \in [0 .. n -> Int] /\ s[0] = 0 /\ \A k \in 0 .. n - 1 : s[k + 1] = s[k] + value[k]

(* Integers have partial sums.                                             *)
LEMMA SumsExist ==
  ASSUME NEW n \in Nat, NEW value, \A i \in 0 .. n - 1 : value[i] \in Int
  PROVE  \E s : Adds(n, value, s)
<1> DEFINE X == Int
           F == [k \in 1 .. n |-> [x \in X |-> x + value[k - 1]]]
<1>1. F \in [1 .. n -> [X -> X]] /\ 0 \in X
  OBVIOUS
<1>2. PICK g : Stepwise(X, n, 0, F, g)
  <2> HIDE DEF X, F
  <2> QED  BY <1>1, StepsExist
<1>3. g \in [0 .. n -> Int] /\ g[0] = 0 /\ \A k \in 1 .. n : g[k] = F[k][g[k - 1]]
  BY <1>2 DEF Stepwise
<1>4. ASSUME NEW k \in 0 .. n - 1 PROVE g[k + 1] = g[k] + value[k]
  <2>1. k + 1 \in 1 .. n /\ (k + 1) - 1 = k /\ g[k] \in Int
    BY <1>3
  <2>2. g[k + 1] = F[k + 1][g[k]]
    BY <1>3, <2>1
  <2> QED  BY <2>1, <2>2
<1> QED  BY <1>3, <1>4 DEF Adds

(* SumTo is the last of them.                                              *)
LEMMA SumIs ==
  ASSUME NEW n \in Nat, NEW value, NEW s, Adds(n, value, s)
  PROVE  SumTo(n, value) = s[n]
<1> DEFINE Rec(f) == f = [k \in 0 .. n |-> IF k = 0 THEN 0 ELSE f[k - 1] + value[k - 1]]
           sum == CHOOSE f : Rec(f)
<1>1. SumTo(n, value) = sum[n]
  BY DEF SumTo
<1>2. ASSUME NEW k \in 0 .. n PROVE s[k] = IF k = 0 THEN 0 ELSE s[k - 1] + value[k - 1]
  <2>1. CASE k = 0
    BY <2>1 DEF Adds
  <2>2. CASE k # 0
    <3>1. k - 1 \in 0 .. n - 1 /\ (k - 1) + 1 = k
      BY <2>2
    <3> QED  BY <2>2, <3>1 DEF Adds
  <2> QED  BY <2>1, <2>2
<1>3. Rec(s)
  BY <1>2 DEF Adds
<1>4. Rec(sum)
  <2> HIDE DEF Rec
  <2> QED  BY <1>3
<1> HIDE DEF sum
<1>5. sum[0] = 0
  BY <1>4
<1>6. ASSUME NEW k \in 0 .. n - 1 PROVE sum[k + 1] = sum[k] + value[k]
  <2>1. k + 1 \in 0 .. n /\ k + 1 # 0 /\ (k + 1) - 1 = k
    OBVIOUS
  <2> QED  BY <1>4, <2>1
<1> DEFINE In == {k \in 0 .. n : sum[k] = s[k]}
<1>7. 0 \in In
  BY <1>5 DEF Adds
<1>8. ASSUME NEW k \in 0 .. n - 1, k \in In PROVE k + 1 \in In
  BY <1>6, <1>8 DEF Adds
<1>9. 0 .. n \subseteq In
  <2> HIDE DEF In
  <2> QED  BY <1>7, <1>8, BoundedInduction
<1> QED  BY <1>1, <1>9

(* A sum of integers is one; of equal values, the same; one more value is  *)
(* added to it.                                                            *)
LEMMA SumIsInt ==
  ASSUME NEW n \in Nat, NEW value, \A i \in 0 .. n - 1 : value[i] \in Int
  PROVE  SumTo(n, value) \in Int
<1>1. PICK s : Adds(n, value, s)
  BY SumsExist
<1> QED  BY <1>1, SumIs DEF Adds

(* Terms that agree have the same sum.                                     *)
LEMMA SumsAgree ==
  ASSUME NEW n \in Nat, NEW value, NEW other,
         \A i \in 0 .. n - 1 : value[i] \in Int /\ other[i] = value[i]
  PROVE  SumTo(n, other) = SumTo(n, value)
<1>1. PICK s : Adds(n, value, s)
  BY SumsExist
<1>2. Adds(n, other, s)
  BY <1>1 DEF Adds
<1> QED  BY <1>1, <1>2, SumIs

(* A sum to one term more is the sum before and that term.                 *)
LEMMA SumGrows ==
  ASSUME NEW n \in Nat, NEW value, NEW other,
         \A i \in 0 .. n : value[i] \in Int,
         \A i \in 0 .. n - 1 : other[i] = value[i]
  PROVE  SumTo(n + 1, value) = SumTo(n, other) + value[n]
<1>1. PICK s : Adds(n + 1, value, s)
  BY SumsExist
<1>2. \A k \in 0 .. n : k \in 0 .. n + 1 /\ s[k] \in Int
  BY <1>1 DEF Adds
<1> DEFINE t == [k \in 0 .. n |-> s[k]]
<1>3. Adds(n, other, t)
  BY <1>1, <1>2 DEF Adds
<1>4. SumTo(n + 1, value) = s[n + 1] /\ SumTo(n, other) = t[n]
  BY <1>1, <1>3, SumIs
<1> QED  BY <1>1, <1>4 DEF Adds

(* The sum of no terms is zero.                                            *)
LEMMA EmptySum == ASSUME NEW value PROVE SumTo(0, value) = 0
<1> DEFINE s == [k \in 0 .. 0 |-> 0]
<1>1. Adds(0, value, s)
  BY DEF Adds
<1> QED  BY <1>1, SumIs

(* Nothing adds up to nothing, and one value alone is the sum.             *)
LEMMA OneValue ==
  ASSUME NEW n \in Nat, NEW value, NEW j \in Int, NEW v \in Int,
         \A i \in 0 .. n - 1 : value[i] = IF i = j THEN v ELSE 0
  PROVE  SumTo(n, value) = IF j \in 0 .. n - 1 THEN v ELSE 0
<1> DEFINE s == [k \in 0 .. n |-> IF j \in 0 .. k - 1 THEN v ELSE 0]
<1>1. s \in [0 .. n -> Int] /\ s[0] = 0
  OBVIOUS
<1>2. ASSUME NEW k \in 0 .. n - 1 PROVE s[k + 1] = s[k] + value[k]
  OBVIOUS
<1>3. Adds(n, value, s)
  BY <1>1, <1>2 DEF Adds
<1> QED  BY <1>3, SumIs

(* Zeros sum to zero.                                                      *)
LEMMA SumOfZeros ==
  ASSUME NEW n \in Nat, NEW value, \A i \in 0 .. n - 1 : value[i] = 0
  PROVE  SumTo(n, value) = 0
  BY OneValue

(* A list made by its indices has their number.                            *)
LEMMA ListLength ==
  ASSUME NEW n \in Nat, NEW f, DOMAIN f = 1 .. n
  PROVE  Len(f) = n
  OBVIOUS

(* One split more is one bit more.                                         *)
LEMMA LeafIndexGrows ==
  ASSUME NEW n \in Nat, NEW p, NEW q, Len(p) = n, Len(q) = n + 1, \A i \in 1 .. n : q[i] = p[i]
  PROVE  leaf_index(q) = leaf_index(p) + (IF q[n + 1] THEN Pow2(n) ELSE 0)
<1> DEFINE bit == [i \in 0 .. (n + 1) - 1 |-> IF q[i + 1] THEN Pow2(i) ELSE 0]
           old == [i \in 0 .. n - 1 |-> IF p[i + 1] THEN Pow2(i) ELSE 0]
<1>1. leaf_index(q) = SumTo(n + 1, bit) /\ leaf_index(p) = SumTo(n, old)
  BY DEF leaf_index
<1>2. \A i \in 0 .. n : bit[i] = IF q[i + 1] THEN Pow2(i) ELSE 0
  OBVIOUS
<1>3. \A i \in 0 .. n : bit[i] \in Int
  BY <1>2, Pow2Steps
<1>4. \A i \in 0 .. n - 1 : old[i] = bit[i]
  OBVIOUS
<1>5. bit[n] = IF q[n + 1] THEN Pow2(n) ELSE 0
  BY <1>2
<1> HIDE DEF bit, old
<1>6. SumTo(n + 1, bit) = SumTo(n, old) + bit[n]
  BY <1>3, <1>4, SumGrows
<1> QED  BY <1>1, <1>5, <1>6

(* No split leaves one leaf.                                               *)
LEMMA LeafIndexOfNone ==
  ASSUME NEW p, Len(p) = 0
  PROVE  leaf_index(p) = 0
  BY EmptySum DEF leaf_index

(* k splits tell 2 ^ k leaves apart.                                       *)
LEMMA LeafIndexRange ==
  ASSUME NEW n \in Nat, NEW p, Len(p) = n
  PROVE  leaf_index(p) \in 0 .. Pow2(n) - 1
<1> DEFINE bit == [i \in 0 .. n - 1 |-> IF p[i + 1] THEN Pow2(i) ELSE 0]
<1>1. leaf_index(p) = SumTo(n, bit)
  BY DEF leaf_index
<1>2. \A i \in 0 .. n - 1 : bit[i] = 0 \/ bit[i] = Pow2(i)
  OBVIOUS
<1>0. \A k \in 0 .. n : k \in Nat /\ Pow2(k) \in Nat \ {0} /\ Pow2(k + 1) = 2 * Pow2(k)
  <2>1. \A k \in 0 .. n : k \in Nat
    OBVIOUS
  <2> QED  BY <2>1, Pow2Steps
<1>2a. \A i \in 0 .. n - 1 : bit[i] \in 0 .. Pow2(i) /\ bit[i] \in Int
  <2> HIDE DEF bit
  <2> TAKE i \in 0 .. n - 1
  <2>1. bit[i] = 0 \/ bit[i] = Pow2(i)
    BY <1>2
  <2>2. Pow2(i) \in Nat \ {0}
    BY <1>0
  <2> QED  BY <2>1, <2>2
<1> HIDE DEF bit
<1>3. PICK s : Adds(n, bit, s)
  BY <1>2a, SumsExist
<1> DEFINE In == {k \in 0 .. n : s[k] \in 0 .. Pow2(k) - 1}
<1>4. 0 \in In
  <2>1. s[0] = 0 /\ 0 \in 0 .. n
    BY <1>3 DEF Adds
  <2>2. Pow2(0) = 1
    BY Pow2Steps
  <2> QED  BY <2>1, <2>2
<1>5. ASSUME NEW k \in 0 .. n - 1, k \in In PROVE k + 1 \in In
  <2>1. s[k + 1] = s[k] + bit[k]
    BY <1>3 DEF Adds
  <2>2. Pow2(k) \in Nat \ {0} /\ Pow2(k + 1) = 2 * Pow2(k)
    BY <1>0
  <2>3. s[k] \in Nat /\ s[k] < Pow2(k)
    BY <1>5, <2>2
  <2>4. bit[k] \in Nat /\ bit[k] <= Pow2(k)
    BY <1>2a, <2>2
  <2>5. s[k + 1] \in 0 .. Pow2(k + 1) - 1
    BY <2>1, <2>2, <2>3, <2>4
  <2> QED  BY <2>5
<1>6. 0 .. n \subseteq In
  <2> HIDE DEF In
  <2> QED  BY <1>4, <1>5, BoundedInduction
<1> QED  BY <1>1, <1>3, <1>6, SumIs

-----------------------------------------------------------------------------
(* Finite sets and the first best of a scored set.                         *)

(* The values of a function on a finite set are finitely many.             *)
LEMMA FiniteValues ==
  ASSUME NEW S, IsFiniteSet(S), NEW f, DOMAIN f = S, NEW T, T = {f[x] : x \in S}
  PROVE  IsFiniteSet(T) /\ Cardinality(T) <= Cardinality(S)
<1> DEFINE g == [x \in S |-> f[x]]
<1>1. g \in Surjection(S, T)
  BY DEF Surjection
<1> QED  BY <1>1, FS_Surjection

(* The greatest of finitely many numbers is one of them.                   *)
LEMMA MaxIsIn ==
  ASSUME NEW S \in SUBSET Int, IsFiniteSet(S), S # {}
  PROVE  Max(S) \in S /\ Max(S) \in Int /\ \A x \in S : Max(S) >= x
<1> DEFINE n == Cardinality(S)
<1>1. n \in Nat /\ ExistsBijection(1 .. n, S) /\ n # 0
  BY FS_CardinalityType, FS_EmptySet
<1>2. PICK g : g \in [1 .. n -> S] /\ \A x \in S : \E i \in 1 .. n : g[i] = x
  BY <1>1 DEF ExistsBijection, Bijection, Injection, Surjection
<1>3. S = {g[i] : i \in 1 .. n} /\ g \in [1 .. n -> Int]
  BY <1>2
<1> HIDE DEF n
<1>4. \E x \in S : \A y \in S : x >= y
  BY <1>1, <1>3, GreatestOfList
<1>5. Max(S) \in S /\ \A x \in S : Max(S) >= x
  BY <1>4 DEF Max
<1> QED  BY <1>5

(* Splits, among which no two are of different categorical kinds.          *)
Splits == [kind : {"float", "onehot", "ctr"}, feature : Nat, at : Nat]
(* Candidates of one stage: none compares a one-hot split with a CTR       *)
(* split.                                                                  *)
OneKind(cands) == \A c, d \in cands : ~ (c.kind = "onehot" /\ d.kind = "ctr")

(* Of such splits one comes first.                                         *)
LEMMA FirstSplit ==
  ASSUME NEW S \in SUBSET Splits, OneKind(S), S # {}
  PROVE  \E c \in S : \A d \in S \ {c} : Before(c, d)
<1> DEFINE K == IF \E c \in S : c.kind = "float" THEN {c \in S : c.kind = "float"} ELSE S
           F == {c.feature : c \in K}
<1>1. K # {} /\ K \subseteq S /\ \A c, d \in K : c.kind = d.kind
  BY DEF OneKind, Splits
<1>2. \A c \in K : \A d \in S \ K : c.kind = "float" /\ d.kind # "float"
  OBVIOUS
<1> HIDE DEF K
<1>3. F \in SUBSET Nat /\ F # {}
  BY <1>1 DEF Splits
<1>4. PICK f \in F : \A x \in F : f <= x
  BY <1>3, LeastElement
<1> DEFINE A == {n \in Nat : \E c \in K : c.feature = f /\ c.at = n}
<1>5. A \in SUBSET Nat /\ A # {}
  <2>1. PICK c \in K : c.feature = f
    BY <1>4
  <2>2. c.at \in A
    BY <1>1, <2>1 DEF Splits
  <2> QED  BY <2>2
<1>6. PICK a \in A : \A x \in A : a <= x
  BY <1>5, LeastElement
<1>7. PICK c \in K : c.feature = f /\ c.at = a
  BY <1>6
<1>8. ASSUME NEW d \in S, d # c PROVE Before(c, d)
  <2>1. CASE d \notin K
    BY <1>2, <2>1 DEF Before
  <2>2. CASE d \in K
    <3>1. c \in Splits /\ d \in Splits /\ c.kind = d.kind
      BY <1>1, <2>2
    <3>2. f <= d.feature
      BY <1>4, <2>2
    <3>3. CASE d.feature = f
      <4>1. d.at \in A
        BY <2>2, <3>1, <3>3 DEF Splits
      <4>2. a <= d.at
        BY <1>6, <4>1
      <4>3. d.at # a
        BY <1>7, <1>8, <3>1, <3>3 DEF Splits
      <4> QED  BY <1>7, <3>1, <3>3, <4>2, <4>3 DEF Before, Splits
    <3>4. CASE d.feature # f
      BY <1>7, <3>1, <3>2, <3>4 DEF Before, Splits
    <3> QED  BY <3>3, <3>4
  <2> QED  BY <2>1, <2>2
<1> QED  BY <1>1, <1>7, <1>8

(* A set of splits a search may choose from.                               *)
Choosable(cands) == cands \in SUBSET Splits /\ IsFiniteSet(cands) /\ OneKind(cands) /\ cands # {}

(* select_best chooses one of the scored splits.                           *)
LEMMA SelectBestChooses ==
  ASSUME NEW cands, Choosable(cands), NEW score, DOMAIN score = cands,
         \A c \in cands : score[c] \in Int
  PROVE  select_best(score) \in cands
<1> DEFINE values == {score[c] : c \in DOMAIN score}
           ties == {c \in DOMAIN score : score[c] = Max(values)}
<1>1. IsFiniteSet(values) /\ values \in SUBSET Int /\ values # {}
  <2>1. values = {score[c] : c \in cands}
    OBVIOUS
  <2>2. IsFiniteSet(values)
    BY <2>1, FiniteValues DEF Choosable
  <2> QED  BY <2>1, <2>2 DEF Choosable
<1>2. Max(values) \in values
  <2> HIDE DEF values
  <2> QED  BY <1>1, MaxIsIn
<1>3. ties # {} /\ ties \in SUBSET Splits /\ ties \subseteq cands /\ OneKind(ties)
  BY <1>2 DEF Choosable, OneKind
<1>4. BestOf(score) = ties
  BY DEF BestOf
<1>5. select_best(score) = CHOOSE c \in ties : \A d \in ties \ {c} : Before(c, d)
  BY <1>4 DEF select_best
<1> HIDE DEF ties
<1>6. \E c \in ties : \A d \in ties \ {c} : Before(c, d)
  BY <1>3, FirstSplit
<1> QED  BY <1>3, <1>5, <1>6

(* Any two splits of a stage are in order, and the order is transitive.    *)
LEMMA BeforeOrders ==
  ASSUME NEW S \in SUBSET Splits, OneKind(S), NEW c \in S, NEW d \in S
  PROVE  /\ c # d => (Before(c, d) <=> ~Before(d, c))
         /\ ~Before(c, c)
         /\ \A e \in S : Before(c, d) /\ Before(d, e) => Before(c, e)
<1>1. /\ c.kind \in {"float", "onehot", "ctr"} /\ d.kind \in {"float", "onehot", "ctr"}
      /\ c.feature \in Nat /\ d.feature \in Nat /\ c.at \in Nat /\ d.at \in Nat
      /\ ~(c.kind = "onehot" /\ d.kind = "ctr") /\ ~(d.kind = "onehot" /\ c.kind = "ctr")
  BY DEF Splits, OneKind
<1>2. c = d <=> c.kind = d.kind /\ c.feature = d.feature /\ c.at = d.at
  BY DEF Splits
<1>3. \A e \in S : /\ e.kind \in {"float", "onehot", "ctr"} /\ e.feature \in Nat /\ e.at \in Nat
                   /\ ~(c.kind = "onehot" /\ e.kind = "ctr") /\ ~(e.kind = "onehot" /\ c.kind = "ctr")
  BY DEF Splits, OneKind
<1>4. c # d => (Before(c, d) <=> ~Before(d, c))
  BY <1>1, <1>2 DEF Before
<1>5. ~Before(c, c)
  BY <1>1 DEF Before
<1>6. ASSUME NEW e \in S, Before(c, d), Before(d, e) PROVE Before(c, e)
  BY <1>1, <1>3, <1>6 DEF Before
<1> QED  BY <1>4, <1>5, <1>6

(* The first of the best of scored candidates: nothing scores higher, and  *)
(* nothing earlier scores the same.                                        *)
FirstBest(score, c) ==
  /\ c \in DOMAIN score
  /\ \A d \in DOMAIN score : score[d] <= score[c]
  /\ \A d \in DOMAIN score : Before(d, c) => score[d] < score[c]

(* Candidates that are all scored. *)
ScoredCands(cands, score) == Choosable(cands) /\ DOMAIN score = cands /\ \A c \in cands : score[c] \in Int

(* select_best finds the first best,                                       *)
LEMMA SelectBestIsFirst ==
  ASSUME NEW cands, NEW score, ScoredCands(cands, score)
  PROVE  FirstBest(score, select_best(score))
<1> DEFINE values == {score[c] : c \in DOMAIN score}
           ties == {c \in DOMAIN score : score[c] = Max(values)}
<1>1. /\ Choosable(cands) /\ DOMAIN score = cands /\ \A c \in cands : score[c] \in Int
  BY DEF ScoredCands
<1>2. IsFiniteSet(values) /\ values \in SUBSET Int /\ values # {}
  <2>1. values = {score[c] : c \in cands}
    BY <1>1
  <2>2. IsFiniteSet(values)
    BY <1>1, <2>1, FiniteValues DEF Choosable
  <2> QED  BY <1>1, <2>1, <2>2 DEF Choosable
<1>3. Max(values) \in values /\ Max(values) \in Int /\ \A x \in values : Max(values) >= x
  <2> HIDE DEF values
  <2> QED  BY <1>2, MaxIsIn
<1>4. ties # {} /\ ties \in SUBSET Splits /\ ties \subseteq cands /\ OneKind(ties)
  BY <1>1, <1>3 DEF Choosable, OneKind
<1>5. BestOf(score) = ties
  BY DEF BestOf
<1>6. select_best(score) = CHOOSE c \in ties : \A d \in ties \ {c} : Before(c, d)
  BY <1>5 DEF select_best
<1> DEFINE s == CHOOSE c \in ties : \A d \in ties \ {c} : Before(c, d)
<1> HIDE DEF ties
<1>7. s \in ties /\ \A d \in ties \ {s} : Before(s, d)
  BY <1>4, FirstSplit
<1> HIDE DEF s
<1>8. s \in cands /\ score[s] = Max(values) /\ \A d \in cands : score[d] \in values /\ score[d] \in Int
  BY <1>1, <1>4, <1>7 DEF ties
<1> HIDE DEF values
<1>9. \A d \in cands : score[d] <= score[s]
  BY <1>3, <1>8
<1>10. ASSUME NEW d \in cands, Before(d, s) PROVE score[d] < score[s]
  <2>1. CASE score[d] = Max(values)
    <3>1. d \in ties
      BY <1>1, <1>10, <2>1 DEF ties, values
    <3>2. d = s \/ Before(s, d)
      BY <1>7, <3>1
    <3> QED  BY <1>1, <1>8, <1>10, <3>2, BeforeOrders DEF Choosable
  <2>2. CASE score[d] # Max(values)
    BY <1>3, <1>8, <2>2
  <2> QED  BY <2>1, <2>2
<1> QED  BY <1>1, <1>6, <1>8, <1>9, <1>10 DEF FirstBest, s

(* and nothing else is.                                                    *)
LEMMA FirstBestIsOne ==
  ASSUME NEW cands, NEW score, ScoredCands(cands, score), NEW c, FirstBest(score, c),
         NEW d, FirstBest(score, d)
  PROVE  c = d
<1>1. c \in cands /\ d \in cands /\ cands \in SUBSET Splits /\ OneKind(cands)
      /\ score[c] \in Int /\ score[d] \in Int
  BY DEF ScoredCands, FirstBest, Choosable
<1>2. score[c] <= score[d] /\ score[d] <= score[c]
  BY <1>1 DEF FirstBest, ScoredCands
<1>3. ~Before(c, d) /\ ~Before(d, c)
  BY <1>1, <1>2 DEF FirstBest, ScoredCands
<1> QED  BY <1>1, <1>3, BeforeOrders

(* The best of winners is the best of all, if some winner beats, or comes  *)
(* before, each of the others.                                             *)
Beats(score, w, d) == score[d] <= score[w] /\ (Before(d, w) => score[d] < score[w])

(* A two-stage choice, the best of the parts and then of those, is the     *)
(* first best of all.                                                      *)
LEMMA BestOfWinners ==
  ASSUME NEW cands, NEW score, ScoredCands(cands, score), NEW W \in SUBSET cands,
         \A d \in cands : \E w \in W : Beats(score, w, d),
         NEW x \in W, \A w \in W : Beats(score, x, w)
  PROVE  FirstBest(score, x)
<1>1. /\ cands \in SUBSET Splits /\ OneKind(cands) /\ DOMAIN score = cands
      /\ \A c \in cands : score[c] \in Int
  BY DEF ScoredCands, Choosable
<1>2. ASSUME NEW d \in cands PROVE score[d] <= score[x] /\ (Before(d, x) => score[d] < score[x])
  <2>1. PICK w \in W : Beats(score, w, d)
    OBVIOUS
  <2>2. /\ score[d] <= score[w] /\ (Before(d, w) => score[d] < score[w])
        /\ score[w] <= score[x] /\ (Before(w, x) => score[w] < score[x])
        /\ score[d] \in Int /\ score[w] \in Int /\ score[x] \in Int
    BY <1>1, <2>1 DEF Beats
  <2>3. ASSUME Before(d, x) PROVE score[d] < score[x]
    <3>1. CASE w = x
      BY <2>2, <2>3, <3>1
    <3>2. CASE w # x /\ Before(w, x)
      BY <2>2, <3>2
    <3>3. CASE w # x /\ Before(x, w)
      <4>1. d \in cands /\ x \in cands /\ w \in cands
        OBVIOUS
      <4>2. Before(d, w)
        BY <1>1, <2>3, <3>3, <4>1, BeforeOrders
      <4> QED  BY <2>2, <4>2
    <3>4. w # x => Before(w, x) \/ Before(x, w)
      BY <1>1, BeforeOrders
    <3> QED  BY <3>1, <3>2, <3>3, <3>4
  <2> QED  BY <2>2, <2>3
<1> QED  BY <1>1, <1>2 DEF FirstBest

-----------------------------------------------------------------------------
(* What a training is, and the splits its searches choose from.            *)

(* The columns of a training.                                              *)
LEMMA ColumnsOfFit ==
  ASSUME NEW f \in Fits
  PROVE  /\ Len(f.floats) \in Nat /\ DOMAIN f.floats = 1 .. Len(f.floats)
         /\ Len(f.cats) \in Nat /\ DOMAIN f.cats = 1 .. Len(f.cats)
         /\ Len(f.ctrs) \in Nat /\ DOMAIN f.ctrs = 1 .. Len(f.ctrs)
         /\ \A i \in 1 .. Len(f.floats) :
              /\ f.floats[i].borders \in Nat /\ f.floats[i].top \in BOOLEAN
              /\ f.floats[i].value \in [Objects -> NaN .. f.floats[i].borders]
         /\ \A i \in 1 .. Len(f.cats) : f.cats[i] \in [Objects -> Nat]
         /\ \A i \in 1 .. Len(f.ctrs) :
              f.ctrs[i].count \in Nat \ {0} /\ f.ctrs[i].bin \in [Objects -> 0 .. CtrBorders]
         /\ f.ctrs # <<>> => f.cats = <<>>
<1>1. IsFit(f)
  BY FitsAssumption
<1>2. \A s \in {f.floats, f.cats, f.ctrs} : Len(s) \in Nat /\ DOMAIN s = 1 .. Len(s)
  BY <1>1 DEF IsFit, IsList
<1>3. ASSUME NEW i \in 1 .. Len(f.floats)
      PROVE  /\ f.floats[i].borders \in Nat /\ f.floats[i].top \in BOOLEAN
             /\ f.floats[i].value \in [Objects -> NaN .. f.floats[i].borders]
  <2>1. f.floats[i] \in FloatColumns(f.floats[i].borders) /\ f.floats[i].borders \in Nat
    BY <1>1 DEF IsFit
  <2> QED  BY <2>1 DEF FloatColumns
<1>4. ASSUME NEW i \in 1 .. Len(f.ctrs)
      PROVE  f.ctrs[i].count \in Nat \ {0} /\ f.ctrs[i].bin \in [Objects -> 0 .. CtrBorders]
  <2>1. f.ctrs[i] \in CtrColumns(f.ctrs[i].members)
    BY <1>1 DEF IsFit
  <2> QED  BY <2>1 DEF CtrColumns
<1>5. \A i \in 1 .. Len(f.cats) : f.cats[i] \in [Objects -> Nat]
  BY <1>1 DEF IsFit
<1>6. f.ctrs # <<>> => f.cats = <<>>
  BY <1>1 DEF IsFit
<1>7. Len(f.floats) \in Nat /\ DOMAIN f.floats = 1 .. Len(f.floats)
  BY <1>2
<1>8. Len(f.cats) \in Nat /\ DOMAIN f.cats = 1 .. Len(f.cats)
  BY <1>2
<1>9. Len(f.ctrs) \in Nat /\ DOMAIN f.ctrs = 1 .. Len(f.ctrs)
  BY <1>2
<1> QED  BY <1>3, <1>4, <1>5, <1>6, <1>7, <1>8, <1>9

(* A list of length 0 is the empty one.                                    *)
LEMMA NothingListed ==
  ASSUME NEW s, Len(s) \in Nat, DOMAIN s = 1 .. Len(s)
  PROVE  s = <<>> <=> Len(s) = 0
  OBVIOUS

(* The objects are the N numbers from zero.                                *)
LEMMA ObjectsAreFinite ==
  /\ IsFiniteSet(Objects) /\ Cardinality(Objects) = N /\ N \in Nat \ {0}
  /\ Objects = 0 .. N - 1
<1>1. N \in Nat \ {0}
  BY FitsAssumption
<1>2. IsFiniteSet(0 .. N - 1) /\ Cardinality(0 .. N - 1) = N
  BY <1>1, FS_Interval
<1> QED  BY <1>1, <1>2 DEF Objects

(* No column has more bins than the widest.                                *)
LEMMA WidestColumn ==
  ASSUME NEW f \in Fits
  PROVE  /\ n_bins_of(f) \in Nat \ {0}
         /\ \A i \in 1 .. Len(f.floats) : f.floats[i].borders + 1 <= n_bins_of(f)
         /\ \A i \in 1 .. Len(f.cats) : \A o \in Objects : f.cats[i][o] + 1 <= n_bins_of(f)
<1> DEFINE F == 1 .. Len(f.floats)
           P == (1 .. Len(f.cats)) \X Objects
           borders == [i \in F |-> f.floats[i].borders + 1]
           bins == [x \in P |-> f.cats[x[1]][x[2]] + 1]
           A == {f.floats[i].borders + 1 : i \in F}
           B == {f.cats[i][o] + 1 : i \in 1 .. Len(f.cats), o \in Objects}
           S == A \cup B \cup {1}
<1>1. n_bins_of(f) = Max(S)
  BY DEF n_bins_of
<1>2. IsFiniteSet(A)
  <2>1. IsFiniteSet(F)
    BY ColumnsOfFit, FS_Interval
  <2>2. A = {borders[i] : i \in F} /\ DOMAIN borders = F
    OBVIOUS
  <2> HIDE DEF borders, F
  <2> QED  BY <2>1, <2>2, FiniteValues
<1>3. IsFiniteSet(B)
  <2>1. IsFiniteSet(P)
    <3>1. IsFiniteSet(1 .. Len(f.cats))
      BY ColumnsOfFit, FS_Interval
    <3> QED  BY <3>1, ObjectsAreFinite, FS_Product
  <2>2. B = {bins[x] : x \in P} /\ DOMAIN bins = P
    <3>1. ASSUME NEW y \in B PROVE y \in {bins[x] : x \in P}
      <4>1. PICK i \in 1 .. Len(f.cats), o \in Objects : y = f.cats[i][o] + 1
        OBVIOUS
      <4>2. <<i, o>> \in P /\ bins[<<i, o>>] = y
        BY <4>1
      <4> QED  BY <4>2
    <3>2. ASSUME NEW x \in P PROVE bins[x] \in B
      OBVIOUS
    <3>3. DOMAIN bins = P
      OBVIOUS
    <3> HIDE DEF B, bins, P
    <3> QED  BY <3>1, <3>2, <3>3
  <2> HIDE DEF bins, P
  <2> QED  BY <2>1, <2>2, FiniteValues
<1>4. IsFiniteSet(S)
  <2> HIDE DEF A, B
  <2>1. IsFiniteSet(A \cup B)
    BY <1>2, <1>3, FS_Union
  <2> QED  BY <2>1, FS_AddElement
<1>5. A \in SUBSET Nat
  BY ColumnsOfFit
<1>6. B \in SUBSET Nat
  <2>1. ASSUME NEW i \in 1 .. Len(f.cats), NEW o \in Objects PROVE f.cats[i][o] + 1 \in Nat
    <3>1. f.cats[i] \in [Objects -> Nat]
      BY ColumnsOfFit
    <3> QED  BY <3>1
  <2> QED  BY <2>1
<1>7. /\ \A i \in 1 .. Len(f.floats) : f.floats[i].borders + 1 \in S
      /\ \A i \in 1 .. Len(f.cats) : \A o \in Objects : f.cats[i][o] + 1 \in S
      /\ 1 \in S /\ S # {} /\ S \in SUBSET Int
  BY <1>5, <1>6
<1> HIDE DEF S
<1>8. Max(S) \in Int /\ \A x \in S : Max(S) >= x
  BY <1>4, <1>7, MaxIsIn
<1>9. Max(S) >= 1
  BY <1>7, <1>8
<1>10. Max(S) \in Nat \ {0}
  BY <1>8, <1>9
<1>11. \A x \in S : x <= Max(S)
  <2> TAKE x \in S
  <2>1. Max(S) >= x /\ x \in Int
    BY <1>7, <1>8
  <2> QED  BY <1>8, <2>1
<1> QED  BY <1>1, <1>7, <1>10, <1>11

(* Every split of the training is among these finitely many.               *)
SplitRange(f) ==
  [kind : {"float", "onehot", "ctr"},
   feature : 0 .. Len(f.floats) + Len(f.cats) + Len(f.ctrs),
   at : 0 .. n_bins_of(f) + CtrBorders]

(* A training has finitely many splits.                                    *)
LEMMA SplitRangeIsFinite ==
  ASSUME NEW f \in Fits
  PROVE  IsFiniteSet(SplitRange(f)) /\ SplitRange(f) \in SUBSET Splits
<1> DEFINE K == {"float", "onehot", "ctr"}
           F == 0 .. Len(f.floats) + Len(f.cats) + Len(f.ctrs)
           A == 0 .. n_bins_of(f) + CtrBorders
           P == K \X (F \X A)
           split == [x \in P |-> [kind |-> x[1], feature |-> x[2][1], at |-> x[2][2]]]
           T == {split[x] : x \in P}
<1>0. /\ Len(f.floats) \in Nat /\ Len(f.cats) \in Nat /\ Len(f.ctrs) \in Nat
      /\ n_bins_of(f) \in Nat /\ CtrBorders \in Nat
  BY ColumnsOfFit, WidestColumn, FitsAssumption
<1>1. SplitRange(f) \subseteq T
  <2>1. ASSUME NEW c \in SplitRange(f) PROVE c \in T
    <3>1. c.kind \in K /\ c.feature \in F /\ c.at \in A
          /\ c = [kind |-> c.kind, feature |-> c.feature, at |-> c.at]
      BY DEF SplitRange
    <3>2. <<c.kind, <<c.feature, c.at>>>> \in P
      BY <3>1
    <3>3. split[<<c.kind, <<c.feature, c.at>>>>] = c
      BY <3>1, <3>2
    <3> QED  BY <3>2, <3>3
  <2> QED  BY <2>1
<1>2. IsFiniteSet(P)
  <2>1. IsFiniteSet(K)
    <3>1. K = ({"float"} \cup {"onehot"}) \cup {"ctr"}
      OBVIOUS
    <3>2. IsFiniteSet({"float"} \cup {"onehot"})
      BY FS_Singleton, FS_AddElement
    <3> QED  BY <3>1, <3>2, FS_AddElement
  <2>2. IsFiniteSet(F) /\ IsFiniteSet(A)
    <3>1. Len(f.floats) + Len(f.cats) + Len(f.ctrs) \in Int /\ n_bins_of(f) + CtrBorders \in Int
      BY <1>0
    <3>2. \A n \in Int : IsFiniteSet(0 .. n)
      BY FS_Interval
    <3> QED  BY <3>1, <3>2
  <2>3. IsFiniteSet(F \X A)
    BY <2>2, FS_Product
  <2> HIDE DEF K, F, A
  <2> QED  BY <2>1, <2>3, FS_Product
<1>3. IsFiniteSet(T)
  <2>1. DOMAIN split = P
    OBVIOUS
  <2> HIDE DEF split, P
  <2> QED  BY <1>2, <2>1, FiniteValues
<1>4. SplitRange(f) \in SUBSET Splits
  <2>1. \A n \in F : n \in Nat
    BY <1>0
  <2>2. \A n \in A : n \in Nat
    BY <1>0
  <2>3. SplitRange(f) = [kind : K, feature : F, at : A]
    BY DEF SplitRange
  <2> HIDE DEF F, A
  <2> QED  BY <2>1, <2>2, <2>3 DEF Splits
<1> QED  BY <1>1, <1>3, <1>4, FS_Subset

(* So a set of them that mixes no two categorical kinds can be chosen from. *)
LEMMA RangeIsChoosable ==
  ASSUME NEW f \in Fits, NEW cands \in SUBSET SplitRange(f), OneKind(cands), cands # {}
  PROVE  Choosable(cands)
<1>1. IsFiniteSet(SplitRange(f)) /\ SplitRange(f) \in SUBSET Splits
  BY SplitRangeIsFinite
<1>2. IsFiniteSet(cands)
  BY <1>1, FS_Subset
<1> QED  BY <1>1, <1>2 DEF Choosable

(* The splits of the columns a training has.                               *)
SearchSplits(f) ==
  {s \in SplitRange(f) :
     \/ s.kind = "float" /\ s.feature \in 1 .. Len(f.floats) /\ s.at >= 1
     \/ s.kind = "onehot" /\ s.feature \in 1 .. Len(f.cats)
     \/ s.kind = "ctr" /\ s.feature \in 1 .. Len(f.ctrs) /\ s.at >= 1}

(* A choice can be made among any candidates of a search.                  *)
LEMMA SearchSplitsChoosable ==
  ASSUME NEW f \in Fits, NEW cands \in SUBSET SearchSplits(f), cands # {}
  PROVE  Choosable(cands)
<1>1. cands \in SUBSET SplitRange(f)
  BY DEF SearchSplits
<1>2. ASSUME NEW c \in cands, NEW d \in cands, c.kind = "onehot", d.kind = "ctr" PROVE FALSE
  <2>1. c.feature \in 1 .. Len(f.cats) /\ d.feature \in 1 .. Len(f.ctrs)
    BY <1>2 DEF SearchSplits
  <2>2. Len(f.cats) # 0 /\ Len(f.ctrs) # 0 /\ Len(f.cats) \in Nat /\ Len(f.ctrs) \in Nat
    BY <2>1, ColumnsOfFit
  <2>3. DOMAIN f.cats = 1 .. Len(f.cats) /\ DOMAIN f.ctrs = 1 .. Len(f.ctrs)
        /\ (f.ctrs # <<>> => f.cats = <<>>)
    BY ColumnsOfFit
  <2>4. f.cats # <<>> /\ f.ctrs # <<>>
    BY <2>2, <2>3, NothingListed
  <2> QED  BY <2>3, <2>4
<1>3. OneKind(cands)
  BY <1>2 DEF OneKind
<1> QED  BY <1>1, <1>3, RangeIsChoosable

(* A split as a record.                                                    *)
LEMMA SplitFields ==
  \A k, f, a : Split(k, f, a).kind = k /\ Split(k, f, a).feature = f /\ Split(k, f, a).at = a
  BY DEF Split

(* The number of a column is below that of all columns.                    *)
LEMMA FeatureRange ==
  ASSUME NEW f \in Fits, NEW i,
         i \in 1 .. Len(f.floats) \/ i \in 1 .. Len(f.cats) \/ i \in 1 .. Len(f.ctrs)
  PROVE  i \in 0 .. Len(f.floats) + Len(f.cats) + Len(f.ctrs)
<1>1. Len(f.floats) \in Nat /\ Len(f.cats) \in Nat /\ Len(f.ctrs) \in Nat
  BY ColumnsOfFit
<1>2. \A a, b, c \in Nat : \A j : j \in 1 .. a \/ j \in 1 .. b \/ j \in 1 .. c => j \in 0 .. a + b + c
  OBVIOUS
<1> QED  BY <1>1, <1>2

(* The columns, by kind.                                                   *)
LEMMA ColumnKinds ==
  ASSUME fit \in Fits
  PROVE  /\ \A col \in Floats : col[1] = "float" /\ col[2] \in Bordered /\ col = <<col[1], col[2]>>
         /\ \A col \in DeviceFloats :
              col[1] = "float" /\ col[2] \in 1 .. Len(fit.floats) /\ col = <<col[1], col[2]>>
         /\ \A col \in OneHots :
              col[1] = "onehot" /\ col[2] \in 1 .. Len(fit.cats) /\ col = <<col[1], col[2]>>
         /\ \A col \in Ctrs :
              col[1] = "ctr" /\ col[2] \in 1 .. Len(fit.ctrs) /\ col = <<col[1], col[2]>>
         /\ Bordered \subseteq 1 .. Len(fit.floats)
         /\ \A i \in Bordered : fit.floats[i].borders \in Nat \ {0}
  BY ColumnsOfFit DEF Floats, DeviceFloats, OneHots, Ctrs, Bordered

(* The candidates of the CPU: their columns, and the borders they name.    *)
LEMMA CpuCandidates ==
  ASSUME fit \in Fits, NEW cols, cols \subseteq Floats \cup OneHots \cup Ctrs
  PROVE  /\ Candidates(cols) \subseteq SearchSplits(fit)
         /\ \A s \in Candidates(cols) :
              /\ <<s.kind, s.feature>> \in cols
              /\ s.kind = "float" => s.at <= fit.floats[s.feature].borders
         /\ cols # {} => Candidates(cols) # {}
<1>1. ASSUME NEW col \in cols, NEW s \in CandidatesOf(col)
      PROVE  /\ s \in SearchSplits(fit) /\ <<s.kind, s.feature>> = col
             /\ s.kind = "float" => s.at <= fit.floats[s.feature].borders
  <2>1. CASE col \in Floats
    <3>1. col[1] = "float" /\ col[2] \in 1 .. Len(fit.floats) /\ col = <<col[1], col[2]>>
          /\ fit.floats[col[2]].borders \in Nat
      BY <2>1, ColumnKinds
    <3>2. PICK a \in 1 .. fit.floats[col[2]].borders : s = Split("float", col[2], a)
      BY <1>1, <3>1 DEF CandidatesOf
    <3>3. fit.floats[col[2]].borders + 1 <= n_bins_of(fit) /\ n_bins_of(fit) \in Nat
      BY <3>1, WidestColumn
    <3>4. col[2] \in 0 .. Len(fit.floats) + Len(fit.cats) + Len(fit.ctrs)
      BY <3>1, FeatureRange
    <3>5. a \in 0 .. n_bins_of(fit) + CtrBorders
      <4>1. CtrBorders \in Nat
        BY FitsAssumption
      <4> QED  BY <3>1, <3>3, <4>1
    <3>6. s \in SplitRange(fit)
      BY <3>2, <3>4, <3>5 DEF Split, SplitRange
    <3> QED  BY <3>1, <3>2, <3>6 DEF Split, SearchSplits
  <2>2. CASE col \in OneHots
    <3>1. col[1] = "onehot" /\ col[2] \in 1 .. Len(fit.cats) /\ col = <<col[1], col[2]>>
      BY <2>2, ColumnKinds
    <3>2. PICK o \in Objects : s = Split("onehot", col[2], fit.cats[col[2]][o])
      BY <1>1, <3>1 DEF CandidatesOf
    <3>3. fit.cats[col[2]][o] + 1 <= n_bins_of(fit) /\ n_bins_of(fit) \in Nat
      BY <3>1, WidestColumn
    <3>4. col[2] \in 0 .. Len(fit.floats) + Len(fit.cats) + Len(fit.ctrs)
      BY <3>1, FeatureRange
    <3>5. fit.cats[col[2]] \in [Objects -> Nat]
      BY <3>1, ColumnsOfFit
    <3>6. fit.cats[col[2]][o] \in 0 .. n_bins_of(fit) + CtrBorders
      BY <3>3, <3>5, FitsAssumption
    <3>7. s \in SplitRange(fit)
      BY <3>2, <3>4, <3>6 DEF Split, SplitRange
    <3> QED  BY <3>1, <3>2, <3>7 DEF Split, SearchSplits
  <2>3. CASE col \in Ctrs
    <3>1. col[1] = "ctr" /\ col[2] \in 1 .. Len(fit.ctrs) /\ col = <<col[1], col[2]>>
      BY <2>3, ColumnKinds
    <3>2. PICK a \in 1 .. CtrBorders : s = Split("ctr", col[2], a)
      BY <1>1, <3>1 DEF CandidatesOf
    <3>4. col[2] \in 0 .. Len(fit.floats) + Len(fit.cats) + Len(fit.ctrs)
      BY <3>1, FeatureRange
    <3>5. a \in 0 .. n_bins_of(fit) + CtrBorders
      BY WidestColumn, FitsAssumption
    <3>6. s \in SplitRange(fit)
      BY <3>2, <3>4, <3>5 DEF Split, SplitRange
    <3> QED  BY <3>1, <3>2, <3>6 DEF Split, SearchSplits
  <2> QED  BY <2>1, <2>2, <2>3
<1>2. ASSUME NEW col \in cols PROVE CandidatesOf(col) # {}
  <2>1. CASE col \in Floats
    <3>1. col[1] = "float" /\ fit.floats[col[2]].borders \in Nat \ {0}
      BY <2>1, ColumnKinds
    <3>2. 1 \in 1 .. fit.floats[col[2]].borders
      BY <3>1
    <3>3. Split("float", col[2], 1) \in CandidatesOf(col)
      BY <3>1, <3>2 DEF CandidatesOf
    <3> QED  BY <3>3
  <2>2. CASE col \in OneHots
    <3>1. col[1] = "onehot" /\ 0 \in Objects
      BY <2>2, ColumnKinds, ObjectsAreFinite
    <3>2. Split("onehot", col[2], fit.cats[col[2]][0]) \in CandidatesOf(col)
      BY <3>1 DEF CandidatesOf
    <3> QED  BY <3>2
  <2>3. CASE col \in Ctrs
    <3>1. col[1] = "ctr" /\ 1 \in 1 .. CtrBorders
      BY <2>3, ColumnKinds, FitsAssumption
    <3>2. Split("ctr", col[2], 1) \in CandidatesOf(col)
      BY <3>1 DEF CandidatesOf
    <3> QED  BY <3>2
  <2> QED  BY <2>1, <2>2, <2>3
<1>3. \A s \in Candidates(cols) : \E col \in cols : s \in CandidatesOf(col)
  BY DEF Candidates
<1>4. \A col \in cols : CandidatesOf(col) \subseteq Candidates(cols)
  BY DEF Candidates
<1>5. Candidates(cols) \subseteq SearchSplits(fit)
  BY <1>1, <1>3
<1>6. ASSUME NEW s \in Candidates(cols)
      PROVE  /\ <<s.kind, s.feature>> \in cols
             /\ s.kind = "float" => s.at <= fit.floats[s.feature].borders
  BY <1>1, <1>3
<1> QED  BY <1>2, <1>4, <1>5, <1>6

(* Those of a wider set of columns hold those of a narrower one.           *)
LEMMA MoreColumns ==
  ASSUME NEW cols, NEW more, cols \subseteq more
  PROVE  Candidates(cols) \subseteq Candidates(more)
  BY DEF Candidates

(* The candidates of the device's sweeps.                                  *)
LEMMA SweptCandidates ==
  ASSUME fit \in Fits
  PROVE  /\ DeviceCandidates \subseteq SearchSplits(fit)
         /\ \A s \in DeviceCandidates : <<s.kind, s.feature>> \in DeviceColumns
<1>1. ASSUME NEW s \in Thresholds(DeviceFloats \cup Ctrs)
      PROVE  s \in SearchSplits(fit) /\ <<s.kind, s.feature>> \in DeviceColumns
  <2>1. PICK col \in DeviceFloats \cup Ctrs, a \in 1 .. n_bins_of(fit) - 1 : s = Split(col[1], col[2], a)
    BY <1>1 DEF Thresholds, n_bins_used
  <2>2. /\ col = <<col[1], col[2]>>
        /\ \/ col[1] = "float" /\ col[2] \in 1 .. Len(fit.floats)
           \/ col[1] = "ctr" /\ col[2] \in 1 .. Len(fit.ctrs)
    BY ColumnKinds
  <2>3. col[2] \in 0 .. Len(fit.floats) + Len(fit.cats) + Len(fit.ctrs)
    BY <2>2, FeatureRange
  <2>4. a \in 0 .. n_bins_of(fit) + CtrBorders /\ a >= 1
    BY WidestColumn, FitsAssumption
  <2>5. s \in SplitRange(fit)
    BY <2>1, <2>2, <2>3, <2>4 DEF Split, SplitRange
  <2>6. col \in DeviceColumns
    BY DEF DeviceColumns
  <2>7. s.kind = col[1] /\ s.feature = col[2] /\ s.at = a
    BY <2>1, SplitFields
  <2> QED  BY <2>2, <2>4, <2>5, <2>6, <2>7 DEF SearchSplits
<1>2. ASSUME NEW s \in Equalities
      PROVE  s \in SearchSplits(fit) /\ <<s.kind, s.feature>> \in DeviceColumns
  <2>1. PICK col \in OneHots : \E a \in 0 .. real_folds(col) - 1 : s = Split(col[1], col[2], a)
    BY <1>2 DEF Equalities
  <2>2. PICK a \in 0 .. real_folds(col) - 1 : s = Split(col[1], col[2], a)
    BY <2>1
  <2>3. col = <<col[1], col[2]>> /\ col[1] = "onehot" /\ col[2] \in 1 .. Len(fit.cats)
    BY ColumnKinds
  <2>4. real_folds(col) \in Nat /\ real_folds(col) <= n_bins_of(fit)
    <3> DEFINE c == fit.cats[col[2]]
               S == {c[o] : o \in Objects}
    <3>1. c \in [Objects -> Nat]
      BY <2>3, ColumnsOfFit
    <3>2. IsFiniteSet(S) /\ S \in SUBSET Int /\ S # {}
      <4>1. IsFiniteSet(Objects) /\ 0 \in Objects
        BY ObjectsAreFinite
      <4>2. DOMAIN c = Objects
        BY <3>1
      <4> HIDE DEF c
      <4>3. IsFiniteSet(S)
        BY <4>1, <4>2, FiniteValues
      <4> QED  BY <3>1, <4>1, <4>3
    <3>3. real_folds(col) = 1 + Max(S)
      BY <2>3 DEF real_folds
    <3>4. PICK o \in Objects : Max(S) = c[o]
      <4> HIDE DEF c
      <4>1. Max(S) \in S
        BY <3>2, MaxIsIn
      <4> QED  BY <4>1
    <3>5. c[o] + 1 <= n_bins_of(fit) /\ c[o] \in Nat
      BY <2>3, <3>1, WidestColumn
    <3> HIDE DEF c, S
    <3> QED  BY <3>3, <3>4, <3>5
  <2>5. col[2] \in 0 .. Len(fit.floats) + Len(fit.cats) + Len(fit.ctrs)
    BY <2>3, FeatureRange
  <2>6. a \in 0 .. n_bins_of(fit) + CtrBorders
    BY <2>4, WidestColumn, FitsAssumption
  <2>7. s \in SplitRange(fit)
    BY <2>2, <2>3, <2>5, <2>6 DEF Split, SplitRange
  <2>8. col \in DeviceColumns
    BY DEF DeviceColumns
  <2>9. s.kind = col[1] /\ s.feature = col[2] /\ s.at = a
    BY <2>2, SplitFields
  <2> QED  BY <2>3, <2>7, <2>8, <2>9 DEF SearchSplits
<1> QED  BY <1>1, <1>2 DEF DeviceCandidates

(* The bins a device searches for a leaf.                                  *)
LEMMA BinCandidates ==
  ASSUME fit \in Fits
  PROVE  BinSplits \subseteq SearchSplits(fit)
<1>1. ASSUME NEW s \in BinSplits PROVE s \in SearchSplits(fit)
  <2>1. PICK col \in {<<"float", f>> : f \in 1 .. Len(fit.floats)} \cup OneHots,
             a \in 1 .. n_bins_of(fit) - 1 : s = Split(col[1], col[2], a)
    BY <1>1 DEF BinSplits
  <2>2. \/ col[1] = "float" /\ col[2] \in 1 .. Len(fit.floats)
        \/ col[1] = "onehot" /\ col[2] \in 1 .. Len(fit.cats)
    BY ColumnKinds
  <2>3. col[2] \in 0 .. Len(fit.floats) + Len(fit.cats) + Len(fit.ctrs)
    BY <2>2, FeatureRange
  <2>4. a \in 0 .. n_bins_of(fit) + CtrBorders /\ a >= 1
    BY WidestColumn, FitsAssumption
  <2>5. s \in SplitRange(fit)
    BY <2>1, <2>2, <2>3, <2>4 DEF Split, SplitRange
  <2>6. s.kind = col[1] /\ s.feature = col[2] /\ s.at = a
    BY <2>1, SplitFields
  <2> QED  BY <2>2, <2>4, <2>5, <2>6 DEF SearchSplits
<1> QED  BY <1>1

-----------------------------------------------------------------------------
(* Scores and histograms.                                                  *)

(* A leaf of twice as many: whether it has the newest bit, and its place   *)
(* without it.                                                             *)
LEMMA NewestBit ==
  ASSUME NEW m \in Nat \ {0}, NEW x \in 0 .. 2 * m - 1
  PROVE  /\ x % m = IF x >= m THEN x - m ELSE x
         /\ (x \div m) % 2 = 1 <=> x >= m
<1> DEFINE q == x \div m
           r == x % m
<1>1. q \in Int /\ r \in 0 .. m - 1 /\ x = m * q + r
  OBVIOUS
<1> HIDE DEF q, r
<1>2. q = 0 \/ q = 1
  <2>1. CASE q <= -1
    <3>1. m * q <= -m
      BY <1>1, <2>1
    <3> QED  BY <1>1, <3>1
  <2>2. CASE q >= 2
    <3>1. m * q >= 2 * m
      BY <1>1, <2>2
    <3> QED  BY <1>1, <3>1
  <2> QED  BY <1>1, <2>1, <2>2
<1>3. CASE q = 0
  <2>1. m * q = 0
    BY <1>3
  <2>2. x = r /\ x < m
    BY <1>1, <2>1
  <2>3. q % 2 = 0
    BY <1>3
  <2>4. r = x /\ ~(x >= m)
    BY <1>1, <2>2
  <2> QED  BY <2>3, <2>4 DEF q, r
<1>4. CASE q = 1
  <2>1. m * q = m
    BY <1>4
  <2>2. r = x - m /\ x >= m
    BY <1>1, <2>1
  <2>3. q % 2 = 1
    BY <1>4
  <2> QED  BY <2>2, <2>3 DEF q, r
<1> QED  BY <1>2, <1>3, <1>4

(* Half of twice a number is the number.                                   *)
LEMMA Halved == \A m \in Int : (2 * m) \div 2 = m
  OBVIOUS

(* A leaf below the number of leaves is itself among them.                 *)
LEMMA SmallLeaf ==
  ASSUME NEW m \in Nat \ {0}, NEW x \in 0 .. m - 1
  PROVE  x % m = x
<1>1. x \in 0 .. 2 * m - 1
  OBVIOUS
<1> QED  BY <1>1, NewestBit

(* The derivatives, the weights and the columns of bins.                   *)
LEMMA StatisticsOfFit ==
  ASSUME fit \in Fits
  PROVE  fit.der \in [Objects -> Int] /\ fit.weight \in [Objects -> Int]
<1>1. IsFit(fit)
  BY FitsAssumption
<1> QED  BY <1>1 DEF IsFit

(* Every object has a bin in every column of a device search.              *)
LEMMA BinsAreNumbers ==
  ASSUME fit \in Fits, NEW col \in DeviceColumns
  PROVE  BinsOf(col) \in [Objects -> Nat]
<1>1. CASE col \in DeviceFloats
  <2>1. col[1] = "float" /\ col[2] \in 1 .. Len(fit.floats)
    BY <1>1, ColumnKinds
  <2>2. /\ fit.floats[col[2]].borders \in Nat
        /\ fit.floats[col[2]].value \in [Objects -> NaN .. fit.floats[col[2]].borders]
    BY <2>1, ColumnsOfFit
  <2>3. \A o \in Objects : bin_of(col[2], o) \in Nat
    BY <2>2 DEF bin_of, NaN
  <2> QED  BY <2>1, <2>3 DEF BinsOf
<1>2. CASE col \in OneHots
  BY <1>2, ColumnKinds, ColumnsOfFit DEF BinsOf
<1>3. CASE col \in Ctrs
  <2>1. col[1] = "ctr" /\ col[2] \in 1 .. Len(fit.ctrs)
    BY <1>3, ColumnKinds
  <2>2. fit.ctrs[col[2]].bin \in [Objects -> 0 .. CtrBorders] /\ CtrBorders \in Nat
    BY <2>1, ColumnsOfFit, FitsAssumption
  <2>3. fit.ctrs[col[2]].bin \in [Objects -> Nat]
    BY <2>2
  <2> QED  BY <2>1, <2>3 DEF BinsOf
<1> QED  BY <1>1, <1>2, <1>3 DEF DeviceColumns

(* A device session holds every column a search looks at.                  *)
LEMMA SearchedColumns == Floats \cup OneHots \cup Ctrs \subseteq DeviceColumns
  BY DEF Floats, DeviceFloats, DeviceColumns, Bordered

(* The score of any set of objects is a number, of none 0.                 *)
LEMMA ScoreIsInt ==
  ASSUME fit \in Fits, NEW docs \in SUBSET Objects
  PROVE  ScoreOf(docs) \in Int
  BY ScoreAssumption DEF ScoreOf

(* No objects have no score.                                               *)
LEMMA NoScoreOfNone == ScoreOf({}) = 0
<1>1. ASSUME NEW value PROVE SumOf(value, {}) = 0
  <2> DEFINE v == [o \in Objects |-> IF o \in {} THEN value[o] ELSE 0]
  <2>1. \A i \in 0 .. N - 1 : v[i] = 0
    BY ObjectsAreFinite
  <2>2. SumOf(value, {}) = SumTo(N, v)
    BY DEF SumOf, SumOver
  <2> HIDE DEF v
  <2> QED  BY <2>1, <2>2, SumOfZeros, ObjectsAreFinite
<1> QED  BY <1>1, ScoreAssumption DEF ScoreOf

(* Counting every object of a set once scores the set.                     *)
LEMMA ScoredSet ==
  ASSUME fit \in Fits, NEW docs \in SUBSET Objects, NEW count, 
         \A o \in Objects : count[o] = IF o \in docs THEN 1 ELSE 0
  PROVE  Scored(count) = ScoreOf(docs)
<1>1. ASSUME NEW value \in [Objects -> Int]
      PROVE  [o \in Objects |-> count[o] * value[o]] = [o \in Objects |-> IF o \in docs THEN value[o] ELSE 0]
  <2>1. ASSUME NEW o \in Objects PROVE count[o] * value[o] = IF o \in docs THEN value[o] ELSE 0
    <3>1. value[o] \in Int /\ (count[o] = 0 \/ count[o] = 1)
      OBVIOUS
    <3> QED  BY <3>1
  <2> QED  BY <2>1
<1>2. /\ [o \in Objects |-> count[o] * fit.der[o]] = [o \in Objects |-> IF o \in docs THEN fit.der[o] ELSE 0]
      /\ [o \in Objects |-> count[o] * fit.weight[o]] = [o \in Objects |-> IF o \in docs THEN fit.weight[o] ELSE 0]
  BY <1>1, StatisticsOfFit
<1> QED  BY <1>2 DEF Scored, ScoreOf, SumOf

(* The cells of a histogram: what it has one for, each object once.        *)
Counts(h, bins, leaf, w, nb) ==
  /\ DOMAIN h = 0 .. w - 1
  /\ \A l \in 0 .. w - 1 :
       /\ DOMAIN h[l] = 0 .. nb - 1
       /\ \A b \in 0 .. nb - 1 : \A o \in Objects :
            h[l][b][o] = IF leaf[o] = l /\ bins[o] = b THEN 1 ELSE 0

(* A histogram built from the objects counts them.                         *)
LEMMA BuiltCells ==
  ASSUME NEW bins, NEW leaf, NEW w, NEW nb
  PROVE  Counts(Build(bins, leaf, w, nb), bins, leaf, w, nb)
  BY DEF Build, Leaves, Counts

(* The numbers below n are n numbers.                                      *)
LEMMA Intervals == \A n \in Nat \ {0} : IsFiniteSet(0 .. n - 1) /\ Cardinality(0 .. n - 1) = n
<1>1. ASSUME NEW n \in Nat \ {0} PROVE IsFiniteSet(0 .. n - 1) /\ Cardinality(0 .. n - 1) = n
  <2>1. 0 \in Int /\ n - 1 \in Int
    OBVIOUS
  <2>2. IsFiniteSet(0 .. n - 1) /\ Cardinality(0 .. n - 1) = IF 0 > n - 1 THEN 0 ELSE n - 1 - 0 + 1
    BY <2>1, FS_Interval
  <2> QED  BY <2>2
<1> QED  BY <1>1

(* The score of a set of bins of a leaf is that of the objects in them.    *)
LEMMA BuiltSideScore ==
  ASSUME fit \in Fits, NEW bins \in [Objects -> Nat], NEW leaf, NEW w \in Nat \ {0}, NEW nb \in Nat \ {0},
         NEW h, h = Build(bins, leaf, w, nb), NEW l \in 0 .. w - 1, NEW S
  PROVE  SideScore(h, l, S) = ScoreOf({o \in Objects : leaf[o] = l /\ bins[o] \in S /\ bins[o] \in 0 .. nb - 1})
<1> DEFINE docs == {o \in Objects : leaf[o] = l /\ bins[o] \in S /\ bins[o] \in 0 .. nb - 1}
           cell(o) == [b \in DOMAIN h[l] |-> IF b \in S THEN h[l][b][o] ELSE 0]
           count == [o \in Objects |-> SumTo(Cardinality(DOMAIN h[l]), cell(o))]
<1>1. SideScore(h, l, S) = Scored(count)
  BY DEF SideScore
<1>2. DOMAIN h[l] = 0 .. nb - 1 /\ Cardinality(DOMAIN h[l]) = nb
  <2>1. Counts(h, bins, leaf, w, nb)
    BY BuiltCells
  <2>2. DOMAIN h[l] = 0 .. nb - 1
    BY <2>1 DEF Counts
  <2> QED  BY <2>2, Intervals
<1>3. ASSUME NEW o \in Objects PROVE count[o] = IF o \in docs THEN 1 ELSE 0
  <2> DEFINE v == IF leaf[o] = l /\ bins[o] \in S THEN 1 ELSE 0
  <2>1. \A b \in 0 .. nb - 1 : h[l][b][o] = IF leaf[o] = l /\ bins[o] = b THEN 1 ELSE 0
    <3>1. Counts(h, bins, leaf, w, nb)
      BY BuiltCells
    <3> QED  BY <3>1 DEF Counts
  <2>2. \A b \in 0 .. nb - 1 : cell(o)[b] = IF b = bins[o] THEN v ELSE 0
    BY <1>2, <2>1
  <2>3. v \in Int /\ bins[o] \in Int
    OBVIOUS
  <2>4. count[o] = SumTo(nb, cell(o))
    BY <1>2
  <2>5. o \in docs <=> v = 1 /\ bins[o] \in 0 .. nb - 1
    OBVIOUS
  <2>6. v = 1 \/ v = 0
    OBVIOUS
  <2> HIDE DEF cell, v, count, docs
  <2>7. SumTo(nb, cell(o)) = IF bins[o] \in 0 .. nb - 1 THEN v ELSE 0
    BY <2>2, <2>3, OneValue
  <2> QED  BY <2>4, <2>5, <2>6, <2>7
<1>4. docs \in SUBSET Objects
  OBVIOUS
<1> HIDE DEF count, docs
<1>5. Scored(count) = ScoreOf(docs)
  BY <1>3, <1>4, ScoredSet
<1> QED  BY <1>1, <1>5 DEF docs

(* A split scored on a histogram that is built has a number for a score.   *)
LEMMA BuiltScore ==
  ASSUME fit \in Fits, NEW bins \in [Objects -> Nat], NEW leaf, NEW w \in Nat \ {0}, NEW nb \in Nat \ {0},
         NEW h, h = Build(bins, leaf, w, nb), NEW s
  PROVE  ScanScore(h, s) \in Int
<1> DEFINE right(l) == TrueBins(s, DOMAIN h[l])
           value == [l \in DOMAIN h |-> SideScore(h, l, right(l)) + SideScore(h, l, DOMAIN h[l] \ right(l))]
<1>1. ScanScore(h, s) = SumTo(Cardinality(DOMAIN h), value)
  BY DEF ScanScore
<1>2. DOMAIN h = 0 .. w - 1 /\ Cardinality(DOMAIN h) = w
  <2>1. Counts(h, bins, leaf, w, nb)
    BY BuiltCells
  <2>2. DOMAIN h = 0 .. w - 1
    BY <2>1 DEF Counts
  <2> QED  BY <2>2, Intervals
<1>3. ASSUME NEW l \in 0 .. w - 1, NEW S PROVE SideScore(h, l, S) \in Int
  <2> DEFINE docs == {o \in Objects : leaf[o] = l /\ bins[o] \in S /\ bins[o] \in 0 .. nb - 1}
  <2>1. SideScore(h, l, S) = ScoreOf(docs)
    BY BuiltSideScore
  <2>2. docs \in SUBSET Objects
    OBVIOUS
  <2> HIDE DEF docs
  <2> QED  BY <2>1, <2>2, ScoreIsInt
<1>4. \A l \in 0 .. w - 1 : value[l] \in Int
  <2> TAKE l \in 0 .. w - 1
  <2>1. value[l] = SideScore(h, l, right(l)) + SideScore(h, l, DOMAIN h[l] \ right(l))
    BY <1>2
  <2> HIDE DEF value, right
  <2> QED  BY <1>3, <2>1
<1> HIDE DEF value
<1> QED  BY <1>1, <1>2, <1>4, SumIsInt

(* A histogram with the cells of one that is built is that one.            *)
Shaped(h, w, nb) ==
  h = [l \in 0 .. w - 1 |-> [b \in 0 .. nb - 1 |-> [o \in Objects |-> h[l][b][o]]]]

(* The cells of a histogram mark the objects of their leaf and bin.        *)
Holds(h, bins, leaf, w, nb) ==
  \A l \in 0 .. w - 1 : \A b \in 0 .. nb - 1 : \A o \in Objects :
    h[l][b][o] = IF leaf[o] = l /\ bins[o] = b THEN 1 ELSE 0

(* A histogram of the right shape with the right cells is the one built    *)
(* from the objects.                                                       *)
LEMMA SameCells ==
  ASSUME NEW bins, NEW leaf, NEW w, NEW nb, NEW h,
         Shaped(h, w, nb), Holds(h, bins, leaf, w, nb)
  PROVE  h = Build(bins, leaf, w, nb)
<1> DEFINE cell(l, b, o) == IF leaf[o] = l /\ bins[o] = b THEN 1 ELSE 0
<1>1. \A l \in 0 .. w - 1 : \A b \in 0 .. nb - 1 :
        [o \in Objects |-> h[l][b][o]] = [o \in Objects |-> cell(l, b, o)]
  BY DEF Holds
<1>2. \A l \in 0 .. w - 1 :
        [b \in 0 .. nb - 1 |-> [o \in Objects |-> h[l][b][o]]]
          = [b \in 0 .. nb - 1 |-> [o \in Objects |-> cell(l, b, o)]]
  BY <1>1
<1>3. [l \in 0 .. w - 1 |-> [b \in 0 .. nb - 1 |-> [o \in Objects |-> h[l][b][o]]]]
        = [l \in 0 .. w - 1 |-> [b \in 0 .. nb - 1 |-> [o \in Objects |-> cell(l, b, o)]]]
  BY <1>2
<1> QED  BY <1>3 DEF Shaped, Build, Leaves

(* Leaves that are the same number the same.                               *)
LEMMA SameLeaves ==
  ASSUME NEW bins, NEW leaf, NEW other, NEW w \in Nat \ {0}, NEW nb \in Nat \ {0},
         \A o \in Objects : leaf[o] = other[o]
  PROVE  Build(bins, leaf, w, nb) = Build(bins, other, w, nb)
<1> DEFINE h == Build(bins, leaf, w, nb)
<1>1. Shaped(h, w, nb)
  BY DEF Shaped, Build, Leaves
<1>2. Counts(h, bins, leaf, w, nb)
  BY BuiltCells
<1> HIDE DEF h
<1>3. Holds(h, bins, other, w, nb)
  BY <1>2 DEF Counts, Holds
<1>4. h = Build(bins, other, w, nb)
  BY <1>1, <1>3, SameCells
<1> QED  BY <1>4 DEF h

(* Histograms added: the leaves of one stay, those of the other move up,   *)
(* and no object is in both.                                               *)
Joins(a, c, shift, v, w, leaf) ==
  \A o \in Objects : \A l \in 0 .. w - 1 :
    /\ leaf[o] = l <=> a[o] = l \/ (l - shift \in 0 .. v - 1 /\ c[o] = l - shift)
    /\ ~(a[o] = l /\ l - shift \in 0 .. v - 1 /\ c[o] = l - shift)

(* The histogram of two parts laid side by side is the sum of theirs, the  *)
(* second one shifted.                                                     *)
LEMMA AddedHistograms ==
  ASSUME NEW bins, NEW a, NEW c, NEW leaf, NEW shift, NEW v, NEW w, NEW nb,
         Joins(a, c, shift, v, w, leaf)
  PROVE  add_relocated(Build(bins, a, w, nb), Build(bins, c, v, nb), shift) = Build(bins, leaf, w, nb)
<1> DEFINE x == Build(bins, a, w, nb)
           y == Build(bins, c, v, nb)
           h == add_relocated(x, y, shift)
<1>1. Counts(x, bins, a, w, nb) /\ Counts(y, bins, c, v, nb)
  BY BuiltCells
<1> HIDE DEF x, y
<1>2. h = [l \in 0 .. w - 1 |-> [b \in 0 .. nb - 1 |-> [o \in Objects |->
             x[l][b][o] + IF l - shift \in 0 .. v - 1 THEN y[l - shift][b][o] ELSE 0]]]
  BY <1>1 DEF add_relocated, Counts
<1> HIDE DEF h
<1>3. \A l \in 0 .. w - 1 : \A b \in 0 .. nb - 1 : \A o \in Objects :
        h[l][b][o] = x[l][b][o] + IF l - shift \in 0 .. v - 1 THEN y[l - shift][b][o] ELSE 0
  BY <1>2
<1>4. Shaped(h, w, nb)
  BY <1>2 DEF Shaped
<1>5. Holds(h, bins, leaf, w, nb)
  <2>1. ASSUME NEW l \in 0 .. w - 1, NEW b \in 0 .. nb - 1, NEW o \in Objects
        PROVE  h[l][b][o] = IF leaf[o] = l /\ bins[o] = b THEN 1 ELSE 0
    <3>1. x[l][b][o] = IF a[o] = l /\ bins[o] = b THEN 1 ELSE 0
      BY <1>1 DEF Counts
    <3>2. l - shift \in 0 .. v - 1 => y[l - shift][b][o] = IF c[o] = l - shift /\ bins[o] = b THEN 1 ELSE 0
      BY <1>1 DEF Counts
    <3>3. h[l][b][o] = x[l][b][o] + IF l - shift \in 0 .. v - 1 THEN y[l - shift][b][o] ELSE 0
      BY <1>3
    <3>4. /\ leaf[o] = l <=> a[o] = l \/ (l - shift \in 0 .. v - 1 /\ c[o] = l - shift)
          /\ ~(a[o] = l /\ l - shift \in 0 .. v - 1 /\ c[o] = l - shift)
      BY DEF Joins
    <3> QED  BY <3>1, <3>2, <3>3, <3>4
  <2> QED  BY <2>1 DEF Holds
<1>6. h = Build(bins, leaf, w, nb)
  BY <1>4, <1>5, SameCells
<1> QED  BY <1>6 DEF h, x, y

(* A part subtracted from the parent leaves the rest.                      *)
Parts(p, q, r, m, w) ==
  \A o \in Objects : \A l \in 0 .. w - 1 :
    /\ q[o] = l => l \in 0 .. m - 1 /\ p[o] = l
    /\ r[o] = l <=> l \in 0 .. m - 1 /\ p[o] = l /\ q[o] # l

(* The histogram of what is left of a leaf is its parent's less its        *)
(* sibling's.                                                              *)
LEMMA SubtractedHistograms ==
  ASSUME NEW bins, NEW p, NEW q, NEW r, NEW m \in Nat, NEW w \in Nat, NEW nb, Parts(p, q, r, m, w)
  PROVE  relocate_sub(Build(bins, p, m, nb), w, 0, Build(bins, q, w, nb)) = Build(bins, r, w, nb)
<1> DEFINE x == Build(bins, p, m, nb)
           y == Build(bins, q, w, nb)
           h == relocate_sub(x, w, 0, y)
<1>1. Counts(x, bins, p, m, nb) /\ Counts(y, bins, q, w, nb)
  BY BuiltCells
<1> HIDE DEF x, y
<1>2. h = [l \in 0 .. w - 1 |-> [b \in 0 .. nb - 1 |-> [o \in Objects |->
             (IF l \in 0 .. m - 1 THEN x[l][b][o] ELSE 0) - y[l][b][o]]]]
  <2>1. \A l \in 0 .. w - 1 : l - 0 = l
    OBVIOUS
  <2> QED  BY <1>1, <2>1 DEF relocate_sub, Counts, Leaves
<1> HIDE DEF h
<1>3. \A l \in 0 .. w - 1 : \A b \in 0 .. nb - 1 : \A o \in Objects :
        h[l][b][o] = (IF l \in 0 .. m - 1 THEN x[l][b][o] ELSE 0) - y[l][b][o]
  BY <1>2
<1>4. Shaped(h, w, nb)
  BY <1>2 DEF Shaped
<1>5. Holds(h, bins, r, w, nb)
  <2>1. ASSUME NEW l \in 0 .. w - 1, NEW b \in 0 .. nb - 1, NEW o \in Objects
        PROVE  h[l][b][o] = IF r[o] = l /\ bins[o] = b THEN 1 ELSE 0
    <3>1. y[l][b][o] = IF q[o] = l /\ bins[o] = b THEN 1 ELSE 0
      BY <1>1 DEF Counts
    <3>2. l \in 0 .. m - 1 => x[l][b][o] = IF p[o] = l /\ bins[o] = b THEN 1 ELSE 0
      BY <1>1 DEF Counts
    <3>3. h[l][b][o] = (IF l \in 0 .. m - 1 THEN x[l][b][o] ELSE 0) - y[l][b][o]
      BY <1>3
    <3>4. /\ q[o] = l => l \in 0 .. m - 1 /\ p[o] = l
          /\ r[o] = l <=> l \in 0 .. m - 1 /\ p[o] = l /\ q[o] # l
      BY DEF Parts
    <3> QED  BY <3>1, <3>2, <3>3, <3>4
  <2> QED  BY <2>1 DEF Holds
<1>6. h = Build(bins, r, w, nb)
  BY <1>4, <1>5, SameCells
<1> QED  BY <1>6 DEF h, x, y

(* What the search carries over from the level before, at half the width.  *)
LEMMA DerivedIsBuilt ==
  ASSUME NEW col, NEW m \in Nat \ {0}, width = 2 * m, leaf_of \in [Objects -> 0 .. width - 1],
         hists[col] = Build(BinsOf(col), [o \in Objects |-> leaf_of[o] % m], m, n_bins(col))
  PROVE  derive_feature_level_hist(col) = Build(BinsOf(col), leaf_of, width, n_bins(col))
<1> DEFINE pass == {o \in Objects : leaf_of[o] >= m}
           low == [o \in Objects |-> IF o \in pass THEN leaf_of[o] - m ELSE leaf_of[o]]
           parent == [o \in Objects |-> leaf_of[o] % m]
           left == [o \in Objects |-> IF o \in Objects \ pass THEN low[o] ELSE Skip]
           right == [o \in Objects |-> IF o \in pass THEN low[o] ELSE Skip]
           small == Cardinality(pass) <= Cardinality(Objects \ pass)
           H(leaf) == Build(BinsOf(col), leaf, width, n_bins(col))
<1>1. width \div 2 = m
  BY Halved
<1>2. hists[col] = Build(BinsOf(col), parent, m, n_bins(col))
  OBVIOUS
<1>3. ASSUME NEW o \in Objects
      PROVE  /\ leaf_of[o] \in 0 .. 2 * m - 1 /\ parent[o] = IF leaf_of[o] >= m THEN leaf_of[o] - m ELSE leaf_of[o]
             /\ low[o] = parent[o] /\ low[o] \in 0 .. m - 1
             /\ left[o] = IF leaf_of[o] >= m THEN -1 ELSE leaf_of[o]
             /\ right[o] = IF leaf_of[o] >= m THEN leaf_of[o] - m ELSE -1
  <2>1. leaf_of[o] \in 0 .. 2 * m - 1
    OBVIOUS
  <2>2. leaf_of[o] % m = IF leaf_of[o] >= m THEN leaf_of[o] - m ELSE leaf_of[o]
    BY <2>1, NewestBit
  <2> QED  BY <2>1, <2>2 DEF Skip
<1>4. derive_feature_level_hist(col)
        = IF small THEN add_relocated(relocate_sub(hists[col], width, 0, H(right)), H(right), m)
          ELSE add_relocated(H(left), relocate_sub(hists[col], width, 0, H(left)), m)
  <2>1. CASE small
    BY <1>1, <2>1 DEF derive_feature_level_hist
  <2>2. CASE ~small
    BY <1>1, <2>2 DEF derive_feature_level_hist
  <2> QED  BY <2>1, <2>2
<1> HIDE DEF small, left, right, low, parent, pass
<1>5. relocate_sub(hists[col], width, 0, H(right)) = H(left)
  <2>1. Parts(parent, right, left, m, width)
    BY <1>3 DEF Parts
  <2> QED  BY <1>2, <2>1, SubtractedHistograms
<1>6. relocate_sub(hists[col], width, 0, H(left)) = H(right)
  <2>1. Parts(parent, left, right, m, width)
    BY <1>3 DEF Parts
  <2> QED  BY <1>2, <2>1, SubtractedHistograms
<1>7. add_relocated(H(left), H(right), m) = H(leaf_of)
  <2>1. Joins(left, right, m, width, width, leaf_of)
    BY <1>3 DEF Joins
  <2> QED  BY <2>1, AddedHistograms
<1> QED  BY <1>4, <1>5, <1>6, <1>7

(* No bin is past the last of its column.                                  *)
LEMMA BinsOfColumns ==
  ASSUME fit \in Fits, NEW col \in DeviceColumns, NEW o \in Objects
  PROVE  /\ col[1] = "float" => BinsOf(col)[o] <= fit.floats[col[2]].borders
         /\ col[1] = "onehot" => BinsOf(col)[o] = fit.cats[col[2]][o]
         /\ col[1] # "ctr" => BinsOf(col)[o] < n_bins_of(fit)
         /\ col[1] = "ctr" => BinsOf(col)[o] < CtrBorders + 1
         /\ BinsOf(col)[o] \in Nat
<1>1. BinsOf(col)[o] \in Nat
  BY BinsAreNumbers
<1>2. CASE col \in DeviceFloats
  <2>1. col[1] = "float" /\ col[2] \in 1 .. Len(fit.floats)
    BY <1>2, ColumnKinds
  <2>2. /\ fit.floats[col[2]].borders \in Nat
        /\ fit.floats[col[2]].value[o] \in NaN .. fit.floats[col[2]].borders
    BY <2>1, ColumnsOfFit
  <2>3. bin_of(col[2], o) <= fit.floats[col[2]].borders
    BY <2>2 DEF bin_of, NaN
  <2>4. BinsOf(col)[o] = bin_of(col[2], o)
    BY <2>1 DEF BinsOf
  <2>5. fit.floats[col[2]].borders + 1 <= n_bins_of(fit) /\ n_bins_of(fit) \in Nat
    BY <2>1, WidestColumn
  <2> QED  BY <1>1, <2>1, <2>2, <2>3, <2>4, <2>5
<1>3. CASE col \in OneHots
  <2>1. col[1] = "onehot" /\ col[2] \in 1 .. Len(fit.cats)
    BY <1>3, ColumnKinds
  <2>2. BinsOf(col)[o] = fit.cats[col[2]][o]
    BY <2>1 DEF BinsOf
  <2>3. fit.cats[col[2]][o] + 1 <= n_bins_of(fit) /\ n_bins_of(fit) \in Nat
    BY <2>1, WidestColumn
  <2> QED  BY <1>1, <2>1, <2>2, <2>3
<1>4. CASE col \in Ctrs
  <2>1. col[1] = "ctr" /\ col[2] \in 1 .. Len(fit.ctrs)
    BY <1>4, ColumnKinds
  <2>2. BinsOf(col)[o] = fit.ctrs[col[2]].bin[o]
    BY <2>1 DEF BinsOf
  <2>3. fit.ctrs[col[2]].bin[o] \in 0 .. CtrBorders /\ CtrBorders \in Nat
    BY <2>1, ColumnsOfFit, FitsAssumption
  <2> QED  BY <1>1, <2>1, <2>2, <2>3
<1> QED  BY <1>2, <1>3, <1>4 DEF DeviceColumns

(* A histogram has a bin for each of its column's.                         *)
LEMMA SomeBins ==
  ASSUME fit \in Fits, NEW col \in Floats \cup OneHots \cup Ctrs
  PROVE  n_bins(col) \in Nat \ {0} /\ \A o \in Objects : BinsOf(col)[o] < n_bins(col)
<1>0. col \in DeviceColumns
  BY SearchedColumns
<1>1. CASE fit.ctrs # <<>>
  <2> DEFINE S == {n_bins_of(fit), CtrBorders + 1}
  <2>1. n_bins(col) = Max(S)
    BY <1>1 DEF n_bins
  <2>2. S \in SUBSET (Nat \ {0}) /\ S # {}
    BY WidestColumn, FitsAssumption
  <2>3. IsFiniteSet(S)
    <3>1. S = {n_bins_of(fit)} \cup {CtrBorders + 1}
      OBVIOUS
    <3> HIDE DEF S
    <3> QED  BY <3>1, FS_Singleton, FS_AddElement
  <2> HIDE DEF S
  <2>4. Max(S) \in S /\ Max(S) \in Int /\ \A x \in S : Max(S) >= x
    BY <2>2, <2>3, MaxIsIn
  <2>5. n_bins_of(fit) \in S /\ CtrBorders + 1 \in S
    BY DEF S
  <2>6. ASSUME NEW o \in Objects PROVE BinsOf(col)[o] < Max(S)
    <3>1. /\ col[1] # "ctr" => BinsOf(col)[o] < n_bins_of(fit)
          /\ col[1] = "ctr" => BinsOf(col)[o] < CtrBorders + 1
      BY <1>0, BinsOfColumns
    <3>2. BinsOf(col)[o] \in Nat
      BY <1>0, BinsOfColumns
    <3>3. n_bins_of(fit) \in Int /\ CtrBorders + 1 \in Int /\ Max(S) \in Int
          /\ Max(S) >= n_bins_of(fit) /\ Max(S) >= CtrBorders + 1
      <4>1. n_bins_of(fit) \in Int /\ CtrBorders + 1 \in Int
        BY WidestColumn, FitsAssumption
      <4>2. Max(S) >= n_bins_of(fit)
        BY <2>4, <2>5
      <4>3. Max(S) >= CtrBorders + 1
        BY <2>4, <2>5
      <4> QED  BY <2>4, <4>1, <4>2, <4>3
    <3> QED  BY <3>1, <3>2, <3>3
  <2> QED  BY <2>1, <2>2, <2>4, <2>6
<1>2. CASE fit.ctrs = <<>> /\ col \in Floats
  <2>1. col[1] = "float" /\ col[2] \in Bordered
    BY <1>2, ColumnKinds
  <2> DEFINE f == [i \in Bordered |-> fit.floats[i].borders + 1]
             S == {fit.floats[i].borders + 1 : i \in Bordered}
  <2>2. S = {f[i] : i \in Bordered} /\ S # {}
    BY <2>1
  <2>3. S \in SUBSET (Nat \ {0})
    BY ColumnKinds
  <2>4. IsFiniteSet(Bordered)
    <3>1. IsFiniteSet(1 .. Len(fit.floats))
      BY ColumnsOfFit, FS_Interval
    <3> QED  BY <3>1, ColumnKinds, FS_Subset
  <2>5. DOMAIN f = Bordered
    OBVIOUS
  <2>6. n_bins(col) = Max(S)
    BY <1>2, <2>1 DEF n_bins
  <2> HIDE DEF f, S
  <2>7. IsFiniteSet(S)
    BY <2>2, <2>4, <2>5, FiniteValues
  <2>8. S \in SUBSET Int /\ S # {}
    BY <2>2, <2>3
  <2>9. Max(S) \in S /\ Max(S) \in Int /\ \A x \in S : Max(S) >= x
    BY <2>7, <2>8, MaxIsIn
  <2>10. fit.floats[col[2]].borders + 1 \in S /\ fit.floats[col[2]].borders \in Nat
    BY <2>1, ColumnKinds DEF S
  <2>11. ASSUME NEW o \in Objects PROVE BinsOf(col)[o] < Max(S)
    <3>1. BinsOf(col)[o] <= fit.floats[col[2]].borders /\ BinsOf(col)[o] \in Nat
      BY <1>0, <2>1, BinsOfColumns
    <3>2. Max(S) >= fit.floats[col[2]].borders + 1
      BY <2>9, <2>10
    <3> QED  BY <2>9, <2>10, <3>1, <3>2
  <2> QED  BY <2>3, <2>6, <2>9, <2>11
<1>3. CASE fit.ctrs = <<>> /\ col \in OneHots
  <2> DEFINE P == (1 .. Len(fit.cats)) \X Objects
             f == [x \in P |-> fit.cats[x[1]][x[2]]]
             S == {fit.cats[c][o] : c \in 1 .. Len(fit.cats), o \in Objects}
  <2>1. col[1] = "onehot" /\ col[2] \in 1 .. Len(fit.cats) /\ 0 \in Objects
    BY <1>3, ColumnKinds, ObjectsAreFinite
  <2>2. S \in SUBSET Nat /\ S # {}
    <3>1. \A i \in 1 .. Len(fit.cats) : fit.cats[i] \in [Objects -> Nat]
      BY ColumnsOfFit
    <3>2. fit.cats[col[2]][0] \in S
      BY <2>1
    <3>3. ASSUME NEW i \in 1 .. Len(fit.cats), NEW o \in Objects PROVE fit.cats[i][o] \in Nat
      BY <3>1
    <3>4. S \in SUBSET Nat
      BY <3>3
    <3> HIDE DEF S
    <3> QED  BY <3>2, <3>4
  <2>3. IsFiniteSet(P)
    <3>1. IsFiniteSet(1 .. Len(fit.cats))
      BY ColumnsOfFit, FS_Interval
    <3> QED  BY <3>1, ObjectsAreFinite, FS_Product
  <2>4. S = {f[x] : x \in P} /\ DOMAIN f = P
    <3>1. ASSUME NEW y \in S PROVE y \in {f[x] : x \in P}
      <4>1. PICK i \in 1 .. Len(fit.cats), o \in Objects : y = fit.cats[i][o]
        OBVIOUS
      <4>2. <<i, o>> \in P /\ f[<<i, o>>] = y
        BY <4>1
      <4> QED  BY <4>2
    <3>2. ASSUME NEW x \in P PROVE f[x] \in S
      OBVIOUS
    <3>3. DOMAIN f = P
      OBVIOUS
    <3> HIDE DEF S, f, P
    <3> QED  BY <3>1, <3>2, <3>3
  <2>5. n_bins(col) = 1 + Max(S)
    BY <1>3, <2>1 DEF n_bins
  <2> HIDE DEF S, f, P
  <2>6. IsFiniteSet(S)
    BY <2>3, <2>4, FiniteValues
  <2>7. Max(S) \in S /\ Max(S) \in Int /\ \A x \in S : Max(S) >= x
    BY <2>2, <2>6, MaxIsIn
  <2>8. Max(S) \in Nat
    BY <2>2, <2>7
  <2>9. ASSUME NEW o \in Objects PROVE BinsOf(col)[o] < 1 + Max(S)
    <3>1. BinsOf(col)[o] = fit.cats[col[2]][o] /\ BinsOf(col)[o] \in Nat
      BY <1>0, <2>1, BinsOfColumns
    <3>2. fit.cats[col[2]][o] \in S
      BY <2>1 DEF S
    <3>3. Max(S) >= fit.cats[col[2]][o]
      BY <2>7, <3>2
    <3> QED  BY <2>8, <3>1, <3>3
  <2> QED  BY <2>5, <2>8, <2>9
<1>4. CASE fit.ctrs = <<>> /\ col \in Ctrs
  <2>1. col[2] \in 1 .. Len(fit.ctrs)
    BY <1>4, ColumnKinds
  <2>2. Len(fit.ctrs) # 0 /\ Len(fit.ctrs) \in Nat /\ DOMAIN fit.ctrs = 1 .. Len(fit.ctrs)
    BY <2>1, ColumnsOfFit
  <2> QED  BY <1>4, <2>2, NothingListed
<1> QED  BY <1>1, <1>2, <1>3, <1>4

(* A line of the device has room for every column.                         *)
LEMMA LineOfBins ==
  ASSUME fit \in Fits, fit.device
  PROVE  n_bins_line \in Nat \ {0} /\ n_bins_line >= n_bins_of(fit)
<1> DEFINE S == {w \in LineFamily : w >= n_bins_of(fit)}
<1>1. S \in SUBSET Nat /\ S # {}
  BY DeviceAssumption
<1>2. \E x \in S : \A y \in S : x <= y
  <2> HIDE DEF S
  <2> QED  BY <1>1, LeastElement
<1>3. Min(S) \in S
  BY <1>2 DEF Min
<1>4. n_bins_line = Min(S)
  BY DEF n_bins_line, n_bins_used
<1> QED  BY <1>1, <1>3, <1>4, WidestColumn

(* The bins of a column: those of the longest on the device.               *)
HistBins(col) == IF fit.device THEN n_bins_line ELSE n_bins(col)

(* And they hold every bin.                                                *)
LEMMA HistsHoldBins ==
  ASSUME fit \in Fits, NEW col, IF fit.device THEN col \in DeviceColumns ELSE col \in Floats \cup OneHots \cup Ctrs
  PROVE  HistBins(col) \in Nat \ {0} /\ \A o \in Objects : BinsOf(col)[o] < HistBins(col)
<1>1. CASE fit.device
  <2>1. col \in DeviceColumns /\ HistBins(col) = n_bins_line
    BY <1>1 DEF HistBins
  <2>2. n_bins_line \in Nat \ {0} /\ n_bins_line >= n_bins_of(fit) /\ n_bins_of(fit) \in Nat
    BY <1>1, LineOfBins, WidestColumn
  <2>3. col \in Ctrs => n_bins_of(fit) = CtrBorders + 1
    <3>1. ASSUME col \in Ctrs PROVE fit.ctrs # <<>>
      BY <3>1, ColumnKinds, ColumnsOfFit, NothingListed
    <3>2. fit.ctrs # <<>> => n_bins_of(fit) = CtrBorders + 1
      BY <1>1, FitsAssumption DEF IsFit
    <3> QED  BY <3>1, <3>2
  <2>4. col[1] = "ctr" => col \in Ctrs
    BY <2>1, ColumnKinds DEF DeviceColumns
  <2>5. ASSUME NEW o \in Objects PROVE BinsOf(col)[o] < n_bins_line
    <3>1. /\ col[1] # "ctr" => BinsOf(col)[o] < n_bins_of(fit)
          /\ col[1] = "ctr" => BinsOf(col)[o] < CtrBorders + 1
          /\ BinsOf(col)[o] \in Nat
      BY <2>1, BinsOfColumns
    <3> QED  BY <2>2, <2>3, <2>4, <3>1
  <2> QED  BY <2>1, <2>2, <2>5
<1>2. CASE ~fit.device
  BY <1>2, SomeBins DEF HistBins
<1> QED  BY <1>1, <1>2

(* The histogram of a level of the CPU.                                    *)
LEMMA LevelIsBuilt ==
  ASSUME NEW col, NEW k \in Nat, width = Pow2(k), leaf_of \in [Objects -> 0 .. width - 1],
         col \in DOMAIN hists =>
           \E w \in Nat \ {0} :
             hists[col] = Build(BinsOf(col), [o \in Objects |-> leaf_of[o] % w], w, n_bins(col))
  PROVE  LevelHist(col) = Build(BinsOf(col), leaf_of, width, n_bins(col))
<1>1. CASE col \in DOMAIN hists /\ DOMAIN hists[col] = Leaves(width \div 2) /\ width > 1
  <2>1. PICK w \in Nat \ {0} :
          hists[col] = Build(BinsOf(col), [o \in Objects |-> leaf_of[o] % w], w, n_bins(col))
    BY <1>1
  <2>2. k # 0
    BY <1>1, Pow2Steps
  <2>3. k - 1 \in Nat /\ (k - 1) + 1 = k
    BY <2>2
  <2> DEFINE m == Pow2(k - 1)
  <2>4. m \in Nat \ {0} /\ width = 2 * m
    BY <2>3, Pow2Steps
  <2>5. width \div 2 = m
    BY <2>4, Halved
  <2>6. w = m
    <3>1. DOMAIN hists[col] = 0 .. w - 1
      BY <2>1 DEF Build, Leaves
    <3>2. 0 .. w - 1 = 0 .. m - 1
      BY <1>1, <2>5, <3>1 DEF Leaves
    <3> HIDE DEF m
    <3>3. w - 1 \in 0 .. m - 1 /\ m - 1 \in 0 .. w - 1
      BY <2>4, <3>2
    <3> QED  BY <2>4, <3>3
  <2>7. derive_feature_level_hist(col) = Build(BinsOf(col), leaf_of, width, n_bins(col))
    <3> HIDE DEF m
    <3> QED  BY <2>1, <2>4, <2>6, DerivedIsBuilt
  <2> QED  BY <1>1, <2>7 DEF LevelHist
<1>2. CASE ~(col \in DOMAIN hists /\ DOMAIN hists[col] = Leaves(width \div 2) /\ width > 1)
  BY <1>2 DEF LevelHist
<1> QED  BY <1>1, <1>2

(* The newest leaves at level k of the device, and the others.             *)
LEMMA NewestLeaves ==
  ASSUME NEW k \in Nat, level = k, NEW x \in 0 .. Pow2(k) - 1
  PROVE  /\ k = 0 => filter_mask = 0 /\ n_active = 1 /\ Pow2(k) = 1 /\ Taken(x)
         /\ k # 0 => /\ filter_mask = Pow2(k - 1) /\ n_active = filter_mask
                     /\ filter_mask \in Nat \ {0} /\ Pow2(k) = 2 * filter_mask
                     /\ Taken(x) <=> x >= filter_mask
                     /\ x % filter_mask = IF x >= filter_mask THEN x - filter_mask ELSE x
<1>1. CASE k = 0
  BY <1>1, Pow2Steps DEF filter_mask, n_active, Taken
<1>2. CASE k # 0
  <2>1. k - 1 \in Nat /\ (k - 1) + 1 = k
    BY <1>2
  <2> DEFINE m == Pow2(k - 1)
  <2>2. m \in Nat \ {0} /\ Pow2(k) = 2 * m
    BY <2>1, Pow2Steps
  <2>3. filter_mask = m
    BY <1>2 DEF filter_mask
  <2> HIDE DEF m
  <2>4. x \in 0 .. 2 * m - 1
    BY <2>2
  <2>5. /\ x % m = IF x >= m THEN x - m ELSE x
        /\ (x \div m) % 2 = 1 <=> x >= m
    BY <2>2, <2>4, NewestBit
  <2>6. Taken(x) <=> x >= m
    BY <2>2, <2>3, <2>5 DEF Taken
  <2>7. n_active = m
    BY <2>2, <2>3 DEF n_active
  <2> QED  BY <1>2, <2>2, <2>3, <2>5, <2>6, <2>7 DEF m
<1> QED  BY <1>1, <1>2

(* Either arm fills the newest leaves, all others staying empty.           *)
newest == [o \in Objects |-> IF Taken(leaf_of[o]) THEN leaf_of[o] ELSE Skip]

(* The two fills of the device, by several copies and by local memory,     *)
(* build the histogram of the leaves.                                      *)
LEMMA EitherArmFills ==
  ASSUME NEW k \in Nat, level = k, leaf_of \in [Objects -> 0 .. Pow2(k) - 1], NEW col
  PROVE  /\ MultiCopyFill(col) = Build(BinsOf(col), newest, Pow2(k), n_bins_line)
         /\ LdsFill(col) = Build(BinsOf(col), newest, Pow2(k), n_bins_line)
<1>1. MultiCopyFill(col) = Build(BinsOf(col), newest, Pow2(k), n_bins_line)
  BY DEF MultiCopyFill, newest
<1> DEFINE slots == [o \in Objects |-> IF Taken(leaf_of[o]) THEN leaf_of[o] - filter_mask ELSE Skip]
           none == [o \in Objects |-> Skip]
<1>2. LdsFill(col) = add_relocated(Build(BinsOf(col), none, Pow2(k), n_bins_line),
                                   Build(BinsOf(col), slots, n_active, n_bins_line), filter_mask)
  BY DEF LdsFill
<1>3. Joins(none, slots, filter_mask, n_active, Pow2(k), newest)
  <2>1. ASSUME NEW o \in Objects, NEW l \in 0 .. Pow2(k) - 1
        PROVE  /\ newest[o] = l <=> none[o] = l \/ (l - filter_mask \in 0 .. n_active - 1 /\ slots[o] = l - filter_mask)
               /\ ~(none[o] = l /\ l - filter_mask \in 0 .. n_active - 1 /\ slots[o] = l - filter_mask)
    <3>1. leaf_of[o] \in 0 .. Pow2(k) - 1
      OBVIOUS
    <3>2. none[o] = -1 /\ slots[o] = (IF Taken(leaf_of[o]) THEN leaf_of[o] - filter_mask ELSE -1)
          /\ newest[o] = IF Taken(leaf_of[o]) THEN leaf_of[o] ELSE -1
      BY DEF newest, Skip
    <3>3. Pow2(k) \in Nat
      BY Pow2Steps
    <3> HIDE DEF none, slots
    <3>4. CASE k = 0
      BY <3>1, <3>2, <3>3, <3>4, NewestLeaves
    <3>5. CASE k # 0
      <4> DEFINE m == filter_mask
      <4>1. /\ n_active = m /\ m \in Nat \ {0} /\ Pow2(k) = 2 * m
            /\ Taken(leaf_of[o]) <=> leaf_of[o] >= m
        BY <3>1, <3>5, NewestLeaves
      <4> HIDE DEF m
      <4> QED  BY <3>1, <3>2, <4>1 DEF m
    <3> QED  BY <3>4, <3>5
  <2> HIDE DEF none, slots
  <2> QED  BY <2>1 DEF Joins
<1> HIDE DEF none, slots
<1>4. LdsFill(col) = Build(BinsOf(col), newest, Pow2(k), n_bins_line)
  BY <1>2, <1>3, AddedHistograms
<1> QED  BY <1>1, <1>4

(* What the fill left out is derived from the level before.                *)
LEMMA SiblingIsDerived ==
  ASSUME NEW k \in Nat \ {0}, level = k, leaf_of \in [Objects -> 0 .. Pow2(k) - 1], NEW bins, NEW nb,
         NEW parent, parent = Build(bins, [o \in Objects |-> leaf_of[o] % Pow2(k - 1)], Pow2(k - 1), nb)
  PROVE  derive_sibling(parent, Build(bins, newest, Pow2(k), nb)) = Build(bins, leaf_of, Pow2(k), nb)
<1> DEFINE filled == Build(bins, newest, Pow2(k), nb)
           low == [o \in Objects |-> leaf_of[o] % Pow2(k - 1)]
           m == Pow2(k - 1)
           h == derive_sibling(parent, filled)
<1>1. Counts(filled, bins, newest, Pow2(k), nb) /\ Counts(parent, bins, low, m, nb)
  BY BuiltCells
<1>2. k - 1 \in Nat /\ k # 0
  OBVIOUS
<1>3. m \in Nat \ {0} /\ filter_mask = m /\ Pow2(k) = 2 * m
  <2>1. 0 \in 0 .. Pow2(k) - 1
    BY Pow2Steps
  <2> QED  BY <1>2, <2>1, NewestLeaves
<1>4. ASSUME NEW o \in Objects
      PROVE  /\ leaf_of[o] \in 0 .. 2 * m - 1
             /\ low[o] = IF leaf_of[o] >= m THEN leaf_of[o] - m ELSE leaf_of[o]
             /\ newest[o] = IF leaf_of[o] >= m THEN leaf_of[o] ELSE -1
  <2>1. leaf_of[o] \in 0 .. Pow2(k) - 1
    OBVIOUS
  <2>2. /\ Taken(leaf_of[o]) <=> leaf_of[o] >= m
        /\ leaf_of[o] % m = IF leaf_of[o] >= m THEN leaf_of[o] - m ELSE leaf_of[o]
    BY <1>2, <1>3, <2>1, NewestLeaves
  <2> QED  BY <1>3, <2>1, <2>2 DEF newest, Skip
<1> HIDE DEF filled, low, m
<1>5. h = [l \in 0 .. 2 * m - 1 |-> IF l >= m THEN filled[l] ELSE
             [b \in 0 .. nb - 1 |-> [o \in Objects |-> parent[l][b][o] - filled[l + m][b][o]]]]
  BY <1>1, <1>3 DEF derive_sibling, Counts
<1> HIDE DEF h
<1>6. ASSUME NEW l \in 0 .. 2 * m - 1, NEW b \in 0 .. nb - 1, NEW o \in Objects
      PROVE  h[l][b][o] = IF leaf_of[o] = l /\ bins[o] = b THEN 1 ELSE 0
  <2>1. CASE l >= m
    <3>1. h[l] = filled[l]
      BY <1>5, <2>1
    <3>2. filled[l][b][o] = IF newest[o] = l /\ bins[o] = b THEN 1 ELSE 0
      BY <1>1, <1>3 DEF Counts
    <3> QED  BY <1>3, <1>4, <2>1, <3>1, <3>2
  <2>2. CASE ~(l >= m)
    <3>1. h[l][b][o] = parent[l][b][o] - filled[l + m][b][o]
      BY <1>5, <2>2
    <3>2. l \in 0 .. m - 1 /\ l + m \in 0 .. 2 * m - 1
      BY <1>3, <2>2
    <3>3. filled[l + m][b][o] = IF newest[o] = l + m /\ bins[o] = b THEN 1 ELSE 0
      BY <1>1, <1>3, <3>2 DEF Counts
    <3>4. parent[l][b][o] = IF low[o] = l /\ bins[o] = b THEN 1 ELSE 0
      BY <1>1, <3>2 DEF Counts
    <3> QED  BY <1>3, <1>4, <2>2, <3>1, <3>3, <3>4
  <2> QED  BY <2>1, <2>2
<1>7. Holds(h, bins, leaf_of, 2 * m, nb)
  BY <1>6 DEF Holds
<1>8. Shaped(h, 2 * m, nb)
  <2>1. \A l \in 0 .. 2 * m - 1 : filled[l] = [b \in 0 .. nb - 1 |-> [o \in Objects |-> filled[l][b][o]]]
    BY <1>3 DEF filled, Build, Leaves
  <2>2. \A l \in 0 .. 2 * m - 1 : h[l] = [b \in 0 .. nb - 1 |-> [o \in Objects |-> h[l][b][o]]]
    <3> TAKE l \in 0 .. 2 * m - 1
    <3>1. CASE l >= m
      <4>1. h[l] = filled[l]
        BY <1>5, <3>1
      <4> QED  BY <2>1, <4>1
    <3>2. CASE ~(l >= m)
      <4>1. h[l] = [b \in 0 .. nb - 1 |-> [o \in Objects |-> parent[l][b][o] - filled[l + m][b][o]]]
        BY <1>5, <3>2
      <4> QED  BY <4>1
    <3> QED  BY <3>1, <3>2
  <2>3. h = [l \in 0 .. 2 * m - 1 |-> h[l]]
    BY <1>5
  <2>4. [l \in 0 .. 2 * m - 1 |-> h[l]]
          = [l \in 0 .. 2 * m - 1 |-> [b \in 0 .. nb - 1 |-> [o \in Objects |-> h[l][b][o]]]]
    BY <2>2
  <2> QED  BY <2>3, <2>4 DEF Shaped
<1>9. h = Build(bins, leaf_of, 2 * m, nb)
  BY <1>7, <1>8, SameCells
<1> QED  BY <1>3, <1>9 DEF h, filled

(* The histograms of a level of the device, by either arm.                 *)
LEMMA DeviceLevelIsBuilt ==
  ASSUME NEW k \in Nat, level = k, leaf_of \in [Objects -> 0 .. Pow2(k) - 1],
         k # 0 => \A col \in DeviceColumns :
           hists[col] = Build(BinsOf(col), [o \in Objects |-> leaf_of[o] % Pow2(k - 1)], Pow2(k - 1), n_bins_line),
         NEW arm
  PROVE  LevelHists(arm) = [col \in DeviceColumns |-> Build(BinsOf(col), leaf_of, Pow2(k), n_bins_line)]
<1>1. ASSUME NEW col \in DeviceColumns
      PROVE  (LET filled == IF arm = "lds" THEN LdsFill(col) ELSE MultiCopyFill(col)
              IN  IF level = 0 THEN filled ELSE derive_sibling(hists[col], filled))
               = Build(BinsOf(col), leaf_of, Pow2(k), n_bins_line)
  <2> DEFINE filled == IF arm = "lds" THEN LdsFill(col) ELSE MultiCopyFill(col)
  <2>1. filled = Build(BinsOf(col), newest, Pow2(k), n_bins_line)
    BY EitherArmFills
  <2> HIDE DEF filled
  <2>2. CASE k = 0
    <3>1. \A o \in Objects : newest[o] = leaf_of[o]
      <4> TAKE o \in Objects
      <4>1. leaf_of[o] \in 0 .. Pow2(k) - 1
        OBVIOUS
      <4>2. Taken(leaf_of[o])
        BY <2>2, <4>1, NewestLeaves
      <4> QED  BY <4>2 DEF newest
    <3>2. newest = leaf_of
      <4>1. DOMAIN newest = Objects /\ DOMAIN leaf_of = Objects
        BY DEF newest
      <4> QED  BY <3>1, <4>1 DEF newest
    <3>3. level = 0
      BY <2>2
    <3> QED  BY <2>1, <3>2, <3>3 DEF filled
  <2>3. CASE k # 0
    <3>1. derive_sibling(hists[col], Build(BinsOf(col), newest, Pow2(k), n_bins_line))
            = Build(BinsOf(col), leaf_of, Pow2(k), n_bins_line)
      BY <2>3, SiblingIsDerived
    <3>2. level # 0
      BY <2>3
    <3> QED  BY <2>1, <3>1, <3>2 DEF filled
  <2> QED  BY <2>2, <2>3
<1> QED  BY <1>1 DEF LevelHists

(* What a CTR column weighs, at the largest count of those it competes     *)
(* with.                                                                   *)
LargestCount(used, leaf, n) == Max({eligible_max_bucket_count(used), PhantomMax(leaf, n)})

(* The penalty of a CTR column is a whole number of units of the scores.   *)
LEMMA WeightIsWhole ==
  ASSUME fit \in Fits, NEW c \in 1 .. Len(fit.ctrs), NEW used, NEW leaf, NEW n
  PROVE  CatWeight(fit.ctrs[c].count, LargestCount(used, leaf, n)) \in Nat \ {0}
<1> DEFINE counts == {fit.ctrs[j].count : j \in DOMAIN fit.ctrs}
           E == {fit.ctrs[j].count : j \in EligibleCtrs(used)}
           B == {phantom_mixed_bucket_count(leaf, fit.cat_buckets[i]) : i \in DOMAIN fit.cat_buckets}
           e == eligible_max_bucket_count(used)
           p == PhantomMax(leaf, n)
<1>1. /\ DOMAIN fit.ctrs = 1 .. Len(fit.ctrs) /\ Len(fit.ctrs) \in Nat
      /\ \A j \in 1 .. Len(fit.ctrs) : fit.ctrs[j].count \in Nat \ {0}
  BY ColumnsOfFit
<1>2. EligibleCtrs(used) \subseteq 1 .. Len(fit.ctrs)
  BY DEF EligibleCtrs
<1>3. e \in counts \cup {1} /\ e \in Nat \ {0}
  <2>1. E \subseteq counts /\ counts \in SUBSET (Nat \ {0})
    BY <1>1, <1>2
  <2>2. IsFiniteSet(E)
    <3> DEFINE f == [j \in EligibleCtrs(used) |-> fit.ctrs[j].count]
    <3>1. IsFiniteSet(1 .. Len(fit.ctrs))
      BY <1>1, FS_Interval
    <3>2. IsFiniteSet(EligibleCtrs(used))
      BY <1>2, <3>1, FS_Subset
    <3>3. E = {f[j] : j \in EligibleCtrs(used)} /\ DOMAIN f = EligibleCtrs(used)
      OBVIOUS
    <3> HIDE DEF E, f
    <3> QED  BY <3>2, <3>3, FiniteValues
  <2>3. e = Max(E \cup {1})
    BY DEF eligible_max_bucket_count
  <2> HIDE DEF E, counts, e
  <2>4. IsFiniteSet(E \cup {1}) /\ E \cup {1} \in SUBSET Int /\ E \cup {1} # {}
    <3>1. IsFiniteSet(E \cup {1})
      BY <2>2, FS_AddElement
    <3> QED  BY <2>1, <3>1
  <2>5. Max(E \cup {1}) \in E \cup {1}
    BY <2>4, MaxIsIn
  <2>6. e \in E \/ e = 1
    BY <2>3, <2>5
  <2>7. \A x \in E : x \in counts /\ x \in Nat \ {0}
    BY <2>1
  <2>8. CASE e \in E
    BY <2>7, <2>8
  <2>9. CASE e = 1
    BY <2>9
  <2> QED  BY <2>6, <2>8, <2>9
<1>4. p \in 0 .. N
  <2>1. \A i \in DOMAIN fit.cat_buckets : phantom_mixed_bucket_count(leaf, fit.cat_buckets[i]) \in 0 .. N
    <3> TAKE i \in DOMAIN fit.cat_buckets
    <3> DEFINE f == [o \in Objects |-> <<leaf[o], fit.cat_buckets[i][o]>>]
               T == {<<leaf[o], fit.cat_buckets[i][o]>> : o \in Objects}
    <3>1. T = {f[o] : o \in Objects} /\ DOMAIN f = Objects
      OBVIOUS
    <3>2. phantom_mixed_bucket_count(leaf, fit.cat_buckets[i]) = Cardinality(T)
      BY DEF phantom_mixed_bucket_count
    <3> HIDE DEF f, T
    <3>3. IsFiniteSet(T) /\ Cardinality(T) <= N
      BY <3>1, ObjectsAreFinite, FiniteValues
    <3> QED  BY <3>2, <3>3, FS_CardinalityType
  <2>2. CASE n = 0
    BY <2>2, FitsAssumption DEF PhantomMax
  <2>3. CASE n # 0
    <3>1. p = Max(B \cup {0})
      BY <2>3 DEF PhantomMax
    <3>2. B \cup {0} \in SUBSET (0 .. N) /\ B \cup {0} \in SUBSET Int /\ B \cup {0} # {}
      BY <2>1, FitsAssumption
    <3> HIDE DEF B
    <3>3. IsFiniteSet(B \cup {0})
      <4>1. IsFiniteSet(0 .. N)
        BY FS_Interval, FitsAssumption
      <4> QED  BY <3>2, <4>1, FS_Subset
    <3>4. Max(B \cup {0}) \in B \cup {0}
      BY <3>2, <3>3, MaxIsIn
    <3> QED  BY <3>1, <3>2, <3>4
  <2> QED  BY <2>2, <2>3
<1> HIDE DEF e, p
<1>5. LargestCount(used, leaf, n) \in counts \cup 1 .. N
  <2> DEFINE S == {e, p}
  <2>1. S \in SUBSET Int /\ S # {} /\ e \in S
    BY <1>3, <1>4
  <2>2. IsFiniteSet(S)
    <3>1. S = {e} \cup {p}
      OBVIOUS
    <3> HIDE DEF S
    <3> QED  BY <3>1, FS_Singleton, FS_AddElement
  <2>3. LargestCount(used, leaf, n) = Max(S)
    BY DEF LargestCount, e, p
  <2>4. Max(S) = e \/ Max(S) = p
    <3>1. \A x \in S : x = e \/ x = p
      OBVIOUS
    <3> HIDE DEF S
    <3> QED  BY <2>1, <2>2, <3>1, MaxIsIn
  <2>5. Max(S) >= e
    <3> HIDE DEF S
    <3> QED  BY <2>1, <2>2, MaxIsIn
  <2> HIDE DEF S, counts
  <2>6. 1 \in 1 .. N
    BY FitsAssumption
  <2>7. CASE Max(S) = e
    BY <1>3, <2>3, <2>6, <2>7
  <2>8. CASE Max(S) = p
    <3>1. p \in 1 .. N
      BY <1>3, <1>4, <2>5, <2>8
    <3> QED  BY <2>3, <2>8, <3>1
  <2> QED  BY <2>4, <2>7, <2>8
<1>6. CatWeight(fit.ctrs[c].count, LargestCount(used, leaf, n)) \in 1 .. Whole /\ Whole \in Nat
  BY <1>1, <1>5, CtrAssumption
<1> QED  BY <1>6

(* So is that of every candidate, on the host and on the device.           *)
LEMMA WeightsAreWhole ==
  ASSUME fit \in Fits, NEW s, s.kind = "ctr" => s.feature \in 1 .. Len(fit.ctrs)
  PROVE  /\ \A splits : CandidateWeight(splits, s) \in Nat \ {0}
         /\ ResidentWeight(s) \in Nat \ {0}
<1>1. Whole \in Nat \ {0}
  BY CtrAssumption
<1>2. ASSUME NEW splits PROVE CandidateWeight(splits, s) \in Nat \ {0}
  <2> DEFINE fs == OfKind(splits, "float")
             used == UsedProjections(splits)
             leaf == AssignLeaves(fs)
             n == Len(fs)
  <2>1. max_bucket_count_with_phantom(splits) = LargestCount(used, leaf, n)
    BY DEF max_bucket_count_with_phantom, LargestCount
  <2> HIDE DEF used, leaf, n
  <2>2. s.kind = "ctr" => CatWeight(fit.ctrs[s.feature].count, LargestCount(used, leaf, n)) \in Nat \ {0}
    BY WeightIsWhole
  <2> QED  BY <1>1, <2>1, <2>2 DEF CandidateWeight
<1>3. ResidentWeight(s) \in Nat \ {0}
  <2>1. ResidentMax = LargestCount(search.projections, search.float_leaf_of, search.float_split_count)
    BY DEF ResidentMax, LargestCount
  <2>2. s.kind = "ctr" =>
          CatWeight(fit.ctrs[s.feature].count,
                    LargestCount(search.projections, search.float_leaf_of, search.float_split_count)) \in Nat \ {0}
    BY WeightIsWhole
  <2> QED  BY <1>1, <2>1, <2>2 DEF ResidentWeight
<1> QED  BY <1>2, <1>3

(* The segments of an ordered training, and the scores over them.          *)
LEMMA SegmentsOfFit ==
  ASSUME NEW f \in Fits
  PROVE  /\ Len(f.segments) \in Nat /\ DOMAIN f.segments = 1 .. Len(f.segments)
         /\ \A i \in 1 .. Len(f.segments) :
              BodyOf(f.segments[i]) \subseteq Objects /\ TailOf(f.segments[i]) \subseteq Objects
<1>1. IsFit(f)
  BY FitsAssumption
<1>2. Len(f.segments) \in Nat /\ DOMAIN f.segments = 1 .. Len(f.segments)
  <2>1. \A s \in {f.floats, f.cats, f.ctrs, f.cat_buckets, f.segments} : IsList(s)
    BY <1>1 DEF IsFit
  <2> QED  BY <2>1 DEF IsList
<1>3. ASSUME NEW i \in 1 .. Len(f.segments)
      PROVE  BodyOf(f.segments[i]) \subseteq Objects /\ TailOf(f.segments[i]) \subseteq Objects
  <2>1. IsSegment(f.segments[i])
    BY <1>1 DEF IsFit
  <2>2. f.segments[i].body \in 1 .. f.segments[i].tail /\ f.segments[i].tail \in 1 .. N /\ N \in Nat
    BY <2>1, FitsAssumption DEF IsSegment
  <2>3. BodyOf(f.segments[i]) \subseteq Objects
    BY <2>2 DEF BodyOf, Objects
  <2>4. TailOf(f.segments[i]) \subseteq Objects
    BY <2>2 DEF TailOf, Objects
  <2> QED  BY <2>3, <2>4
<1> QED  BY <1>2, <1>3

(* A score summed over the segments of an order is a whole number.         *)
LEMMA SumOfSegmentsIsInt ==
  ASSUME fit \in Fits, NEW score, \A i \in 1 .. Len(fit.segments) : score[i] \in Int
  PROVE  SumOfSegments(score) \in Int
<1> DEFINE n == Len(fit.segments)
           v == [i \in 0 .. n - 1 |-> score[i + 1]]
<1>1. n \in Nat
  BY SegmentsOfFit
<1>2. \A i \in 0 .. n - 1 : v[i] \in Int
  <2>1. \A i \in 0 .. n - 1 : i + 1 \in 1 .. n
    BY <1>1
  <2> QED  BY <2>1
<1>3. SumOfSegments(score) = SumTo(n, v)
  BY DEF SumOfSegments
<1> HIDE DEF v, n
<1> QED  BY <1>1, <1>2, <1>3, SumIsInt

(* So is the score of a split in an ordered training.                      *)
LEMMA OrderedScoreIsInt ==
  ASSUME fit \in Fits, NEW splits, Len(splits) \in Nat
  PROVE  OrderedScore(splits) \in Int
<1> DEFINE leaf == AssignLeaves(splits)
           w == Pow2(Len(splits))
           score == [i \in DOMAIN fit.segments |-> SegmentScore(fit.segments[i], leaf, w)]
<1>1. OrderedScore(splits) = SumOfSegments(score)
  BY DEF OrderedScore
<1>2. w \in Nat \ {0}
  BY Pow2Steps
<1>3. DOMAIN fit.segments = 1 .. Len(fit.segments)
  BY SegmentsOfFit
<1>4. ASSUME NEW i \in 1 .. Len(fit.segments) PROVE SegmentScore(fit.segments[i], leaf, w) \in Int
  <2> DEFINE seg == fit.segments[i]
             at(l, docs) == {o \in docs : leaf[o] = l}
             v == [l \in 0 .. w - 1 |->
                     OrderedLeafScore(SumOf(seg.der, at(l, BodyOf(seg))),
                                      SumOf(fit.weight, at(l, BodyOf(seg))),
                                      SumOf(seg.der, at(l, TailOf(seg))))]
  <2>1. SegmentScore(seg, leaf, w) = SumTo(w, v)
    BY DEF SegmentScore, Leaves
  <2>2. ASSUME NEW l \in 0 .. w - 1 PROVE v[l] \in Int
    <3> DEFINE docs == {o \in Objects : leaf[o] = l}
    <3>1. at(l, BodyOf(seg)) = docs \cap BodyOf(seg) /\ at(l, TailOf(seg)) = docs \cap TailOf(seg)
      BY SegmentsOfFit
    <3>2. docs \in SUBSET Objects
      OBVIOUS
    <3> HIDE DEF docs
    <3>3. OrderedLeafScore(SumOf(seg.der, docs \cap BodyOf(seg)), SumOf(fit.weight, docs \cap BodyOf(seg)),
                           SumOf(seg.der, docs \cap TailOf(seg))) \in Int
      BY <1>3, <3>2, OrderedScoreAssumption
    <3> QED  BY <3>1, <3>3
  <2> HIDE DEF v, w, leaf
  <2> QED  BY <1>2, <2>1, <2>2, SumIsInt
<1> HIDE DEF leaf, w
<1>5. \A i \in 1 .. Len(fit.segments) : score[i] \in Int
  BY <1>3, <1>4
<1> HIDE DEF score
<1> QED  BY <1>1, <1>5, SumOfSegmentsIsInt

-----------------------------------------------------------------------------
(* The splits of a tree, and the leaves they make.                         *)

(* The device sends an object where a border sends it.                     *)
LEMMA DeviceSendsAlike ==
  ASSUME fit \in Fits, NEW s \in SearchSplits(fit), NamesABorder(s), NEW o \in Objects
  PROVE  DevicePasses(s, o) <=> Passes(s, o)
<1> DEFINE col == <<s.kind, s.feature>>
<1>1. CASE s.kind = "float"
  <2>1. s.feature \in 1 .. Len(fit.floats) /\ s.at >= 1 /\ s.at \in Nat
    BY <1>1, WidestColumn, FitsAssumption DEF SearchSplits, SplitRange
  <2>2. /\ fit.floats[s.feature].borders \in Nat /\ fit.floats[s.feature].top \in BOOLEAN
        /\ fit.floats[s.feature].value \in [Objects -> NaN .. fit.floats[s.feature].borders]
    BY <2>1, ColumnsOfFit
  <2>3. BinsOf(col)[o] = bin_of(s.feature, o)
    BY <1>1 DEF BinsOf
  <2>4. s.at <= fit.floats[s.feature].borders
    BY <1>1 DEF NamesABorder
  <2>5. DevicePasses(s, o) <=> bin_of(s.feature, o) >= s.at
    BY <1>1, <2>3 DEF DevicePasses
  <2>6. Passes(s, o) <=> passes_float(s.feature, o, s.at)
    BY <1>1 DEF Passes
  <2>7. fit.floats[s.feature].value[o] \in NaN .. fit.floats[s.feature].borders
    BY <2>2
  <2> QED  BY <2>1, <2>2, <2>4, <2>5, <2>6, <2>7 DEF bin_of, passes_float, NaN
<1>2. CASE s.kind = "onehot"
  BY <1>2 DEF DevicePasses, Passes, passes_one_hot, BinsOf
<1>3. CASE s.kind = "ctr"
  BY <1>3 DEF DevicePasses, Passes, passes_ctr, BinsOf
<1>4. s.kind \in {"float", "onehot", "ctr"}
  BY DEF SearchSplits, SplitRange
<1> QED  BY <1>1, <1>2, <1>3, <1>4

(* The trainer's walk does too, where no missing value is to go right.     *)
LEMMA HostSendsAlike ==
  ASSUME fit \in Fits, NEW s \in SearchSplits(fit), NEW o \in Objects,
         ~ \E f \in 1 .. Len(fit.floats) : fit.floats[f].top /\ NaN \in {fit.floats[f].value[x] : x \in Objects}
  PROVE  RawPasses(s, o) <=> Passes(s, o)
<1>1. CASE s.kind = "float"
  <2>1. s.feature \in 1 .. Len(fit.floats) /\ s.at >= 1 /\ s.at \in Nat
    BY <1>1, WidestColumn, FitsAssumption DEF SearchSplits, SplitRange
  <2>2. /\ fit.floats[s.feature].borders \in Nat /\ fit.floats[s.feature].top \in BOOLEAN
        /\ fit.floats[s.feature].value \in [Objects -> NaN .. fit.floats[s.feature].borders]
    BY <2>1, ColumnsOfFit
  <2>3. fit.floats[s.feature].value[o] = NaN => ~fit.floats[s.feature].top
    BY <2>1
  <2>4. Passes(s, o) <=> passes_float(s.feature, o, s.at)
    BY <1>1 DEF Passes
  <2>5. RawPasses(s, o) <=> fit.floats[s.feature].value[o] >= s.at
    BY <1>1 DEF RawPasses
  <2>6. fit.floats[s.feature].value[o] \in NaN .. fit.floats[s.feature].borders
    BY <2>2
  <2> QED  BY <2>1, <2>2, <2>3, <2>4, <2>5, <2>6 DEF passes_float, NaN
<1>2. CASE s.kind # "float"
  BY <1>2 DEF RawPasses
<1> QED  BY <1>1, <1>2

(* Without splits there is one leaf; a split more moves its objects on by  *)
(* as many leaves as there were.                                           *)
LEMMA NoSplitOneLeaf ==
  AssignLeaves(<<>>) = [o \in Objects |-> 0]
<1>1. ASSUME NEW o \in Objects PROVE leaf_index([i \in 1 .. Len(<<>>) |-> Passes(<<>>[i], o)]) = 0
  <2> DEFINE p == [i \in 1 .. Len(<<>>) |-> Passes(<<>>[i], o)]
  <2>1. DOMAIN p = 1 .. 0
    OBVIOUS
  <2> HIDE DEF p
  <2>2. Len(p) = 0
    BY <2>1, ListLength
  <2>3. leaf_index(p) = 0
    BY <2>2, LeafIndexOfNone
  <2> QED  BY <2>3 DEF p
<1> QED  BY <1>1 DEF AssignLeaves

(* A split more adds its bit to the leaf of every object that passes it.   *)
LEMMA OneSplitMore ==
  ASSUME NEW S, NEW splits \in Seq(S), NEW s \in S, NEW o \in Objects
  PROVE  AssignLeaves(Append(splits, s))[o]
           = AssignLeaves(splits)[o] + (IF Passes(s, o) THEN Pow2(Len(splits)) ELSE 0)
<1> DEFINE n == Len(splits)
           more == Append(splits, s)
           p == [i \in 1 .. n |-> Passes(splits[i], o)]
           q == [i \in 1 .. Len(more) |-> Passes(more[i], o)]
<1>1. n \in Nat /\ Len(more) = n + 1 /\ more[n + 1] = s /\ \A i \in 1 .. n : more[i] = splits[i]
  OBVIOUS
<1>2. DOMAIN p = 1 .. n /\ DOMAIN q = 1 .. n + 1
  BY <1>1
<1>3. \A i \in 1 .. n : q[i] = p[i]
  <2> TAKE i \in 1 .. n
  <2>1. i \in 1 .. n + 1 /\ more[i] = splits[i]
    BY <1>1
  <2>2. q[i] = Passes(more[i], o) /\ p[i] = Passes(splits[i], o)
    BY <1>1, <2>1
  <2> QED  BY <2>1, <2>2
<1>4. q[n + 1] = Passes(s, o)
  BY <1>1
<1>5. AssignLeaves(more)[o] = leaf_index(q) /\ AssignLeaves(splits)[o] = leaf_index(p)
  BY DEF AssignLeaves
<1> HIDE DEF p, q, n, more
<1>6. Len(p) = n /\ Len(q) = n + 1
  BY <1>1, <1>2, ListLength
<1>7. leaf_index(q) = leaf_index(p) + (IF q[n + 1] THEN Pow2(n) ELSE 0)
  BY <1>1, <1>3, <1>6, LeafIndexGrows
<1> QED  BY <1>4, <1>5, <1>7 DEF n, more

(* k splits assign leaves below the k-th power of two.                     *)
LEMMA AssignedRange ==
  ASSUME NEW splits, Len(splits) \in Nat
  PROVE  AssignLeaves(splits) \in [Objects -> 0 .. Pow2(Len(splits)) - 1]
<1>1. ASSUME NEW o \in Objects
      PROVE  leaf_index([i \in 1 .. Len(splits) |-> Passes(splits[i], o)]) \in 0 .. Pow2(Len(splits)) - 1
  <2> DEFINE p == [i \in 1 .. Len(splits) |-> Passes(splits[i], o)]
  <2>1. DOMAIN p = 1 .. Len(splits)
    OBVIOUS
  <2> HIDE DEF p
  <2>2. Len(p) = Len(splits)
    BY <2>1, ListLength
  <2>3. leaf_index(p) \in 0 .. Pow2(Len(splits)) - 1
    BY <2>2, LeafIndexRange
  <2> QED  BY <2>3 DEF p
<1> QED  BY <1>1 DEF AssignLeaves

(* The splits of one kind among the first 0, 1, ... of a list.             *)
Keeps(splits, n, k, g) ==
  /\ g \in [0 .. n -> Seq(Splits)] /\ g[0] = <<>>
  /\ \A i \in 1 .. n : g[i] = IF splits[i].kind = k THEN Append(g[i - 1], splits[i]) ELSE g[i - 1]

(* The splits of one kind can be listed as the splits come.                *)
LEMMA KeptExists ==
  ASSUME NEW splits \in Seq(Splits), NEW k
  PROVE  \E g : Keeps(splits, Len(splits), k, g)
<1> DEFINE X == Seq(Splits)
           n == Len(splits)
           F == [i \in 1 .. n |-> [x \in X |-> IF splits[i].kind = k THEN Append(x, splits[i]) ELSE x]]
<1>1. n \in Nat /\ <<>> \in X
  OBVIOUS
<1>2. F \in [1 .. n -> [X -> X]]
  <2>1. ASSUME NEW i \in 1 .. n, NEW x \in X
        PROVE  (IF splits[i].kind = k THEN Append(x, splits[i]) ELSE x) \in X
    <3>1. splits[i] \in Splits
      OBVIOUS
    <3> QED  BY <3>1
  <2> HIDE DEF X
  <2> QED  BY <2>1
<1>3. PICK g : Stepwise(X, n, <<>>, F, g)
  <2> HIDE DEF X, F, n
  <2> QED  BY <1>1, <1>2, StepsExist
<1>4. ASSUME NEW i \in 1 .. n
      PROVE  g[i] = IF splits[i].kind = k THEN Append(g[i - 1], splits[i]) ELSE g[i - 1]
  <2>1. i - 1 \in 0 .. n
    BY <1>1
  <2>2. g[i - 1] \in X /\ g[i] = F[i][g[i - 1]]
    BY <1>3, <2>1 DEF Stepwise
  <2> QED  BY <2>2
<1> QED  BY <1>3, <1>4 DEF Stepwise, Keeps

(* That list is what OfKind computes.                                      *)
LEMMA OfKindIs ==
  ASSUME NEW splits, NEW n \in Nat, Len(splits) = n, NEW k, NEW g, Keeps(splits, n, k, g)
  PROVE  OfKind(splits, k) = g[n]
<1> DEFINE Rec(f) == f = [i \in 0 .. Len(splits) |->
                            IF i = 0 THEN <<>>
                            ELSE IF splits[i].kind = k THEN Append(f[i - 1], splits[i]) ELSE f[i - 1]]
           kept == CHOOSE f : Rec(f)
<1>1. OfKind(splits, k) = kept[n]
  BY DEF OfKind
<1>2. ASSUME NEW i \in 0 .. n
      PROVE  g[i] = IF i = 0 THEN <<>>
                    ELSE IF splits[i].kind = k THEN Append(g[i - 1], splits[i]) ELSE g[i - 1]
  <2>1. CASE i = 0
    BY <2>1 DEF Keeps
  <2>2. CASE i # 0
    <3>1. i \in 1 .. n
      BY <2>2
    <3> QED  BY <2>2, <3>1 DEF Keeps
  <2> QED  BY <2>1, <2>2
<1>3. Rec(g)
  <2>1. g = [i \in 0 .. n |-> g[i]]
    BY DEF Keeps
  <2> QED  BY <1>2, <2>1
<1>4. Rec(kept)
  <2> HIDE DEF Rec
  <2> QED  BY <1>3
<1> HIDE DEF kept
<1>5. kept[0] = <<>>
  BY <1>4
<1>6. ASSUME NEW i \in 0 .. n - 1
      PROVE  kept[i + 1] = IF splits[i + 1].kind = k THEN Append(kept[i], splits[i + 1]) ELSE kept[i]
  <2>1. i + 1 \in 0 .. Len(splits) /\ i + 1 # 0 /\ (i + 1) - 1 = i
    OBVIOUS
  <2> QED  BY <1>4, <2>1
<1> DEFINE In == {i \in 0 .. n : kept[i] = g[i]}
<1>7. 0 \in In
  BY <1>5 DEF Keeps
<1>8. ASSUME NEW i \in 0 .. n - 1, i \in In PROVE i + 1 \in In
  <2>1. i + 1 \in 1 .. n /\ (i + 1) - 1 = i /\ i + 1 \in 0 .. n
    OBVIOUS
  <2>2. g[i + 1] = IF splits[i + 1].kind = k THEN Append(g[i], splits[i + 1]) ELSE g[i]
    BY <2>1 DEF Keeps
  <2> QED  BY <1>6, <1>8, <2>1, <2>2
<1>9. 0 .. n \subseteq In
  <2> HIDE DEF In
  <2> QED  BY <1>7, <1>8, BoundedInduction
<1> QED  BY <1>1, <1>9

(* The first splits of a list are a list of splits.                        *)
LEMMA FirstSplits ==
  ASSUME NEW S, NEW splits \in Seq(S), NEW i \in 0 .. Len(splits)
  PROVE  /\ SubSeq(splits, 1, i) \in Seq(S) /\ Len(SubSeq(splits, 1, i)) = i
         /\ \A j \in 1 .. i : SubSeq(splits, 1, i)[j] = splits[j]
  OBVIOUS

(* And of the first splits it computes the list so far.                    *)
LEMMA OfKindOfFirst ==
  ASSUME NEW splits \in Seq(Splits), NEW k, NEW g, Keeps(splits, Len(splits), k, g), NEW i \in 0 .. Len(splits)
  PROVE  OfKind(SubSeq(splits, 1, i), k) = g[i]
<1> DEFINE n == Len(splits)
           first == SubSeq(splits, 1, i)
           h == [j \in 0 .. i |-> g[j]]
<1>1. n \in Nat /\ i \in 0 .. n /\ i \in Nat
  OBVIOUS
<1>2. Len(first) = i /\ \A j \in 1 .. i : first[j] = splits[j]
  BY FirstSplits
<1>3. Keeps(first, i, k, h)
  <2>1. h \in [0 .. i -> Seq(Splits)] /\ h[0] = <<>>
    BY <1>1 DEF Keeps
  <2>2. ASSUME NEW j \in 1 .. i
        PROVE  h[j] = IF first[j].kind = k THEN Append(h[j - 1], first[j]) ELSE h[j - 1]
    <3>1. j \in 1 .. n /\ j \in 0 .. i /\ j - 1 \in 0 .. i
      BY <1>1
    <3>2. g[j] = IF splits[j].kind = k THEN Append(g[j - 1], splits[j]) ELSE g[j - 1]
      BY <3>1 DEF Keeps
    <3>3. h[j] = g[j] /\ h[j - 1] = g[j - 1] /\ first[j] = splits[j]
      BY <1>2, <3>1
    <3> HIDE DEF h, first
    <3> QED  BY <3>2, <3>3
  <2> HIDE DEF h, first
  <2> QED  BY <2>1, <2>2 DEF Keeps
<1>4. h[i] = g[i]
  BY <1>1
<1> HIDE DEF first, h
<1>5. OfKind(first, k) = h[i]
  BY <1>1, <1>2, <1>3, OfKindIs
<1> QED  BY <1>4, <1>5 DEF first

(* What was kept stays where it was.                                       *)
Stays(g, i, j) == Len(g[i]) <= Len(g[j]) /\ \A x \in 1 .. Len(g[i]) : g[j][x] = g[i][x]

(* What the list holds it goes on holding at the same places.              *)
LEMMA KeptStays ==
  ASSUME NEW splits, NEW n \in Nat, NEW k, NEW g, Keeps(splits, n, k, g), NEW i \in 0 .. n
  PROVE  \A j \in i .. n : Stays(g, i, j)
<1> DEFINE In == {d \in 0 .. n - i : Stays(g, i, i + d)}
<1>0. g[i] \in Seq(Splits) /\ Len(g[i]) \in Nat
  BY DEF Keeps
<1>1. 0 \in In
  BY <1>0 DEF Stays
<1>2. ASSUME NEW d \in 0 .. (n - i) - 1, d \in In PROVE d + 1 \in In
  <2>1. i + d \in 0 .. n /\ i + (d + 1) \in 1 .. n /\ (i + (d + 1)) - 1 = i + d
    OBVIOUS
  <2>2. g[i + d] \in Seq(Splits)
    BY <2>1 DEF Keeps
  <2>3. \/ g[i + (d + 1)] = g[i + d]
        \/ g[i + (d + 1)] = Append(g[i + d], splits[i + (d + 1)])
    BY <2>1 DEF Keeps
  <2>4. Stays(g, i, i + d)
    BY <1>2
  <2>5. Stays(g, i, i + (d + 1))
    <3>1. CASE g[i + (d + 1)] = g[i + d]
      BY <2>4, <3>1 DEF Stays
    <3>2. CASE g[i + (d + 1)] = Append(g[i + d], splits[i + (d + 1)])
      <4>1. Len(g[i + (d + 1)]) = Len(g[i + d]) + 1
            /\ \A x \in 1 .. Len(g[i + d]) : g[i + (d + 1)][x] = g[i + d][x]
        BY <2>2, <3>2
      <4>2. Len(g[i + d]) \in Nat
        BY <2>2
      <4>3. Len(g[i]) <= Len(g[i + d]) /\ \A x \in 1 .. Len(g[i]) : g[i + d][x] = g[i][x]
        BY <2>4 DEF Stays
      <4>4. Len(g[i]) <= Len(g[i + (d + 1)]) /\ \A x \in 1 .. Len(g[i]) : x \in 1 .. Len(g[i + d])
        BY <1>0, <4>1, <4>2, <4>3
      <4>5. \A x \in 1 .. Len(g[i]) : g[i + (d + 1)][x] = g[i][x]
        BY <4>1, <4>3, <4>4
      <4> QED  BY <4>4, <4>5 DEF Stays
    <3> QED  BY <2>3, <3>1, <3>2
  <2>6. d + 1 \in 0 .. n - i
    OBVIOUS
  <2> QED  BY <2>5, <2>6
<1>3. 0 .. n - i \subseteq In
  <2>1. n - i \in Nat
    OBVIOUS
  <2> HIDE DEF In
  <2> QED  BY <1>1, <1>2, <2>1, BoundedInduction
<1>4. ASSUME NEW j \in i .. n PROVE Stays(g, i, j)
  <2>1. j - i \in In /\ i + (j - i) = j
    BY <1>3
  <2> QED  BY <2>1
<1> QED  BY <1>4

(* A split is at the place its level's kind says.                          *)
LEMMA PlaceOfLevel ==
  ASSUME NEW splits \in Seq(Splits), NEW i \in 1 .. Len(splits)
  PROVE  /\ LevelKind(splits, i)[1] = splits[i].kind
         /\ OfKind(splits, splits[i].kind)[LevelKind(splits, i)[2]] = splits[i]
<1> DEFINE n == Len(splits)
           k == splits[i].kind
<1>1. n \in Nat /\ i \in 0 .. n /\ n \in 0 .. n /\ i - 1 \in 0 .. n /\ n \in i .. n
  OBVIOUS
<1>2. PICK g : Keeps(splits, n, k, g)
  BY KeptExists
<1>3. OfKind(SubSeq(splits, 1, i), k) = g[i]
  BY <1>1, <1>2, OfKindOfFirst
<1>4. OfKind(splits, k) = g[n]
  BY <1>1, <1>2, OfKindIs
<1>5. g[i] = Append(g[i - 1], splits[i]) /\ g[i - 1] \in Seq(Splits)
  BY <1>1, <1>2 DEF Keeps
<1>6. Len(g[i]) \in 1 .. Len(g[i]) /\ g[i][Len(g[i])] = splits[i]
  BY <1>5
<1>7. g[n][Len(g[i])] = g[i][Len(g[i])]
  <2> HIDE DEF n, k
  <2>1. Stays(g, i, n)
    BY <1>1, <1>2, KeptStays
  <2> QED  BY <1>6, <2>1 DEF Stays
<1> QED  BY <1>3, <1>4, <1>6, <1>7 DEF LevelKind

(* A list of floats only is its own.                                       *)
LEMMA AllOfOneKind ==
  ASSUME NEW splits \in Seq(Splits), NEW k, \A i \in 1 .. Len(splits) : splits[i].kind = k
  PROVE  OfKind(splits, k) = splits
<1> DEFINE n == Len(splits)
           g == [i \in 0 .. n |-> SubSeq(splits, 1, i)]
<1>1. n \in Nat
  OBVIOUS
<1>2. \A i \in 0 .. n : g[i] \in Seq(Splits)
  BY FirstSplits
<1>3. ASSUME NEW i \in 1 .. n PROVE g[i] = Append(g[i - 1], splits[i])
  OBVIOUS
<1>4. g[0] = <<>> /\ g[n] = splits
  OBVIOUS
<1>5. g \in [0 .. n -> Seq(Splits)]
  BY <1>2
<1> HIDE DEF g
<1>6. Keeps(splits, n, k, g)
  BY <1>3, <1>4, <1>5 DEF Keeps
<1> QED  BY <1>1, <1>4, <1>6, OfKindIs

-----------------------------------------------------------------------------
(* A training does not change: nor does anything that depends on it alone. *)

(* While the training stays the same, so does all that is read of it.      *)
LEMMA FitStays ==
  ASSUME fit' = fit
  PROVE  /\ \A s, o : Passes(s, o)' = Passes(s, o)
         /\ \A s : NamesABorder(s)' = NamesABorder(s)
         /\ \A col : BinsOf(col)' = BinsOf(col)
         /\ Floats' = Floats /\ OneHots' = OneHots /\ Ctrs' = Ctrs
         /\ DeviceColumns' = DeviceColumns
         /\ \A cols : Candidates(cols)' = Candidates(cols)
         /\ DeviceCandidates' = DeviceCandidates
         /\ \A col : HistBins(col)' = HistBins(col)
<1>1. \A s, o : Passes(s, o)' = Passes(s, o)
  BY DEF Passes, passes_float, passes_one_hot, passes_ctr
<1>2. \A s : NamesABorder(s)' = NamesABorder(s)
  BY DEF NamesABorder
<1>3. \A col : BinsOf(col)' = BinsOf(col)
  BY DEF BinsOf, bin_of
<1>4. Floats' = Floats /\ OneHots' = OneHots /\ Ctrs' = Ctrs
  BY DEF Floats, OneHots, Ctrs, Bordered
<1>5. DeviceColumns' = DeviceColumns
  BY <1>4 DEF DeviceColumns, DeviceFloats
<1>6. \A cols : Candidates(cols)' = Candidates(cols)
  BY DEF Candidates, CandidatesOf
<1>7. DeviceCandidates' = DeviceCandidates
  BY DEF DeviceCandidates, Thresholds, Equalities, n_bins_used, n_bins_of, real_folds, DeviceFloats, Ctrs, OneHots
<1>8. \A col : HistBins(col)' = HistBins(col)
  BY DEF HistBins, n_bins_line, n_bins_used, n_bins_of, n_bins, Bordered
<1> QED  BY <1>1, <1>2, <1>3, <1>4, <1>5, <1>6, <1>7, <1>8

-----------------------------------------------------------------------------
(* What a symmetric tree's search keeps.                                   *)

(* The candidates of a level.                                              *)
Cands == IF fit.device THEN DeviceCandidates ELSE Candidates(Floats \cup OneHots \cup Ctrs)

(* A host training with no CTR columns and no ordered segments.            *)
Plain == ~fit.device /\ fit.ctrs = <<>> /\ fit.segments = <<>>

(* The partition is that of the first k splits, of all of them wherever    *)
(* the next level starts from it.                                          *)
Parted(ch, lf, wd, k) ==
  /\ k \in 0 .. Len(ch) /\ wd = Pow2(k) /\ lf \in [Objects -> 0 .. wd - 1]
  /\ (\A i \in DOMAIN ch : NamesABorder(ch[i])) => lf = AssignLeaves(SubSeq(ch, 1, k))
  /\ fit.device \/ (Plain /\ Len(ch) < MaxDepth) => k = Len(ch)

(* A column's histogram is that of the partition of some level.            *)
HistOf(h, col, lf, w) ==
  /\ HistBins(col) \in Nat \ {0} /\ w \in Nat \ {0}
  /\ h = Build(BinsOf(col), [o \in Objects |-> lf[o] % w], w, HistBins(col))

(* The splits of a tree so far are candidates of its search, and no        *)
(* deeper than allowed.                                                    *)
Chosen(ch) ==
  /\ ch \in Seq(SearchSplits(fit)) /\ Len(ch) <= MaxDepth
  /\ \A i \in DOMAIN ch : ch[i] \in Cands

(* Between its levels a device search carries the histograms of the        *)
(* leaves one split back.                                                  *)
Carried(gr, ch, lf, hs) ==
  fit.device /\ fit.segments = <<>> /\ gr = "search" /\ Len(ch) > 0 =>
    \A col \in DeviceColumns : col \in DOMAIN hs /\ HistOf(hs[col], col, lf, Pow2(Len(ch) - 1))

(* The book of an oblivious tree: its splits, the leaf each object is in,  *)
(* the number of leaves, the histograms of the level and the number of     *)
(* float splits.                                                           *)
TreeBook(gr, ch, lf, wd, hs, n) ==
  /\ Chosen(ch)
  /\ \E k \in Nat : Parted(ch, lf, wd, k)
  /\ \A col \in DOMAIN hs : \E w : HistOf(hs[col], col, lf, w)
  /\ Carried(gr, ch, lf, hs)
  /\ n \in 0 .. Len(ch)

(* The book of an oblivious tree speaks of its arguments alone.            *)
LEMMA BookStays ==
  ASSUME fit' = fit, TreeBook(growth', chosen', leaf_of', width', hists', search'.float_split_count)
  PROVE  TreeBook(growth, chosen, leaf_of, width, hists, search.float_split_count)'
<1>1. Chosen(chosen')
  BY DEF TreeBook
<1>2. Cands' = Cands
  BY FitStays DEF Cands
<1>3. Chosen(chosen)'
  BY <1>1, <1>2 DEF Chosen
<1>4. \A s : AssignLeaves(s)' = AssignLeaves(s)
  BY FitStays DEF AssignLeaves
<1>5. (\E k \in Nat : Parted(chosen, leaf_of, width, k))'
  <2>1. PICK k \in Nat : Parted(chosen', leaf_of', width', k)
    BY DEF TreeBook
  <2>2. Parted(chosen, leaf_of, width, k)'
    BY <1>4, <2>1, FitStays DEF Parted, Plain
  <2> QED  BY <2>2
<1>6. \A h, col, lf, w : HistOf(h, col, lf, w)' = HistOf(h, col, lf, w)
  BY FitStays DEF HistOf
<1>7. (\A col \in DOMAIN hists : \E w : HistOf(hists[col], col, leaf_of, w))'
  <2>1. \A col \in DOMAIN hists' : \E w : HistOf(hists'[col], col, leaf_of', w)
    BY DEF TreeBook
  <2> QED  BY <1>6, <2>1
<1>8. Carried(growth, chosen, leaf_of, hists)'
  <2>1. Carried(growth', chosen', leaf_of', hists')
    BY DEF TreeBook
  <2> QED  BY <1>6, <2>1, FitStays DEF Carried
<1> QED  BY <1>3, <1>5, <1>7, <1>8 DEF TreeBook

(* A split more, from the candidates.                                      *)
LEMMA OneMoreChosen ==
  ASSUME fit \in Fits, NEW ch, Chosen(ch), NEW s \in SearchSplits(fit), s \in Cands, Len(ch) < MaxDepth
  PROVE  /\ Chosen(Append(ch, s)) /\ Len(ch) \in Nat
         /\ Len(Append(ch, s)) = Len(ch) + 1
         /\ \A i \in DOMAIN ch : i \in DOMAIN Append(ch, s) /\ Append(ch, s)[i] = ch[i]
         /\ Len(ch) + 1 \in DOMAIN Append(ch, s) /\ Append(ch, s)[Len(ch) + 1] = s
         /\ \A k \in 0 .. Len(ch) : SubSeq(Append(ch, s), 1, k) = SubSeq(ch, 1, k)
         /\ SubSeq(Append(ch, s), 1, Len(ch) + 1) = Append(ch, s)
         /\ SubSeq(ch, 1, Len(ch)) = ch
<1>1. ch \in Seq(SearchSplits(fit)) /\ Len(ch) \in Nat /\ MaxDepth \in Nat /\ DOMAIN ch = 1 .. Len(ch)
  BY FitsAssumption DEF Chosen
<1>2. /\ Len(Append(ch, s)) = Len(ch) + 1
      /\ \A i \in DOMAIN ch : i \in DOMAIN Append(ch, s) /\ Append(ch, s)[i] = ch[i]
      /\ Len(ch) + 1 \in DOMAIN Append(ch, s) /\ Append(ch, s)[Len(ch) + 1] = s
      /\ Append(ch, s) \in Seq(SearchSplits(fit))
      /\ DOMAIN Append(ch, s) = 1 .. Len(ch) + 1
  BY <1>1
<1>3. SubSeq(ch, 1, Len(ch)) = ch /\ SubSeq(Append(ch, s), 1, Len(ch) + 1) = Append(ch, s)
  BY <1>1, <1>2
<1>4. ASSUME NEW k \in 0 .. Len(ch) PROVE SubSeq(Append(ch, s), 1, k) = SubSeq(ch, 1, k)
  BY <1>1, <1>2
<1>5. \A i \in DOMAIN Append(ch, s) : Append(ch, s)[i] \in Cands
  <2> TAKE i \in DOMAIN Append(ch, s)
  <2>1. CASE i = Len(ch) + 1
    BY <1>2, <2>1
  <2>2. CASE i # Len(ch) + 1
    <3>1. i \in DOMAIN ch
      BY <1>1, <1>2, <2>2
    <3> QED  BY <1>2, <3>1 DEF Chosen
  <2> QED  BY <2>1, <2>2
<1>6. Chosen(Append(ch, s))
  BY <1>1, <1>2, <1>5 DEF Chosen
<1> QED  BY <1>1, <1>2, <1>3, <1>4, <1>6

(* The partition advanced by the split: it was that of all splits.         *)
LEMMA AdvancedPartition ==
  ASSUME fit \in Fits, NEW ch, Chosen(ch), NEW s \in SearchSplits(fit), s \in Cands, Len(ch) < MaxDepth,
         NEW lf, NEW wd, Parted(ch, lf, wd, Len(ch)), NEW go,
         NamesABorder(s) => \A o \in Objects : o \in go <=> Passes(s, o),
         NEW next, next = [o \in Objects |-> lf[o] + IF o \in go THEN wd ELSE 0]
  PROVE  Parted(Append(ch, s), next, 2 * wd, Len(ch) + 1)
<1> DEFINE n == Len(ch)
           more == Append(ch, s)
<1>1. /\ n \in Nat /\ Len(more) = n + 1 /\ Chosen(more)
      /\ \A i \in DOMAIN ch : i \in DOMAIN more /\ more[i] = ch[i]
      /\ n + 1 \in DOMAIN more /\ more[n + 1] = s
      /\ SubSeq(ch, 1, n) = ch /\ SubSeq(more, 1, n + 1) = more
  BY OneMoreChosen
<1>2. wd = Pow2(n) /\ lf \in [Objects -> 0 .. wd - 1]
  BY DEF Parted
<1>3. wd \in Nat \ {0} /\ 2 * wd = Pow2(n + 1)
  BY <1>1, <1>2, Pow2Steps
<1>4. next \in [Objects -> 0 .. 2 * wd - 1]
  <2>1. \A o \in Objects : lf[o] + (IF o \in go THEN wd ELSE 0) \in 0 .. 2 * wd - 1
    BY <1>2, <1>3
  <2> QED  BY <2>1
<1>5. ASSUME \A i \in DOMAIN more : NamesABorder(more[i]) PROVE next = AssignLeaves(more)
  <2>1. \A i \in DOMAIN ch : NamesABorder(ch[i])
    BY <1>1, <1>5
  <2>2. lf = AssignLeaves(ch)
    BY <1>1, <2>1 DEF Parted
  <2>3. NamesABorder(s)
    BY <1>1, <1>5
  <2>4. ASSUME NEW o \in Objects PROVE next[o] = AssignLeaves(more)[o]
    <3>1. ch \in Seq(SearchSplits(fit))
      BY DEF Chosen
    <3>2. AssignLeaves(more)[o] = AssignLeaves(ch)[o] + (IF Passes(s, o) THEN Pow2(n) ELSE 0)
      BY <3>1, OneSplitMore
    <3>3. o \in go <=> Passes(s, o)
      BY <2>3
    <3> QED  BY <1>2, <2>2, <3>2, <3>3
  <2>5. DOMAIN next = Objects /\ DOMAIN AssignLeaves(more) = Objects
    BY DEF AssignLeaves
  <2>6. next = [o \in Objects |-> next[o]] /\ AssignLeaves(more) = [o \in Objects |-> AssignLeaves(more)[o]]
    BY <2>5 DEF AssignLeaves
  <2> QED  BY <2>4, <2>6
<1> HIDE DEF more
<1>6. Parted(more, next, 2 * wd, n + 1)
  <2>1. (\A i \in DOMAIN more : NamesABorder(more[i])) => next = AssignLeaves(SubSeq(more, 1, n + 1))
    BY <1>1, <1>5
  <2>2. n + 1 \in 0 .. Len(more) /\ n + 1 = Len(more)
    BY <1>1
  <2> HIDE DEF n
  <2> QED  BY <1>3, <1>4, <2>1, <2>2 DEF Parted
<1> QED  BY <1>6 DEF more

(* The partition of fewer splits is left as it is.                         *)
LEMMA OlderPartition ==
  ASSUME fit \in Fits, NEW ch, Chosen(ch), NEW s \in SearchSplits(fit), s \in Cands, Len(ch) < MaxDepth,
         NEW lf, NEW wd, NEW k, Parted(ch, lf, wd, k),
         ~fit.device, ~(Plain /\ Len(ch) + 1 < MaxDepth)
  PROVE  Parted(Append(ch, s), lf, wd, k)
<1> DEFINE more == Append(ch, s)
<1>1. /\ Len(ch) \in Nat /\ Len(more) = Len(ch) + 1
      /\ \A i \in DOMAIN ch : i \in DOMAIN more /\ more[i] = ch[i]
      /\ \A j \in 0 .. Len(ch) : SubSeq(more, 1, j) = SubSeq(ch, 1, j)
  BY OneMoreChosen
<1>2. k \in 0 .. Len(ch)
  BY DEF Parted
<1> HIDE DEF more
<1>3. ASSUME \A i \in DOMAIN more : NamesABorder(more[i])
      PROVE  lf = AssignLeaves(SubSeq(more, 1, k))
  <2>1. \A i \in DOMAIN ch : NamesABorder(ch[i])
    BY <1>1, <1>3
  <2>2. SubSeq(more, 1, k) = SubSeq(ch, 1, k)
    BY <1>1, <1>2
  <2> QED  BY <2>1, <2>2 DEF Parted
<1>4. k \in 0 .. Len(more) /\ wd = Pow2(k) /\ lf \in [Objects -> 0 .. wd - 1]
  BY <1>1, <1>2 DEF Parted
<1>5. ~(fit.device \/ (Plain /\ Len(more) < MaxDepth))
  BY <1>1
<1>6. Parted(more, lf, wd, k)
  BY <1>3, <1>4, <1>5 DEF Parted
<1> QED  BY <1>6 DEF more

(* A level's histogram, once the partition has moved on, or has not.       *)
LEMMA HistIsKept ==
  ASSUME NEW col, NEW lf, NEW w \in Nat \ {0}, lf \in [Objects -> 0 .. w - 1], NEW next,
         \A o \in Objects : next[o] = lf[o] \/ next[o] = lf[o] + w,
         HistBins(col) \in Nat \ {0}, NEW h, h = Build(BinsOf(col), lf, w, HistBins(col))
  PROVE  HistOf(h, col, next, w)
<1> DEFINE low == [o \in Objects |-> next[o] % w]
<1>1. ASSUME NEW o \in Objects PROVE lf[o] = low[o]
  <2>1. lf[o] \in 0 .. w - 1
    OBVIOUS
  <2>2. next[o] \in 0 .. 2 * w - 1
    BY <2>1
  <2>3. next[o] % w = IF next[o] >= w THEN next[o] - w ELSE next[o]
    BY <2>2, NewestBit
  <2> QED  BY <2>1, <2>3
<1> HIDE DEF low
<1>2. Build(BinsOf(col), lf, w, HistBins(col)) = Build(BinsOf(col), low, w, HistBins(col))
  BY <1>1, SameLeaves
<1> QED  BY <1>2 DEF HistOf, low

(* That book, of the tree that grows, and of the state after a step.       *)
Book == TreeBook(growth, chosen, leaf_of, width, hists, search.float_split_count)
NextBook == TreeBook(growth', chosen', leaf_of', width', hists', search'.float_split_count)

(* A choice by histograms that are built.                                  *)
Scorable(h, cands) == \A s \in cands : ScanScore(h[<<s.kind, s.feature>>], s) \in Int

(* The split chosen is one of the candidates.                              *)
LEMMA ChoiceIsCandidate ==
  ASSUME fit \in Fits, NEW cands \in SUBSET SearchSplits(fit), cands # {}, NEW h, Scorable(h, cands)
  PROVE  Choice(h, cands) \in cands
<1> DEFINE score == [s \in cands |-> ScanScore(h[<<s.kind, s.feature>>], s)]
<1>1. Choosable(cands)
  BY SearchSplitsChoosable
<1>2. DOMAIN score = cands /\ \A c \in cands : score[c] \in Int
  BY DEF Scorable
<1>3. Choice(h, cands) = select_best(score)
  BY DEF Choice
<1> HIDE DEF score
<1> QED  BY <1>1, <1>2, <1>3, SelectBestChooses

(* Candidates whose histograms are built from the objects can be scored.   *)
LEMMA BuiltIsScorable ==
  ASSUME fit \in Fits, NEW cols \in SUBSET DeviceColumns, NEW lf, NEW w \in Nat \ {0}, NEW h,
         \A col \in cols : HistBins(col) \in Nat \ {0} /\ h[col] = Build(BinsOf(col), lf, w, HistBins(col)),
         NEW cands, \A s \in cands : <<s.kind, s.feature>> \in cols
  PROVE  Scorable(h, cands)
<1>1. ASSUME NEW s \in cands PROVE ScanScore(h[<<s.kind, s.feature>>], s) \in Int
  <2> DEFINE col == <<s.kind, s.feature>>
  <2>1. col \in cols
    OBVIOUS
  <2>2. HistBins(col) \in Nat \ {0} /\ h[col] = Build(BinsOf(col), lf, w, HistBins(col))
    BY <2>1
  <2>3. BinsOf(col) \in [Objects -> Nat]
    BY <2>1, BinsAreNumbers
  <2> HIDE DEF col
  <2>4. ScanScore(h[col], s) \in Int
    BY <2>2, <2>3, BuiltScore
  <2> QED  BY <2>4 DEF col
<1> QED  BY <1>1 DEF Scorable

(* The histograms of a level of a search that derives them.                *)
LEMMA PlainLevelIsBuilt ==
  ASSUME fit \in Fits, Book, Searching, NEW cols, cols \in SUBSET (Floats \cup OneHots),
         hists' = [col \in cols |-> LevelHist(col)]
  PROVE  /\ Parted(chosen, leaf_of, width, Len(chosen))
         /\ width \in Nat \ {0} /\ leaf_of \in [Objects -> 0 .. width - 1]
         /\ DOMAIN hists' = cols
         /\ \A col \in cols : /\ HistBins(col) \in Nat \ {0}
                              /\ hists'[col] = Build(BinsOf(col), leaf_of, width, HistBins(col))
<1>1. PICK k \in Nat : Parted(chosen, leaf_of, width, k)
  BY DEF Book, TreeBook
<1>2. Plain /\ Len(chosen) < MaxDepth
  BY DEF Searching, LevelIsOpen, Plain
<1>3. k = Len(chosen) /\ width = Pow2(k) /\ leaf_of \in [Objects -> 0 .. width - 1]
  BY <1>1, <1>2 DEF Parted
<1>4. width \in Nat \ {0}
  BY <1>3, Pow2Steps
<1>5. ASSUME NEW col \in cols
      PROVE  /\ HistBins(col) \in Nat \ {0}
             /\ hists'[col] = Build(BinsOf(col), leaf_of, width, HistBins(col))
  <2>1. n_bins(col) \in Nat \ {0} /\ HistBins(col) = n_bins(col)
    BY <1>2, SomeBins DEF HistBins, Plain
  <2>2. ASSUME col \in DOMAIN hists
        PROVE  \E w \in Nat \ {0} :
                 hists[col] = Build(BinsOf(col), [o \in Objects |-> leaf_of[o] % w], w, n_bins(col))
    <3>1. PICK w : HistOf(hists[col], col, leaf_of, w)
      BY <2>2 DEF Book, TreeBook
    <3> QED  BY <2>1, <3>1 DEF HistOf
  <2>3. LevelHist(col) = Build(BinsOf(col), leaf_of, width, n_bins(col))
    BY <1>3, <2>2, LevelIsBuilt
  <2> QED  BY <2>1, <2>3
<1> QED  BY <1>1, <1>3, <1>4, <1>5

(* A split taken there.                                                    *)
LEMMA PlainSplitIsBooked ==
  ASSUME fit \in Fits, Book, Searching, NEW cols, cols \in SUBSET (Floats \cup OneHots),
         hists' = [col \in cols |-> LevelHist(col)],
         NEW s \in Candidates(cols), TakeSplit(s), search' = search
  PROVE  NextBook
<1>1. /\ Parted(chosen, leaf_of, width, Len(chosen))
      /\ width \in Nat \ {0} /\ leaf_of \in [Objects -> 0 .. width - 1] /\ DOMAIN hists' = cols
      /\ \A col \in cols : /\ HistBins(col) \in Nat \ {0}
                           /\ hists'[col] = Build(BinsOf(col), leaf_of, width, HistBins(col))
  BY PlainLevelIsBuilt
<1>2. ~fit.device /\ Len(chosen) < MaxDepth /\ Plain
  BY DEF Searching, LevelIsOpen, Plain
<1>3. s \in SearchSplits(fit) /\ s \in Cands
  <2>1. cols \subseteq Floats \cup OneHots \cup Ctrs
    OBVIOUS
  <2>2. s \in SearchSplits(fit)
    BY <2>1, CpuCandidates
  <2>3. s \in Candidates(Floats \cup OneHots \cup Ctrs)
    BY <2>1, MoreColumns
  <2> QED  BY <1>2, <2>2, <2>3 DEF Cands
<1>4. Chosen(chosen)
  BY DEF Book, TreeBook
<1>5. chosen' = Append(chosen, s) /\ Chosen(chosen') /\ Len(chosen') = Len(chosen) + 1 /\ Len(chosen) \in Nat
  BY <1>2, <1>3, <1>4, OneMoreChosen DEF TakeSplit
<1>6. /\ \E k \in Nat : Parted(chosen', leaf_of', width', k)
      /\ \A o \in Objects : leaf_of'[o] = leaf_of[o] \/ leaf_of'[o] = leaf_of[o] + width
  <2>1. CASE Len(chosen) + 1 < MaxDepth
    <3> DEFINE go == {o \in Objects : Passes(s, o)}
    <3>1. leaf_of' = [o \in Objects |-> leaf_of[o] + IF Passes(s, o) THEN width ELSE 0] /\ width' = 2 * width
      BY <2>1 DEF TakeSplit, advance_leaf_only
    <3>2. leaf_of' = [o \in Objects |-> leaf_of[o] + IF o \in go THEN width ELSE 0]
      BY <3>1
    <3>3. \A o \in Objects : o \in go <=> Passes(s, o)
      OBVIOUS
    <3> HIDE DEF go
    <3>4. Parted(Append(chosen, s), leaf_of', 2 * width, Len(chosen) + 1)
      BY <1>1, <1>2, <1>3, <1>4, <3>2, <3>3, AdvancedPartition
    <3>5. Parted(chosen', leaf_of', width', Len(chosen) + 1) /\ Len(chosen) + 1 \in Nat
      BY <1>5, <3>1, <3>4
    <3>6. \A o \in Objects : leaf_of'[o] = leaf_of[o] \/ leaf_of'[o] = leaf_of[o] + width
      BY <1>1, <3>2
    <3> QED  BY <3>5, <3>6
  <2>2. CASE ~(Len(chosen) + 1 < MaxDepth)
    <3>1. leaf_of' = leaf_of /\ width' = width
      BY <2>2 DEF TakeSplit
    <3>2. Parted(Append(chosen, s), leaf_of, width, Len(chosen))
      BY <1>1, <1>2, <1>3, <1>4, <2>2, OlderPartition
    <3> QED  BY <1>5, <3>1, <3>2
  <2> QED  BY <2>1, <2>2
<1>7. \A col \in DOMAIN hists' : HistOf(hists'[col], col, leaf_of', width)
  <2> TAKE col \in DOMAIN hists'
  <2>1. HistBins(col) \in Nat \ {0} /\ hists'[col] = Build(BinsOf(col), leaf_of, width, HistBins(col))
    BY <1>1
  <2> QED  BY <1>1, <1>6, <2>1, HistIsKept
<1>8. search'.float_split_count \in 0 .. Len(chosen')
  BY <1>5 DEF Book, TreeBook
<1>9. Carried(growth', chosen', leaf_of', hists')
  BY <1>2 DEF Carried
<1> QED  BY <1>5, <1>6, <1>7, <1>8, <1>9 DEF NextBook, TreeBook

(* A step that takes no split.                                             *)
LEMMA NothingTaken ==
  ASSUME Book, UNCHANGED <<chosen, leaf_of, width, search>>,
         \/ hists' = hists /\ growth' \in {growth} \cup Outcomes \cup {"finish"}
         \/ /\ growth' # "search" \/ ~fit.device
            /\ \A col \in DOMAIN hists' : \E w : HistOf(hists'[col], col, leaf_of, w)
  PROVE  NextBook
<1>1. /\ Chosen(chosen') /\ \E k \in Nat : Parted(chosen', leaf_of', width', k)
      /\ search'.float_split_count \in 0 .. Len(chosen')
  BY DEF Book, TreeBook
<1>2. \A col \in DOMAIN hists' : \E w : HistOf(hists'[col], col, leaf_of', w)
  BY DEF Book, TreeBook
<1>3. Carried(growth', chosen', leaf_of', hists')
  BY DEF Book, TreeBook, Carried, Outcomes
<1> QED  BY <1>1, <1>2, <1>3 DEF NextBook, TreeBook

(* The histograms of a level are of its partition.                         *)
LEMMA PlainHistsAreOf ==
  ASSUME fit \in Fits, Book, Searching, NEW cols, cols \in SUBSET (Floats \cup OneHots),
         hists' = [col \in cols |-> LevelHist(col)]
  PROVE  \A col \in DOMAIN hists' : \E w : HistOf(hists'[col], col, leaf_of, w)
<1>1. /\ width \in Nat \ {0} /\ leaf_of \in [Objects -> 0 .. width - 1] /\ DOMAIN hists' = cols
      /\ \A col \in cols : /\ HistBins(col) \in Nat \ {0}
                           /\ hists'[col] = Build(BinsOf(col), leaf_of, width, HistBins(col))
  BY PlainLevelIsBuilt
<1>2. ASSUME NEW col \in DOMAIN hists' PROVE HistOf(hists'[col], col, leaf_of, width)
  BY <1>1, HistIsKept
<1> QED  BY <1>2

(* The histograms of a plain level score its candidates.                   *)
LEMMA PlainHistsAreScorable ==
  ASSUME fit \in Fits, Book, Searching, NEW cols, cols \in SUBSET (Floats \cup OneHots),
         hists' = [col \in cols |-> LevelHist(col)], NEW cands \in SUBSET Candidates(cols)
  PROVE  Scorable(hists', cands) /\ cands \in SUBSET SearchSplits(fit)
<1>1. /\ width \in Nat \ {0} /\ DOMAIN hists' = cols
      /\ \A col \in cols : /\ HistBins(col) \in Nat \ {0}
                           /\ hists'[col] = Build(BinsOf(col), leaf_of, width, HistBins(col))
  BY PlainLevelIsBuilt
<1>2. cols \subseteq Floats \cup OneHots \cup Ctrs /\ cols \in SUBSET DeviceColumns
  BY SearchedColumns
<1>3. \A s \in cands : <<s.kind, s.feature>> \in cols
  BY <1>2, CpuCandidates
<1>4. Scorable(hists', cands)
  BY <1>1, <1>2, <1>3, BuiltIsScorable
<1> QED  BY <1>2, <1>4, CpuCandidates

(* A plain level keeps the book: the split it takes is a candidate, and    *)
(* the objects move to the leaves it makes.                                *)
LEMMA SelectLevelPlainIsBooked ==
  ASSUME fit \in Fits, Book, SelectLevelPlain, search' = search
  PROVE  NextBook
<1> DEFINE cols == Floats \cup OneHots
<1>1. Searching /\ hists' = [col \in cols |-> LevelHist(col)]
  BY DEF SelectLevelPlain
<1> HIDE DEF cols
<1>2. cols \in SUBSET (Floats \cup OneHots)
  BY DEF cols
<1>3. CASE cols = {}
  <2>1. growth' = "degenerate" /\ UNCHANGED <<chosen, leaf_of, width>>
    BY <1>3 DEF SelectLevelPlain, cols
  <2>2. \A col \in DOMAIN hists' : \E w : HistOf(hists'[col], col, leaf_of, w)
    BY <1>1, <1>2, PlainHistsAreOf
  <2> QED  BY <2>1, <2>2, NothingTaken
<1>4. CASE cols # {}
  <2> DEFINE s == Choice(hists', Candidates(cols))
  <2>1. TakeSplit(s)
    BY <1>4 DEF SelectLevelPlain, cols
  <2>2. Candidates(cols) # {}
    BY <1>2, <1>4, CpuCandidates
  <2>3. Scorable(hists', Candidates(cols)) /\ Candidates(cols) \in SUBSET SearchSplits(fit)
    BY <1>1, <1>2, PlainHistsAreScorable
  <2>4. s \in Candidates(cols)
    BY <2>2, <2>3, ChoiceIsCandidate
  <2> HIDE DEF s
  <2> QED  BY <1>1, <1>2, <2>1, <2>4, PlainSplitIsBooked
<1> QED  BY <1>3, <1>4

(* So does a level chosen among perturbed scores.                          *)
LEMMA SelectLevelPerturbedIsBooked ==
  ASSUME fit \in Fits, Book, SelectLevelPerturbed, search' = search
  PROVE  NextBook
<1>1. Searching /\ hists' = [col \in Floats |-> LevelHist(col)] /\ Floats \in SUBSET (Floats \cup OneHots)
  BY DEF SelectLevelPerturbed
<1>2. PICK selected \in SelectedFeatures :
        selected # {} /\ \E s \in PerturbedChoices(hists', selected) : TakeSplit(s)
  BY DEF SelectLevelPerturbed
<1>3. PICK s \in PerturbedChoices(hists', selected) : TakeSplit(s)
  BY <1>2
<1>4. selected \subseteq Floats
  BY DEF SelectedFeatures
<1>5. Candidates(selected) \subseteq Candidates(Floats)
  BY <1>4, MoreColumns
<1>6. s \in Candidates(selected)
  <2>1. CASE fit.noise = "noisy"
    BY <2>1 DEF PerturbedChoices
  <2>2. CASE fit.noise # "noisy"
    <3> DEFINE best == {Choice(hists', CandidatesOf(col)) : col \in selected}
    <3>1. s = Choice(hists', best)
      BY <2>2 DEF PerturbedChoices
    <3>2. ASSUME NEW col \in selected PROVE Choice(hists', CandidatesOf(col)) \in Candidates(selected)
      <4>1. Candidates({col}) = CandidatesOf(col)
        BY DEF Candidates
      <4>2. {col} \subseteq selected /\ {col} \subseteq Floats \cup OneHots \cup Ctrs /\ {col} # {}
        BY <1>4
      <4>3. CandidatesOf(col) # {} /\ CandidatesOf(col) \subseteq Candidates(selected)
        BY <4>1, <4>2, CpuCandidates, MoreColumns
      <4>4. CandidatesOf(col) \in SUBSET Candidates(Floats)
        BY <1>5, <4>3
      <4>5. Scorable(hists', CandidatesOf(col)) /\ CandidatesOf(col) \in SUBSET SearchSplits(fit)
        BY <1>1, <4>4, PlainHistsAreScorable
      <4>6. Choice(hists', CandidatesOf(col)) \in CandidatesOf(col)
        BY <4>3, <4>5, ChoiceIsCandidate
      <4> QED  BY <4>3, <4>6
    <3>3. best # {} /\ best \subseteq Candidates(selected)
      BY <1>2, <3>2
    <3> HIDE DEF best
    <3>4. best \in SUBSET Candidates(Floats)
      BY <1>5, <3>3
    <3>5. Scorable(hists', best) /\ best \in SUBSET SearchSplits(fit)
      BY <1>1, <3>4, PlainHistsAreScorable
    <3>6. Choice(hists', best) \in best
      BY <3>3, <3>5, ChoiceIsCandidate
    <3> QED  BY <3>1, <3>3, <3>6
  <2> QED  BY <2>1, <2>2
<1>7. s \in Candidates(Floats)
  BY <1>5, <1>6
<1> QED  BY <1>1, <1>3, <1>7, PlainSplitIsBooked

(* A tree that ends with no candidate keeps its book.                      *)
LEMMA EndTreeEarlyIsBooked ==
  ASSUME fit \in Fits, Book, EndTreeEarly, search' = search
  PROVE  NextBook
<1>1. /\ Searching /\ hists' = [col \in Floats |-> LevelHist(col)] /\ Floats \in SUBSET (Floats \cup OneHots)
      /\ growth' = "finish" /\ UNCHANGED <<chosen, leaf_of, width>>
  BY DEF EndTreeEarly
<1>2. \A col \in DOMAIN hists' : \E w : HistOf(hists'[col], col, leaf_of, w)
  BY <1>1, PlainHistsAreOf
<1> QED  BY <1>1, <1>2, NothingTaken

(* The search over CTR columns, which counts every level anew.             *)
LEMMA SelectLevelCtrAwareIsBooked ==
  ASSUME fit \in Fits, Book, SelectLevelCtrAware, search' = search
  PROVE  NextBook
<1> DEFINE cols == Floats \cup {<<"ctr", c>> : c \in EligibleCtrs(UsedProjections(chosen))}
           all == Floats \cup Ctrs
           cands == CtrAwareCandidates(chosen)
           w == Pow2(Len(chosen))
           lf == AssignLeaves(chosen)
           score == [s \in cands |-> CandidateWeight(chosen, s) * ScanScore(hists'[<<s.kind, s.feature>>], s)]
<1>1. Chosen(chosen) /\ ~fit.device /\ ~Plain /\ Len(chosen) < MaxDepth
  BY DEF SelectLevelCtrAware, CtrSearching, LevelIsOpen, Book, TreeBook, Plain
<1>2. chosen \in Seq(SearchSplits(fit)) /\ Len(chosen) \in Nat
  BY <1>1 DEF Chosen
<1>3. w \in Nat \ {0} /\ lf \in [Objects -> 0 .. w - 1]
  BY <1>2, Pow2Steps, AssignedRange
<1>4. leaf_of' = lf /\ width' = w /\ hists' = [col \in all |-> Build(BinsOf(col), lf, w, n_bins(col))]
  BY DEF SelectLevelCtrAware, build_ctr_aware_histogram
<1>5. cols \subseteq all /\ all \subseteq Floats \cup OneHots \cup Ctrs /\ all \in SUBSET DeviceColumns
  BY SearchedColumns DEF EligibleCtrs, Ctrs
<1>6. cands = Candidates(cols)
  BY DEF CtrAwareCandidates
<1>8. IF cands = {} THEN growth' = "degenerate" /\ UNCHANGED chosen
      ELSE chosen' = Append(chosen, select_best(score)) /\ UNCHANGED growth
  BY DEF SelectLevelCtrAware
<1> HIDE DEF cands, w, lf, score
<1>9. \A col \in all : /\ HistBins(col) \in Nat \ {0}
                       /\ hists'[col] = Build(BinsOf(col), lf, w, HistBins(col))
  <2> TAKE col \in all
  <2>1. n_bins(col) \in Nat \ {0}
    BY <1>5, SomeBins
  <2>2. HistBins(col) = n_bins(col)
    BY <1>1 DEF HistBins
  <2> QED  BY <1>4, <2>1, <2>2
<1>10. \A col \in DOMAIN hists' : HistOf(hists'[col], col, leaf_of', w)
  <2> TAKE col \in DOMAIN hists'
  <2>1. col \in all
    BY <1>4
  <2> HIDE DEF all
  <2>2. HistBins(col) \in Nat \ {0} /\ hists'[col] = Build(BinsOf(col), lf, w, HistBins(col))
    BY <1>9, <2>1
  <2> QED  BY <1>3, <1>4, <2>2, HistIsKept
<1>11. Parted(chosen, leaf_of', width', Len(chosen))
  <2>1. SubSeq(chosen, 1, Len(chosen)) = chosen /\ Len(chosen) \in 0 .. Len(chosen)
    BY <1>2
  <2> QED  BY <1>2, <1>3, <1>4, <2>1 DEF Parted, w, lf
<1>12. Carried(growth', chosen', leaf_of', hists')
  BY <1>1 DEF SelectLevelCtrAware, Carried
<1>13. CASE cands = {}
  <2>1. chosen' = chosen
    BY <1>8, <1>13
  <2> QED  BY <1>1, <1>2, <1>10, <1>11, <1>12, <2>1 DEF NextBook, Book, TreeBook
<1>14. CASE cands # {}
  <2> DEFINE s == select_best(score)
  <2>1. cands \subseteq SearchSplits(fit) /\ cands \in SUBSET SearchSplits(fit)
        /\ \A c \in cands : <<c.kind, c.feature>> \in cols
    BY <1>5, <1>6, CpuCandidates
  <2>2. \A c \in cands : <<c.kind, c.feature>> \in all
    BY <1>5, <2>1
  <2>3. Scorable(hists', cands)
    <3> HIDE DEF all
    <3> QED  BY <1>3, <1>5, <1>9, <2>2, BuiltIsScorable
  <2>4. \A c \in cands : score[c] \in Int
    <3> TAKE c \in cands
    <3>1. c.kind = "ctr" => c.feature \in 1 .. Len(fit.ctrs)
      BY <2>1 DEF SearchSplits
    <3>2. CandidateWeight(chosen, c) \in Int
      BY <3>1, WeightsAreWhole
    <3>3. ScanScore(hists'[<<c.kind, c.feature>>], c) \in Int
      BY <2>3 DEF Scorable
    <3> QED  BY <3>2, <3>3 DEF score
  <2>5. s \in cands
    <3>1. Choosable(cands)
      BY <1>14, <2>1, SearchSplitsChoosable
    <3>2. DOMAIN score = cands
      BY DEF score
    <3> QED  BY <2>4, <3>1, <3>2, SelectBestChooses
  <2>6. s \in SearchSplits(fit) /\ s \in Cands
    <3>1. cands \subseteq Candidates(Floats \cup OneHots \cup Ctrs)
      <4>1. cols \subseteq Floats \cup OneHots \cup Ctrs
        BY <1>5
      <4> QED  BY <1>6, <4>1, MoreColumns
    <3> QED  BY <1>1, <2>1, <2>5, <3>1 DEF Cands
  <2>7. chosen' = Append(chosen, s)
    BY <1>8, <1>14
  <2> HIDE DEF s
  <2>8. Chosen(chosen') /\ Len(chosen') = Len(chosen) + 1
    BY <1>1, <2>6, <2>7, OneMoreChosen
  <2>9. Parted(chosen', leaf_of', width', Len(chosen))
    BY <1>1, <1>11, <2>6, <2>7, OlderPartition
  <2>10. search'.float_split_count \in 0 .. Len(chosen')
    BY <1>2, <2>8 DEF Book, TreeBook
  <2> QED  BY <1>2, <1>10, <1>12, <2>8, <2>9, <2>10 DEF NextBook, TreeBook
<1> QED  BY <1>13, <1>14

(* The search of an ordered training, which keeps no partition.            *)
LEMMA SelectLevelOrderedIsBooked ==
  ASSUME fit \in Fits, Book, SelectLevelOrdered, search' = search
  PROVE  NextBook
<1> DEFINE cands == Candidates(Floats)
           score == [s \in cands |-> OrderedScore(Append(chosen, s))]
<1>1. /\ Chosen(chosen) /\ ~fit.device /\ ~Plain /\ Len(chosen) < MaxDepth /\ growth = "search"
      /\ UNCHANGED <<leaf_of, width, hists>>
  BY DEF SelectLevelOrdered, LevelIsOpen, Book, TreeBook, Plain, scratch
<1>2. chosen \in Seq(SearchSplits(fit)) /\ Len(chosen) \in Nat
  BY <1>1 DEF Chosen
<1>3. CASE Floats = {}
  <2>1. growth' = "degenerate" /\ chosen' = chosen
    BY <1>3 DEF SelectLevelOrdered
  <2> QED  BY <1>1, <2>1, NothingTaken DEF Outcomes
<1>4. CASE Floats # {}
  <2> DEFINE s == select_best(score)
  <2>1. chosen' = Append(chosen, s) /\ growth' = growth
    BY <1>4 DEF SelectLevelOrdered, OrderedChoice
  <2>2. cands # {} /\ cands \in SUBSET SearchSplits(fit) /\ cands \subseteq Candidates(Floats \cup OneHots \cup Ctrs)
    BY <1>4, CpuCandidates, MoreColumns
  <2>3. DOMAIN score = cands /\ \A c \in cands : score[c] \in Int
    <3>1. ASSUME NEW c \in cands PROVE score[c] \in Int
      <4>1. Len(Append(chosen, c)) \in Nat
        BY <1>2
      <4>2. OrderedScore(Append(chosen, c)) \in Int
        BY <4>1, OrderedScoreIsInt
      <4> QED  BY <4>2
    <3> QED  BY <3>1
  <2> HIDE DEF cands, score
  <2>4. s \in cands
    <3>1. Choosable(cands)
      BY <2>2, SearchSplitsChoosable
    <3> QED  BY <2>3, <3>1, SelectBestChooses
  <2>5. s \in SearchSplits(fit) /\ s \in Cands
    BY <1>1, <2>2, <2>4 DEF Cands
  <2> HIDE DEF s
  <2>6. Chosen(chosen') /\ Len(chosen') = Len(chosen) + 1
    BY <1>1, <2>1, <2>5, OneMoreChosen
  <2>7. PICK k \in Nat : Parted(chosen, leaf_of, width, k)
    BY DEF Book, TreeBook
  <2>8. Parted(Append(chosen, s), leaf_of, width, k)
    BY <1>1, <2>5, <2>7, OlderPartition
  <2>9. search'.float_split_count \in 0 .. Len(chosen')
    BY <1>2, <2>6 DEF Book, TreeBook
  <2>10. \A col \in DOMAIN hists' : \E w : HistOf(hists'[col], col, leaf_of', w)
    BY <1>1 DEF Book, TreeBook
  <2>11. Carried(growth', chosen', leaf_of', hists')
    BY <1>1 DEF Carried
  <2>12. Parted(chosen', leaf_of', width', k)
    BY <1>1, <2>1, <2>8
  <2> QED  BY <2>6, <2>9, <2>10, <2>11, <2>12 DEF NextBook, TreeBook
<1> QED  BY <1>3, <1>4

(* The device's candidates, pass by pass.                                  *)
LEMMA PassesSweep ==
  /\ Thresholds(DeviceFloats) \subseteq DeviceCandidates
  /\ Equalities \subseteq DeviceCandidates
  /\ \A c \in 1 .. Len(fit.ctrs) : Thresholds({<<"ctr", c>>}) \subseteq DeviceCandidates
<1>1. ASSUME NEW c \in 1 .. Len(fit.ctrs), NEW s \in Thresholds({<<"ctr", c>>})
      PROVE  s \in DeviceCandidates
  <2>1. <<"ctr", c>> \in DeviceFloats \cup Ctrs
    BY DEF Ctrs
  <2> QED  BY <2>1 DEF DeviceCandidates, Thresholds
<1> QED  BY <1>1 DEF DeviceCandidates, Thresholds

(* The winner of scored candidates is one of them.                         *)
LEMMA WinnerAmong ==
  ASSUME fit \in Fits, NEW cands \in SUBSET DeviceCandidates, cands # {},
         NEW score, DOMAIN score = cands, \A c \in cands : score[c] \in Int
  PROVE  {select_best(score)} \in SUBSET cands
<1>1. Choosable(cands)
  BY SweptCandidates, SearchSplitsChoosable
<1> QED  BY <1>1, SelectBestChooses

(* A pass of the device search takes one of its candidates, or none.       *)
LEMMA PassIsAmong ==
  ASSUME fit \in Fits, NEW h, Scorable(h, DeviceCandidates), NEW cands \in SUBSET DeviceCandidates
  PROVE  Pass(h, cands) \in SUBSET cands
<1> DEFINE score == [s \in cands |-> Score(h, s)]
<1>1. CASE cands = {}
  BY <1>1 DEF Pass
<1>2. CASE cands # {}
  <2>1. DOMAIN score = cands /\ \A c \in cands : score[c] \in Int
    BY DEF Score, Scorable
  <2>2. Pass(h, cands) = {select_best(score)}
    BY <1>2 DEF Pass
  <2> HIDE DEF score
  <2> QED  BY <1>2, <2>1, <2>2, WinnerAmong
<1> QED  BY <1>1, <1>2

(* So does its third pass, over the CTR columns.                           *)
LEMMA PassCIsAmong ==
  ASSUME fit \in Fits, NEW h, Scorable(h, DeviceCandidates)
  PROVE  PassC(h) \in SUBSET DeviceCandidates
<1> DEFINE winners == UNION {Pass(h, Thresholds({<<"ctr", c>>})) : c \in EligibleCtrs(search.projections)}
           score == [s \in winners |-> ResidentWeight(s) * Score(h, s)]
<1>1. ASSUME NEW c \in EligibleCtrs(search.projections)
      PROVE  Pass(h, Thresholds({<<"ctr", c>>})) \in SUBSET DeviceCandidates
  <2>1. c \in 1 .. Len(fit.ctrs)
    BY DEF EligibleCtrs
  <2>2. Thresholds({<<"ctr", c>>}) \in SUBSET DeviceCandidates
    BY <2>1, PassesSweep
  <2> QED  BY <2>2, PassIsAmong
<1>2. winners \in SUBSET DeviceCandidates
  BY <1>1
<1>3. PassC(h) = IF winners = {} THEN {} ELSE {select_best(score)}
  BY DEF PassC
<1>4. ASSUME NEW s \in winners PROVE score[s] \in Int
  <2>1. s \in DeviceCandidates /\ s \in SearchSplits(fit)
    BY <1>2, SweptCandidates
  <2>2. s.kind = "ctr" => s.feature \in 1 .. Len(fit.ctrs)
    BY <2>1 DEF SearchSplits
  <2>3. ResidentWeight(s) \in Int /\ Score(h, s) \in Int
    BY <2>1, <2>2, WeightsAreWhole DEF Score, Scorable
  <2> HIDE DEF winners
  <2> QED  BY <2>3
<1>5. DOMAIN score = winners
  OBVIOUS
<1> HIDE DEF winners, score
<1> QED  BY <1>2, <1>3, <1>4, <1>5, WinnerAmong

(* The winner of a level is a candidate of a sweep.                        *)
LEMMA DeviceWinnerIsAmong ==
  ASSUME fit \in Fits, NEW h, Scorable(h, DeviceCandidates)
  PROVE  DeviceWinner(h) \in SUBSET DeviceCandidates
<1>1. \A best, rival : Challenge(h, best, rival) \in {best, rival}
  BY DEF Challenge
<1>2. /\ Pass(h, Thresholds(DeviceFloats)) \in SUBSET DeviceCandidates
      /\ Pass(h, Equalities) \in SUBSET DeviceCandidates
  BY PassesSweep, PassIsAmong
<1>3. PassC(h) \in SUBSET DeviceCandidates
  BY PassCIsAmong
<1> QED  BY <1>1, <1>2, <1>3 DEF DeviceWinner

(* What the device keeps beside the tree.                                  *)
Resident(sr, hs) ==
  /\ "float_split_count" \in DOMAIN sr
  /\ fit.device /\ fit.segments # <<>> => DOMAIN hs = {}

(* A split more counts as one float split, or none.                        *)
LEMMA FloatSplitsCounted ==
  ASSUME "float_split_count" \in DOMAIN search, NEW s, NEW n, search.float_split_count \in 0 .. n, n \in Nat
  PROVE  /\ "float_split_count" \in DOMAIN AfterSplit(s)
         /\ AfterSplit(s).float_split_count \in 0 .. n + 1
<1>1. CASE fit.ctrs = <<>>
  BY <1>1 DEF AfterSplit
<1>2. CASE fit.ctrs # <<>> /\ s.kind = "ctr"
  <2>1. \E a, b : AfterSplit(s) = [search EXCEPT !.group_used = a, !.projections = b]
    BY <1>2 DEF AfterSplit
  <2> QED  BY <2>1
<1>3. CASE fit.ctrs # <<>> /\ s.kind # "ctr"
  <2> DEFINE a == search.float_split_count + 1
             b == [o \in Objects |-> search.float_leaf_of[o] +
                    IF DevicePasses(s, o) THEN Pow2(search.float_split_count) ELSE 0]
  <2>1. AfterSplit(s) = [search EXCEPT !.float_split_count = a, !.float_leaf_of = b]
    BY <1>3 DEF AfterSplit
  <2>2. a \in 0 .. n + 1
    OBVIOUS
  <2> HIDE DEF a, b
  <2> QED  BY <2>1, <2>2
<1> QED  BY <1>1, <1>2, <1>3

(* A split the device takes.                                               *)
LEMMA DeviceSplitIsBooked ==
  ASSUME fit \in Fits, Book, LevelIsOpen, fit.device, NEW s \in DeviceCandidates,
         "float_split_count" \in DOMAIN search,
         chosen' = Append(chosen, s), search' = AfterSplit(s), RouteOnDevice(s), growth' = growth,
         \/ DOMAIN hists' = {} /\ fit.segments # <<>>
         \/ /\ DOMAIN hists' = DeviceColumns
            /\ \A col \in DeviceColumns : hists'[col] = Build(BinsOf(col), leaf_of, Pow2(level), n_bins_line)
  PROVE  NextBook /\ "float_split_count" \in DOMAIN search'
<1> DEFINE n == Len(chosen)
           go == {o \in Objects : DevicePasses(s, o)}
<1>1. Chosen(chosen) /\ n \in Nat /\ n < MaxDepth
  BY DEF Book, TreeBook, Chosen, LevelIsOpen
<1>2. Parted(chosen, leaf_of, width, n)
  BY DEF Book, TreeBook, Parted
<1>3. width = Pow2(n) /\ leaf_of \in [Objects -> 0 .. width - 1] /\ width \in Nat \ {0} /\ level = n
  BY <1>1, <1>2, Pow2Steps DEF Parted, level
<1>4. s \in SearchSplits(fit) /\ s \in Cands
  BY SweptCandidates DEF Cands
<1>5. NamesABorder(s) => \A o \in Objects : o \in go <=> Passes(s, o)
  BY <1>4, DeviceSendsAlike
<1>6. leaf_of' = [o \in Objects |-> leaf_of[o] + IF o \in go THEN width ELSE 0] /\ width' = 2 * width
  <2>1. Pow2(level) = width
    BY <1>3
  <2> QED  BY <2>1 DEF RouteOnDevice
<1> HIDE DEF go
<1>7. Parted(chosen', leaf_of', width', n + 1)
  <2>1. Parted(Append(chosen, s), leaf_of', 2 * width, n + 1)
    BY <1>1, <1>2, <1>4, <1>5, <1>6, AdvancedPartition
  <2> QED  BY <1>6, <2>1
<1>8. Chosen(chosen') /\ Len(chosen') = n + 1
  BY <1>1, <1>4, OneMoreChosen
<1>9. \A o \in Objects : leaf_of'[o] = leaf_of[o] \/ leaf_of'[o] = leaf_of[o] + width
  BY <1>3, <1>6
<1>10. "float_split_count" \in DOMAIN search' /\ search'.float_split_count \in 0 .. Len(chosen')
  <2>1. search.float_split_count \in 0 .. n
    BY DEF Book, TreeBook
  <2> QED  BY <1>1, <1>8, <2>1, FloatSplitsCounted
<1>11. ASSUME DOMAIN hists' = DeviceColumns, NEW col \in DeviceColumns,
              hists'[col] = Build(BinsOf(col), leaf_of, Pow2(level), n_bins_line)
       PROVE  HistOf(hists'[col], col, leaf_of', Pow2(Len(chosen') - 1))
  <2>1. HistBins(col) \in Nat \ {0} /\ hists'[col] = Build(BinsOf(col), leaf_of, width, HistBins(col))
    BY <1>3, <1>11, LineOfBins DEF HistBins
  <2>2. HistOf(hists'[col], col, leaf_of', width)
    BY <1>3, <1>9, <2>1, HistIsKept
  <2>3. Pow2(Len(chosen') - 1) = width
    <3>1. Len(chosen') - 1 = n
      BY <1>1, <1>8
    <3> QED  BY <1>3, <3>1
  <2> QED  BY <2>2, <2>3
<1>12. /\ \A col \in DOMAIN hists' : \E w : HistOf(hists'[col], col, leaf_of', w)
       /\ Carried(growth', chosen', leaf_of', hists')
  <2>1. CASE DOMAIN hists' = {} /\ fit.segments # <<>>
    BY <2>1 DEF Carried
  <2>2. CASE /\ DOMAIN hists' = DeviceColumns
             /\ \A col \in DeviceColumns : hists'[col] = Build(BinsOf(col), leaf_of, Pow2(level), n_bins_line)
    BY <1>11, <2>2 DEF Carried
  <2> QED  BY <2>1, <2>2
<1>13. n + 1 \in Nat
  BY <1>1
<1> HIDE DEF n
<1> QED  BY <1>7, <1>8, <1>10, <1>12, <1>13 DEF NextBook, TreeBook

(* The histograms of a level of the device are those of the leaves so far. *)
LEMMA DeviceHistsAreBuilt ==
  ASSUME fit \in Fits, Book, DeviceLevel
  PROVE  hists' = [col \in DeviceColumns |-> Build(BinsOf(col), leaf_of, Pow2(Len(chosen)), n_bins_line)]
<1> DEFINE n == Len(chosen)
<1>1. LevelIsOpen /\ fit.device /\ fit.segments = <<>> /\ growth = "search"
  BY DEF DeviceLevel, LevelIsOpen
<1>2. Chosen(chosen) /\ n \in Nat /\ level = n
  BY DEF Book, TreeBook, Chosen, level
<1>3. leaf_of \in [Objects -> 0 .. Pow2(n) - 1]
  BY <1>1 DEF Book, TreeBook, Parted
<1>4. n_bins_line \in Nat \ {0} /\ \A col : HistBins(col) = n_bins_line
  BY <1>1, LineOfBins DEF HistBins
<1>5. PICK arm \in Arms : hists' = LevelHists(arm)
  BY DEF DeviceLevel
<1>6. hists' = [col \in DeviceColumns |-> Build(BinsOf(col), leaf_of, Pow2(n), n_bins_line)]
  <2>1. n # 0 => \A col \in DeviceColumns :
          hists[col] = Build(BinsOf(col), [o \in Objects |-> leaf_of[o] % Pow2(n - 1)], Pow2(n - 1), n_bins_line)
    <3>1. Carried(growth, chosen, leaf_of, hists)
      BY DEF Book, TreeBook
    <3>2. ASSUME n # 0, NEW col \in DeviceColumns
          PROVE  hists[col] = Build(BinsOf(col), [o \in Objects |-> leaf_of[o] % Pow2(n - 1)], Pow2(n - 1), n_bins_line)
      <4>1. Len(chosen) > 0
        BY <1>2, <3>2
      <4>2. HistOf(hists[col], col, leaf_of, Pow2(Len(chosen) - 1))
        BY <1>1, <3>1, <4>1 DEF Carried
      <4> QED  BY <1>4, <4>2 DEF HistOf
    <3> QED  BY <3>2
  <2> QED  BY <1>2, <1>3, <1>5, <2>1, DeviceLevelIsBuilt
<1> QED  BY <1>6

(* A level of the device search keeps the book, and the histograms it      *)
(* leaves resident are those of the leaves it made.                        *)
LEMMA DeviceLevelIsBooked ==
  ASSUME fit \in Fits, Book, Resident(search, hists), DeviceLevel
  PROVE  NextBook /\ Resident(search', hists')
<1> DEFINE n == Len(chosen)
           winner == DeviceWinner(hists')
<1>1. LevelIsOpen /\ fit.device /\ fit.segments = <<>> /\ growth = "search"
  BY DEF DeviceLevel, LevelIsOpen
<1>2. Chosen(chosen) /\ n \in Nat /\ level = n
  BY DEF Book, TreeBook, Chosen, level
<1>3. leaf_of \in [Objects -> 0 .. Pow2(n) - 1]
  BY <1>1 DEF Book, TreeBook, Parted
<1>4. n_bins_line \in Nat \ {0} /\ \A col : HistBins(col) = n_bins_line
  BY <1>1, LineOfBins DEF HistBins
<1>6. hists' = [col \in DeviceColumns |-> Build(BinsOf(col), leaf_of, Pow2(n), n_bins_line)]
  BY DeviceHistsAreBuilt
<1>7. Pow2(n) \in Nat \ {0} /\ Pow2(level) = Pow2(n)
  BY <1>2, Pow2Steps
<1>8. /\ DOMAIN hists' = DeviceColumns
      /\ \A col \in DeviceColumns : hists'[col] = Build(BinsOf(col), leaf_of, Pow2(level), n_bins_line)
  BY <1>6, <1>7
<1>9. Scorable(hists', DeviceCandidates)
  <2>1. \A col \in DeviceColumns : HistBins(col) \in Nat \ {0}
          /\ hists'[col] = Build(BinsOf(col), leaf_of, Pow2(n), HistBins(col))
    BY <1>4, <1>6
  <2> HIDE DEF n
  <2> QED  BY <1>7, <2>1, SweptCandidates, BuiltIsScorable
<1>10. winner \in SUBSET DeviceCandidates
  BY <1>9, DeviceWinnerIsAmong
<1>11. TakeOnDevice(winner)
  BY DEF DeviceLevel
<1> HIDE DEF winner
<1>12. CASE winner = {}
  <2>1. growth' = "degenerate" /\ UNCHANGED <<chosen, leaf_of, width, search>>
    BY <1>11, <1>12 DEF TakeOnDevice
  <2>2. \A col \in DOMAIN hists' : \E w : HistOf(hists'[col], col, leaf_of, w)
    <3> TAKE col \in DOMAIN hists'
    <3>1. hists'[col] = Build(BinsOf(col), leaf_of, Pow2(n), HistBins(col)) /\ HistBins(col) \in Nat \ {0}
      BY <1>4, <1>6
    <3>2. \A o \in Objects : leaf_of[o] = leaf_of[o] \/ leaf_of[o] = leaf_of[o] + Pow2(n)
      OBVIOUS
    <3>3. HistOf(hists'[col], col, leaf_of, Pow2(n))
      <4> HIDE DEF n
      <4> QED  BY <1>3, <1>7, <3>1, <3>2, HistIsKept
    <3> QED  BY <3>3
  <2>3. NextBook
    BY <2>1, <2>2, NothingTaken
  <2> QED  BY <1>1, <2>1, <2>3 DEF Resident
<1>13. CASE winner # {}
  <2>1. PICK s \in winner : /\ chosen' = Append(chosen, s) /\ search' = AfterSplit(s)
                            /\ RouteOnDevice(s) /\ UNCHANGED growth
    BY <1>11, <1>13 DEF TakeOnDevice
  <2>2. s \in DeviceCandidates
    BY <1>10
  <2>3. "float_split_count" \in DOMAIN search
    BY DEF Resident
  <2>4. NextBook /\ "float_split_count" \in DOMAIN search'
    BY <1>1, <1>8, <2>1, <2>2, <2>3, DeviceSplitIsBooked
  <2> QED  BY <1>1, <2>4 DEF Resident
<1> QED  BY <1>12, <1>13

(* A device's search over segments keeps no histogram of a level.          *)
LEMMA OrderedDeviceLevelIsBooked ==
  ASSUME fit \in Fits, Book, Resident(search, hists), OrderedDeviceLevel
  PROVE  NextBook /\ Resident(search', hists')
<1> DEFINE cands == Thresholds(DeviceFloats)
           score == [s \in cands |-> OrderedDeviceScore(s)]
           winner == IF cands = {} THEN {} ELSE {select_best(score)}
<1>1. LevelIsOpen /\ fit.device /\ fit.segments # <<>> /\ hists' = hists
  BY DEF OrderedDeviceLevel
<1>2. TakeOnDevice(winner)
  BY DEF OrderedDeviceLevel
<1>3. DOMAIN hists' = {} /\ "float_split_count" \in DOMAIN search
  BY <1>1 DEF Resident
<1>4. cands \in SUBSET DeviceCandidates
  BY PassesSweep
<1>5. level \in Nat /\ Pow2(level) \in Nat \ {0}
  <2>1. level \in Nat
    BY DEF level, Book, TreeBook, Chosen
  <2> QED  BY <2>1, Pow2Steps
<1>6. ASSUME NEW s \in cands PROVE OrderedDeviceScore(s) \in Int
  <2> DEFINE col == <<s.kind, s.feature>>
             v == [i \in DOMAIN fit.segments |-> ScanScore(PrefixHist(fit.segments[i], col), s)]
  <2>1. BinsOf(col) \in [Objects -> Nat]
    BY <1>4, SweptCandidates, BinsAreNumbers
  <2>2. n_bins_line \in Nat \ {0}
    BY <1>1, LineOfBins
  <2>3. OrderedDeviceScore(s) = SumOfSegments(v)
    BY DEF OrderedDeviceScore
  <2> HIDE DEF col
  <2>4. ASSUME NEW i \in 1 .. Len(fit.segments) PROVE v[i] \in Int
    <3> DEFINE leaf == [o \in Objects |-> IF o < fit.segments[i].tail THEN leaf_of[o] ELSE Skip]
    <3>1. PrefixHist(fit.segments[i], col) = Build(BinsOf(col), leaf, Pow2(level), n_bins_line)
      BY DEF PrefixHist
    <3> HIDE DEF leaf
    <3>2. ScanScore(PrefixHist(fit.segments[i], col), s) \in Int
      BY <1>5, <2>1, <2>2, <3>1, BuiltScore
    <3>3. i \in DOMAIN fit.segments
      BY SegmentsOfFit
    <3> QED  BY <3>2, <3>3
  <2> HIDE DEF v
  <2> QED  BY <2>3, <2>4, SumOfSegmentsIsInt
<1>7. winner \in SUBSET DeviceCandidates
  <2>1. CASE cands = {}
    BY <2>1
  <2>2. CASE cands # {}
    <3>1. DOMAIN score = cands /\ \A c \in cands : score[c] \in Int
      BY <1>6
    <3>2. winner = {select_best(score)}
      BY <2>2
    <3> HIDE DEF cands, score, winner
    <3>3. {select_best(score)} \in SUBSET cands
      BY <1>4, <2>2, <3>1, WinnerAmong
    <3> QED  BY <1>4, <3>2, <3>3
  <2> QED  BY <2>1, <2>2
<1> HIDE DEF winner
<1>8. CASE winner = {}
  <2>1. growth' = "degenerate" /\ UNCHANGED <<chosen, leaf_of, width, search>>
    BY <1>2, <1>8 DEF TakeOnDevice
  <2>2. NextBook
    BY <1>1, <2>1, NothingTaken DEF Outcomes
  <2> QED  BY <1>1, <1>3, <2>1, <2>2 DEF Resident
<1>9. CASE winner # {}
  <2>1. PICK s \in winner : /\ chosen' = Append(chosen, s) /\ search' = AfterSplit(s)
                            /\ RouteOnDevice(s) /\ UNCHANGED growth
    BY <1>2, <1>9 DEF TakeOnDevice
  <2>2. s \in DeviceCandidates
    BY <1>7
  <2>3. NextBook /\ "float_split_count" \in DOMAIN search'
    BY <1>1, <1>3, <2>1, <2>2, DeviceSplitIsBooked
  <2> QED  BY <1>3, <2>3 DEF Resident
<1> QED  BY <1>8, <1>9

(* The steps that leave the search as it is.                               *)
LEMMA StandingBook ==
  ASSUME Book, Resident(search, hists), UNCHANGED <<chosen, leaf_of, width, hists, search>>,
         growth' \in {growth} \cup Outcomes \cup {"finish"}
  PROVE  NextBook /\ Resident(search', hists')
<1>1. NextBook
  BY NothingTaken
<1> QED  BY <1>1 DEF Resident

(* A search starts with no split and one leaf.                             *)
LEMMA FreshBook ==
  ASSUME fit \in Fits, ObliviousInit, DeviceInit
  PROVE  Book /\ Resident(search, hists)
<1>1. chosen = <<>> /\ leaf_of = [o \in Objects |-> 0] /\ width = 1 /\ DOMAIN hists = {}
  BY DEF ObliviousInit
<1>2. search.float_split_count = 0 /\ "float_split_count" \in DOMAIN search
  BY DEF DeviceInit, NoSearch
<1>3. Chosen(<<>>) /\ Len(<<>>) = 0
  BY FitsAssumption DEF Chosen
<1>4. Parted(<<>>, leaf_of, width, 0)
  <2>1. SubSeq(<<>>, 1, 0) = <<>>
    OBVIOUS
  <2>2. leaf_of = AssignLeaves(SubSeq(<<>>, 1, 0))
    BY <1>1, <2>1, NoSplitOneLeaf
  <2>3. width = Pow2(0) /\ leaf_of \in [Objects -> 0 .. width - 1]
    BY <1>1, Pow2Steps
  <2> QED  BY <1>3, <2>2, <2>3 DEF Parted
<1>5. Carried(growth, chosen, leaf_of, hists)
  BY <1>1, <1>3 DEF Carried
<1> QED  BY <1>1, <1>2, <1>3, <1>4, <1>5 DEF Book, TreeBook, Resident

(* What the book of a symmetric tree's search says of the search.          *)
LEMMA BookedRanges ==
  ASSUME fit \in Fits, Book
  PROVE  /\ width \in 1 .. Pow2(MaxDepth) /\ leaf_of \in [Objects -> 0 .. width - 1]
         /\ Len(chosen) <= MaxDepth
         /\ LET cands == IF fit.device THEN DeviceCandidates ELSE Candidates(Floats \cup OneHots \cup Ctrs)
            IN  \A i \in DOMAIN chosen : chosen[i] \in cands
         /\ search.float_split_count <= Len(chosen)
<1>1. Chosen(chosen) /\ Len(chosen) \in Nat /\ MaxDepth \in Nat /\ search.float_split_count \in 0 .. Len(chosen)
  BY FitsAssumption DEF Book, TreeBook, Chosen
<1>2. PICK k \in Nat : Parted(chosen, leaf_of, width, k)
  BY DEF Book, TreeBook
<1>3. k \in 0 .. Len(chosen) /\ width = Pow2(k) /\ leaf_of \in [Objects -> 0 .. width - 1]
  BY <1>2 DEF Parted
<1>4. k <= MaxDepth
  BY <1>1, <1>3 DEF Chosen
<1>5. Pow2(k) <= Pow2(MaxDepth)
  BY <1>1, <1>4, Pow2Rises
<1>6. Pow2(k) \in Nat \ {0} /\ Pow2(MaxDepth) \in Nat
  BY <1>1, Pow2Steps
<1>7. width \in 1 .. Pow2(MaxDepth)
  BY <1>3, <1>5, <1>6
<1>8. \A i \in DOMAIN chosen : chosen[i] \in Cands
  BY <1>1 DEF Chosen
<1>9. Len(chosen) <= MaxDepth
  BY <1>1 DEF Chosen
<1>10. search.float_split_count <= Len(chosen)
  BY <1>1
<1> QED  BY <1>3, <1>7, <1>8, <1>9, <1>10 DEF Cands

(* In a booked tree every object lies in the leaf its splits say.          *)
LEMMA BookedPartition ==
  ASSUME fit \in Fits, Book, \A i \in DOMAIN chosen : NamesABorder(chosen[i])
  PROVE  LeafOfIsSplits
<1>1. PICK k \in Nat : Parted(chosen, leaf_of, width, k)
  BY DEF Book, TreeBook
<1> QED  BY <1>1 DEF Parted, LeafOfIsSplits

(* In a booked tree the histograms are those of its leaves.                *)
LEMMA BookedHistograms ==
  ASSUME Book
  PROVE  HistsAreFresh
<1>1. ASSUME NEW col \in DOMAIN hists
      PROVE  LET w == Cardinality(DOMAIN hists[col])
                 bins == Cardinality(DOMAIN hists[col][0])
             IN  hists[col] = Build(BinsOf(col), [o \in Objects |-> leaf_of[o] % w], w, bins)
  <2>1. PICK w : HistOf(hists[col], col, leaf_of, w)
    BY DEF Book, TreeBook
  <2> DEFINE h == hists[col]
             nb == HistBins(col)
             lf == [o \in Objects |-> leaf_of[o] % w]
  <2>2. w \in Nat \ {0} /\ nb \in Nat \ {0} /\ h = Build(BinsOf(col), lf, w, nb)
    BY <2>1 DEF HistOf
  <2>3. DOMAIN h = 0 .. w - 1 /\ DOMAIN h[0] = 0 .. nb - 1
    <3>1. 0 \in 0 .. w - 1
      BY <2>2
    <3> HIDE DEF nb, lf, h
    <3> QED  BY <2>2, <3>1 DEF Build, Leaves
  <2> HIDE DEF nb, h
  <2>4. Cardinality(DOMAIN h) = w /\ Cardinality(DOMAIN h[0]) = nb
    BY <2>2, <2>3, Intervals
  <2> QED  BY <2>2, <2>4 DEF h
<1> QED  BY <1>1 DEF HistsAreFresh

-----------------------------------------------------------------------------
(* The splits of a symmetric tree, in the order of its levels.             *)
LEMMA OrderOfGrown ==
  ASSUME fit \in Fits, NEW ch \in Seq(Splits), NEW g,
         g.shape = "oblivious", g.splits = OfKind(ch, "float"), g.one_hot_splits = OfKind(ch, "onehot"),
         g.ctr_splits = OfKind(ch, "ctr"), g.level_kinds = GrownOblivious(ch).level_kinds
  PROVE  DOMAIN LevelOrder(g) = 1 .. Len(ch) /\ \A i \in 1 .. Len(ch) : LevelOrder(g)[i] = ch[i]
<1> DEFINE n == Len(ch)
           kinds == [i \in 1 .. n |-> LevelKind(ch, i)]
           floats == /\ \A i \in DOMAIN ch : ch[i].kind = "float"
                     /\ fit.ctrs = <<>> \/ fit.device
<1>1. n \in Nat /\ DOMAIN ch = 1 .. n
  OBVIOUS
<1>2. g.level_kinds = IF floats THEN <<>> ELSE kinds
  BY DEF GrownOblivious
<1>3. CASE n = 0 \/ floats
  <2>1. OfKind(ch, "float") = ch
    BY <1>1, <1>3, AllOfOneKind
  <2>2. g.level_kinds = <<>>
    BY <1>2, <1>3
  <2>3. LevelOrder(g) = ch
    BY <2>1, <2>2 DEF LevelOrder
  <2> QED  BY <1>1, <2>3
<1>4. CASE n # 0 /\ ~floats
  <2>1. g.level_kinds = kinds
    BY <1>2, <1>4
  <2>2. 1 \in DOMAIN kinds /\ 1 \notin DOMAIN <<>>
    BY <1>1, <1>4
  <2>3. kinds # <<>>
    BY <2>2
  <2> DEFINE order == [i \in 1 .. n |->
                         CASE kinds[i][1] = "float"  -> g.splits[kinds[i][2]]
                           [] kinds[i][1] = "onehot" -> g.one_hot_splits[kinds[i][2]]
                           [] kinds[i][1] = "ctr"    -> g.ctr_splits[kinds[i][2]]]
  <2>4. LevelOrder(g) = order
    <3>1. g.level_kinds # <<>> /\ DOMAIN g.level_kinds = 1 .. n
      BY <2>1, <2>3
    <3> HIDE DEF kinds
    <3>2. LevelOrder(g) = [i \in DOMAIN g.level_kinds |->
                         CASE g.level_kinds[i][1] = "float"  -> g.splits[g.level_kinds[i][2]]
                           [] g.level_kinds[i][1] = "onehot" -> g.one_hot_splits[g.level_kinds[i][2]]
                           [] g.level_kinds[i][1] = "ctr"    -> g.ctr_splits[g.level_kinds[i][2]]]
      BY <3>1 DEF LevelOrder
    <3> QED  BY <2>1, <3>1, <3>2
  <2>5. ASSUME NEW i \in 1 .. n PROVE order[i] = ch[i]
    <3>1. kinds[i] = LevelKind(ch, i)
      OBVIOUS
    <3>2. kinds[i][1] = ch[i].kind /\ OfKind(ch, ch[i].kind)[kinds[i][2]] = ch[i]
      BY <3>1, PlaceOfLevel
    <3>3. ch[i].kind \in {"float", "onehot", "ctr"}
      <4>1. ch[i] \in Splits
        OBVIOUS
      <4> QED  BY <4>1 DEF Splits
    <3> HIDE DEF kinds
    <3> QED  BY <3>2, <3>3
  <2>6. DOMAIN order = 1 .. n
    OBVIOUS
  <2> HIDE DEF order
  <2> QED  BY <2>4, <2>5, <2>6
<1> QED  BY <1>3, <1>4

(* Its objects are where the walk of its levels finds them.                *)
Walks(g) ==
  \A o \in Objects :
    g.leaf_of[o] = LeafOf(g, [i \in DOMAIN LevelOrder(g) |-> Passes(LevelOrder(g)[i], o)])

(* The walk over an oblivious tree ends where its splits assign.           *)
LEMMA SymmetricWalks ==
  ASSUME fit \in Fits, NEW ch \in Seq(Splits), NEW lf, \A o \in Objects : lf[o] = AssignLeaves(ch)[o],
         NEW g, g = GrownOblivious(ch) \/ g = [GrownOblivious(ch) EXCEPT !.leaf_of = lf]
  PROVE  Walks(g)
<1>1. /\ g.shape = "oblivious" /\ g.splits = OfKind(ch, "float") /\ g.one_hot_splits = OfKind(ch, "onehot")
      /\ g.ctr_splits = OfKind(ch, "ctr") /\ g.level_kinds = GrownOblivious(ch).level_kinds
      /\ g.leaf_of = lf \/ g.leaf_of = AssignLeaves(ch)
  <2>1. CASE g = GrownOblivious(ch)
    BY <2>1 DEF GrownOblivious
  <2>2. CASE g = [GrownOblivious(ch) EXCEPT !.leaf_of = lf]
    BY <2>2 DEF GrownOblivious
  <2> QED  BY <2>1, <2>2
<1>2. DOMAIN LevelOrder(g) = 1 .. Len(ch) /\ \A i \in 1 .. Len(ch) : LevelOrder(g)[i] = ch[i]
  BY <1>1, OrderOfGrown
<1>3. ASSUME NEW o \in Objects
      PROVE  g.leaf_of[o] = LeafOf(g, [i \in DOMAIN LevelOrder(g) |-> Passes(LevelOrder(g)[i], o)])
  <2>1. [i \in DOMAIN LevelOrder(g) |-> Passes(LevelOrder(g)[i], o)] = [i \in 1 .. Len(ch) |-> Passes(ch[i], o)]
    BY <1>2
  <2>2. \A p : LeafOf(g, p) = leaf_index(p)
    BY <1>1 DEF LeafOf
  <2>3. AssignLeaves(ch)[o] = leaf_index([i \in 1 .. Len(ch) |-> Passes(ch[i], o)])
    BY DEF AssignLeaves
  <2> QED  BY <1>1, <2>1, <2>2, <2>3
<1> QED  BY <1>3 DEF Walks

(* FoldsRawMissing, of a list of splits.                                   *)
RawMissing(ch) ==
  /\ fit.device
  /\ fit.policy = "SymmetricTree" => ~UnitWeights /\ \A i \in DOMAIN ch : ch[i].kind # "ctr"
  /\ \E f \in 1 .. Len(fit.floats) : fit.floats[f].top /\ NaN \in {fit.floats[f].value[o] : o \in Objects}

(* What is shown of a finished oblivious tree.                             *)
SymmetricGrown(gr, ch, g) ==
  gr = "grown" /\ fit.policy = "SymmetricTree" /\ ~RawMissing(ch) => Walks(g)

(* The splits of a booked tree are splits of its training.                 *)
LEMMA ChosenSplits ==
  ASSUME fit \in Fits, Book
  PROVE  /\ chosen \in Seq(Splits) /\ chosen \in Seq(SearchSplits(fit)) /\ Len(chosen) \in Nat
         /\ DOMAIN chosen = 1 .. Len(chosen)
<1>1. chosen \in Seq(SearchSplits(fit))
  BY DEF Book, TreeBook, Chosen
<1>2. \A s \in SearchSplits(fit) : s \in Splits
  BY SplitRangeIsFinite DEF SearchSplits
<1>3. \A i \in 1 .. Len(chosen) : chosen[i] \in Splits
  BY <1>1, <1>2
<1>4. chosen \in Seq(Splits)
  BY <1>1, <1>3
<1> QED  BY <1>1, <1>4

(* A finished oblivious tree walks as it was grown.                        *)
LEMMA FinishObliviousWalks ==
  ASSUME fit \in Fits, Book, FinishOblivious
  PROVE  Walks(grown')
<1>1. chosen \in Seq(Splits)
  BY ChosenSplits
<1>2. grown' = GrownOblivious(chosen)
  BY DEF FinishOblivious
<1> QED  BY <1>1, <1>2, SymmetricWalks

(* So does one the device finished, when no split reads a missing value.   *)
LEMMA FinishDeviceWalks ==
  ASSUME fit \in Fits, Book, FinishDevice, growth' = "grown", ~RawMissing(chosen)
  PROVE  Walks(grown')
<1>1. chosen \in Seq(Splits) /\ chosen \in Seq(SearchSplits(fit)) /\ Len(chosen) \in Nat
      /\ DOMAIN chosen = 1 .. Len(chosen)
  BY ChosenSplits
<1>2. /\ fit.device /\ fit.policy = "SymmetricTree"
      /\ \A i \in DOMAIN chosen : NamesABorder(chosen[i])
      /\ grown' = [GrownOblivious(chosen) EXCEPT !.leaf_of = FoldedLeafOf]
  BY DEF FinishDevice
<1> DEFINE lf == FoldedLeafOf
<1>3. \A o \in Objects : lf[o] = AssignLeaves(chosen)[o]
  <2>1. CASE \E i \in DOMAIN chosen : chosen[i].kind = "ctr"
    BY <2>1 DEF FoldedLeafOf
  <2>2. CASE (\A i \in DOMAIN chosen : chosen[i].kind # "ctr") /\ UnitWeights
    <3>1. lf = leaf_of
      BY <2>2 DEF FoldedLeafOf
    <3>2. PICK k \in Nat : Parted(chosen, leaf_of, width, k)
      BY DEF Book, TreeBook
    <3>3. leaf_of = AssignLeaves(SubSeq(chosen, 1, Len(chosen)))
      BY <1>2, <3>2 DEF Parted
    <3>4. SubSeq(chosen, 1, Len(chosen)) = chosen
      BY <1>1
    <3> QED  BY <3>1, <3>3, <3>4
  <2>3. CASE (\A i \in DOMAIN chosen : chosen[i].kind # "ctr") /\ ~UnitWeights
    <3>1. lf = HostWalk(chosen)
      BY <2>3 DEF FoldedLeafOf
    <3>2. ~ \E f \in 1 .. Len(fit.floats) : fit.floats[f].top /\ NaN \in {fit.floats[f].value[x] : x \in Objects}
      BY <1>2, <2>3 DEF RawMissing
    <3>3. ASSUME NEW o \in Objects, NEW i \in 1 .. Len(chosen)
          PROVE  RawPasses(chosen[i], o) <=> Passes(chosen[i], o)
      <4>1. chosen[i] \in SearchSplits(fit)
        BY <1>1
      <4> QED  BY <3>2, <4>1, HostSendsAlike
    <3>4. ASSUME NEW o \in Objects PROVE lf[o] = AssignLeaves(chosen)[o]
      <4> DEFINE p == [i \in 0 .. Len(chosen) - 1 |-> IF RawPasses(chosen[i + 1], o) THEN Pow2(i) ELSE 0]
                 q == [i \in 0 .. Len(chosen) - 1 |-> IF Passes(chosen[i + 1], o) THEN Pow2(i) ELSE 0]
                 raw == [i \in 1 .. Len(chosen) |-> RawPasses(chosen[i], o)]
                 cooked == [i \in 1 .. Len(chosen) |-> Passes(chosen[i], o)]
      <4>1. Len(raw) = Len(chosen) /\ Len(cooked) = Len(chosen)
        BY <1>1, ListLength
      <4>2. \A i \in 0 .. Len(chosen) - 1 : i + 1 \in 1 .. Len(chosen)
        BY <1>1
      <4>3. /\ [i \in 0 .. Len(raw) - 1 |-> IF raw[i + 1] THEN Pow2(i) ELSE 0] = p
            /\ [i \in 0 .. Len(cooked) - 1 |-> IF cooked[i + 1] THEN Pow2(i) ELSE 0] = q
        BY <4>1, <4>2
      <4>4. leaf_index(raw) = SumTo(Len(chosen), p) /\ leaf_index(cooked) = SumTo(Len(chosen), q)
        BY <4>1, <4>3 DEF leaf_index
      <4>5. p = q
        BY <3>3, <4>2
      <4>6. lf[o] = leaf_index(raw) /\ AssignLeaves(chosen)[o] = leaf_index(cooked)
        BY <3>1 DEF HostWalk, AssignLeaves
      <4> HIDE DEF p, q, raw, cooked, lf
      <4> QED  BY <4>4, <4>5, <4>6
    <3> QED  BY <3>4
  <2> QED  BY <2>1, <2>2, <2>3
<1> HIDE DEF lf
<1>4. grown' = [GrownOblivious(chosen) EXCEPT !.leaf_of = lf]
  BY <1>2 DEF lf
<1> QED  BY <1>1, <1>3, <1>4, SymmetricWalks

-----------------------------------------------------------------------------
(* Trees that split one leaf at a time.                                    *)

(* What a leaf is split by, and into: two sides, neither of them empty.    *)
LEMMA SidesAreScored ==
  ASSUME fit \in Fits, NEW docs \in SUBSET Objects, NEW s
  PROVE  /\ RightDocs(s, docs) \in SUBSET docs
         /\ SidesScore(s, docs) \in Int /\ ScoreOf(docs) \in Int
         /\ RightDocs(s, docs) = {} \/ RightDocs(s, docs) = docs => SidesScore(s, docs) = ScoreOf(docs)
<1> DEFINE right == RightDocs(s, docs)
           left == docs \ right
<1>1. right \in SUBSET docs /\ right \in SUBSET Objects /\ left \in SUBSET Objects
  BY DEF RightDocs
<1>2. SidesScore(s, docs) = ScoreOf(right) + ScoreOf(left)
  BY DEF SidesScore
<1>3. ScoreOf(right) \in Int /\ ScoreOf(left) \in Int /\ ScoreOf(docs) \in Int
  BY <1>1, ScoreIsInt
<1>4. CASE right = {}
  <2>1. left = docs
    BY <1>4
  <2>2. ScoreOf(right) = 0
    BY <1>4, NoScoreOfNone
  <2> HIDE DEF right, left
  <2> QED  BY <1>1, <1>2, <1>3, <2>1, <2>2 DEF right
<1>5. CASE right = docs
  <2>1. left = {}
    BY <1>5
  <2>2. ScoreOf(left) = 0
    BY <2>1, NoScoreOfNone
  <2> HIDE DEF right, left
  <2> QED  BY <1>1, <1>2, <1>3, <1>5, <2>2 DEF right
<1>6. CASE right # {} /\ right # docs
  <2> HIDE DEF left
  <2> QED  BY <1>1, <1>2, <1>3, <1>6
<1> QED  BY <1>4, <1>5, <1>6

(* A split of the device is that of a scan of the CPU, and sends the same  *)
(* objects right.                                                          *)
AsCpu(s, docs) ==
  fit.device /\ fit.cats = <<>> => CpuSplit(docs) = {s} /\ RightDocs(s, docs) = {o \in docs : Passes(s, o)}

(* A split of bins is that of a border, or sends nothing right.            *)
LEMMA BinsAndBorders ==
  ASSUME fit \in Fits, fit.device, fit.cats = <<>>, NEW docs \in SUBSET Objects
  PROVE  /\ Candidates(Floats) \subseteq BinSplits
         /\ \A d \in Candidates(Floats) : RightDocs(d, docs) = {o \in docs : Passes(d, o)}
         /\ \A d \in BinSplits : d \in Candidates(Floats) \/ RightDocs(d, docs) = {}
<1>1. \A i \in 1 .. Len(fit.floats) : fit.floats[i].borders \in Nat /\ fit.floats[i].borders + 1 <= n_bins_of(fit)
  BY ColumnsOfFit, WidestColumn
<1>2. n_bins_of(fit) \in Nat
  BY WidestColumn
<1>3. OneHots = {}
  BY DEF OneHots
<1>4. ASSUME NEW d \in Candidates(Floats)
      PROVE  d \in BinSplits /\ RightDocs(d, docs) = {o \in docs : Passes(d, o)}
  <2>1. PICK i \in Bordered : d \in CandidatesOf(<<"float", i>>)
    BY <1>4 DEF Candidates, Floats
  <2>2. PICK a \in 1 .. fit.floats[i].borders : d = Split("float", i, a)
    BY <2>1 DEF CandidatesOf
  <2>3. i \in 1 .. Len(fit.floats)
    BY DEF Bordered
  <2>4. a \in 1 .. n_bins_of(fit) - 1
    BY <1>1, <1>2, <2>2, <2>3
  <2> DEFINE col == <<"float", i>>
  <2>5. col \in {<<"float", f>> : f \in 1 .. Len(fit.floats)} \cup OneHots /\ d = Split(col[1], col[2], a)
    BY <2>2, <2>3
  <2> HIDE DEF col
  <2>6. d \in BinSplits
    BY <2>4, <2>5 DEF BinSplits
  <2>7. d \in SearchSplits(fit) /\ NamesABorder(d)
    BY <1>4, CpuCandidates DEF NamesABorder
  <2>8. d.kind = "float"
    BY <2>2, SplitFields
  <2>9. \A o \in docs : GoesRight(d, o) <=> Passes(d, o)
    <3> TAKE o \in docs
    <3>1. DevicePasses(d, o) <=> Passes(d, o)
      BY <2>7, DeviceSendsAlike
    <3> QED  BY <2>8, <3>1 DEF GoesRight, DevicePasses
  <2> QED  BY <2>6, <2>9 DEF RightDocs
<1>5. ASSUME NEW d \in BinSplits PROVE d \in Candidates(Floats) \/ RightDocs(d, docs) = {}
  <2>1. PICK i \in 1 .. Len(fit.floats), b \in 1 .. n_bins_of(fit) - 1 : d = Split("float", i, b)
    BY <1>3, <1>5 DEF BinSplits
  <2>2. b \in Nat /\ fit.floats[i].borders \in Nat
    BY <1>1
  <2>3. CASE b <= fit.floats[i].borders
    <3>1. i \in Bordered /\ b \in 1 .. fit.floats[i].borders
      BY <2>2, <2>3 DEF Bordered
    <3>2. <<"float", i>> \in Floats /\ d \in CandidatesOf(<<"float", i>>)
      BY <2>1, <3>1 DEF Floats, CandidatesOf
    <3> QED  BY <3>2 DEF Candidates
  <2>4. CASE b > fit.floats[i].borders
    <3>1. d.kind = "float" /\ d.feature = i /\ d.at = b
      BY <2>1, SplitFields
    <3>2. \A o \in docs : BinsOf(<<"float", i>>)[o] < b
      <4> TAKE o \in docs
      <4>1. <<"float", i>> \in DeviceColumns /\ <<"float", i>>[1] = "float" /\ <<"float", i>>[2] = i
        BY DEF DeviceColumns, DeviceFloats
      <4>2. BinsOf(<<"float", i>>)[o] <= fit.floats[i].borders /\ BinsOf(<<"float", i>>)[o] \in Nat
        BY <4>1, BinsOfColumns
      <4> QED  BY <2>2, <2>4, <4>2
    <3>3. \A o \in docs : BinsOf(<<"float", i>>)[o] \in Nat
      BY BinsAreNumbers DEF DeviceColumns, DeviceFloats
    <3>4. \A o \in docs : ~GoesRight(d, o)
      BY <2>2, <3>1, <3>2, <3>3 DEF GoesRight
    <3> QED  BY <3>4 DEF RightDocs
  <2> QED  BY <2>2, <2>3, <2>4
<1> QED  BY <1>4, <1>5

(* What a device gains by a leaf's split, a CPU gains, and no more.        *)
LEMMA DeviceSplitIsCpu ==
  ASSUME fit \in Fits, NEW docs \in SUBSET Objects, fit.device,
         NEW bs \in GainingSplit(BinSplits, docs)
  PROVE  AsCpu(bs.split, docs)
<1> SUFFICES ASSUME fit.cats = <<>>
             PROVE  CpuSplit(docs) = {bs.split} /\ RightDocs(bs.split, docs) = {o \in docs : Passes(bs.split, o)}
  BY DEF AsCpu
<1> DEFINE score == [s \in BinSplits |-> SidesScore(s, docs)]
           s == select_best(score)
           Right(d) == {o \in docs : Passes(d, o)}
           Gain(d) == ScoreOf(Right(d)) + ScoreOf(docs \ Right(d)) - ScoreOf(docs)
           gaining == {d \in Candidates(Floats) : Gain(d) > 0}
           table == [d \in gaining |-> Gain(d)]
<1>1. BinSplits # {} /\ bs = Halves(s, docs) /\ bs.gain > 0
  BY DEF GainingSplit, BestHalves
<1>2. \A d : SidesScore(d, docs) \in Int /\ ScoreOf(docs) \in Int
             /\ (RightDocs(d, docs) = {} => SidesScore(d, docs) = ScoreOf(docs))
  BY SidesAreScored
<1>3. ScoredCands(BinSplits, score)
  BY <1>1, <1>2, BinCandidates, SearchSplitsChoosable DEF ScoredCands
<1>4. FirstBest(score, s)
  <2> HIDE DEF score
  <2> QED  BY <1>3, SelectBestIsFirst
<1>5. s \in BinSplits /\ \A d \in BinSplits : /\ SidesScore(d, docs) <= SidesScore(s, docs)
                                              /\ Before(d, s) => SidesScore(d, docs) < SidesScore(s, docs)
  <2> HIDE DEF s
  <2> QED  BY <1>4 DEF FirstBest
<1> HIDE DEF s, score
<1>6. bs.split = s /\ bs.gain = SidesScore(s, docs) - ScoreOf(docs)
  BY <1>1 DEF Halves
<1>7. s \in Candidates(Floats)
  <2>1. SidesScore(s, docs) # ScoreOf(docs)
    BY <1>1, <1>2, <1>6
  <2>2. RightDocs(s, docs) # {}
    BY <1>2, <2>1
  <2> QED  BY <1>5, <2>2, BinsAndBorders
<1>8. \A d \in Candidates(Floats) : d \in BinSplits /\ RightDocs(d, docs) = Right(d)
  BY BinsAndBorders
<1>9. \A d \in Candidates(Floats) : Gain(d) = SidesScore(d, docs) - ScoreOf(docs) /\ Gain(d) \in Int
  <2> TAKE d \in Candidates(Floats)
  <2>1. RightDocs(d, docs) = Right(d)
    BY <1>8
  <2>2. SidesScore(d, docs) = ScoreOf(RightDocs(d, docs)) + ScoreOf(docs \ RightDocs(d, docs))
    BY DEF SidesScore
  <2>3. Gain(d) = ScoreOf(RightDocs(d, docs)) + ScoreOf(docs \ RightDocs(d, docs)) - ScoreOf(docs)
    BY <2>1
  <2>4. ScoreOf(RightDocs(d, docs)) \in Int /\ ScoreOf(docs \ RightDocs(d, docs)) \in Int /\ ScoreOf(docs) \in Int
    <3>1. RightDocs(d, docs) \in SUBSET Objects /\ docs \ RightDocs(d, docs) \in SUBSET Objects
      BY DEF RightDocs
    <3> QED  BY <3>1, ScoreIsInt
  <2> HIDE DEF Gain, Right
  <2> QED  BY <2>2, <2>3, <2>4
<1>10. CpuSplit(docs) = IF gaining = {} THEN {} ELSE {select_best(table)}
  BY DEF CpuSplit
<1> HIDE DEF Gain, Right
<1>11. s \in gaining
  BY <1>1, <1>6, <1>7, <1>9
<1>12. FirstBest(table, s)
  <2>1. \A d \in gaining : d \in Candidates(Floats) /\ d \in BinSplits
    BY <1>8
  <2>2. \A d \in gaining : Gain(d) <= Gain(s) /\ (Before(d, s) => Gain(d) < Gain(s))
    BY <1>2, <1>5, <1>7, <1>9, <2>1
  <2> HIDE DEF gaining
  <2> QED  BY <1>11, <2>2 DEF FirstBest
<1>13. ScoredCands(gaining, table)
  <2>1. gaining \in SUBSET SearchSplits(fit)
    BY <1>8, BinCandidates
  <2>2. Choosable(gaining)
    <3> HIDE DEF gaining
    <3> QED  BY <1>11, <2>1, SearchSplitsChoosable
  <2> QED  BY <1>9, <2>2 DEF ScoredCands
<1> HIDE DEF table
<1>14. select_best(table) = s
  <2> HIDE DEF gaining
  <2>1. FirstBest(table, select_best(table))
    BY <1>13, SelectBestIsFirst
  <2> QED  BY <1>12, <1>13, <2>1, FirstBestIsOne
<1>15. CpuSplit(docs) = {s}
  BY <1>10, <1>11, <1>14
<1> QED  BY <1>6, <1>7, <1>8, <1>15 DEF Right

(* A gaining split: of which candidate, and its halves.                    *)
BestRecords(f) == [split : SearchSplits(f), gain : Int, left : SUBSET Objects, right : SUBSET Objects]

(* A split that gains: its halves are those of the objects, neither is     *)
(* empty.                                                                  *)
Gains(bs, docs) ==
  /\ bs \in BestRecords(fit) /\ bs.split \in SearchSplits(fit)
  /\ bs.gain \in Int /\ bs.gain > 0
  /\ bs.right = RightDocs(bs.split, docs) /\ bs.left = docs \ bs.right
  /\ bs.left \in SUBSET Objects /\ bs.right \in SUBSET Objects
  /\ bs.left # {} /\ bs.right # {}
  /\ AsCpu(bs.split, docs)

(* A split that gains parts the objects of a leaf in two that are not      *)
(* empty.                                                                  *)
LEMMA GainingSplitHalves ==
  ASSUME fit \in Fits, NEW docs \in SUBSET Objects, NEW cands \in SUBSET SearchSplits(fit),
         NEW bs \in GainingSplit(cands, docs), AsCpu(bs.split, docs)
  PROVE  Gains(bs, docs) /\ GainingSplit(cands, docs) = {bs}
<1> DEFINE score == [s \in cands |-> SidesScore(s, docs)]
           s == select_best(score)
<1>1. cands # {} /\ bs = BestHalves(cands, docs) /\ bs.gain > 0 /\ GainingSplit(cands, docs) = {bs}
  BY DEF GainingSplit
<1>2. bs = Halves(s, docs)
  BY <1>1 DEF BestHalves
<1>3. s \in cands
  <2>1. DOMAIN score = cands /\ \A c \in cands : score[c] \in Int
    BY SidesAreScored
  <2>2. Choosable(cands)
    BY <1>1, SearchSplitsChoosable
  <2> HIDE DEF score
  <2> QED  BY <2>1, <2>2, SelectBestChooses
<1> HIDE DEF s
<1>4. /\ bs.split = s /\ bs.gain = SidesScore(s, docs) - ScoreOf(docs)
      /\ bs.left = docs \ RightDocs(s, docs) /\ bs.right = RightDocs(s, docs)
  BY <1>2 DEF Halves
<1>5. /\ RightDocs(s, docs) \in SUBSET docs
      /\ SidesScore(s, docs) \in Int /\ ScoreOf(docs) \in Int
      /\ RightDocs(s, docs) = {} \/ RightDocs(s, docs) = docs => SidesScore(s, docs) = ScoreOf(docs)
  BY SidesAreScored
<1>6. RightDocs(s, docs) # {} /\ RightDocs(s, docs) # docs
  BY <1>1, <1>4, <1>5
<1>7. bs.left # {} /\ bs.right # {}
  BY <1>4, <1>5, <1>6
<1>8. bs \in BestRecords(fit)
  <2>1. bs = [split |-> bs.split, gain |-> bs.gain, left |-> bs.left, right |-> bs.right]
    BY <1>2 DEF Halves
  <2>2. bs.split \in SearchSplits(fit) /\ bs.gain \in Int /\ bs.left \in SUBSET Objects /\ bs.right \in SUBSET Objects
    BY <1>3, <1>4, <1>5
  <2> QED  BY <2>1, <2>2 DEF BestRecords
<1> QED  BY <1>1, <1>3, <1>4, <1>5, <1>7, <1>8 DEF Gains

(* So does the best split of a leaf.                                       *)
LEMMA BestSplitHalves ==
  ASSUME fit \in Fits, NEW docs \in SUBSET Objects, NEW bs \in best_split(docs)
  PROVE  Gains(bs, docs) /\ best_split(docs) = {bs}
<1>1. CASE fit.device
  <2>1. best_split(docs) = GainingSplit(BinSplits, docs)
    BY <1>1 DEF best_split, device_best_split_for_node
  <2>2. bs \in GainingSplit(BinSplits, docs)
    BY <2>1
  <2>3. AsCpu(bs.split, docs)
    BY <1>1, <2>2, DeviceSplitIsCpu
  <2> QED  BY <2>1, <2>2, <2>3, BinCandidates, GainingSplitHalves
<1>2. CASE ~fit.device
  <2>1. best_split(docs) = GainingSplit(Candidates(Floats), docs)
    BY <1>2 DEF best_split, best_split_for_leaf
  <2>2. Candidates(Floats) \in SUBSET SearchSplits(fit)
    BY CpuCandidates
  <2>3. AsCpu(bs.split, docs)
    BY <1>2 DEF AsCpu
  <2> QED  BY <2>1, <2>2, <2>3, GainingSplitHalves
<1> QED  BY <1>1, <1>2

(* A split of the search is not the mark of a leaf.                        *)
LEMMA SplitIsNoMark ==
  ASSUME fit \in Fits
  PROVE  NoSplit \notin SearchSplits(fit)
<1>1. SearchSplits(fit) \subseteq Splits
  BY SplitRangeIsFinite DEF SearchSplits
<1>2. NoSplit \notin Splits
  BY LeafWiseAssumption DEF Splits
<1> QED  BY <1>1, <1>2

(* The nodes of a tree and the owners of its objects agree.                *)
NodeRecords ==
  [docs : SUBSET Objects, depth : 0 .. MaxDepth, split : SearchSplits(fit) \cup {NoSplit},
   left : Nat, right : Nat]

(* The book of a leaf: it has objects, and they are the ones it owns.      *)
LeafBook(ns, own, n) ==
  ns[n].split = NoSplit => ns[n].docs = {o \in Objects : own[o] = n} /\ ns[n].docs # {}

(* The book of a node that was split: its two children stand side by side  *)
(* further on, and part its objects by its split, the CPU's.               *)
ForkBook(ns, n) ==
  ns[n].split # NoSplit =>
    /\ ns[n].left \in n + 1 .. Len(ns) /\ ns[n].right \in n + 1 .. Len(ns) /\ ns[n].right = ns[n].left + 1
    /\ ns[ns[n].right].docs = RightDocs(ns[n].split, ns[n].docs)
    /\ ns[ns[n].left].docs = ns[n].docs \ ns[ns[n].right].docs
    /\ AsCpu(ns[n].split, ns[n].docs)

(* The book of a leaf-wise tree.                                           *)
NodesBook(ns, own) ==
  /\ ns \in Seq(NodeRecords) /\ Len(ns) >= 1 /\ ns[1].docs = Objects
  /\ own \in [Objects -> 1 .. Len(ns)]
  /\ \A o \in Objects : ns[own[o]].split = NoSplit
  /\ \A n \in 1 .. Len(ns) : LeafBook(ns, own, n)
  /\ \A n \in 1 .. Len(ns) : ForkBook(ns, n)

(* A node is split: what becomes of the list of nodes.                     *)
Forks(ns, more, n, bs) ==
  /\ more \in Seq(NodeRecords) /\ Len(more) = Len(ns) + 2
  /\ \A m \in 1 .. Len(ns) : m # n => more[m] = ns[m]
  /\ more[n].docs = ns[n].docs /\ more[n].depth = ns[n].depth /\ more[n].split = bs.split
  /\ more[n].left = Len(ns) + 1 /\ more[n].right = Len(ns) + 2
  /\ more[Len(ns) + 1] = Leaf(bs.left, ns[n].depth + 1)
  /\ more[Len(ns) + 2] = Leaf(bs.right, ns[n].depth + 1)

(* A list with two elements more.                                          *)
Longer(s, a, b) == s \o <<a, b>>

(* Two elements at the end of a list.                                      *)
LEMMA TwoMore ==
  ASSUME NEW R, NEW s \in Seq(R), NEW a \in R, NEW b \in R
  PROVE  /\ Longer(s, a, b) \in Seq(R) /\ Len(Longer(s, a, b)) = Len(s) + 2
         /\ \A i \in 1 .. Len(s) : Longer(s, a, b)[i] = s[i]
         /\ Longer(s, a, b)[Len(s) + 1] = a /\ Longer(s, a, b)[Len(s) + 2] = b
<1> DEFINE two == <<a, b>>
<1>1. two \in Seq(R) /\ Len(two) = 2 /\ two[1] = a /\ two[2] = b
  OBVIOUS
<1> HIDE DEF two
<1>2. /\ s \o two \in Seq(R) /\ Len(s \o two) = Len(s) + 2
      /\ \A i \in 1 .. Len(s) + 2 : (s \o two)[i] = IF i <= Len(s) THEN s[i] ELSE two[i - Len(s)]
  <2>1. /\ s \o two \in Seq(R) /\ Len(s \o two) = Len(s) + Len(two)
        /\ \A i \in 1 .. Len(s) + Len(two) : (s \o two)[i] = IF i <= Len(s) THEN s[i] ELSE two[i - Len(s)]
    BY <1>1, ConcatProperties
  <2> QED  BY <1>1, <2>1
<1>3. Longer(s, a, b) = s \o two
  BY DEF Longer, two
<1> QED  BY <1>1, <1>2, <1>3

(* Splitting a leaf makes a node of it, with the two leaves after it as    *)
(* children.                                                               *)
LEMMA ForkedNodes ==
  ASSUME fit \in Fits, NEW ns \in Seq(NodeRecords), NEW n \in 1 .. Len(ns), ns[n].depth < MaxDepth,
         NEW bs, Gains(bs, ns[n].docs), NEW l, l = Len(ns) + 1, NEW d, d = ns[n].depth + 1, NEW more,
         more = [ns EXCEPT ![n] = Fork(ns[n], bs.split, l)] \o <<Leaf(bs.left, d), Leaf(bs.right, d)>>
  PROVE  Forks(ns, more, n, bs)
<1> DEFINE one == Fork(ns[n], bs.split, l)
           mid == [ns EXCEPT ![n] = one]
           a == Leaf(bs.left, d)
           b == Leaf(bs.right, d)
           R == NodeRecords
<1>2. ns[n] \in R /\ Len(ns) \in Nat /\ l \in Nat /\ l + 1 = Len(ns) + 2 /\ MaxDepth \in Nat
  BY FitsAssumption
<1>3. bs.split \in SearchSplits(fit) /\ bs.left \in SUBSET Objects /\ bs.right \in SUBSET Objects
  BY DEF Gains
<1>a. /\ DOMAIN ns[n] = {"docs", "depth", "split", "left", "right"}
      /\ ns[n] = [docs |-> ns[n].docs, depth |-> ns[n].depth, split |-> ns[n].split,
                  left |-> ns[n].left, right |-> ns[n].right]
      /\ ns[n].docs \in SUBSET Objects /\ ns[n].depth \in 0 .. MaxDepth
  BY <1>2 DEF NodeRecords
<1>b. one = [docs |-> ns[n].docs, depth |-> ns[n].depth, split |-> bs.split, left |-> l, right |-> l + 1]
  BY DEF Fork
<1>4. /\ one \in R /\ one.docs = ns[n].docs /\ one.depth = ns[n].depth /\ one.split = bs.split
      /\ one.left = l /\ one.right = l + 1
  <2>1. l + 1 \in Nat /\ bs.split \in SearchSplits(fit) \cup {NoSplit}
    BY <1>2, <1>3
  <2> HIDE DEF one
  <2> QED  BY <1>2, <1>a, <1>b, <2>1 DEF NodeRecords
<1>5. d \in 0 .. MaxDepth
  BY <1>2, <1>a
<1>6. a \in R /\ b \in R
  BY <1>3, <1>5 DEF NodeRecords, Leaf
<1> HIDE DEF one, a, b, R
<1>7. mid \in Seq(R) /\ Len(mid) = Len(ns) /\ mid[n] = one /\ \A m \in 1 .. Len(ns) : m # n => mid[m] = ns[m]
  BY <1>2, <1>4 DEF R
<1> HIDE DEF mid
<1>8. more = Longer(mid, a, b)
  BY DEF a, b, mid, one, Longer
<1>10. /\ more \in Seq(R) /\ Len(more) = Len(ns) + 2
       /\ \A m \in 1 .. Len(ns) : more[m] = mid[m]
       /\ more[Len(ns) + 1] = a /\ more[Len(ns) + 2] = b
  <2>1. /\ Longer(mid, a, b) \in Seq(R) /\ Len(Longer(mid, a, b)) = Len(mid) + 2
        /\ \A i \in 1 .. Len(mid) : Longer(mid, a, b)[i] = mid[i]
        /\ Longer(mid, a, b)[Len(mid) + 1] = a /\ Longer(mid, a, b)[Len(mid) + 2] = b
    <3>1. a \in NodeRecords /\ b \in NodeRecords /\ mid \in Seq(NodeRecords)
      BY <1>6, <1>7 DEF R
    <3>2. Longer(mid, a, b) \in Seq(NodeRecords) /\ Len(Longer(mid, a, b)) = Len(mid) + 2
      BY <3>1, TwoMore
    <3>3. \A i \in 1 .. Len(mid) : Longer(mid, a, b)[i] = mid[i]
      BY <3>1, TwoMore
    <3>4. Longer(mid, a, b)[Len(mid) + 1] = a /\ Longer(mid, a, b)[Len(mid) + 2] = b
      BY <3>1, TwoMore
    <3> QED  BY <3>2, <3>3, <3>4 DEF R
  <2> QED  BY <1>7, <1>8, <2>1
<1> QED  BY <1>2, <1>4, <1>7, <1>10 DEF Forks, a, b, R

(* The owners after it.                                                    *)
LEMMA ForkKeepsBook ==
  ASSUME fit \in Fits, NEW ns, NEW own, NodesBook(ns, own),
         NEW n \in 1 .. Len(ns), ns[n].split = NoSplit, ns[n].depth < MaxDepth,
         NEW bs, Gains(bs, ns[n].docs), NEW more, Forks(ns, more, n, bs), NEW next,
         next = [o \in Objects |-> IF o \in bs.left THEN Len(ns) + 1
                                   ELSE IF o \in bs.right THEN Len(ns) + 2 ELSE own[o]]
  PROVE  NodesBook(more, next)
<1> DEFINE L == Len(ns)
<1>1. /\ ns \in Seq(NodeRecords) /\ L \in Nat \ {0} /\ ns[1].docs = Objects
      /\ own \in [Objects -> 1 .. L]
      /\ \A o \in Objects : ns[own[o]].split = NoSplit
  BY DEF NodesBook
<1>2. /\ more \in Seq(NodeRecords) /\ Len(more) = L + 2
      /\ \A m \in 1 .. L : m # n => more[m] = ns[m]
      /\ more[n].docs = ns[n].docs /\ more[n].split = bs.split
      /\ more[n].left = L + 1 /\ more[n].right = L + 2
      /\ more[L + 1].docs = bs.left /\ more[L + 1].split = NoSplit
      /\ more[L + 2].docs = bs.right /\ more[L + 2].split = NoSplit
  BY DEF Forks, Leaf
<1>3. /\ ns[n].docs = {o \in Objects : own[o] = n}
      /\ bs.right = RightDocs(bs.split, ns[n].docs) /\ bs.left = ns[n].docs \ bs.right
      /\ bs.left # {} /\ bs.right # {} /\ bs.right \subseteq ns[n].docs
      /\ bs.split # NoSplit /\ AsCpu(bs.split, ns[n].docs)
  <2>1. LeafBook(ns, own, n)
    BY DEF NodesBook
  <2> QED  BY <2>1, SplitIsNoMark DEF LeafBook, Gains, RightDocs
<1>4. more[1].docs = Objects
  BY <1>1, <1>2
<1>5. \A o \in Objects :
        /\ o \in bs.left => next[o] = L + 1 /\ own[o] = n
        /\ o \in bs.right => next[o] = L + 2 /\ own[o] = n
        /\ own[o] # n => next[o] = own[o] /\ o \notin bs.left /\ o \notin bs.right
        /\ own[o] = n => o \in bs.left \/ o \in bs.right
        /\ next[o] \in 1 .. L + 2 /\ next[o] # n
  BY <1>1, <1>3
<1>6. next \in [Objects -> 1 .. L + 2]
  BY <1>5
<1>7. ASSUME NEW o \in Objects PROVE more[next[o]].split = NoSplit
  <2>1. CASE own[o] = n
    BY <1>2, <1>5, <2>1
  <2>2. CASE own[o] # n
    <3>1. next[o] = own[o] /\ own[o] \in 1 .. L /\ more[own[o]] = ns[own[o]]
      BY <1>1, <1>2, <1>5, <2>2
    <3> QED  BY <1>1, <3>1
  <2> QED  BY <2>1, <2>2
<1> HIDE DEF L
<1>8. ASSUME NEW m \in 1 .. L + 2 PROVE LeafBook(more, next, m)
  <2>1. CASE m = n
    BY <1>2, <1>3, <2>1 DEF LeafBook
  <2>2. CASE m \in 1 .. L /\ m # n
    <3>1. more[m] = ns[m] /\ LeafBook(ns, own, m)
      BY <1>2, <2>2 DEF NodesBook, L
    <3>2. \A o \in Objects : next[o] = m <=> own[o] = m
      BY <1>1, <1>5, <2>2
    <3>3. {o \in Objects : next[o] = m} = {o \in Objects : own[o] = m}
      BY <3>2
    <3> QED  BY <3>1, <3>3 DEF LeafBook
  <2>3. CASE m = L + 1
    <3>1. \A o \in Objects : next[o] = m <=> o \in bs.left
      BY <1>1, <1>5, <2>3
    <3>2. bs.left = {o \in Objects : next[o] = m}
      BY <1>3, <3>1
    <3> QED  BY <1>2, <1>3, <2>3, <3>2 DEF LeafBook
  <2>4. CASE m = L + 2
    <3>1. \A o \in Objects : next[o] = m <=> o \in bs.right
      BY <1>1, <1>3, <1>5, <2>4
    <3>2. bs.right = {o \in Objects : next[o] = m}
      BY <1>3, <3>1
    <3> QED  BY <1>2, <1>3, <2>4, <3>2 DEF LeafBook
  <2> QED  BY <1>1, <2>1, <2>2, <2>3, <2>4
<1>9. ASSUME NEW m \in 1 .. L + 2 PROVE ForkBook(more, m)
  <2>1. CASE m = n
    <3>1. L + 1 \in n + 1 .. L + 2 /\ L + 2 \in n + 1 .. L + 2 /\ L + 2 = (L + 1) + 1
      BY <1>1 DEF L
    <3> QED  BY <1>2, <1>3, <2>1, <3>1 DEF ForkBook
  <2>2. CASE m \in 1 .. L /\ m # n
    <3>1. more[m] = ns[m] /\ ForkBook(ns, m)
      BY <1>2, <2>2 DEF NodesBook, L
    <3>2. CASE ns[m].split = NoSplit
      BY <3>1, <3>2 DEF ForkBook
    <3>3. CASE ns[m].split # NoSplit
      <4> DEFINE l == ns[m].left
                 r == ns[m].right
      <4>1. /\ l \in m + 1 .. L /\ r \in m + 1 .. L /\ r = l + 1
            /\ ns[r].docs = RightDocs(ns[m].split, ns[m].docs)
            /\ ns[l].docs = ns[m].docs \ ns[r].docs
            /\ AsCpu(ns[m].split, ns[m].docs)
        BY <3>1, <3>3 DEF ForkBook, L
      <4> HIDE DEF l, r
      <4>2. l \in 1 .. L /\ r \in 1 .. L /\ l \in m + 1 .. L + 2 /\ r \in m + 1 .. L + 2
        BY <1>1, <2>2, <4>1
      <4>3. more[r].docs = ns[r].docs /\ more[l].docs = ns[l].docs
        BY <1>2, <4>2
      <4> QED  BY <1>2, <3>1, <4>1, <4>2, <4>3 DEF ForkBook, l, r
    <3> QED  BY <3>2, <3>3
  <2>3. CASE m = L + 1 \/ m = L + 2
    BY <1>2, <2>3 DEF ForkBook
  <2> QED  BY <1>1, <2>1, <2>2, <2>3
<1> QED  BY <1>1, <1>2, <1>4, <1>6, <1>7, <1>8, <1>9 DEF NodesBook

(* The leaves of Depthwise that are still to be taken up, by their ids.    *)
Level(q, ns) ==
  /\ q \in Seq(Nat)
  /\ \A i \in 1 .. Len(q) : q[i] \in 1 .. Len(ns) /\ ns[q[i]].split = NoSplit
  /\ \A i, j \in 1 .. Len(q) : i < j => q[i] < q[j]

(* The queues of Depthwise: the leaves of this level, in order, and those  *)
(* of the next.                                                            *)
LevelBook(c, nx, ns) ==
  /\ Level(c, ns) /\ Level(nx, ns)
  /\ \A i \in 1 .. Len(c), j \in 1 .. Len(nx) : c[i] < nx[j]

(* A node is split that none of a level is.                                *)
LEMMA LevelStays ==
  ASSUME NEW ns, Len(ns) \in Nat, NEW q, Level(q, ns), NEW n, NEW more, NEW bs, Forks(ns, more, n, bs),
         \A i \in 1 .. Len(q) : q[i] # n
  PROVE  Level(q, more)
<1>1. \A i \in 1 .. Len(q) : q[i] \in 1 .. Len(ns) /\ q[i] # n /\ ns[q[i]].split = NoSplit
  BY DEF Level
<1>2. Len(more) = Len(ns) + 2 /\ \A m \in 1 .. Len(ns) : m # n => more[m] = ns[m]
  BY DEF Forks
<1>3. \A i \in 1 .. Len(q) : q[i] \in 1 .. Len(more) /\ more[q[i]].split = NoSplit
  BY <1>1, <1>2
<1> QED  BY <1>3 DEF Level

(* The rest of a level is a level.                                         *)
LEMMA LevelWithout ==
  ASSUME NEW ns, NEW q, Level(q, ns), q # <<>>
  PROVE  /\ Level(Tail(q), ns) /\ Head(q) = q[1] /\ 1 \in 1 .. Len(q) /\ Len(Tail(q)) = Len(q) - 1
         /\ \A i \in 1 .. Len(Tail(q)) : Tail(q)[i] = q[i + 1] /\ i + 1 \in 1 .. Len(q) /\ q[1] < Tail(q)[i]
<1>1. /\ q \in Seq(Nat) /\ Len(q) \in Nat /\ Len(q) >= 1
      /\ Tail(q) \in Seq(Nat) /\ Len(Tail(q)) = Len(q) - 1 /\ Head(q) = q[1]
      /\ \A i \in 1 .. Len(Tail(q)) : Tail(q)[i] = q[i + 1]
  BY DEF Level
<1>2. \A i \in 1 .. Len(Tail(q)) : i + 1 \in 1 .. Len(q) /\ 1 < i + 1
  BY <1>1
<1>3. \A i, j \in 1 .. Len(Tail(q)) : i < j => Tail(q)[i] < Tail(q)[j]
  <2>1. \A i, j \in 1 .. Len(Tail(q)) : i < j => i + 1 < j + 1
    BY <1>1
  <2> QED  BY <1>1, <1>2, <2>1 DEF Level
<1>4. Level(Tail(q), ns)
  BY <1>1, <1>2, <1>3 DEF Level
<1> QED  BY <1>1, <1>2, <1>4 DEF Level

(* A leaf that is not of the level q forks, and its children are put last. *)
Lengthened(ns, n, bs, more, q, longer) ==
  /\ Len(ns) \in Nat /\ Level(q, ns) /\ Forks(ns, more, n, bs)
  /\ \A i \in 1 .. Len(q) : q[i] # n
  /\ longer = q \o <<Len(ns) + 1, Len(ns) + 2>>

(* The two new leaves extend a level.                                      *)
LEMMA LevelWithTwo ==
  ASSUME NEW ns, NEW q, NEW n, NEW more, NEW bs, NEW longer, Lengthened(ns, n, bs, more, q, longer)
  PROVE  /\ Level(longer, more)
         /\ \A x \in Nat : (x <= Len(ns) /\ \A i \in 1 .. Len(q) : x < q[i]) => \A i \in 1 .. Len(longer) : x < longer[i]
<1> DEFINE a == Len(ns) + 1
           b == Len(ns) + 2
<1> Len(ns) \in Nat /\ Level(q, ns) /\ Forks(ns, more, n, bs) /\ (\A i \in 1 .. Len(q) : q[i] # n)
    /\ longer = q \o <<Len(ns) + 1, Len(ns) + 2>>
  BY DEF Lengthened
<1>1. q \in Seq(Nat) /\ a \in Nat /\ b \in Nat /\ Len(q) \in Nat /\ a < b
  BY DEF Level
<1>2. longer = Longer(q, a, b)
  BY DEF Longer
<1>3. /\ longer \in Seq(Nat) /\ Len(longer) = Len(q) + 2
      /\ \A i \in 1 .. Len(q) : longer[i] = q[i]
      /\ longer[Len(q) + 1] = a /\ longer[Len(q) + 2] = b
  BY <1>1, <1>2, TwoMore
<1>4. \A i \in 1 .. Len(longer) : i \in 1 .. Len(q) \/ i = Len(q) + 1 \/ i = Len(q) + 2
  <2>1. \A m \in Nat : \A i \in 1 .. m + 2 : i \in 1 .. m \/ i = m + 1 \/ i = m + 2
    OBVIOUS
  <2>2. Len(q) \in Nat /\ Len(longer) = Len(q) + 2
    BY <1>1, <1>3
  <2> HIDE DEF a, b
  <2> QED  BY <2>1, <2>2
<1>5. Level(q, more)
  BY LevelStays
<1>6. /\ Len(more) = Len(ns) + 2 /\ more[a].split = NoSplit /\ more[b].split = NoSplit
      /\ a \in 1 .. Len(more) /\ b \in 1 .. Len(more)
  BY DEF Forks, Leaf
<1>7. \A i \in 1 .. Len(q) : q[i] \in Nat /\ q[i] < a /\ q[i] < b
  BY DEF Level
<1> HIDE DEF a, b
<1>8. \A i \in 1 .. Len(longer) : longer[i] \in 1 .. Len(more) /\ more[longer[i]].split = NoSplit
  BY <1>3, <1>4, <1>5, <1>6 DEF Level
<1>9. ASSUME NEW i \in 1 .. Len(longer), NEW j \in 1 .. Len(longer), i < j PROVE longer[i] < longer[j]
  <2>1. CASE j \in 1 .. Len(q)
    <3>1. i \in 1 .. Len(q)
      BY <1>1, <1>9, <2>1
    <3> QED  BY <1>3, <1>9, <2>1, <3>1 DEF Level
  <2>2. CASE j = Len(q) + 1
    <3>1. i \in 1 .. Len(q)
      BY <1>1, <1>9, <2>2
    <3> QED  BY <1>3, <1>7, <2>2, <3>1
  <2>3. CASE j = Len(q) + 2
    <3>1. i \in 1 .. Len(q) \/ i = Len(q) + 1
      BY <1>1, <1>9, <2>3
    <3> QED  BY <1>1, <1>3, <1>7, <2>3, <3>1
  <2> QED  BY <1>4, <2>1, <2>2, <2>3
<1>10. ASSUME NEW x \in Nat, x <= Len(ns), \A i \in 1 .. Len(q) : x < q[i], NEW i \in 1 .. Len(longer)
       PROVE  x < longer[i]
  <2>1. x < a /\ x < b
    BY <1>10 DEF a, b
  <2> QED  BY <1>3, <1>4, <1>10, <2>1
<1> QED  BY <1>3, <1>8, <1>9, <1>10 DEF Level

(* The first leaf of a level is split, or left.                            *)
LEMMA HeadLeavesLevel ==
  ASSUME NEW ns, NEW c, NEW nx, LevelBook(c, nx, ns), c # <<>>
  PROVE  /\ Head(c) \in 1 .. Len(ns) /\ ns[Head(c)].split = NoSplit
         /\ LevelBook(Tail(c), nx, ns)
         /\ \A i \in 1 .. Len(Tail(c)) : Tail(c)[i] # Head(c)
         /\ \A i \in 1 .. Len(nx) : nx[i] # Head(c)
<1>1. Level(c, ns) /\ Level(nx, ns) /\ \A i \in 1 .. Len(c), j \in 1 .. Len(nx) : c[i] < nx[j]
  BY DEF LevelBook
<1>2. /\ Level(Tail(c), ns) /\ Head(c) = c[1] /\ 1 \in 1 .. Len(c)
      /\ \A i \in 1 .. Len(Tail(c)) : Tail(c)[i] = c[i + 1] /\ i + 1 \in 1 .. Len(c) /\ c[1] < Tail(c)[i]
  BY <1>1, LevelWithout
<1>3. c[1] \in Nat /\ \A i \in 1 .. Len(nx) : nx[i] \in Nat /\ c[1] < nx[i]
  BY <1>1, <1>2 DEF Level
<1>4. \A i \in 1 .. Len(Tail(c)) : Tail(c)[i] \in Nat
  BY <1>2 DEF Level
<1>5. c[1] \in 1 .. Len(ns) /\ ns[c[1]].split = NoSplit
  BY <1>1, <1>2 DEF Level
<1>6. LevelBook(Tail(c), nx, ns)
  BY <1>1, <1>2 DEF LevelBook
<1> QED  BY <1>2, <1>3, <1>4, <1>5, <1>6

(* A leaf of a level that forks leaves the level and enters the next.      *)
LEMMA ForkedLevel ==
  ASSUME NEW ns, Len(ns) \in Nat, NEW c, NEW nx, LevelBook(c, nx, ns), c # <<>>,
         NEW more, NEW bs, Forks(ns, more, Head(c), bs)
  PROVE  LevelBook(Tail(c), nx \o <<Len(ns) + 1, Len(ns) + 2>>, more)
<1> DEFINE n == Head(c)
           longer == nx \o <<Len(ns) + 1, Len(ns) + 2>>
<1>1. /\ LevelBook(Tail(c), nx, ns)
      /\ \A i \in 1 .. Len(Tail(c)) : Tail(c)[i] # n
      /\ \A i \in 1 .. Len(nx) : nx[i] # n
  BY HeadLeavesLevel
<1>2. Level(Tail(c), ns) /\ Level(nx, ns) /\ \A i \in 1 .. Len(Tail(c)), j \in 1 .. Len(nx) : Tail(c)[i] < nx[j]
  BY <1>1 DEF LevelBook
<1> HIDE DEF n, longer
<1>3. Level(Tail(c), more)
  BY <1>1, <1>2, LevelStays DEF n
<1>4. /\ Level(longer, more)
      /\ \A x \in Nat : (x <= Len(ns) /\ \A i \in 1 .. Len(nx) : x < nx[i]) => \A i \in 1 .. Len(longer) : x < longer[i]
  <2>1. longer = nx \o <<Len(ns) + 1, Len(ns) + 2>>
    BY DEF longer
  <2>2. Forks(ns, more, n, bs)
    BY DEF n
  <2>3. Lengthened(ns, n, bs, more, nx, longer)
    BY <1>1, <1>2, <2>1, <2>2 DEF Lengthened
  <2> QED  BY <2>3, LevelWithTwo
<1>5. \A i \in 1 .. Len(Tail(c)) : Tail(c)[i] \in Nat /\ Tail(c)[i] <= Len(ns)
  BY <1>2 DEF Level
<1>6. \A i \in 1 .. Len(Tail(c)), j \in 1 .. Len(longer) : Tail(c)[i] < longer[j]
  BY <1>2, <1>4, <1>5
<1> QED  BY <1>3, <1>4, <1>6 DEF LevelBook, longer

(* The next level.                                                         *)
LEMMA NextLevel ==
  ASSUME NEW ns, NEW c, NEW nx, LevelBook(c, nx, ns)
  PROVE  LevelBook(nx, <<>>, ns)
<1>1. Level(<<>>, ns) /\ Len(<<>>) = 0
  BY DEF Level
<1> QED  BY <1>1 DEF LevelBook

(* The queue of Lossguide: leaves that may be split, and their splits.     *)
HeapItems(f) == [node : Nat, best : BestRecords(f)]

(* What the queue of Lossguide says of a leaf.                             *)
Item(x, ns) ==
  /\ x.node \in 1 .. Len(ns) /\ ns[x.node].split = NoSplit /\ ns[x.node].depth < MaxDepth
  /\ Gains(x.best, ns[x.node].docs)

(* The queue names each leaf once.                                         *)
HeapBook(h, ns) ==
  /\ h \in Seq(HeapItems(fit))
  /\ \A i \in 1 .. Len(h) : Item(h[i], ns)
  /\ \A i, j \in 1 .. Len(h) : i # j => h[i].node # h[j].node

(* An empty queue is in order.                                             *)
LEMMA EmptyHeap == ASSUME NEW ns PROVE HeapBook(<<>>, ns)
  BY DEF HeapBook

(* The item popped is one of the queue.                                    *)
LEMMA PoppedIsQueued ==
  ASSUME NEW ns, HeapBook(heap, ns), heap # <<>>
  PROVE  Popped \in 1 .. Len(heap)
<1> DEFINE n == Len(heap)
           g == [i \in 1 .. n |-> heap[i].best.gain]
           First(i) == \A j \in DOMAIN heap \ {i} :
             \/ heap[i].best.gain > heap[j].best.gain
             \/ heap[i].best.gain = heap[j].best.gain /\ i < j
<1>1. n \in Nat \ {0} /\ DOMAIN heap = 1 .. n
  BY DEF HeapBook
<1>2. g \in [1 .. n -> Int]
  <2>1. \A i \in 1 .. n : heap[i].best.gain \in Int
    BY DEF HeapBook, Item, Gains
  <2> QED  BY <2>1
<1>3. PICK x \in {g[i] : i \in 1 .. n} : \A y \in {g[i] : i \in 1 .. n} : x >= y
  <2> HIDE DEF g, n
  <2> QED  BY <1>1, <1>2, GreatestOfList
<1> DEFINE S == {i \in 1 .. n : g[i] = x}
<1>4. S # {} /\ S \in SUBSET Nat
  BY <1>1, <1>3
<1>5. PICK i \in S : \A y \in S : i <= y
  <2> HIDE DEF S
  <2> QED  BY <1>4, LeastElement
<1>6. i \in 1 .. n /\ g[i] = x
  OBVIOUS
<1>7. ASSUME NEW j \in DOMAIN heap \ {i}
      PROVE  heap[i].best.gain > heap[j].best.gain \/ (heap[i].best.gain = heap[j].best.gain /\ i < j)
  <2>1. j \in 1 .. n /\ j # i
    BY <1>1
  <2>2. g[j] <= x /\ g[j] \in Int /\ x \in Int /\ g[j] = heap[j].best.gain /\ x = heap[i].best.gain
    BY <1>2, <1>3, <1>6, <2>1
  <2>3. CASE g[j] = x
    <3>1. j \in S
      BY <2>1, <2>3
    <3>2. i <= j
      BY <1>5, <3>1
    <3> QED  BY <1>1, <1>6, <2>1, <2>2, <2>3, <3>2
  <2>4. CASE g[j] # x
    BY <2>2, <2>4
  <2> QED  BY <2>3, <2>4
<1>8. First(i) /\ i \in DOMAIN heap
  BY <1>1, <1>6, <1>7
<1>9. Popped = CHOOSE k \in DOMAIN heap : First(k)
  BY DEF Popped
<1> HIDE DEF First
<1>10. Popped \in DOMAIN heap
  BY <1>8, <1>9
<1> QED  BY <1>1, <1>10

(* What is left when it is taken out.                                      *)
LEMMA Removed ==
  ASSUME NEW S, NEW s \in Seq(S), NEW p \in 1 .. Len(s)
  PROVE  /\ RemoveAt(s, p) \in Seq(S) /\ Len(RemoveAt(s, p)) = Len(s) - 1
         /\ \A i \in 1 .. Len(s) - 1 : RemoveAt(s, p)[i] = s[IF i < p THEN i ELSE i + 1]
<1> DEFINE a == SubSeq(s, 1, p - 1)
           b == SubSeq(s, p + 1, Len(s))
           n == Len(s)
<1>1. n \in Nat /\ p \in 1 .. n
  OBVIOUS
<1>2. a \in Seq(S) /\ Len(a) = p - 1 /\ \A i \in 1 .. p - 1 : a[i] = s[i]
  BY <1>1
<1>3. b \in Seq(S) /\ Len(b) = n - p /\ \A i \in 1 .. n - p : b[i] = s[p + i]
  BY <1>1
<1>4. RemoveAt(s, p) = a \o b
  BY DEF RemoveAt
<1> HIDE DEF a, b, n
<1>5. /\ a \o b \in Seq(S) /\ Len(a \o b) = Len(a) + Len(b)
      /\ \A i \in 1 .. Len(a) + Len(b) : (a \o b)[i] = IF i <= Len(a) THEN a[i] ELSE b[i - Len(a)]
  BY <1>2, <1>3, ConcatProperties
<1>6. Len(a) + Len(b) = n - 1
  BY <1>1, <1>2, <1>3
<1>7. ASSUME NEW i \in 1 .. n - 1 PROVE (a \o b)[i] = s[IF i < p THEN i ELSE i + 1]
  <2>1. CASE i < p
    BY <1>1, <1>2, <1>5, <1>6, <2>1
  <2>2. CASE ~(i < p)
    <3>1. i - (p - 1) \in 1 .. n - p /\ p + (i - (p - 1)) = i + 1
      BY <1>1, <2>2
    <3>2. b[i - (p - 1)] = s[i + 1]
      BY <1>3, <3>1
    <3> QED  BY <1>1, <1>2, <1>5, <1>6, <2>2, <3>2
  <2> QED  BY <2>1, <2>2
<1> QED  BY <1>4, <1>5, <1>6, <1>7 DEF n

(* The other items stand once the node of one of them is split.            *)
LEMMA HeapWithout ==
  ASSUME NEW ns, Len(ns) \in Nat, NEW h, HeapBook(h, ns), NEW p \in 1 .. Len(h),
         NEW more, NEW bs, Forks(ns, more, h[p].node, bs)
  PROVE  /\ HeapBook(RemoveAt(h, p), more)
         /\ \A i \in 1 .. Len(RemoveAt(h, p)) : RemoveAt(h, p)[i].node <= Len(ns)
<1> DEFINE r == RemoveAt(h, p)
           at(i) == IF i < p THEN i ELSE i + 1
<1>1. h \in Seq(HeapItems(fit)) /\ Len(h) \in Nat
  BY DEF HeapBook
<1>2. r \in Seq(HeapItems(fit)) /\ Len(r) = Len(h) - 1 /\ \A i \in 1 .. Len(h) - 1 : r[i] = h[at(i)]
  BY <1>1, Removed
<1>3. \A i \in 1 .. Len(h) - 1 : at(i) \in 1 .. Len(h) /\ at(i) # p
  BY <1>1
<1>4. \A i, j \in 1 .. Len(h) - 1 : i # j => at(i) # at(j)
  BY <1>1
<1> HIDE DEF r, at
<1>5. ASSUME NEW i \in 1 .. Len(r) PROVE Item(r[i], more) /\ r[i].node <= Len(ns)
  <2> DEFINE x == h[at(i)]
             m == x.node
  <2>1. at(i) \in 1 .. Len(h) /\ at(i) # p /\ r[i] = x
    BY <1>2, <1>3
  <2>2. Item(x, ns) /\ m # h[p].node
    BY <2>1 DEF HeapBook
  <2>3. m \in 1 .. Len(ns) /\ more[m] = ns[m] /\ Len(more) = Len(ns) + 2
    BY <2>2 DEF Item, Forks
  <2> HIDE DEF x
  <2> QED  BY <2>1, <2>2, <2>3 DEF Item
<1>6. ASSUME NEW i \in 1 .. Len(r), NEW j \in 1 .. Len(r), i # j PROVE r[i].node # r[j].node
  <2>1. /\ at(i) \in 1 .. Len(h) /\ at(j) \in 1 .. Len(h) /\ at(i) # at(j)
        /\ r[i] = h[at(i)] /\ r[j] = h[at(j)]
    BY <1>2, <1>3, <1>4, <1>6
  <2> QED  BY <2>1 DEF HeapBook
<1> QED  BY <1>2, <1>5, <1>6 DEF HeapBook, r

(* A set of one element, as a list.                                        *)
LEMMA ListOfNone == SetToSeq({}) = <<>>
<1>1. Cardinality({}) = 0
  BY FS_EmptySet
<1>2. SetToSeq({}) = CHOOSE f \in [1 .. 0 -> {}] : IsInjective(f)
  BY <1>1 DEF SetToSeq
<1>3. <<>> \in [1 .. 0 -> {}] /\ IsInjective(<<>>)
  BY DEF IsInjective
<1>4. (CHOOSE f \in [1 .. 0 -> {}] : IsInjective(f)) \in [1 .. 0 -> {}]
  BY <1>3
<1>5. \A f \in [1 .. 0 -> {}] : f = <<>>
  OBVIOUS
<1> QED  BY <1>2, <1>4, <1>5

(* The list of a set of one element.                                       *)
LEMMA ListOfOne == ASSUME NEW x PROVE SetToSeq({x}) = <<x>>
<1>1. Cardinality({x}) = 1
  BY FS_Singleton
<1>2. SetToSeq({x}) = CHOOSE f \in [1 .. 1 -> {x}] : IsInjective(f)
  BY <1>1 DEF SetToSeq
<1>3. <<x>> \in [1 .. 1 -> {x}] /\ IsInjective(<<x>>)
  BY DEF IsInjective
<1>4. (CHOOSE f \in [1 .. 1 -> {x}] : IsInjective(f)) \in [1 .. 1 -> {x}]
  BY <1>3
<1>5. \A f \in [1 .. 1 -> {x}] : f = <<x>>
  OBVIOUS
<1> QED  BY <1>2, <1>4, <1>5

(* What is queued of a leaf.                                               *)
LEMMA QueuedBook ==
  ASSUME fit \in Fits, NEW ns, NEW n \in 1 .. Len(ns), Len(ns) \in Nat, ns[n].split = NoSplit,
         ns[n].docs \in SUBSET Objects, ns[n].depth \in 0 .. MaxDepth
  PROVE  /\ HeapBook(Queued(n, ns[n].docs, ns[n].depth), ns)
         /\ \A i \in 1 .. Len(Queued(n, ns[n].docs, ns[n].depth)) : Queued(n, ns[n].docs, ns[n].depth)[i].node = n
<1> DEFINE docs == ns[n].docs
           q == Queued(n, docs, ns[n].depth)
           items == {[node |-> n, best |-> bs] : bs \in best_split(docs)}
<1>1. CASE q = <<>>
  <2>1. Len(<<>>) = 0
    OBVIOUS
  <2> HIDE DEF q, docs
  <2> QED  BY <1>1, <2>1, EmptyHeap DEF q, docs
<1>2. CASE q # <<>>
  <2>1. ~(ns[n].depth >= MaxDepth) /\ q = SetToSeq(items)
    BY <1>2 DEF Queued
  <2>2. items # {}
    <3> HIDE DEF items, q
    <3> QED  BY <1>2, <2>1, ListOfNone
  <2>3. PICK bs \in best_split(docs) : TRUE
    BY <2>2
  <2>4. Gains(bs, docs) /\ best_split(docs) = {bs}
    BY BestSplitHalves
  <2> DEFINE x == [node |-> n, best |-> bs]
  <2>5. items = {x}
    BY <2>4
  <2>6. x.node = n /\ x.best = bs /\ x \in HeapItems(fit)
    <3>1. bs \in BestRecords(fit)
      BY <2>4 DEF Gains
    <3> QED  BY <3>1 DEF HeapItems
  <2> HIDE DEF items, x
  <2>7. q = <<x>>
    <3> HIDE DEF q
    <3> QED  BY <2>1, <2>5, ListOfOne
  <2>8. ns[n].depth < MaxDepth
    BY <2>1, FitsAssumption
  <2>9. Item(x, ns)
    BY <2>4, <2>6, <2>8 DEF Item
  <2> HIDE DEF q, docs
  <2>10. q \in Seq(HeapItems(fit)) /\ Len(q) = 1 /\ q[1] = x
    BY <2>6, <2>7
  <2>11. \A i \in 1 .. Len(q) : i = 1
    BY <2>10
  <2>12. HeapBook(q, ns) /\ \A i \in 1 .. Len(q) : q[i].node = n
    BY <2>6, <2>9, <2>10, <2>11 DEF HeapBook
  <2> QED  BY <2>12 DEF q, docs
<1> QED  BY <1>1, <1>2

(* Two queues of different leaves.                                         *)
LEMMA JoinedHeaps ==
  ASSUME NEW ns, NEW g, NEW h, HeapBook(g, ns), HeapBook(h, ns),
         \A i \in 1 .. Len(g), j \in 1 .. Len(h) : g[i].node # h[j].node
  PROVE  /\ HeapBook(g \o h, ns) /\ Len(g) \in Nat /\ Len(h) \in Nat /\ Len(g \o h) = Len(g) + Len(h)
         /\ \A i \in 1 .. Len(g \o h) : \/ \E j \in 1 .. Len(g) : (g \o h)[i] = g[j]
                                        \/ \E j \in 1 .. Len(h) : (g \o h)[i] = h[j]
<1> DEFINE t == g \o h
           a == Len(g)
           b == Len(h)
<1>1. g \in Seq(HeapItems(fit)) /\ h \in Seq(HeapItems(fit)) /\ a \in Nat /\ b \in Nat
  BY DEF HeapBook
<1>2. /\ t \in Seq(HeapItems(fit)) /\ Len(t) = a + b
      /\ \A i \in 1 .. a + b : t[i] = IF i <= a THEN g[i] ELSE h[i - a]
  BY <1>1, ConcatProperties
<1> HIDE DEF t
<1>3. ASSUME NEW i \in 1 .. a + b
      PROVE  \/ i \in 1 .. a /\ t[i] = g[i]
             \/ i - a \in 1 .. b /\ t[i] = h[i - a]
  <2>1. CASE i <= a
    BY <1>1, <1>2, <2>1
  <2>2. CASE ~(i <= a)
    BY <1>1, <1>2, <2>2
  <2> QED  BY <2>1, <2>2
<1>4. ASSUME NEW i \in 1 .. Len(t) PROVE Item(t[i], ns)
  BY <1>2, <1>3 DEF HeapBook
<1>5. ASSUME NEW i \in 1 .. Len(t), NEW j \in 1 .. Len(t), i # j PROVE t[i].node # t[j].node
  <2> HIDE DEF a, b
  <2>1. i \in 1 .. a + b /\ j \in 1 .. a + b
    BY <1>2
  <2>2. CASE /\ i \in 1 .. a /\ t[i] = g[i]
             /\ j \in 1 .. a /\ t[j] = g[j]
    BY <1>5, <2>2 DEF HeapBook, a
  <2>3. CASE /\ i \in 1 .. a /\ t[i] = g[i]
             /\ j - a \in 1 .. b /\ t[j] = h[j - a]
    BY <2>3 DEF a, b
  <2>4. CASE /\ i - a \in 1 .. b /\ t[i] = h[i - a]
             /\ j \in 1 .. a /\ t[j] = g[j]
    BY <2>4 DEF a, b
  <2>5. CASE /\ i - a \in 1 .. b /\ t[i] = h[i - a]
             /\ j - a \in 1 .. b /\ t[j] = h[j - a]
    <3>1. i - a # j - a
      BY <1>1, <1>5, <2>1
    <3> QED  BY <2>5, <3>1 DEF HeapBook, b
  <2> QED  BY <1>3, <2>1, <2>2, <2>3, <2>4, <2>5
<1>6. ASSUME NEW i \in 1 .. Len(t)
      PROVE  (\E j \in 1 .. Len(g) : t[i] = g[j]) \/ (\E j \in 1 .. Len(h) : t[i] = h[j])
  BY <1>2, <1>3
<1>7. HeapBook(t, ns)
  BY <1>2, <1>4, <1>5 DEF HeapBook
<1> QED  BY <1>1, <1>2, <1>6, <1>7 DEF t

(* The leaves of a list of nodes.                                          *)
LeavesOf(ns) == {n \in 1 .. Len(ns) : ns[n].split = NoSplit}

(* There are no more leaves than objects.                                  *)
LEMMA LeavesCounted ==
  ASSUME NEW ns, NEW own, NodesBook(ns, own)
  PROVE  IsFiniteSet(LeavesOf(ns)) /\ Cardinality(LeavesOf(ns)) \in 0 .. N
<1> DEFINE T == {own[o] : o \in Objects}
<1>1. own \in [Objects -> 1 .. Len(ns)] /\ \A o \in Objects : ns[own[o]].split = NoSplit
  BY DEF NodesBook
<1>2. ASSUME NEW n \in LeavesOf(ns) PROVE n \in T
  <2>1. n \in 1 .. Len(ns) /\ ns[n].split = NoSplit /\ LeafBook(ns, own, n)
    BY DEF LeavesOf, NodesBook
  <2>2. PICK o \in Objects : own[o] = n
    BY <2>1 DEF LeafBook
  <2> QED  BY <2>2
<1>3. ASSUME NEW n \in T PROVE n \in LeavesOf(ns)
  BY <1>1 DEF LeavesOf
<1>4. LeavesOf(ns) = T
  BY <1>2, <1>3
<1>5. IsFiniteSet(T) /\ Cardinality(T) <= Cardinality(Objects)
  <2>1. DOMAIN own = Objects
    BY <1>1
  <2> HIDE DEF T
  <2> QED  BY <2>1, ObjectsAreFinite, FiniteValues DEF T
<1> HIDE DEF T
<1>6. Cardinality(T) \in Nat
  BY <1>5, FS_CardinalityType
<1> QED  BY <1>4, <1>5, <1>6, ObjectsAreFinite

(* A split makes one leaf more.                                            *)
LEMMA ForkedLeaves ==
  ASSUME NEW ns, Len(ns) \in Nat, IsFiniteSet(LeavesOf(ns)), NEW n \in LeavesOf(ns),
         NEW more, NEW bs, Forks(ns, more, n, bs), bs.split # NoSplit
  PROVE  Cardinality(LeavesOf(more)) = Cardinality(LeavesOf(ns)) + 1
<1> DEFINE A == LeavesOf(ns)
           B == A \ {n}
           C == B \cup {Len(ns) + 1}
           D == C \cup {Len(ns) + 2}
<1>1. /\ n \in 1 .. Len(ns) /\ ns[n].split = NoSplit
      /\ Len(more) = Len(ns) + 2
      /\ \A m \in 1 .. Len(ns) : m # n => more[m] = ns[m]
      /\ more[n].split # NoSplit
      /\ more[Len(ns) + 1].split = NoSplit /\ more[Len(ns) + 2].split = NoSplit
  BY DEF Forks, Leaf, LeavesOf
<1>2. ASSUME NEW m PROVE m \in LeavesOf(more) <=> m \in D
  <2>1. CASE m \in 1 .. Len(ns)
    <3>1. m # Len(ns) + 1 /\ m # Len(ns) + 2 /\ m \in 1 .. Len(more)
      BY <1>1, <2>1
    <3>2. CASE m = n
      BY <1>1, <3>1, <3>2 DEF LeavesOf
    <3>3. CASE m # n
      BY <1>1, <2>1, <3>1, <3>3 DEF LeavesOf
    <3> QED  BY <3>2, <3>3
  <2>2. CASE m = Len(ns) + 1 \/ m = Len(ns) + 2
    <3>1. m \in 1 .. Len(more) /\ more[m].split = NoSplit
      BY <1>1, <2>2
    <3> QED  BY <2>2, <3>1 DEF LeavesOf
  <2>3. CASE m \notin 1 .. Len(ns) /\ m # Len(ns) + 1 /\ m # Len(ns) + 2
    <3>1. \A k \in Nat : \A i \in 1 .. k + 2 : i \in 1 .. k \/ i = k + 1 \/ i = k + 2
      OBVIOUS
    <3>2. m \notin 1 .. Len(more)
      BY <1>1, <2>3, <3>1
    <3> QED  BY <2>3, <3>2 DEF LeavesOf
  <2> QED  BY <2>1, <2>2, <2>3
<1>3. LeavesOf(more) = D
  BY <1>2
<1>4. Len(ns) + 1 \notin B /\ Len(ns) + 2 \notin C
  <2>1. \A m \in A : m \in 1 .. Len(ns)
    BY DEF LeavesOf
  <2>2. Len(ns) + 1 \notin 1 .. Len(ns) /\ Len(ns) + 2 \notin 1 .. Len(ns) /\ Len(ns) + 1 # Len(ns) + 2
    OBVIOUS
  <2> HIDE DEF A
  <2> QED  BY <2>1, <2>2
<1> HIDE DEF A, B, C, D
<1>5. IsFiniteSet(B) /\ Cardinality(B) = Cardinality(A) - 1 /\ Cardinality(A) \in Nat
  BY FS_RemoveElement, FS_CardinalityType DEF A, B
<1>6. IsFiniteSet(C) /\ Cardinality(C) = Cardinality(B) + 1
  BY <1>4, <1>5, FS_AddElement DEF C
<1>7. IsFiniteSet(D) /\ Cardinality(D) = Cardinality(C) + 1
  BY <1>4, <1>6, FS_AddElement DEF D
<1> QED  BY <1>3, <1>5, <1>6, <1>7 DEF A

-----------------------------------------------------------------------------
(* What a leaf-wise search keeps.                                          *)
LeafWiseBook(ns, own, c, nx, h, lc) ==
  /\ NodesBook(ns, own)
  /\ fit.policy = "Depthwise" => LevelBook(c, nx, ns)
  /\ fit.policy = "Lossguide" => HeapBook(h, ns)
  /\ lc = 0 \/ (fit.policy = "Lossguide" /\ lc = Cardinality(LeavesOf(ns)))
  /\ fit.policy = "Lossguide" /\ lc = 0 => Len(ns) = 1 /\ ns[1].split = NoSplit /\ ns[1].depth = 0

(* The leaf-wise books, of a state and of the state after a step.          *)
LeafWise == LeafWiseBook(nodes, leaf_owner, current_level, next_level, heap, leaf_count)
NextLeafWise == LeafWiseBook(nodes', leaf_owner', current_level', next_level', heap', leaf_count')

(* A tree of one leaf is booked.                                           *)
LEMMA FreshLeafWise ==
  ASSUME fit \in Fits, LeafWiseInit
  PROVE  LeafWise
<1> DEFINE a == Leaf(Objects, 0)
<1>1. nodes = <<a>> /\ leaf_owner = [o \in Objects |-> 1] /\ current_level = <<1>> /\ next_level = <<>>
      /\ heap = <<>> /\ leaf_count = 0
  BY DEF LeafWiseInit
<1>2. a \in NodeRecords /\ a.docs = Objects /\ a.split = NoSplit /\ a.depth = 0
  BY FitsAssumption DEF NodeRecords, Leaf
<1> HIDE DEF a
<1>3. nodes \in Seq(NodeRecords) /\ Len(nodes) = 1 /\ nodes[1] = a
  BY <1>1, <1>2
<1>4. Objects # {}
  <2>1. 0 \in 0 .. N - 1
    BY FitsAssumption
  <2> QED  BY <2>1 DEF Objects
<1>5. \A n \in 1 .. Len(nodes) : n = 1
  BY <1>3
<1>6. LeafBook(nodes, leaf_owner, 1) /\ ForkBook(nodes, 1)
  BY <1>1, <1>2, <1>3, <1>4 DEF LeafBook, ForkBook
<1>7. leaf_owner \in [Objects -> 1 .. 1] /\ \A o \in Objects : leaf_owner[o] = 1
  BY <1>1
<1>8. NodesBook(nodes, leaf_owner)
  BY <1>2, <1>3, <1>5, <1>6, <1>7 DEF NodesBook
<1>9. LevelBook(current_level, next_level, nodes)
  <2>1. Level(<<1>>, nodes) /\ Len(<<>>) = 0 /\ Level(<<>>, nodes)
    BY <1>2, <1>3 DEF Level
  <2> QED  BY <1>1, <2>1 DEF LevelBook
<1> QED  BY <1>1, <1>2, <1>3, <1>8, <1>9, EmptyHeap DEF LeafWise, LeafWiseBook

(* A leaf is split.                                                        *)
LEMMA SplitIsBooked ==
  ASSUME fit \in Fits, NodesBook(nodes, leaf_owner), NEW n \in 1 .. Len(nodes), nodes[n].split = NoSplit,
         nodes[n].depth < MaxDepth, NEW bs, Gains(bs, nodes[n].docs), do_split(n, bs)
  PROVE  /\ NodesBook(nodes', leaf_owner') /\ Forks(nodes, nodes', n, bs)
         /\ Cardinality(LeavesOf(nodes')) = Cardinality(LeavesOf(nodes)) + 1
<1>1. nodes \in Seq(NodeRecords) /\ Len(nodes) \in Nat
  BY DEF NodesBook
<1> DEFINE l == Len(nodes) + 1
           d == nodes[n].depth + 1
<1>2. /\ nodes' = [nodes EXCEPT ![n] = Fork(nodes[n], bs.split, l)] \o <<Leaf(bs.left, d), Leaf(bs.right, d)>>
      /\ leaf_owner' = [o \in Objects |-> IF o \in bs.left THEN l
                                          ELSE IF o \in bs.right THEN l + 1 ELSE leaf_owner[o]]
  BY DEF do_split
<1>3. Forks(nodes, nodes', n, bs)
  <2> HIDE DEF l, d
  <2>1. l = Len(nodes) + 1 /\ d = nodes[n].depth + 1
    BY DEF l, d
  <2> QED  BY <1>1, <1>2, <2>1, ForkedNodes
<1>4. l + 1 = Len(nodes) + 2
  BY <1>1
<1>5. leaf_owner' = [o \in Objects |-> IF o \in bs.left THEN Len(nodes) + 1
                                       ELSE IF o \in bs.right THEN Len(nodes) + 2 ELSE leaf_owner[o]]
  BY <1>2, <1>4
<1>6. NodesBook(nodes', leaf_owner')
  <2> HIDE DEF l, d
  <2> QED  BY <1>3, <1>5, ForkKeepsBook
<1>7. bs.split # NoSplit
  BY SplitIsNoMark DEF Gains
<1>8. n \in LeavesOf(nodes) /\ IsFiniteSet(LeavesOf(nodes))
  BY LeavesCounted DEF LeavesOf
<1>9. Cardinality(LeavesOf(nodes')) = Cardinality(LeavesOf(nodes)) + 1
  BY <1>1, <1>3, <1>7, <1>8, ForkedLeaves
<1> QED  BY <1>3, <1>6, <1>9

(* What the book says of one node.                                         *)
LEMMA NodeFacts ==
  ASSUME NodesBook(nodes, leaf_owner), NEW n \in 1 .. Len(nodes)
  PROVE  nodes[n].docs \in SUBSET Objects /\ nodes[n].depth \in 0 .. MaxDepth
<1>1. nodes \in Seq(NodeRecords)
  BY DEF NodesBook
<1>2. nodes[n] \in NodeRecords
  BY <1>1
<1> QED  BY <1>2 DEF NodeRecords

(* Splitting a leaf of a Depthwise level keeps the book.                   *)
LEMMA DepthwiseLeafIsBooked ==
  ASSUME fit \in Fits, LeafWise, DepthwiseLeaf
  PROVE  NextLeafWise
<1> DEFINE n == Head(current_level)
<1>1. /\ NodesBook(nodes, leaf_owner) /\ LevelBook(current_level, next_level, nodes)
      /\ leaf_count = 0
  BY DEF LeafWise, LeafWiseBook, DepthwiseLeaf
<1>2. /\ fit.policy = "Depthwise" /\ current_level # <<>> /\ nodes[n].depth # MaxDepth
      /\ current_level' = Tail(current_level) /\ UNCHANGED <<heap, leaf_count>>
  BY DEF DepthwiseLeaf, LevelIsDone
<1>3. PICK best : /\ best = best_split(nodes[n].docs)
                  /\ \/ best = {} /\ UNCHANGED <<nodes, leaf_owner, next_level>>
                     \/ \E bs \in best : /\ do_split(n, bs)
                                         /\ next_level' = next_level \o <<Len(nodes) + 1, Len(nodes) + 2>>
  BY DEF DepthwiseLeaf
<1>4. n \in 1 .. Len(nodes) /\ nodes[n].split = NoSplit /\ LevelBook(Tail(current_level), next_level, nodes)
  BY <1>1, <1>2, HeadLeavesLevel
<1>5. nodes[n].docs \in SUBSET Objects /\ nodes[n].depth < MaxDepth
  <2>1. nodes[n].docs \in SUBSET Objects /\ nodes[n].depth \in 0 .. MaxDepth /\ MaxDepth \in Nat
    BY <1>1, <1>4, NodeFacts, FitsAssumption
  <2> QED  BY <1>2, <2>1
<1>6. CASE UNCHANGED <<nodes, leaf_owner, next_level>>
  BY <1>1, <1>2, <1>4, <1>6 DEF NextLeafWise, LeafWiseBook
<1>7. ASSUME NEW bs \in best, do_split(n, bs), next_level' = next_level \o <<Len(nodes) + 1, Len(nodes) + 2>>
      PROVE  NextLeafWise
  <2>1. Gains(bs, nodes[n].docs)
    BY <1>3, <1>5, BestSplitHalves
  <2>2. NodesBook(nodes', leaf_owner') /\ Forks(nodes, nodes', n, bs)
    <3> HIDE DEF n
    <3> QED  BY <1>1, <1>4, <1>5, <1>7, <2>1, SplitIsBooked
  <2>3. Len(nodes) \in Nat
    BY <1>1 DEF NodesBook
  <2>4. LevelBook(current_level', next_level', nodes')
    BY <1>1, <1>2, <1>7, <2>2, <2>3, ForkedLevel
  <2> QED  BY <1>1, <1>2, <2>2, <2>4 DEF NextLeafWise, LeafWiseBook
<1> QED  BY <1>3, <1>6, <1>7

(* So does going to the next level.                                        *)
LEMMA DepthwiseLevelIsBooked ==
  ASSUME LeafWise, DepthwiseLevel
  PROVE  NextLeafWise
<1>1. /\ fit.policy = "Depthwise" /\ current_level' = next_level /\ next_level' = <<>>
      /\ UNCHANGED <<nodes, leaf_owner, heap, leaf_count>>
  BY DEF DepthwiseLevel
<1>2. NodesBook(nodes, leaf_owner) /\ LevelBook(current_level, next_level, nodes) /\ leaf_count = 0
  BY <1>1 DEF LeafWise, LeafWiseBook
<1>3. LevelBook(next_level, <<>>, nodes)
  BY <1>2, NextLevel
<1> QED  BY <1>1, <1>2, <1>3 DEF NextLeafWise, LeafWiseBook

(* Filing the root of a Lossguide tree keeps the book.                     *)
LEMMA LossguideRootIsBooked ==
  ASSUME fit \in Fits, LeafWise, LossguideRoot
  PROVE  NextLeafWise
<1>1. /\ fit.policy = "Lossguide" /\ leaf_count = 0 /\ heap' = Queued(1, Objects, 0) /\ leaf_count' = 1
      /\ UNCHANGED <<nodes, leaf_owner, current_level, next_level>>
  BY DEF LossguideRoot
<1>2. /\ NodesBook(nodes, leaf_owner) /\ Len(nodes) = 1 /\ nodes[1].split = NoSplit /\ nodes[1].depth = 0
      /\ nodes[1].docs = Objects /\ 1 \in 1 .. Len(nodes)
  BY <1>1 DEF LeafWise, LeafWiseBook, NodesBook
<1>3. HeapBook(heap', nodes)
  <2>1. nodes[1].depth \in 0 .. MaxDepth
    BY <1>2, NodeFacts
  <2>2. HeapBook(Queued(1, nodes[1].docs, nodes[1].depth), nodes)
    BY <1>2, <2>1, QueuedBook
  <2> QED  BY <1>1, <1>2, <2>2
<1>4. LeavesOf(nodes) = {1}
  <2>1. \A n \in 1 .. 1 : n = 1
    OBVIOUS
  <2> QED  BY <1>2, <2>1 DEF LeavesOf
<1>5. leaf_count' = Cardinality(LeavesOf(nodes))
  BY <1>1, <1>4, FS_Singleton
<1> QED  BY <1>1, <1>2, <1>3, <1>5 DEF NextLeafWise, LeafWiseBook

(* So does splitting the leaf that gains most, and filing its two halves.  *)
LEMMA LossguideLeafIsBooked ==
  ASSUME fit \in Fits, LeafWise, LossguideLeaf
  PROVE  NextLeafWise
<1> DEFINE p == Popped
           item == heap[p]
           n == item.node
           bs == item.best
           d == nodes[n].depth + 1
           l == Len(nodes) + 1
           rest == RemoveAt(heap, p)
           lq == Queued(l, bs.left, d)
           rq == Queued(l + 1, bs.right, d)
<1>1. /\ fit.policy = "Lossguide" /\ leaf_count > 0 /\ heap # <<>>
      /\ do_split(n, bs) /\ heap' = rest \o lq \o rq /\ leaf_count' = leaf_count + 1
      /\ UNCHANGED <<current_level, next_level>>
  BY Zenon DEF LossguideLeaf
<1>2. NodesBook(nodes, leaf_owner) /\ HeapBook(heap, nodes) /\ leaf_count = Cardinality(LeavesOf(nodes))
  <2>1. fit.policy = "Lossguide" /\ leaf_count # 0
    BY <1>1
  <2>2. LeafWiseBook(nodes, leaf_owner, current_level, next_level, heap, leaf_count)
    BY ZenonT(30) DEF LeafWise
  <2> HIDE DEF p, item, n, bs, d, l, rest, lq, rq
  <2> QED  BY <2>1, <2>2, SMTT(30) DEF LeafWiseBook
<1>3. p \in 1 .. Len(heap)
  BY <1>1, <1>2, PoppedIsQueued
<1>4. /\ n \in 1 .. Len(nodes) /\ nodes[n].split = NoSplit /\ nodes[n].depth < MaxDepth
      /\ Gains(bs, nodes[n].docs)
  <2>1. Item(heap[p], nodes)
    BY <1>2, <1>3 DEF HeapBook
  <2> QED  BY <2>1 DEF Item
<1>5. Len(nodes) \in Nat /\ nodes[n].depth \in 0 .. MaxDepth /\ MaxDepth \in Nat
  <2>1. Len(nodes) \in Nat
    BY <1>2 DEF NodesBook
  <2> QED  BY <1>2, <1>4, <2>1, NodeFacts, FitsAssumption
<1> HIDE DEF p
<1>6. /\ NodesBook(nodes', leaf_owner') /\ Forks(nodes, nodes', n, bs)
      /\ Cardinality(LeavesOf(nodes')) = Cardinality(LeavesOf(nodes)) + 1
  <2> HIDE DEF item
  <2> QED  BY <1>1, <1>2, <1>4, SplitIsBooked
<1>7. /\ HeapBook(rest, nodes') /\ \A i \in 1 .. Len(rest) : rest[i].node <= Len(nodes)
  BY <1>2, <1>3, <1>5, <1>6, HeapWithout
<1>8. /\ Len(nodes') = Len(nodes) + 2 /\ nodes'[l] = Leaf(bs.left, d) /\ nodes'[l + 1] = Leaf(bs.right, d)
  <2>1. l + 1 = Len(nodes) + 2
    BY <1>5
  <2> HIDE DEF item
  <2> QED  BY <1>6, <2>1 DEF Forks
<1>9. /\ nodes'[l].docs = bs.left /\ nodes'[l].depth = d /\ nodes'[l].split = NoSplit
      /\ nodes'[l + 1].docs = bs.right /\ nodes'[l + 1].depth = d /\ nodes'[l + 1].split = NoSplit
      /\ l \in 1 .. Len(nodes') /\ l + 1 \in 1 .. Len(nodes') /\ Len(nodes') \in Nat
      /\ bs.left \in SUBSET Objects /\ bs.right \in SUBSET Objects /\ d \in 0 .. MaxDepth
  <2>1. d \in 0 .. MaxDepth
    BY <1>4, <1>5
  <2>2. bs.left \in SUBSET Objects /\ bs.right \in SUBSET Objects
    BY <1>4 DEF Gains
  <2>3. l \in 1 .. Len(nodes') /\ l + 1 \in 1 .. Len(nodes') /\ Len(nodes') \in Nat
    BY <1>5, <1>8
  <2> HIDE DEF item, d, l
  <2> QED  BY <1>8, <2>1, <2>2, <2>3 DEF Leaf
<1> HIDE DEF item, d, rest, l, n, bs
<1>10. /\ HeapBook(lq, nodes') /\ \A i \in 1 .. Len(lq) : lq[i].node = l
  <2>1. /\ HeapBook(Queued(l, nodes'[l].docs, nodes'[l].depth), nodes')
        /\ \A i \in 1 .. Len(Queued(l, nodes'[l].docs, nodes'[l].depth)) :
             Queued(l, nodes'[l].docs, nodes'[l].depth)[i].node = l
    BY <1>9, QueuedBook
  <2> QED  BY <1>9, <2>1
<1>11. /\ HeapBook(rq, nodes') /\ \A i \in 1 .. Len(rq) : rq[i].node = l + 1
  <2>1. /\ HeapBook(Queued(l + 1, nodes'[l + 1].docs, nodes'[l + 1].depth), nodes')
        /\ \A i \in 1 .. Len(Queued(l + 1, nodes'[l + 1].docs, nodes'[l + 1].depth)) :
             Queued(l + 1, nodes'[l + 1].docs, nodes'[l + 1].depth)[i].node = l + 1
    BY <1>9, QueuedBook
  <2> QED  BY <1>9, <2>1
<1> HIDE DEF lq, rq
<1>12. /\ HeapBook(rest \o lq, nodes')
       /\ \A i \in 1 .. Len(rest \o lq) : (rest \o lq)[i].node # l + 1
  <2>1. \A i \in 1 .. Len(rest) : rest[i].node \in Nat /\ rest[i].node <= Len(nodes)
    BY <1>7 DEF HeapBook, Item
  <2>2. \A i \in 1 .. Len(rest), j \in 1 .. Len(lq) : rest[i].node # lq[j].node
    BY <1>5, <1>10, <2>1 DEF l
  <2>3. /\ HeapBook(rest \o lq, nodes')
        /\ \A i \in 1 .. Len(rest \o lq) : \/ \E j \in 1 .. Len(rest) : (rest \o lq)[i] = rest[j]
                                           \/ \E j \in 1 .. Len(lq) : (rest \o lq)[i] = lq[j]
    BY <1>7, <1>10, <2>2, JoinedHeaps
  <2>4. \A i \in 1 .. Len(rest) : rest[i].node # l + 1
    BY <1>5, <2>1 DEF l
  <2>5. \A i \in 1 .. Len(lq) : lq[i].node # l + 1
    BY <1>5, <1>10 DEF l
  <2> QED  BY <2>3, <2>4, <2>5
<1>13. HeapBook(heap', nodes')
  <2> DEFINE both == rest \o lq
  <2> HIDE DEF both
  <2>1. HeapBook(both, nodes') /\ \A i \in 1 .. Len(both), j \in 1 .. Len(rq) : both[i].node # rq[j].node
    BY <1>11, <1>12 DEF both
  <2>2. HeapBook(both \o rq, nodes')
    BY <1>11, <2>1, JoinedHeaps
  <2> QED  BY <1>1, <2>2 DEF both
<1>14. leaf_count' # 0 /\ leaf_count' = Cardinality(LeavesOf(nodes'))
  <2>1. Cardinality(LeavesOf(nodes)) \in 0 .. N
    BY <1>2, LeavesCounted
  <2> QED  BY <1>1, <1>2, <1>6, <2>1, FitsAssumption
<1> QED  BY <1>1, <1>6, <1>13, <1>14 DEF NextLeafWise, LeafWiseBook

(* A step of another grower keeps the book.                                *)
LEMMA StandingLeafWise ==
  ASSUME LeafWise, UNCHANGED leafwise
  PROVE  NextLeafWise
BY DEF LeafWise, NextLeafWise, leafwise

(* The CPU's split of some objects depends on the fit alone.               *)
LEMMA AsCpuStays ==
  ASSUME UNCHANGED fit
  PROVE  \A s, docs : AsCpu(s, docs)' = AsCpu(s, docs)
<1>1. \A docs : ScoreOf(docs)' = ScoreOf(docs)
  BY DEF ScoreOf, SumOf
<1>2. Floats' = Floats /\ Candidates(Floats)' = Candidates(Floats) /\ \A s, o : Passes(s, o)' = Passes(s, o)
  BY FitStays
<1>3. \A docs : CpuSplit(docs)' = CpuSplit(docs)
  BY <1>1, <1>2 DEF CpuSplit
<1>4. \A s, o : GoesRight(s, o)' = GoesRight(s, o)
  BY FitStays DEF GoesRight
<1>5. \A s, docs : RightDocs(s, docs)' = RightDocs(s, docs)
  BY <1>4 DEF RightDocs
<1> QED  BY <1>2, <1>3, <1>5 DEF AsCpu

(* The book reads the same in the next state.                              *)
LEMMA LeafWiseStays ==
  ASSUME NextLeafWise, UNCHANGED fit
  PROVE  LeafWise'
<1>1. NodeRecords' = NodeRecords
  BY DEF NodeRecords
<1>2. \A s, o : GoesRight(s, o)' = GoesRight(s, o)
  BY FitStays DEF GoesRight
<1>3. \A s, docs : RightDocs(s, docs)' = RightDocs(s, docs)
  BY <1>2 DEF RightDocs
<1>4. \A bs, docs : Gains(bs, docs)' = Gains(bs, docs)
  BY <1>3, AsCpuStays DEF Gains
<1>5. \A x, ns : Item(x, ns)' = Item(x, ns)
  BY <1>4 DEF Item
<1>6. \A h, ns : HeapBook(h, ns)' = HeapBook(h, ns)
  BY <1>5 DEF HeapBook
<1>7. \A ns, n : ForkBook(ns, n)' = ForkBook(ns, n)
  BY <1>3, AsCpuStays DEF ForkBook
<1>8. \A ns, own : NodesBook(ns, own)' = NodesBook(ns, own)
  BY <1>1, <1>7 DEF NodesBook, LeafBook
<1>9. \A c, nx, ns : LevelBook(c, nx, ns)' = LevelBook(c, nx, ns)
  BY DEF LevelBook, Level
<1>10. \A ns, own, c, nx, h, lc : LeafWiseBook(ns, own, c, nx, h, lc)' = LeafWiseBook(ns, own, c, nx, h, lc)
  BY <1>6, <1>8, <1>9 DEF LeafWiseBook, LeavesOf
<1> QED  BY <1>10 DEF LeafWise, NextLeafWise

-----------------------------------------------------------------------------
(* Region: the documents that go the way of the first k levels.            *)
Follows(pa, o, k) == \A j \in 1 .. k : GoesRight(pa[j].split, o) <=> pa[j].direction

(* The objects that follow a path for k levels.                            *)
Followers(pa, k) == {o \in Objects : Follows(pa, o, k)}

(* What a level of a path is.                                              *)
PathLevels == [split : SearchSplits(fit), direction : BOOLEAN]

(* The book of a path: the objects at its end follow all of it, and those  *)
(* listed at a level are the ones that left there.  Its splits are the     *)
(* CPU's.                                                                  *)
RegionBook(fr, pa, td) ==
  /\ pa \in Seq(PathLevels) /\ Len(pa) <= MaxDepth
  /\ fr = Followers(pa, Len(pa)) /\ fr # {}
  /\ td \in Seq(SUBSET Objects) /\ Len(td) = Len(pa)
  /\ \A i \in 1 .. Len(pa) : td[i] = Followers(pa, i - 1) \ Followers(pa, i) /\ td[i] # {}
  /\ \A i \in 1 .. Len(pa) : AsCpu(pa[i].split, Followers(pa, i - 1))

(* That book, of a state and of the state after a step.                    *)
RegionKept == RegionBook(frontier, path, terminal_docs)
NextRegion == RegionBook(frontier', path', terminal_docs')

(* A path of no levels is booked.                                          *)
LEMMA FreshRegion ==
  ASSUME fit \in Fits, RegionInit
  PROVE  RegionKept
<1>1. frontier = Objects /\ path = <<>> /\ terminal_docs = <<>> /\ Len(<<>>) = 0
  BY DEF RegionInit
<1>2. Followers(<<>>, 0) = Objects
  BY DEF Followers, Follows
<1>3. Objects # {} /\ MaxDepth >= 0
  <2>1. 0 \in 0 .. N - 1 /\ MaxDepth \in Nat
    BY FitsAssumption
  <2> QED  BY <2>1 DEF Objects
<1> QED  BY <1>1, <1>2, <1>3 DEF RegionKept, RegionBook

(* A level of a Region tree keeps the book: the objects that leave the     *)
(* path leave it at that level.                                            *)
LEMMA RegionLevelIsBooked ==
  ASSUME fit \in Fits, RegionKept, RegionLevel
  PROVE  NextRegion
<1> DEFINE L == Len(path)
           R == PathLevels
<1>1. /\ path \in Seq(R) /\ L \in Nat /\ L < MaxDepth /\ MaxDepth \in Nat
      /\ frontier = Followers(path, L)
      /\ terminal_docs \in Seq(SUBSET Objects) /\ Len(terminal_docs) = L
      /\ \A i \in 1 .. L : terminal_docs[i] = Followers(path, i - 1) \ Followers(path, i) /\ terminal_docs[i] # {}
      /\ \A i \in 1 .. L : AsCpu(path[i].split, Followers(path, i - 1))
  BY FitsAssumption DEF RegionKept, RegionBook, RegionLevel
<1>2. frontier \in SUBSET Objects
  BY <1>1 DEF Followers
<1>3. PICK bs \in best_split(frontier) :
        LET right == ContinuesRight(bs)
        IN  /\ path' = Append(path, [split |-> bs.split, direction |-> right])
            /\ frontier' = IF right THEN bs.right ELSE bs.left
            /\ terminal_docs' = Append(terminal_docs, IF right THEN bs.left ELSE bs.right)
  BY DEF RegionLevel
<1> DEFINE dir == IF ContinuesRight(bs) THEN TRUE ELSE FALSE
           x == [split |-> bs.split, direction |-> ContinuesRight(bs)]
           out == IF dir THEN bs.left ELSE bs.right
<1>4. ContinuesRight(bs) \in BOOLEAN
  BY DEF ContinuesRight
<1>5. Gains(bs, frontier)
  BY <1>2, BestSplitHalves
<1>6. /\ bs.split \in SearchSplits(fit) /\ bs.right = RightDocs(bs.split, frontier) /\ bs.left = frontier \ bs.right
      /\ bs.left \in SUBSET Objects /\ bs.right \in SUBSET Objects /\ bs.left # {} /\ bs.right # {}
  BY <1>5 DEF Gains
<1>7. x \in R /\ x.split = bs.split /\ (x.direction <=> dir) /\ dir \in BOOLEAN
  BY <1>4, <1>6 DEF PathLevels
<1>8. /\ path' = Append(path, x) /\ frontier' = (IF dir THEN bs.right ELSE bs.left)
      /\ terminal_docs' = Append(terminal_docs, out)
  BY <1>3, <1>4
<1>9. out \in SUBSET Objects /\ out # {} /\ frontier' # {} /\ out = frontier \ frontier' /\ frontier' \subseteq frontier
  BY <1>6, <1>7, <1>8 DEF RightDocs
<1> HIDE DEF x, dir, out, R
<1>10. /\ path' \in Seq(R) /\ Len(path') = L + 1 /\ path'[L + 1] = x /\ \A j \in 1 .. L : path'[j] = path[j]
       /\ terminal_docs' \in Seq(SUBSET Objects) /\ Len(terminal_docs') = L + 1 /\ terminal_docs'[L + 1] = out
       /\ \A j \in 1 .. L : terminal_docs'[j] = terminal_docs[j]
  BY <1>1, <1>7, <1>8, <1>9
<1> HIDE DEF L
<1>11. ASSUME NEW k \in 0 .. L, NEW o PROVE Follows(path', o, k) <=> Follows(path, o, k)
  <2>1. \A j \in 1 .. k : j \in 1 .. L
    BY <1>1
  <2>2. \A j \in 1 .. k : path'[j] = path[j]
    BY <1>10, <2>1
  <2> QED  BY <2>2 DEF Follows
<1>12. ASSUME NEW k \in 0 .. L PROVE Followers(path', k) = Followers(path, k)
  BY <1>11 DEF Followers
<1>13. ASSUME NEW o \in Objects PROVE o \in frontier' <=> Follows(path', o, L + 1)
  <2>1. Follows(path', o, L + 1) <=> Follows(path, o, L) /\ (GoesRight(bs.split, o) <=> dir)
    <3>1. \A j \in 1 .. L + 1 : j \in 1 .. L \/ j = L + 1
      BY <1>1
    <3>2. 1 .. L \subseteq 1 .. L + 1 /\ L + 1 \in 1 .. L + 1
      BY <1>1
    <3>3. Follows(path', o, L + 1) <=> /\ \A j \in 1 .. L : GoesRight(path'[j].split, o) <=> path'[j].direction
                                       /\ GoesRight(path'[L + 1].split, o) <=> path'[L + 1].direction
      BY <3>1, <3>2 DEF Follows
    <3> QED  BY <1>7, <1>10, <3>3 DEF Follows
  <2>2. o \in frontier <=> Follows(path, o, L)
    BY <1>1 DEF Followers, L
  <2>3. o \in bs.right <=> o \in frontier /\ GoesRight(bs.split, o)
    BY <1>6 DEF RightDocs
  <2>4. o \in bs.left <=> o \in frontier /\ ~GoesRight(bs.split, o)
    BY <1>6, <2>3
  <2> QED  BY <1>7, <1>8, <2>1, <2>2, <2>3, <2>4
<1>14. frontier' = Followers(path', L + 1)
  <2>1. frontier' \subseteq Objects
    BY <1>2, <1>9
  <2> QED  BY <1>13, <2>1 DEF Followers
<1>15. ASSUME NEW i \in 1 .. L + 1
       PROVE  terminal_docs'[i] = Followers(path', i - 1) \ Followers(path', i) /\ terminal_docs'[i] # {}
  <2>1. CASE i \in 1 .. L
    <3>1. i - 1 \in 0 .. L /\ i \in 0 .. L
      BY <1>1, <2>1
    <3> QED  BY <1>1, <1>10, <1>12, <2>1, <3>1 DEF L
  <2>2. CASE i = L + 1
    <3>1. (L + 1) - 1 = L /\ L \in 0 .. L
      BY <1>1
    <3>2. Followers(path', L) = frontier
      BY <1>1, <1>12, <3>1 DEF L
    <3> QED  BY <1>9, <1>10, <1>14, <2>2, <3>1, <3>2
  <2> QED  BY <1>1, <2>1, <2>2
<1>16. L + 1 <= MaxDepth
  BY <1>1
<1>17. ASSUME NEW i \in 1 .. L + 1 PROVE AsCpu(path'[i].split, Followers(path', i - 1))
  <2>1. CASE i \in 1 .. L
    <3>1. i - 1 \in 0 .. L
      BY <1>1, <2>1
    <3> QED  BY <1>1, <1>10, <1>12, <2>1, <3>1 DEF L
  <2>2. CASE i = L + 1
    <3>1. i - 1 = L /\ L \in 0 .. L
      BY <1>1, <2>2
    <3>2. Followers(path', i - 1) = frontier
      BY <1>1, <1>12, <3>1 DEF L
    <3>3. AsCpu(bs.split, frontier)
      BY <1>5 DEF Gains
    <3> QED  BY <1>7, <1>10, <2>2, <3>2, <3>3
  <2> QED  BY <1>1, <2>1, <2>2
<1> QED  BY <1>9, <1>10, <1>14, <1>15, <1>16, <1>17 DEF NextRegion, RegionBook, R

(* A step of another grower keeps the book of the path.                    *)
LEMMA StandingRegion ==
  ASSUME RegionKept, UNCHANGED region
  PROVE  NextRegion
BY DEF RegionKept, NextRegion, region

(* The book of a path speaks of its arguments and of the training alone.   *)
LEMMA RegionStays ==
  ASSUME NextRegion, UNCHANGED fit
  PROVE  RegionKept'
<1>1. \A s, o : GoesRight(s, o)' = GoesRight(s, o)
  BY FitStays DEF GoesRight
<1>2. \A pa, o, k : Follows(pa, o, k)' = Follows(pa, o, k)
  BY <1>1 DEF Follows
<1>3. \A pa, k : Followers(pa, k)' = Followers(pa, k)
  BY <1>2 DEF Followers
<1>4. \A fr, pa, td : RegionBook(fr, pa, td)' = RegionBook(fr, pa, td)
  BY <1>3, AsCpuStays DEF RegionBook, PathLevels
<1> QED  BY <1>4 DEF RegionKept, NextRegion

(* How far an object follows the path, and the bin it is filed under.      *)
LEMMA BinOfRegion ==
  ASSUME RegionKept, NEW o \in Objects
  PROVE  /\ RegionBin(o) \in 0 .. Len(path)
         /\ \A i \in 1 .. Len(path) : Follows(path, o, i) <=> i <= RegionBin(o)
<1> DEFINE L == Len(path)
           S == {i \in 1 .. L : ~Follows(path, o, i)}
           exits == {i \in 1 .. L : o \in terminal_docs[i]}
<1>1. /\ L \in Nat /\ Len(terminal_docs) = L
      /\ \A i \in 1 .. L : terminal_docs[i] = Followers(path, i - 1) \ Followers(path, i)
  BY DEF RegionKept, RegionBook
<1>2. RegionBin(o) = IF exits = {} THEN L ELSE Max(exits) - 1
  BY <1>1 DEF RegionBin
<1>3. \A i \in 0 .. L : \A j \in 0 .. i : Follows(path, o, i) => Follows(path, o, j)
  <2>1. \A i \in 0 .. L : \A j \in 0 .. i : 1 .. j \subseteq 1 .. i
    BY <1>1
  <2> QED  BY <2>1 DEF Follows
<1>4. \A i \in 1 .. L : o \in terminal_docs[i] <=> Follows(path, o, i - 1) /\ ~Follows(path, o, i)
  BY <1>1 DEF Followers
<1>5. Follows(path, o, 0)
  BY DEF Follows
<1>6. CASE S = {}
  <2>1. \A i \in 1 .. L : Follows(path, o, i)
    BY <1>6
  <2>2. exits = {}
    BY <1>4, <2>1
  <2> HIDE DEF exits, S
  <2> QED  BY <1>1, <1>2, <2>1, <2>2
<1>7. CASE S # {}
  <2>1. S \in SUBSET Nat
    BY <1>1
  <2>2. PICK x \in S : \A y \in S : x <= y
    <3> HIDE DEF S
    <3> QED  BY <1>7, <2>1, LeastElement
  <2>3. x \in 1 .. L /\ ~Follows(path, o, x)
    OBVIOUS
  <2>4. \A i \in 1 .. L : Follows(path, o, i) <=> i < x
    <3>1. ASSUME NEW i \in 1 .. L, i < x PROVE Follows(path, o, i)
      <4>1. ~(x <= i)
        BY <1>1, <2>3, <3>1
      <4>2. i \notin S
        <5> HIDE DEF S
        <5> QED  BY <2>2, <4>1
      <4> QED  BY <4>2
    <3>2. ASSUME NEW i \in 1 .. L, ~(i < x) PROVE ~Follows(path, o, i)
      <4>1. x \in 0 .. i /\ i \in 0 .. L
        BY <1>1, <2>3, <3>2
      <4> QED  BY <1>3, <2>3, <4>1
    <3> QED  BY <3>1, <3>2
  <2> HIDE DEF S
  <2>5. Follows(path, o, x - 1)
    <3>1. CASE x = 1
      BY <1>5, <3>1
    <3>2. CASE x # 1
      <4>1. x - 1 \in 1 .. L /\ x - 1 < x
        BY <1>1, <2>3, <3>2
      <4> QED  BY <2>4, <4>1
    <3> QED  BY <3>1, <3>2
  <2>6. ASSUME NEW i \in 1 .. L PROVE o \in terminal_docs[i] <=> i = x
    <3>1. CASE i = x
      BY <1>4, <2>3, <2>5, <3>1
    <3>2. CASE i < x
      BY <1>4, <2>4, <3>2
    <3>3. CASE i > x
      <4>1. i - 1 \in 1 .. L /\ ~(i - 1 < x)
        BY <1>1, <2>3, <3>3
      <4>2. ~Follows(path, o, i - 1)
        BY <2>4, <4>1
      <4> QED  BY <1>1, <1>4, <2>3, <3>3, <4>2
    <3> QED  BY <1>1, <2>3, <3>1, <3>2, <3>3
  <2>7. exits = {x}
    BY <2>3, <2>6
  <2>8. Max({x}) = x
    <3>1. x \in Int
      BY <1>1, <2>3
    <3>2. {x} \in SUBSET Int /\ {x} # {}
      BY <3>1
    <3>3. IsFiniteSet({x})
      BY FS_Singleton
    <3>4. Max({x}) \in {x}
      BY <3>2, <3>3, MaxIsIn
    <3> QED  BY <3>4
  <2> HIDE DEF exits
  <2>9. RegionBin(o) = x - 1
    BY <1>2, <2>7, <2>8
  <2>10. x - 1 \in 0 .. L /\ \A i \in 1 .. L : i < x <=> i <= x - 1
    BY <1>1, <2>3
  <2> QED  BY <2>4, <2>9, <2>10
<1> QED  BY <1>6, <1>7

(* It is the leaf its path is applied to, by whichever test of the splits. *)
LEMMA RegionWalk ==
  ASSUME RegionKept, NEW o \in Objects, NEW t, NEW p,
         DOMAIN t.splits = 1 .. Len(path),
         \A j \in 1 .. Len(path) : t.region_directions[j] = path[j].direction,
         \A j \in 1 .. Len(path) : p[j] \in BOOLEAN /\ (p[j] <=> GoesRight(path[j].split, o))
  PROVE  region_leaf(t, p) = RegionBin(o)
<1> DEFINE L == Len(path)
           S == {i \in 1 .. L : \A j \in 1 .. i : p[j] = t.region_directions[j]}
           k == RegionBin(o)
<1>1. L \in Nat /\ path \in Seq(PathLevels)
  BY DEF RegionKept, RegionBook
<1>2. k \in 0 .. L /\ \A i \in 1 .. L : Follows(path, o, i) <=> i <= k
  BY BinOfRegion
<1>3. region_leaf(t, p) = Cardinality(S)
  BY DEF region_leaf
<1>4. \A j \in 1 .. L : (p[j] = t.region_directions[j]) <=> (GoesRight(path[j].split, o) <=> path[j].direction)
  <2>1. ASSUME NEW j \in 1 .. L
        PROVE  (p[j] = t.region_directions[j]) <=> (GoesRight(path[j].split, o) <=> path[j].direction)
    <3>1. path[j] \in PathLevels
      BY <1>1
    <3>2. path[j].direction \in BOOLEAN
      BY <3>1 DEF PathLevels
    <3> QED  BY <3>2
  <2> QED  BY <2>1
<1>5. ASSUME NEW i \in 1 .. L PROVE i \in S <=> Follows(path, o, i)
  <2>1. 1 .. i \subseteq 1 .. L
    BY <1>1
  <2>2. Follows(path, o, i) <=> \A j \in 1 .. i : p[j] = t.region_directions[j]
    BY <1>4, <2>1 DEF Follows
  <2> QED  BY <2>2
<1>6. S \subseteq 1 .. L
  OBVIOUS
<1> HIDE DEF S, k
<1>7. S = 1 .. k
  <2>1. \A i \in 1 .. L : i \in S <=> i <= k
    BY <1>2, <1>5
  <2>2. \A i \in 1 .. k : i \in 1 .. L /\ i <= k
    BY <1>1, <1>2
  <2>3. \A i \in 1 .. L : i <= k => i \in 1 .. k
    BY <1>1, <1>2
  <2> QED  BY <1>6, <2>1, <2>2, <2>3
<1>8. Cardinality(1 .. k) = k
  BY <1>1, <1>2, FS_Interval
<1> QED  BY <1>3, <1>7, <1>8 DEF k

-----------------------------------------------------------------------------
(* The walk of a flat tree, by how many steps it has left.                 *)
DescentOf(n, ids, step, leaf, further) ==
  IF n \notin ids THEN NoLeaf
  ELSE IF step[n] = 0 THEN leaf[n] ELSE further

(* What following the steps of a table from each of its nodes computes.    *)
Descent(L, ids, step, leaf, f) ==
  f = [fuel \in 0 .. L |->
        [n \in Nat |-> DescentOf(n, ids, step, leaf, IF fuel = 0 THEN NoLeaf ELSE f[fuel - 1][n + step[n]])]]

(* Steps that go down a bounded table can be followed from any of its      *)
(* nodes.                                                                  *)
LEMMA DescentExists ==
  ASSUME NEW L \in Nat, NEW ids \in SUBSET Nat, NEW step, \A n \in ids : n + step[n] \in Nat,
         NEW leaf, NEW V, NoLeaf \in V, \A n \in ids : leaf[n] \in V
  PROVE  \E f : Descent(L, ids, step, leaf, f)
<1> DEFINE X == [Nat -> V]
           x0 == [n \in Nat |-> DescentOf(n, ids, step, leaf, NoLeaf)]
           On(x) == [n \in Nat |-> DescentOf(n, ids, step, leaf, x[n + step[n]])]
           F == [k \in 1 .. L |-> [x \in X |-> On(x)]]
<1>1. x0 \in X
  BY DEF DescentOf
<1>2. ASSUME NEW x \in X PROVE On(x) \in X
  <2>1. ASSUME NEW n \in Nat PROVE DescentOf(n, ids, step, leaf, x[n + step[n]]) \in V
    <3>1. CASE n \in ids
      <4>1. x[n + step[n]] \in V
        BY <3>1
      <4> QED  BY <3>1, <4>1 DEF DescentOf
    <3>2. CASE n \notin ids
      BY <3>2 DEF DescentOf
    <3> QED  BY <3>1, <3>2
  <2> QED  BY <2>1
<1>3. F \in [1 .. L -> [X -> X]]
  <2> HIDE DEF X, On
  <2> QED  BY <1>2
<1>4. PICK g : Stepwise(X, L, x0, F, g)
  <2> HIDE DEF X, x0, F
  <2> QED  BY <1>1, <1>3, StepsExist
<1>5. ASSUME NEW k \in 0 .. L
      PROVE  g[k] = [n \in Nat |-> DescentOf(n, ids, step, leaf, IF k = 0 THEN NoLeaf ELSE g[k - 1][n + step[n]])]
  <2>1. CASE k = 0
    <3>1. g[0] = x0
      BY <1>4 DEF Stepwise
    <3> QED  BY <2>1, <3>1
  <2>2. CASE k # 0
    <3>1. k \in 1 .. L /\ k - 1 \in 0 .. L
      BY <2>2
    <3>2. g[k] = F[k][g[k - 1]] /\ g[k - 1] \in X
      BY <1>4, <3>1 DEF Stepwise
    <3>3. g[k] = On(g[k - 1])
      <4> HIDE DEF X, On
      <4> QED  BY <3>1, <3>2
    <3> QED  BY <2>2, <3>3
  <2> QED  BY <2>1, <2>2
<1>6. g = [k \in 0 .. L |-> g[k]]
  BY <1>4 DEF Stepwise
<1> HIDE DEF X, x0, F
<1>7. Descent(L, ids, step, leaf, g)
  <2> DEFINE G(k) == [n \in Nat |-> DescentOf(n, ids, step, leaf, IF k = 0 THEN NoLeaf ELSE g[k - 1][n + step[n]])]
  <2>1. \A k \in 0 .. L : g[k] = G(k)
    BY <1>5
  <2> HIDE DEF G
  <2>2. g = [k \in 0 .. L |-> G(k)]
    BY <1>6, <2>1
  <2> QED  BY <2>2 DEF G, Descent
<1> QED  BY <1>7

(* leaf_index_nonsym is such a walk.                                       *)
StepsOf(t, p, L, step) ==
  /\ L \in Nat /\ DOMAIN t.splits = 1 .. L /\ Len(t.splits) = L
  /\ step = [n \in 1 .. L |-> t.step_nodes[n][IF p[n] THEN 2 ELSE 1]]
  /\ \A n \in 1 .. L : n + step[n] \in Nat
  /\ \A n \in 1 .. L : t.node_id_to_leaf_id[n] \in Nat \cup {NoLeaf}

(* A walk over an applied tree is a descent by its steps.                  *)
DescendsBy(t, p, L, step) ==
  \E f : Descent(L, 1 .. L, step, t.node_id_to_leaf_id, f) /\ leaf_index_nonsym(t, p) = f[L][1]

(* The walk over an applied tree goes down by its steps.                   *)
LEMMA NonsymDescends ==
  ASSUME NEW t, NEW p, NEW L, NEW step, StepsOf(t, p, L, step)
  PROVE  DescendsBy(t, p, L, step)
<1> USE DEF StepsOf
<1> DEFINE leaf == t.node_id_to_leaf_id
           ids == 1 .. L
           Step(n) == t.step_nodes[n][IF p[n] THEN 2 ELSE 1]
           Rec(f) == f = [fuel \in 0 .. Len(t.splits) |->
                            [n \in Nat |->
                               IF n \notin DOMAIN t.splits THEN NoLeaf
                               ELSE IF Step(n) = 0 THEN leaf[n]
                               ELSE IF fuel = 0 THEN NoLeaf ELSE f[fuel - 1][n + Step(n)]]]
           w == CHOOSE f : Rec(f)
<1>1. leaf_index_nonsym(t, p) = w[Len(t.splits)][1]
  BY DEF leaf_index_nonsym
<1>2. \A n \in ids : step[n] = Step(n)
  OBVIOUS
<1>3. ASSUME NEW f PROVE Rec(f) <=> Descent(L, ids, step, leaf, f)
  <2> DEFINE A(fuel, n) == IF n \notin DOMAIN t.splits THEN NoLeaf
                           ELSE IF Step(n) = 0 THEN leaf[n]
                           ELSE IF fuel = 0 THEN NoLeaf ELSE f[fuel - 1][n + Step(n)]
             B(fuel, n) == DescentOf(n, ids, step, leaf, IF fuel = 0 THEN NoLeaf ELSE f[fuel - 1][n + step[n]])
  <2>1. ASSUME NEW fuel \in 0 .. L, NEW n \in Nat PROVE A(fuel, n) = B(fuel, n)
    <3>1. CASE n \in ids
      <4>1. step[n] = Step(n)
        BY <1>2, <3>1
      <4> HIDE DEF Step
      <4> QED  BY <3>1, <4>1 DEF DescentOf
    <3>2. CASE n \notin ids
      BY <3>2 DEF DescentOf
    <3> QED  BY <3>1, <3>2
  <2>2. Rec(f) <=> f = [fuel \in 0 .. L |-> [n \in Nat |-> A(fuel, n)]]
    OBVIOUS
  <2>3. Descent(L, ids, step, leaf, f) <=> f = [fuel \in 0 .. L |-> [n \in Nat |-> B(fuel, n)]]
    BY DEF Descent
  <2> HIDE DEF A, B, Rec
  <2>4. \A fuel \in 0 .. L : [n \in Nat |-> A(fuel, n)] = [n \in Nat |-> B(fuel, n)]
    BY <2>1
  <2>5. [fuel \in 0 .. L |-> [n \in Nat |-> A(fuel, n)]] = [fuel \in 0 .. L |-> [n \in Nat |-> B(fuel, n)]]
    BY <2>4
  <2> QED  BY <2>2, <2>3, <2>5
<1>4. \E f : Descent(L, ids, step, leaf, f)
  <2> DEFINE V == Nat \cup {NoLeaf}
  <2>1. ids \in SUBSET Nat /\ NoLeaf \in V /\ \A n \in ids : leaf[n] \in V
    OBVIOUS
  <2> HIDE DEF V, leaf
  <2> QED  BY <2>1, DescentExists
<1>5. \E f : Rec(f)
  <2> HIDE DEF Rec
  <2> QED  BY <1>3, <1>4
<1>6. Rec(w)
  <2> HIDE DEF Rec
  <2> QED  BY <1>5
<1>7. Descent(L, ids, step, leaf, w)
  <2> HIDE DEF Rec, w
  <2> QED  BY <1>3, <1>6
<1> HIDE DEF w
<1> QED  BY <1>1, <1>7 DEF DescendsBy

(* The number of a leaf is a number.                                       *)
LEMMA LeafIdIsNat == ASSUME Len(nodes) \in Nat, NEW n PROVE LeafId(n) \in Nat
<1> DEFINE S == {k \in LeafNodes : k < n}
<1>1. IsFiniteSet(1 .. Len(nodes))
  BY FS_Interval
<1>2. IsFiniteSet(S)
  <2>1. S \subseteq 1 .. Len(nodes)
    BY DEF LeafNodes
  <2> HIDE DEF S
  <2> QED  BY <1>1, <2>1, FS_Subset
<1> QED  BY <1>2, FS_CardinalityType DEF LeafId

(* The flat tree, node by node.                                            *)
LEMMA FlatTree ==
  ASSUME NodesBook(nodes, leaf_owner)
  PROVE  LET t == GrownLeafWise
             L == Len(nodes)
         IN  /\ L \in Nat /\ DOMAIN t.splits = 1 .. L /\ Len(t.splits) = L /\ t.shape = "leafwise"
             /\ \A n \in 1 .. L :
                  IF nodes[n].split = NoSplit
                  THEN t.step_nodes[n] = <<0, 0>> /\ t.node_id_to_leaf_id[n] = LeafId(n)
                  ELSE /\ t.splits[n] = nodes[n].split /\ t.node_id_to_leaf_id[n] = NoLeaf
                       /\ t.step_nodes[n] = <<nodes[n].left - n, nodes[n].right - n>>
             /\ \A o \in Objects : t.leaf_of[o] = LeafId(leaf_owner[o])
<1> DEFINE L == Len(nodes)
           ids == 1 .. L
           sp == [n \in ids |-> IF IsLeaf(n) THEN Split("float", 1, 0) ELSE nodes[n].split]
           st == [n \in ids |-> IF IsLeaf(n) THEN <<0, 0>> ELSE <<nodes[n].left - n, nodes[n].right - n>>]
           lf == [n \in ids |-> node_id_to_leaf(n)]
           of == [o \in Objects |-> LeafId(leaf_owner[o])]
<1>1. L \in Nat
  BY DEF NodesBook
<1>2. /\ GrownLeafWise.splits = sp /\ GrownLeafWise.step_nodes = st /\ GrownLeafWise.node_id_to_leaf_id = lf
      /\ GrownLeafWise.leaf_of = of /\ GrownLeafWise.shape = "leafwise"
  BY DEF GrownLeafWise
<1>3. DOMAIN sp = 1 .. L
  OBVIOUS
<1>4. Len(sp) = L
  <2> HIDE DEF sp, L
  <2> QED  BY <1>1, <1>3, ListLength
<1>5. ASSUME NEW n \in ids
      PROVE  IF nodes[n].split = NoSplit
             THEN st[n] = <<0, 0>> /\ lf[n] = LeafId(n)
             ELSE /\ sp[n] = nodes[n].split /\ lf[n] = NoLeaf
                  /\ st[n] = <<nodes[n].left - n, nodes[n].right - n>>
  BY DEF IsLeaf, node_id_to_leaf
<1>6. \A o \in Objects : of[o] = LeafId(leaf_owner[o])
  OBVIOUS
<1> HIDE DEF sp, st, lf, of
<1> QED  BY <1>1, <1>2, <1>3, <1>4, <1>5, <1>6

(* Walking it by the tests that grew it ends at an object's leaf.          *)
LEMMA DescentFindsLeaf ==
  ASSUME NodesBook(nodes, leaf_owner), NEW o \in Objects, NEW t,
         t.splits = GrownLeafWise.splits, t.step_nodes = GrownLeafWise.step_nodes,
         t.node_id_to_leaf_id = GrownLeafWise.node_id_to_leaf_id,
         NEW p, \A n \in 1 .. Len(nodes) : nodes[n].split # NoSplit => (p[n] <=> GoesRight(nodes[n].split, o))
  PROVE  leaf_index_nonsym(t, p) = LeafId(leaf_owner[o])
<1> DEFINE L == Len(nodes)
           leaf == t.node_id_to_leaf_id
           step == [n \in 1 .. L |-> t.step_nodes[n][IF p[n] THEN 2 ELSE 1]]
           found == LeafId(leaf_owner[o])
<1>1. /\ L \in Nat /\ DOMAIN t.splits = 1 .. L /\ Len(t.splits) = L
      /\ \A n \in 1 .. L :
           IF nodes[n].split = NoSplit
           THEN t.step_nodes[n] = <<0, 0>> /\ leaf[n] = LeafId(n)
           ELSE leaf[n] = NoLeaf /\ t.step_nodes[n] = <<nodes[n].left - n, nodes[n].right - n>>
  BY FlatTree
<1>2. /\ L >= 1 /\ nodes[1].docs = Objects
      /\ \A n \in 1 .. L : LeafBook(nodes, leaf_owner, n) /\ ForkBook(nodes, n)
  BY DEF NodesBook
<1>3. ASSUME NEW n \in 1 .. L, nodes[n].split = NoSplit
      PROVE  step[n] = 0 /\ leaf[n] = LeafId(n) /\ (o \in nodes[n].docs => leaf_owner[o] = n)
  <2>1. t.step_nodes[n] = <<0, 0>> /\ leaf[n] = LeafId(n)
    BY <1>1, <1>3
  <2>2. step[n] = <<0, 0>>[IF p[n] THEN 2 ELSE 1]
    BY <2>1
  <2>3. LeafBook(nodes, leaf_owner, n)
    BY <1>2
  <2> QED  BY <1>3, <2>1, <2>2, <2>3 DEF LeafBook
<1>4. ASSUME NEW n \in 1 .. L, nodes[n].split # NoSplit
      PROVE  /\ n + step[n] \in n + 1 .. L /\ step[n] # 0 /\ leaf[n] = NoLeaf
             /\ o \in nodes[n].docs => o \in nodes[n + step[n]].docs
  <2> DEFINE a == nodes[n].left
             b == nodes[n].right
  <2>1. /\ a \in n + 1 .. L /\ b \in n + 1 .. L
        /\ nodes[b].docs = RightDocs(nodes[n].split, nodes[n].docs)
        /\ nodes[a].docs = nodes[n].docs \ nodes[b].docs
    BY <1>2, <1>4 DEF ForkBook
  <2>2. t.step_nodes[n] = <<a - n, b - n>> /\ leaf[n] = NoLeaf
    BY <1>1, <1>4
  <2>3. p[n] <=> GoesRight(nodes[n].split, o)
    BY <1>4
  <2>4. step[n] = IF p[n] THEN b - n ELSE a - n
    BY <2>2
  <2> HIDE DEF a, b, step, leaf
  <2>5. CASE p[n]
    <3>1. n + step[n] = b /\ step[n] # 0
      BY <1>1, <2>1, <2>4, <2>5
    <3>2. o \in nodes[n].docs => o \in nodes[b].docs
      BY <2>1, <2>3, <2>5 DEF RightDocs
    <3> QED  BY <2>1, <2>2, <3>1, <3>2
  <2>6. CASE ~p[n]
    <3>1. n + step[n] = a /\ step[n] # 0
      BY <1>1, <2>1, <2>4, <2>6
    <3>2. o \in nodes[n].docs => o \in nodes[a].docs
      BY <2>1, <2>3, <2>6 DEF RightDocs
    <3> QED  BY <2>1, <2>2, <3>1, <3>2
  <2> QED  BY <2>5, <2>6
<1>5. PICK f : Descent(L, 1 .. L, step, leaf, f) /\ leaf_index_nonsym(t, p) = f[L][1]
  <2>1. \A n \in 1 .. L : n + step[n] \in Nat
    <3>1. ASSUME NEW n \in 1 .. L PROVE n + step[n] \in Nat
      <4> HIDE DEF step
      <4>1. CASE nodes[n].split = NoSplit
        BY <1>3, <4>1
      <4>2. CASE nodes[n].split # NoSplit
        BY <1>4, <4>2
      <4> QED  BY <4>1, <4>2
    <3> QED  BY <3>1
  <2>2. \A n \in 1 .. L : leaf[n] \in Nat \cup {NoLeaf}
    BY <1>1, LeafIdIsNat
  <2>3. step = [n \in 1 .. L |-> t.step_nodes[n][IF p[n] THEN 2 ELSE 1]]
    OBVIOUS
  <2>4. L \in Nat /\ DOMAIN t.splits = 1 .. L /\ Len(t.splits) = L
    BY <1>1
  <2>5. StepsOf(t, p, L, step)
    <3> HIDE DEF step, L
    <3> QED  BY <2>1, <2>2, <2>3, <2>4 DEF StepsOf
  <2>6. DescendsBy(t, p, L, step)
    <3> HIDE DEF step, L
    <3> QED  BY <2>5, NonsymDescends
  <2> HIDE DEF step, L
  <2> QED  BY <2>6 DEF DescendsBy
<1> HIDE DEF step, leaf, L
<1>6. ASSUME NEW k \in 0 .. L, NEW n \in Nat
      PROVE  f[k][n] = DescentOf(n, 1 .. L, step, leaf, IF k = 0 THEN NoLeaf ELSE f[k - 1][n + step[n]])
  <2> DEFINE G(i) == [m \in Nat |-> DescentOf(m, 1 .. L, step, leaf, IF i = 0 THEN NoLeaf ELSE f[i - 1][m + step[m]])]
  <2>1. f = [i \in 0 .. L |-> G(i)]
    BY <1>5 DEF Descent
  <2>2. f[k] = G(k)
    <3> HIDE DEF G
    <3> QED  BY <2>1
  <2> QED  BY <2>2
<1> DEFINE Finds == {k \in 0 .. L : \A n \in 1 .. L : L - n <= k /\ o \in nodes[n].docs => f[k][n] = found}
<1> HIDE DEF found
<1>7. ASSUME NEW k \in 0 .. L, NEW n \in 1 .. L, L - n <= k, o \in nodes[n].docs, k # 0 => k - 1 \in Finds
      PROVE  f[k][n] = found
  <2>1. n \in Nat
    BY <1>1
  <2>2. CASE nodes[n].split = NoSplit
    <3>1. f[k][n] = leaf[n]
      BY <1>3, <1>6, <2>1, <2>2 DEF DescentOf
    <3> QED  BY <1>3, <1>7, <2>2, <3>1 DEF found
  <2>3. CASE nodes[n].split # NoSplit
    <3> DEFINE c == n + step[n]
    <3>1. c \in n + 1 .. L /\ step[n] # 0 /\ o \in nodes[c].docs
      BY <1>4, <1>7, <2>3
    <3>2. k # 0 /\ c \in 1 .. L /\ L - c <= k - 1 /\ k - 1 \in Finds
      BY <1>1, <1>7, <3>1
    <3>3. f[k][n] = f[k - 1][c]
      BY <1>6, <2>1, <3>1, <3>2 DEF DescentOf
    <3> QED  BY <3>1, <3>2, <3>3
  <2> QED  BY <2>2, <2>3
<1>8. 0 \in Finds
  BY <1>1, <1>7
<1>9. ASSUME NEW k \in 0 .. L - 1, k \in Finds PROVE k + 1 \in Finds
  <2>1. k + 1 \in 0 .. L /\ (k + 1) - 1 = k
    BY <1>1
  <2>2. \A n \in 1 .. L : L - n <= k + 1 /\ o \in nodes[n].docs => f[k + 1][n] = found
    <3> HIDE DEF Finds
    <3> QED  BY <1>7, <1>9, <2>1
  <2> QED  BY <2>1, <2>2
<1>10. L \in Finds
  <2>1. 0 .. L \subseteq Finds
    <3> HIDE DEF Finds
    <3> QED  BY <1>1, <1>8, <1>9, BoundedInduction
  <2> QED  BY <1>1, <2>1
<1>11. 1 \in 1 .. L /\ L - 1 <= L /\ o \in nodes[1].docs
  BY <1>1, <1>2 DEF L
<1> QED  BY <1>5, <1>10, <1>11 DEF found

(* No column that sends missing values to the top misses one.              *)
NoMissing ==
  ~ \E f \in 1 .. Len(fit.floats) : fit.floats[f].top /\ NaN \in {fit.floats[f].value[x] : x \in Objects}

(* A split of a tree that is kept sends every object as it did in growing. *)
LEMMA SendsAsGrown ==
  ASSUME fit \in Fits, NEW s \in SearchSplits(fit), fit.device => HasBorder(s), NEW o \in Objects
  PROVE  /\ GoesRight(s, o) <=> Passes(s, o)
         /\ Passes(s, o) \in BOOLEAN /\ RawPasses(s, o) \in BOOLEAN
         /\ NoMissing => (RawPasses(s, o) <=> Passes(s, o))
<1>1. GoesRight(s, o) <=> Passes(s, o)
  <2>1. CASE ~fit.device
    BY <2>1 DEF GoesRight
  <2>2. CASE fit.device
    <3>1. s.kind = "float" /\ NamesABorder(s)
      BY <2>2 DEF HasBorder, NamesABorder
    <3>2. DevicePasses(s, o) <=> Passes(s, o)
      BY <3>1, DeviceSendsAlike
    <3> QED  BY <2>2, <3>1, <3>2 DEF GoesRight, DevicePasses
  <2> QED  BY <2>1, <2>2
<1>2. Passes(s, o) \in BOOLEAN /\ RawPasses(s, o) \in BOOLEAN
  <2>1. CASE s.kind = "float"
    <3>1. s.feature \in 1 .. Len(fit.floats)
      BY <2>1 DEF SearchSplits, SplitRange
    <3>2. fit.floats[s.feature].top \in BOOLEAN
      BY <3>1, ColumnsOfFit
    <3>3. Passes(s, o) = passes_float(s.feature, o, s.at) /\ RawPasses(s, o) = (fit.floats[s.feature].value[o] >= s.at)
      BY <2>1 DEF Passes, RawPasses
    <3>4. passes_float(s.feature, o, s.at) \in BOOLEAN
      <4>1. CASE fit.floats[s.feature].value[o] = NaN
        BY <3>2, <4>1 DEF passes_float
      <4>2. CASE fit.floats[s.feature].value[o] # NaN
        BY <4>2 DEF passes_float
      <4> QED  BY <4>1, <4>2
    <3>5. (fit.floats[s.feature].value[o] >= s.at) \in BOOLEAN
      OBVIOUS
    <3> QED  BY <3>3, <3>4, <3>5
  <2>2. CASE s.kind = "onehot"
    <3>1. Passes(s, o) = passes_one_hot(s.feature, o, s.at) /\ RawPasses(s, o) = Passes(s, o)
      BY <2>2 DEF Passes, RawPasses
    <3> QED  BY <3>1 DEF passes_one_hot
  <2>3. CASE s.kind = "ctr"
    <3>1. Passes(s, o) = passes_ctr(s.feature, o, s.at) /\ RawPasses(s, o) = Passes(s, o)
      BY <2>3 DEF Passes, RawPasses
    <3> QED  BY <3>1 DEF passes_ctr
  <2>4. s.kind \in {"float", "onehot", "ctr"}
    BY DEF SearchSplits, SplitRange
  <2> QED  BY <2>1, <2>2, <2>3, <2>4
<1>3. NoMissing => (RawPasses(s, o) <=> Passes(s, o))
  BY HostSendsAlike DEF NoMissing
<1> QED  BY <1>1, <1>2, <1>3

(* What becomes of a tree the growers hand over.                           *)
LEMMA FoldedTree ==
  ASSUME NEW t, t = GrownLeafWise \/ t = GrownRegion
  PROVE  /\ Folded(t).shape = t.shape /\ Folded(t).splits = t.splits
         /\ t = GrownLeafWise => /\ Folded(t).step_nodes = t.step_nodes
                                 /\ Folded(t).node_id_to_leaf_id = t.node_id_to_leaf_id
         /\ t = GrownRegion => Folded(t).region_directions = t.region_directions
         /\ ~fit.device => Folded(t).leaf_of = t.leaf_of
         /\ fit.device => \A o \in Objects :
              LET leaf == LeafOf(t, [i \in DOMAIN t.splits |-> RawPasses(t.splits[i], o)])
              IN  leaf # NoLeaf => Folded(t).leaf_of[o] = leaf
<1> DEFINE L(o) == LeafOf(t, [i \in DOMAIN t.splits |-> RawPasses(t.splits[i], o)])
           raw == [o \in Objects |-> IF L(o) = NoLeaf THEN 0 ELSE L(o)]
           lf == IF ~fit.device THEN t.leaf_of ELSE raw
<1>1. Folded(t) = [t EXCEPT !.leaf_of = lf]
  BY DEF Folded
<1>2. \A o \in Objects : L(o) # NoLeaf => raw[o] = L(o)
  OBVIOUS
<1> HIDE DEF lf, raw, L
<1>3. CASE t = GrownLeafWise
  <2>1. DOMAIN t = {"shape", "splits", "step_nodes", "node_id_to_leaf_id", "leaf_of"}
    BY <1>3 DEF GrownLeafWise
  <2>2. /\ Folded(t).shape = t.shape /\ Folded(t).splits = t.splits /\ Folded(t).step_nodes = t.step_nodes
        /\ Folded(t).node_id_to_leaf_id = t.node_id_to_leaf_id /\ Folded(t).leaf_of = lf
    BY <1>1, <2>1
  <2>3. t # GrownRegion
    BY <1>3 DEF GrownLeafWise, GrownRegion
  <2> QED  BY <1>2, <2>2, <2>3 DEF lf, L
<1>4. CASE t = GrownRegion
  <2>1. DOMAIN t = {"shape", "splits", "region_directions", "leaf_of"}
    BY <1>4 DEF GrownRegion
  <2>2. /\ Folded(t).shape = t.shape /\ Folded(t).splits = t.splits
        /\ Folded(t).region_directions = t.region_directions /\ Folded(t).leaf_of = lf
    BY <1>1, <2>1
  <2>3. t # GrownLeafWise
    BY <1>4 DEF GrownLeafWise, GrownRegion
  <2> QED  BY <1>2, <2>2, <2>3 DEF lf, L
<1> QED  BY <1>3, <1>4

(* A flat tree that is kept files every object where the walk finds it.    *)
LEMMA LeafWiseWalks ==
  ASSUME fit \in Fits, NodesBook(nodes, leaf_owner), fit.device => NoMissing,
         \A n \in 1 .. Len(nodes) : nodes[n].split # NoSplit /\ fit.device => HasBorder(nodes[n].split)
  PROVE  Walks(Folded(GrownLeafWise)) /\ \A o \in Objects : Folded(GrownLeafWise).leaf_of[o] = LeafId(leaf_owner[o])
<1> DEFINE t == GrownLeafWise
           g == Folded(t)
           L == Len(nodes)
<1>1. /\ L \in Nat /\ DOMAIN t.splits = 1 .. L /\ t.shape = "leafwise"
      /\ \A n \in 1 .. L : nodes[n].split # NoSplit => t.splits[n] = nodes[n].split
      /\ \A o \in Objects : t.leaf_of[o] = LeafId(leaf_owner[o])
  BY FlatTree
<1>2. /\ g.shape = "leafwise" /\ g.splits = t.splits
      /\ g.step_nodes = t.step_nodes /\ g.node_id_to_leaf_id = t.node_id_to_leaf_id
      /\ ~fit.device => g.leaf_of = t.leaf_of
      /\ fit.device => \A o \in Objects :
           LET leaf == LeafOf(t, [i \in DOMAIN t.splits |-> RawPasses(t.splits[i], o)])
           IN  leaf # NoLeaf => g.leaf_of[o] = leaf
  BY <1>1, FoldedTree
<1>3. \A n \in 1 .. L : nodes[n].split # NoSplit => nodes[n].split \in SearchSplits(fit)
  <2>1. nodes \in Seq(NodeRecords)
    BY DEF NodesBook
  <2>2. \A n \in 1 .. L : nodes[n] \in NodeRecords
    BY <2>1
  <2> QED  BY <2>2 DEF NodeRecords
<1> HIDE DEF t, g, L
<1>4. ASSUME NEW o \in Objects
      PROVE  /\ leaf_index_nonsym(g, [i \in DOMAIN g.splits |-> Passes(g.splits[i], o)]) = LeafId(leaf_owner[o])
             /\ fit.device => leaf_index_nonsym(t, [i \in DOMAIN t.splits |-> RawPasses(t.splits[i], o)])
                                = LeafId(leaf_owner[o])
  <2> DEFINE p == [i \in DOMAIN g.splits |-> Passes(g.splits[i], o)]
             r == [i \in DOMAIN t.splits |-> RawPasses(t.splits[i], o)]
  <2>1. ASSUME NEW n \in 1 .. Len(nodes), nodes[n].split # NoSplit
        PROVE  (p[n] <=> GoesRight(nodes[n].split, o)) /\ (fit.device => (r[n] <=> GoesRight(nodes[n].split, o)))
    <3> DEFINE s == nodes[n].split
    <3>1. s \in SearchSplits(fit) /\ (fit.device => HasBorder(s))
      BY <1>3, <2>1 DEF L
    <3>2. t.splits[n] = s /\ g.splits[n] = s /\ n \in DOMAIN t.splits /\ n \in DOMAIN g.splits
      BY <1>1, <1>2, <2>1 DEF L
    <3> HIDE DEF s
    <3>3. GoesRight(s, o) <=> Passes(s, o)
      BY <3>1, SendsAsGrown
    <3>4. fit.device => (RawPasses(s, o) <=> Passes(s, o))
      BY <3>1, SendsAsGrown
    <3>5. p[n] = Passes(s, o) /\ r[n] = RawPasses(s, o)
      BY <3>2
    <3> HIDE DEF p, r
    <3>6. (p[n] <=> GoesRight(s, o)) /\ (fit.device => (r[n] <=> GoesRight(s, o)))
      BY <3>3, <3>4, <3>5
    <3> QED  BY <3>6 DEF s
  <2> HIDE DEF p, r
  <2>2. leaf_index_nonsym(g, p) = LeafId(leaf_owner[o])
    BY <1>2, <2>1, DescentFindsLeaf DEF t
  <2>3. fit.device => leaf_index_nonsym(t, r) = LeafId(leaf_owner[o])
    BY <2>1, DescentFindsLeaf DEF t
  <2> QED  BY <2>2, <2>3 DEF p, r
<1>5. ASSUME NEW o \in Objects PROVE LeafId(leaf_owner[o]) # NoLeaf
  BY <1>1, LeafIdIsNat, LeafWiseAssumption DEF L
<1>6. ASSUME NEW o \in Objects PROVE g.leaf_of[o] = LeafId(leaf_owner[o])
  <2>1. CASE ~fit.device
    BY <1>1, <1>2, <2>1
  <2>2. CASE fit.device
    <3>1. \A p : LeafOf(t, p) = leaf_index_nonsym(t, p)
      BY <1>1 DEF LeafOf
    <3> QED  BY <1>2, <1>4, <1>5, <2>2, <3>1
  <2> QED  BY <2>1, <2>2
<1>7. ASSUME NEW o \in Objects
      PROVE  g.leaf_of[o] = LeafOf(g, [i \in DOMAIN LevelOrder(g) |-> Passes(LevelOrder(g)[i], o)])
  <2>1. LevelOrder(g) = g.splits
    BY <1>2 DEF LevelOrder
  <2>2. \A p : LeafOf(g, p) = leaf_index_nonsym(g, p)
    BY <1>2 DEF LeafOf
  <2> QED  BY <1>4, <1>6, <2>1, <2>2
<1> QED  BY <1>6, <1>7 DEF g, t, Walks

(* A finished Depthwise or Lossguide tree walks to the leaf that owns the  *)
(* object.                                                                 *)
LEMMA FinishLeafWiseWalks ==
  ASSUME fit \in Fits, LeafWise, FinishLeafWise, growth' = "grown", fit.device => NoMissing
  PROVE  Walks(grown') /\ \A o \in Objects : grown'.leaf_of[o] = LeafId(leaf_owner[o])
<1>1. NodesBook(nodes, leaf_owner)
  BY DEF LeafWise, LeafWiseBook
<1> DEFINE inner == {nodes[n].split : n \in (1 .. Len(nodes)) \ LeafNodes}
<1>2. Fold(GrownLeafWise, inner)
  BY DEF FinishLeafWise
<1>3. grown' = Folded(GrownLeafWise) /\ (fit.device => \A s \in inner : HasBorder(s))
  BY <1>2 DEF Fold
<1>4. \A n \in 1 .. Len(nodes) : nodes[n].split # NoSplit => nodes[n].split \in inner
  BY DEF LeafNodes, IsLeaf
<1> HIDE DEF inner
<1>5. \A n \in 1 .. Len(nodes) : nodes[n].split # NoSplit /\ fit.device => HasBorder(nodes[n].split)
  BY <1>3, <1>4
<1> QED  BY <1>1, <1>3, <1>5, LeafWiseWalks

(* So does the path of a region tree.                                      *)
LEMMA RegionWalks ==
  ASSUME fit \in Fits, RegionKept, fit.device => NoMissing,
         \A i \in 1 .. Len(path) : fit.device => HasBorder(path[i].split)
  PROVE  Walks(Folded(GrownRegion)) /\ \A o \in Objects : Folded(GrownRegion).leaf_of[o] = RegionBin(o)
<1> DEFINE t == GrownRegion
           g == Folded(t)
           L == Len(path)
<1>1. L \in Nat /\ path \in Seq(PathLevels) /\ DOMAIN path = 1 .. L
  BY DEF RegionKept, RegionBook
<1>2. /\ DOMAIN t.splits = 1 .. L /\ t.shape = "region"
      /\ \A i \in 1 .. L : t.splits[i] = path[i].split /\ t.region_directions[i] = path[i].direction
      /\ \A o \in Objects : t.leaf_of[o] = RegionBin(o)
  <2> DEFINE sp == [i \in DOMAIN path |-> path[i].split]
             di == [i \in DOMAIN path |-> path[i].direction]
             of == [o \in Objects |-> RegionBin(o)]
  <2>1. t.splits = sp /\ t.shape = "region" /\ t.region_directions = di /\ t.leaf_of = of
    BY DEF GrownRegion
  <2>2. /\ DOMAIN sp = 1 .. L /\ \A i \in 1 .. L : sp[i] = path[i].split /\ di[i] = path[i].direction
        /\ \A o \in Objects : of[o] = RegionBin(o)
    BY <1>1
  <2> HIDE DEF sp, di, of, t
  <2> QED  BY <2>1, <2>2
<1>3. /\ g.shape = "region" /\ g.splits = t.splits /\ g.region_directions = t.region_directions
      /\ ~fit.device => g.leaf_of = t.leaf_of
      /\ fit.device => \A o \in Objects :
           LET leaf == LeafOf(t, [i \in DOMAIN t.splits |-> RawPasses(t.splits[i], o)])
           IN  leaf # NoLeaf => g.leaf_of[o] = leaf
  BY <1>2, FoldedTree
<1>4. \A i \in 1 .. L : path[i].split \in SearchSplits(fit)
  <2>1. \A i \in 1 .. L : path[i] \in PathLevels
    BY <1>1
  <2> QED  BY <2>1 DEF PathLevels
<1> HIDE DEF t, g, L
<1>5. ASSUME NEW o \in Objects
      PROVE  /\ region_leaf(g, [i \in DOMAIN g.splits |-> Passes(g.splits[i], o)]) = RegionBin(o)
             /\ fit.device => region_leaf(t, [i \in DOMAIN t.splits |-> RawPasses(t.splits[i], o)]) = RegionBin(o)
  <2> DEFINE p == [i \in DOMAIN g.splits |-> Passes(g.splits[i], o)]
             r == [i \in DOMAIN t.splits |-> RawPasses(t.splits[i], o)]
  <2>1. ASSUME NEW n \in 1 .. Len(path)
        PROVE  /\ p[n] \in BOOLEAN /\ (p[n] <=> GoesRight(path[n].split, o))
               /\ r[n] \in BOOLEAN /\ (fit.device => (r[n] <=> GoesRight(path[n].split, o)))
    <3> DEFINE s == path[n].split
    <3>1. s \in SearchSplits(fit) /\ (fit.device => HasBorder(s))
      BY <1>4 DEF L
    <3>2. t.splits[n] = s /\ g.splits[n] = s /\ n \in DOMAIN t.splits /\ n \in DOMAIN g.splits
      BY <1>2, <1>3 DEF L
    <3> HIDE DEF s
    <3>3. GoesRight(s, o) <=> Passes(s, o)
      BY <3>1, SendsAsGrown
    <3>4. fit.device => (RawPasses(s, o) <=> Passes(s, o))
      BY <3>1, SendsAsGrown
    <3>5. p[n] = Passes(s, o) /\ r[n] = RawPasses(s, o)
      BY <3>2
    <3>6. Passes(s, o) \in BOOLEAN /\ RawPasses(s, o) \in BOOLEAN
      BY <3>1, SendsAsGrown
    <3> HIDE DEF p, r
    <3>7. /\ p[n] \in BOOLEAN /\ (p[n] <=> GoesRight(s, o))
          /\ r[n] \in BOOLEAN /\ (fit.device => (r[n] <=> GoesRight(s, o)))
      BY <3>3, <3>4, <3>5, <3>6
    <3> QED  BY <3>7 DEF s
  <2> HIDE DEF p, r
  <2>2. DOMAIN t.splits = 1 .. Len(path) /\ \A j \in 1 .. Len(path) : t.region_directions[j] = path[j].direction
    BY <1>2 DEF L
  <2>3. region_leaf(g, p) = RegionBin(o)
    BY <1>3, <2>1, <2>2, RegionWalk
  <2>4. fit.device => region_leaf(t, r) = RegionBin(o)
    BY <2>1, <2>2, RegionWalk
  <2> QED  BY <2>3, <2>4 DEF p, r
<1>6. ASSUME NEW o \in Objects PROVE RegionBin(o) # NoLeaf
  BY <1>1, BinOfRegion, LeafWiseAssumption DEF L
<1>7. ASSUME NEW o \in Objects PROVE g.leaf_of[o] = RegionBin(o)
  <2>1. CASE ~fit.device
    BY <1>2, <1>3, <2>1
  <2>2. CASE fit.device
    <3>1. \A p : LeafOf(t, p) = region_leaf(t, p)
      BY <1>2 DEF LeafOf
    <3> QED  BY <1>3, <1>5, <1>6, <2>2, <3>1
  <2> QED  BY <2>1, <2>2
<1>8. ASSUME NEW o \in Objects
      PROVE  g.leaf_of[o] = LeafOf(g, [i \in DOMAIN LevelOrder(g) |-> Passes(LevelOrder(g)[i], o)])
  <2>1. LevelOrder(g) = g.splits
    BY <1>3 DEF LevelOrder
  <2>2. \A p : LeafOf(g, p) = region_leaf(g, p)
    BY <1>3 DEF LeafOf
  <2> QED  BY <1>5, <1>7, <2>1, <2>2
<1> QED  BY <1>7, <1>8 DEF g, t, Walks

(* A finished Region tree walks to the level at which the object left the  *)
(* path.                                                                   *)
LEMMA RegionEndWalks ==
  ASSUME fit \in Fits, RegionKept, RegionEnd, growth' = "grown", fit.device => NoMissing
  PROVE  Walks(grown') /\ \A o \in Objects : grown'.leaf_of[o] = RegionBin(o)
<1> DEFINE inner == {path[i].split : i \in DOMAIN path}
<1>1. Fold(GrownRegion, inner)
  BY DEF RegionEnd
<1>2. grown' = Folded(GrownRegion) /\ (fit.device => \A s \in inner : HasBorder(s))
  BY <1>1 DEF Fold
<1>3. path \in Seq(PathLevels)
  BY DEF RegionKept, RegionBook
<1>4. \A i \in 1 .. Len(path) : fit.device => HasBorder(path[i].split)
  BY <1>2, <1>3
<1> QED  BY <1>2, <1>4, RegionWalks

-----------------------------------------------------------------------------
(* What all growers keep.                                                  *)
GrownIsFiled ==
  growth = "grown" /\ ~FoldsRawMissing =>
    Walks(grown) /\ \A o \in Objects : grown.leaf_of[o] = EstimatedIn(o)

(* The inductive invariant. The invariant that is stated looks at the      *)
(* books of the tree that grows and at the walk over the tree that is      *)
(* grown; what a step preserves is more: the order of the queues, the      *)
(* parts the nodes split into, the histograms that stay resident on the    *)
(* device between levels.                                                  *)
GrowthBook ==
  /\ fit \in Fits /\ growth \in {"search", "finish"} \cup Outcomes
  /\ Book /\ Resident(search, hists) /\ LeafWise /\ RegionKept
  /\ GrownIsFiled

NextGrowthBook ==
  /\ fit' = fit /\ growth' \in {"search", "finish"} \cup Outcomes
  /\ NextBook /\ Resident(search', hists') /\ NextLeafWise /\ NextRegion
  /\ GrownIsFiled'

(* The book of the next state is the next book.                            *)
LEMMA NextIsKept ==
  ASSUME GrowthBook, NextGrowthBook
  PROVE  GrowthBook'
<1>1. fit' = fit /\ UNCHANGED fit /\ fit \in Fits
  BY DEF GrowthBook, NextGrowthBook
<1>2. Book'
  BY <1>1, BookStays DEF NextGrowthBook, Book, NextBook
<1>3. Resident(search, hists)'
  BY <1>1 DEF NextGrowthBook, Resident
<1>4. LeafWise' /\ RegionKept'
  BY <1>1, LeafWiseStays, RegionStays DEF NextGrowthBook
<1> QED  BY <1>1, <1>2, <1>3, <1>4 DEF GrowthBook, NextGrowthBook

(* While no tree is grown there is nothing to file.                        *)
LEMMA NotGrown == ASSUME growth' # "grown" PROVE GrownIsFiled'
BY DEF GrownIsFiled

(* While the training stays the same, so do the walks over a tree.         *)
LEMMA WalksStay == ASSUME fit' = fit PROVE \A g : Walks(g)' = Walks(g)
BY FitStays DEF Walks

(* The books hold at the beginning of every growth.                        *)
LEMMA FreshGrowth == ASSUME Init PROVE GrowthBook
<1>1. fit \in Fits /\ growth = "search" /\ ObliviousInit /\ DeviceInit /\ LeafWiseInit /\ RegionInit
  BY DEF Init
<1>2. Book /\ Resident(search, hists) /\ LeafWise /\ RegionKept
  BY <1>1, FreshBook, FreshLeafWise, FreshRegion
<1> QED  BY <1>1, <1>2 DEF GrowthBook, GrownIsFiled

(* The search of a symmetric tree.                                         *)
LEMMA ObliviousIsKept ==
  ASSUME GrowthBook, GrowOblivious
  PROVE  NextGrowthBook
<1>1. /\ fit \in Fits /\ growth \in {"search", "finish"} \cup Outcomes
      /\ Book /\ Resident(search, hists) /\ LeafWise /\ RegionKept
  BY DEF GrowthBook
<1>2. UNCHANGED leafwise /\ UNCHANGED region /\ search' = search
  BY DEF GrowOblivious
<1>3. NextLeafWise /\ NextRegion
  BY <1>1, <1>2, StandingLeafWise, StandingRegion
<1>4. ASSUME fit' = fit, ~fit.device, NextBook,
             growth' \in {"search", "finish"} \cup Outcomes, growth' # "grown"
      PROVE  NextGrowthBook
  <2>1. Resident(search', hists')
    BY <1>1, <1>2, <1>4 DEF Resident
  <2> QED  BY <1>3, <1>4, <2>1, NotGrown DEF NextGrowthBook
<1>5. CASE SelectLevelPlain
  <2>1. NextBook
    BY <1>1, <1>2, <1>5, SelectLevelPlainIsBooked
  <2>2. fit' = fit /\ ~fit.device /\ growth' \in {"search", "degenerate"}
    BY <1>5 DEF SelectLevelPlain, Searching, LevelIsOpen, TakeSplit, input
  <2> QED  BY <1>4, <2>1, <2>2 DEF Outcomes
<1>6. CASE SelectLevelPerturbed
  <2>1. NextBook
    BY <1>1, <1>2, <1>6, SelectLevelPerturbedIsBooked
  <2>2. fit' = fit /\ ~fit.device /\ growth' = "search"
    BY <1>6 DEF SelectLevelPerturbed, Searching, LevelIsOpen, TakeSplit, input
  <2> QED  BY <1>4, <2>1, <2>2 DEF Outcomes
<1>7. CASE EndTreeEarly
  <2>1. NextBook
    BY <1>1, <1>2, <1>7, EndTreeEarlyIsBooked
  <2>2. fit' = fit /\ ~fit.device /\ growth' = "finish"
    BY <1>7 DEF EndTreeEarly, Searching, input
  <2> QED  BY <1>4, <2>1, <2>2 DEF Outcomes
<1>8. CASE SelectLevelCtrAware
  <2>1. NextBook
    BY <1>1, <1>2, <1>8, SelectLevelCtrAwareIsBooked
  <2>2. fit' = fit /\ ~fit.device /\ growth' \in {"search", "degenerate"}
    BY <1>8 DEF SelectLevelCtrAware, CtrSearching, LevelIsOpen, input
  <2> QED  BY <1>4, <2>1, <2>2 DEF Outcomes
<1>9. CASE SelectLevelOrdered
  <2>1. NextBook
    BY <1>1, <1>2, <1>9, SelectLevelOrderedIsBooked
  <2>2. fit' = fit /\ ~fit.device /\ growth' \in {"search", "degenerate"}
    BY <1>9 DEF SelectLevelOrdered, LevelIsOpen, input
  <2> QED  BY <1>4, <2>1, <2>2 DEF Outcomes
<1>10. CASE FinishOblivious
  <2>1. /\ fit' = fit /\ growth' = "grown" /\ UNCHANGED <<chosen, leaf_of, width, hists>>
        /\ fit.policy = "SymmetricTree"
    BY <1>10 DEF FinishOblivious, input, oblivious, scratch
  <2>2. NextBook /\ Resident(search', hists')
    BY <1>1, <1>2, <2>1, StandingBook DEF Outcomes
  <2>3. Walks(grown')
    BY <1>1, <1>10, FinishObliviousWalks
  <2>4. Walks(grown)'
    BY <2>1, <2>3, WalksStay
  <2>5. GrownIsFiled'
    BY <2>1, <2>4 DEF GrownIsFiled, EstimatedIn
  <2> QED  BY <1>3, <2>1, <2>2, <2>5 DEF NextGrowthBook, Outcomes
<1> QED  BY <1>5, <1>6, <1>7, <1>8, <1>9, <1>10 DEF GrowOblivious, ObliviousNext

(* The search on the device.                                               *)
LEMMA DeviceIsKept ==
  ASSUME GrowthBook, GrowOnDevice
  PROVE  NextGrowthBook
<1>1. /\ fit \in Fits /\ growth \in {"search", "finish"} \cup Outcomes
      /\ Book /\ Resident(search, hists) /\ LeafWise /\ RegionKept
  BY DEF GrowthBook
<1>2. UNCHANGED leafwise /\ UNCHANGED region
  BY DEF GrowOnDevice
<1>3. NextLeafWise /\ NextRegion
  BY <1>1, <1>2, StandingLeafWise, StandingRegion
<1>4. CASE DeviceLevel
  <2>1. NextBook /\ Resident(search', hists')
    BY <1>1, <1>4, DeviceLevelIsBooked
  <2>2. fit' = fit /\ growth' \in {"search", "degenerate"}
    BY <1>4 DEF DeviceLevel, LevelIsOpen, TakeOnDevice, input
  <2> QED  BY <1>3, <2>1, <2>2, NotGrown DEF NextGrowthBook, Outcomes
<1>5. CASE OrderedDeviceLevel
  <2>1. NextBook /\ Resident(search', hists')
    BY <1>1, <1>5, OrderedDeviceLevelIsBooked
  <2>2. fit' = fit /\ growth' \in {"search", "degenerate"}
    BY <1>5 DEF OrderedDeviceLevel, LevelIsOpen, TakeOnDevice, input
  <2> QED  BY <1>3, <2>1, <2>2, NotGrown DEF NextGrowthBook, Outcomes
<1>6. CASE FinishDevice
  <2>1. /\ fit' = fit /\ growth' \in {"grown", "out_of_range"} /\ search' = search
        /\ UNCHANGED <<chosen, leaf_of, width, hists>> /\ fit.policy = "SymmetricTree"
    BY <1>6 DEF FinishDevice, input, oblivious, scratch
  <2>2. NextBook /\ Resident(search', hists')
    BY <1>1, <2>1, StandingBook DEF Outcomes
  <2>3. ASSUME growth' = "grown", ~FoldsRawMissing' PROVE Walks(grown)'
    <3>1. ~RawMissing(chosen)
      BY <2>1, <2>3 DEF RawMissing, FoldsRawMissing, UnitWeights
    <3>2. Walks(grown')
      BY <1>1, <1>6, <2>3, <3>1, FinishDeviceWalks
    <3> QED  BY <2>1, <3>2, WalksStay
  <2>4. GrownIsFiled'
    BY <2>1, <2>3 DEF GrownIsFiled, EstimatedIn
  <2> QED  BY <1>3, <2>1, <2>2, <2>4 DEF NextGrowthBook, Outcomes
<1> QED  BY <1>4, <1>5, <1>6 DEF GrowOnDevice, DeviceNext

(* The search of a leaf-wise tree.                                         *)
LeafWiseStep ==
  \/ leaf_wise_grower \/ region_grower \/ WidthIsRefused

(* A leaf-wise step leaves the other growers alone.                        *)
LEMMA SomeLeafWiseStep == ASSUME GrowLeafWise PROVE LeafWiseStep /\ UNCHANGED oblivious /\ UNCHANGED search
BY DEF GrowLeafWise, LeafWiseNext, grow_nonsym_tree, grow_region_tree, LeafWiseStep

(* A step that keeps the leaf-wise books, and finishes no tree, keeps all  *)
(* books.                                                                  *)
LEMMA GrowersKeepSearching ==
  ASSUME GrowthBook, UNCHANGED oblivious, UNCHANGED search, fit' = fit,
         growth' \in {"search", "finish"} \cup (Outcomes \ {"grown"}), growth = "search" \/ growth' # "search",
         NextLeafWise, NextRegion
  PROVE  NextGrowthBook
<1>1. Book /\ Resident(search, hists) /\ UNCHANGED <<chosen, leaf_of, width, hists, search>>
  BY DEF GrowthBook, oblivious, scratch
<1>2. growth' \in {growth} \cup Outcomes \cup {"finish"} /\ growth' \in {"search", "finish"} \cup Outcomes
      /\ growth' # "grown"
  BY DEF Outcomes
<1>3. NextBook /\ Resident(search', hists')
  BY <1>1, <1>2, StandingBook
<1> QED  BY <1>2, <1>3, NotGrown DEF NextGrowthBook

(* Every leaf-wise step keeps the books.                                   *)
LEMMA LeafWiseIsKept ==
  ASSUME GrowthBook, GrowLeafWise
  PROVE  NextGrowthBook
<1>1. /\ fit \in Fits /\ growth \in {"search", "finish"} \cup Outcomes
      /\ Book /\ Resident(search, hists) /\ LeafWise /\ RegionKept
  BY DEF GrowthBook
<1>2. LeafWiseStep /\ UNCHANGED oblivious /\ UNCHANGED search /\ UNCHANGED <<chosen, leaf_of, width, hists, search>>
  BY SomeLeafWiseStep DEF oblivious, scratch
<1>3. CASE DepthwiseLeaf
  <2>1. fit' = fit /\ growth = "search" /\ growth' = "search" /\ UNCHANGED region
    BY <1>3 DEF DepthwiseLeaf, input
  <2>2. NextLeafWise /\ NextRegion
    BY <1>1, <1>3, <2>1, DepthwiseLeafIsBooked, StandingRegion
  <2> QED  BY <1>2, <2>1, <2>2, GrowersKeepSearching
<1>4. CASE DepthwiseLevel
  <2>1. fit' = fit /\ growth = "search" /\ growth' \in {"search", "finish"} /\ UNCHANGED region
    BY <1>4 DEF DepthwiseLevel, input
  <2>2. NextLeafWise /\ NextRegion
    BY <1>1, <1>4, <2>1, DepthwiseLevelIsBooked, StandingRegion
  <2> QED  BY <1>2, <2>1, <2>2, GrowersKeepSearching
<1>5. CASE LossguideRoot
  <2>1. fit' = fit /\ growth = "search" /\ growth' = "search" /\ UNCHANGED region
    <3>1. growth = "search" /\ UNCHANGED <<growth, input, region>>
      BY <1>5 DEF LossguideRoot
    <3> QED  BY <3>1 DEF input
  <2>2. NextLeafWise /\ NextRegion
    BY <1>1, <1>5, <2>1, LossguideRootIsBooked, StandingRegion
  <2> QED  BY <1>2, <2>1, <2>2, GrowersKeepSearching
<1>6. CASE LossguideLeaf
  <2>1. fit' = fit /\ growth = "search" /\ growth' = "search" /\ UNCHANGED region
    BY <1>6 DEF LossguideLeaf, input
  <2>2. NextLeafWise /\ NextRegion
    BY <1>1, <1>6, <2>1, LossguideLeafIsBooked, StandingRegion
  <2> QED  BY <1>2, <2>1, <2>2, GrowersKeepSearching
<1>7. CASE LossguideEnd
  <2>1. fit' = fit /\ growth = "search" /\ growth' = "finish" /\ UNCHANGED leafwise /\ UNCHANGED region
    BY <1>7 DEF LossguideEnd, input
  <2>2. NextLeafWise /\ NextRegion
    BY <1>1, <2>1, StandingLeafWise, StandingRegion
  <2> QED  BY <1>2, <2>1, <2>2, GrowersKeepSearching
<1>8. CASE RegionLevel
  <2>1. fit' = fit /\ growth = "search" /\ growth' = "search" /\ UNCHANGED leafwise
    BY <1>8 DEF RegionLevel, input
  <2>2. NextLeafWise /\ NextRegion
    BY <1>1, <1>8, <2>1, RegionLevelIsBooked, StandingLeafWise
  <2> QED  BY <1>2, <2>1, <2>2, GrowersKeepSearching
<1>9. CASE WidthIsRefused
  <2>1. fit' = fit /\ growth = "search" /\ growth' = "unsupported_width" /\ UNCHANGED leafwise /\ UNCHANGED region
    BY <1>9 DEF WidthIsRefused, input
  <2>2. NextLeafWise /\ NextRegion
    BY <1>1, <2>1, StandingLeafWise, StandingRegion
  <2> QED  BY <1>2, <2>1, <2>2, GrowersKeepSearching DEF Outcomes
<1>10. ASSUME fit' = fit, UNCHANGED leafwise, UNCHANGED region,
              growth' \in Outcomes, GrownIsFiled'
       PROVE  NextGrowthBook
  <2>1. NextLeafWise /\ NextRegion
    BY <1>1, <1>10, StandingLeafWise, StandingRegion
  <2>2. NextBook /\ Resident(search', hists')
    BY <1>1, <1>2, <1>10, StandingBook
  <2> QED  BY <1>10, <2>1, <2>2 DEF NextGrowthBook
<1>11. ASSUME ~FoldsRawMissing', fit' = fit, fit.policy # "SymmetricTree" PROVE fit.device => NoMissing
  BY <1>11 DEF FoldsRawMissing, NoMissing
<1>12. CASE FinishLeafWise
  <2>1. /\ fit' = fit /\ UNCHANGED leafwise /\ UNCHANGED region /\ growth' \in {"out_of_range", "degenerate", "grown"}
        /\ fit.policy \in {"Depthwise", "Lossguide"}
    <3>1. \A t, s : Fold(t, s) => growth' \in {"out_of_range", "grown"}
      BY DEF Fold
    <3> QED  BY <1>12, <3>1 DEF FinishLeafWise, input
  <2>2. ASSUME growth' = "grown", ~FoldsRawMissing'
        PROVE  Walks(grown)' /\ \A o \in Objects : (grown.leaf_of[o] = EstimatedIn(o))'
    <3>1. Walks(grown') /\ \A o \in Objects : grown'.leaf_of[o] = LeafId(leaf_owner[o])
      BY <1>1, <1>11, <1>12, <2>1, <2>2, FinishLeafWiseWalks
    <3>2. \A o : EstimatedIn(o)' = LeafId(leaf_owner[o])
      BY <2>1 DEF EstimatedIn, LeafId, LeafNodes, IsLeaf, leafwise
    <3> QED  BY <2>1, <3>1, <3>2, WalksStay
  <2>3. GrownIsFiled'
    BY <2>2 DEF GrownIsFiled
  <2> QED  BY <1>10, <2>1, <2>3 DEF Outcomes
<1>13. CASE RegionEnd
  <2>1. /\ fit' = fit /\ UNCHANGED leafwise /\ UNCHANGED region /\ growth' \in {"out_of_range", "degenerate", "grown"}
        /\ fit.policy = "Region"
    <3>1. \A t, s : Fold(t, s) => growth' \in {"out_of_range", "grown"}
      BY DEF Fold
    <3> QED  BY <1>13, <3>1 DEF RegionEnd, input
  <2>2. ASSUME growth' = "grown", ~FoldsRawMissing'
        PROVE  Walks(grown)' /\ \A o \in Objects : (grown.leaf_of[o] = EstimatedIn(o))'
    <3>1. Walks(grown') /\ \A o \in Objects : grown'.leaf_of[o] = RegionBin(o)
      BY <1>1, <1>11, <1>13, <2>1, <2>2, RegionEndWalks
    <3>2. \A o : EstimatedIn(o)' = RegionBin(o)
      BY <2>1 DEF EstimatedIn, RegionBin, region
    <3> QED  BY <2>1, <3>1, <3>2, WalksStay
  <2>3. GrownIsFiled'
    BY <2>2 DEF GrownIsFiled
  <2> QED  BY <1>10, <2>1, <2>3 DEF Outcomes
<1> QED
  BY <1>2, <1>3, <1>4, <1>5, <1>6, <1>7, <1>8, <1>9, <1>12, <1>13
     DEF LeafWiseStep, leaf_wise_grower, region_grower

(* The books imply the type invariant.                                     *)
LEMMA KeptRanges == ASSUME GrowthBook PROVE TypeOK
<1>1. /\ fit \in Fits /\ growth \in {"search", "finish"} \cup Outcomes
      /\ Book /\ LeafWise /\ RegionKept /\ N \in Nat /\ MaxDepth \in Nat
  BY FitsAssumption DEF GrowthBook
<1>2. NodesBook(nodes, leaf_owner) /\ (leaf_count = 0 \/ leaf_count = Cardinality(LeavesOf(nodes)))
  BY <1>1 DEF LeafWise, LeafWiseBook
<1>3. /\ width \in 1 .. Pow2(MaxDepth) /\ leaf_of \in [Objects -> 0 .. width - 1]
      /\ Len(chosen) <= MaxDepth
      /\ LET cands == IF fit.device THEN DeviceCandidates ELSE Candidates(Floats \cup OneHots \cup Ctrs)
         IN  \A i \in DOMAIN chosen : chosen[i] \in cands
      /\ search.float_split_count <= Len(chosen)
  BY <1>1, BookedRanges
<1>4. leaf_owner \in [Objects -> 1 .. Len(nodes)] /\ DOMAIN nodes = 1 .. Len(nodes)
  BY <1>2 DEF NodesBook
<1>5. \A n \in DOMAIN nodes : nodes[n].docs \subseteq Objects /\ nodes[n].depth <= MaxDepth
  <2>1. ASSUME NEW n \in 1 .. Len(nodes) PROVE nodes[n].docs \subseteq Objects /\ nodes[n].depth <= MaxDepth
    <3>1. nodes[n].docs \in SUBSET Objects /\ nodes[n].depth \in 0 .. MaxDepth
      BY <1>2, NodeFacts
    <3> QED  BY <1>1, <3>1
  <2> QED  BY <1>4, <2>1
<1>6. leaf_count \in 0 .. N
  <2>1. Cardinality(LeavesOf(nodes)) \in 0 .. N
    BY <1>2, LeavesCounted
  <2> QED  BY <1>1, <1>2, <2>1
<1>7. frontier \subseteq Objects /\ Len(path) <= MaxDepth /\ Len(terminal_docs) = Len(path)
  BY <1>1 DEF RegionKept, RegionBook, Followers
<1> QED  BY <1>1, <1>3, <1>4, <1>5, <1>6, <1>7 DEF TypeOK

(* They imply that owned objects are those of the leaves, and that no      *)
(* leaf is empty.                                                          *)
LEMMA KeptLeaves == ASSUME GrowthBook PROVE OwnersAreDocs /\ NoLeafIsEmpty
<1>1. NodesBook(nodes, leaf_owner) /\ RegionKept
  BY DEF GrowthBook, LeafWise, LeafWiseBook
<1>2. \A n \in 1 .. Len(nodes) : LeafBook(nodes, leaf_owner, n) /\ ForkBook(nodes, n)
  BY <1>1 DEF NodesBook
<1>3. OwnersAreDocs
  BY <1>2 DEF OwnersAreDocs, LeafBook, ForkBook, LeafNodes, IsLeaf
<1>4. \A n \in LeafNodes : nodes[n].docs # {}
  BY <1>2 DEF LeafBook, LeafNodes, IsLeaf
<1>5. frontier # {} /\ \A i \in DOMAIN terminal_docs : terminal_docs[i] # {}
  BY <1>1 DEF RegionKept, RegionBook
<1> QED  BY <1>3, <1>4, <1>5 DEF NoLeafIsEmpty

(* And with the walks, that the growers keep their books.                  *)
LEMMA KeptBooks == ASSUME GrowthBook PROVE GrowersKeepTheirBooks
<1>1. fit \in Fits /\ Book /\ GrownIsFiled
  BY DEF GrowthBook
<1>2. GrownLeafIsApplied
  BY <1>1 DEF GrownIsFiled, GrownLeafIsApplied, Walks
<1> QED  BY <1>1, <1>2, KeptRanges, KeptLeaves, BookedHistograms, BookedPartition DEF GrowersKeepTheirBooks

(* Every step of the growers keeps the books.                              *)
LEMMA GrowersStep == ASSUME GrowthBook, [Next]_vars PROVE GrowthBook'
<1>1. CASE GrowOblivious
  BY <1>1, ObliviousIsKept, NextIsKept
<1>2. CASE GrowOnDevice
  BY <1>2, DeviceIsKept, NextIsKept
<1>3. CASE GrowLeafWise
  BY <1>3, LeafWiseIsKept, NextIsKept
<1>4. CASE UNCHANGED vars
  <2>1. UNCHANGED <<fit, growth, grown, chosen, leaf_of, width, hists, search>>
        /\ UNCHANGED leafwise /\ UNCHANGED region
    BY <1>4 DEF vars, oblivious, scratch
  <2>2. NextBook /\ Resident(search', hists')
    BY <2>1, StandingBook DEF GrowthBook
  <2>3. NextLeafWise /\ NextRegion
    BY <2>1, StandingLeafWise, StandingRegion DEF GrowthBook
  <2>4. Walks(grown)' = Walks(grown)
    BY <2>1, WalksStay
  <2>5. \A o : EstimatedIn(o)' = EstimatedIn(o)
    BY <2>1 DEF EstimatedIn, LeafId, LeafNodes, IsLeaf, RegionBin, leafwise, region
  <2>6. FoldsRawMissing' = FoldsRawMissing
    BY <2>1 DEF FoldsRawMissing, UnitWeights
  <2>7. GrownIsFiled'
    BY <2>1, <2>4, <2>5, <2>6 DEF GrownIsFiled, GrowthBook
  <2> QED  BY <2>1, <2>2, <2>3, <2>7, NextIsKept DEF NextGrowthBook, GrowthBook
<1> QED  BY <1>1, <1>2, <1>3, <1>4 DEF Next, Returned

(* The books of the growers of a tree never part, for every fit and every  *)
(* score: the partition is that of the splits, the histograms are those of *)
(* the partition, an object is in the leaf that owns it and no leaf of a   *)
(* leaf-wise tree is empty, and the leaf a finished tree records of an     *)
(* object is the one it was estimated in and the one the walk of the tree  *)
(* (its bits, its offsets, its path) finds (train_inner_impl and its       *)
(* growers, cb-train/src/boosting.rs and tree.rs).                         *)
THEOREM GrowersKeepBooks == Spec => []GrowersKeepTheirBooks
<1>1. Init => GrowthBook
  BY FreshGrowth
<1>2. GrowthBook /\ [Next]_vars => GrowthBook'
  BY GrowersStep
<1>3. GrowthBook => GrowersKeepTheirBooks
  BY KeptBooks
<1> QED  BY <1>1, <1>2, <1>3, PTL DEF Spec

-----------------------------------------------------------------------------
(* A scan of a histogram scores a split as a rescan of the objects does.   *)

(* A sum is that of its halves, added term by term.                        *)
LEMMA SumOfHalves ==
  ASSUME NEW n \in Nat, NEW value, \A i \in 0 .. 2 * n - 1 : value[i] \in Int,
         NEW other, \A i \in 0 .. n - 1 : other[i] = value[i] + value[n + i]
  PROVE  SumTo(2 * n, value) = SumTo(n, other)
<1>1. 2 * n \in Nat
  OBVIOUS
<1>2. PICK s : Adds(2 * n, value, s)
  BY <1>1, SumsExist
<1>3. /\ s \in [0 .. 2 * n -> Int] /\ s[0] = 0
      /\ \A k \in 0 .. 2 * n - 1 : s[k + 1] = s[k] + value[k]
  BY <1>2 DEF Adds
<1> DEFINE t == [k \in 0 .. n |-> s[k] + s[n + k] - s[n]]
<1>4. \A k \in 0 .. n : s[k] \in Int /\ s[n + k] \in Int /\ t[k] = s[k] + s[n + k] - s[n]
  BY <1>3
<1>5. t \in [0 .. n -> Int] /\ t[0] = 0
  BY <1>3, <1>4
<1>6. ASSUME NEW k \in 0 .. n - 1 PROVE t[k + 1] = t[k] + other[k]
  <2>1. k \in 0 .. n /\ k + 1 \in 0 .. n /\ k \in 0 .. 2 * n - 1 /\ n + k \in 0 .. 2 * n - 1 /\ n + (k + 1) = (n + k) + 1
    OBVIOUS
  <2>2. s[k + 1] = s[k] + value[k] /\ s[(n + k) + 1] = s[n + k] + value[n + k]
    BY <1>3, <2>1
  <2>3. /\ value[k] \in Int /\ value[n + k] \in Int /\ s[k] \in Int /\ s[n + k] \in Int /\ s[n] \in Int
        /\ other[k] = value[k] + value[n + k]
    BY <1>3, <2>1
  <2>4. t[k] = s[k] + s[n + k] - s[n] /\ t[k + 1] = s[k + 1] + s[(n + k) + 1] - s[n]
    BY <2>1
  <2> HIDE DEF t
  <2> QED  BY <2>2, <2>3, <2>4
<1>7. t[n] = s[2 * n]
  <2>1. n + n = 2 * n /\ n \in 0 .. n
    OBVIOUS
  <2> QED  BY <1>3, <1>4, <2>1
<1> HIDE DEF t
<1>8. Adds(n, other, t)
  BY <1>5, <1>6 DEF Adds
<1>9. SumTo(2 * n, value) = s[2 * n] /\ SumTo(n, other) = t[n]
  BY <1>1, <1>2, <1>8, SumIs
<1> QED  BY <1>7, <1>9

(* The objects of a leaf that a split sends right, and those it does not.  *)
Rights(s, leaf, l) == {o \in Objects : leaf[o] = l /\ Passes(s, o)}
Lefts(s, leaf, l) == {o \in Objects : leaf[o] = l /\ ~Passes(s, o)}

(* A split of a border and the bins it is searched by.                     *)
BinsTell(s, bins, nb) ==
  /\ s \in SearchSplits(fit) /\ NamesABorder(s)
  /\ bins = BinsOf(<<s.kind, s.feature>>) /\ bins \in [Objects -> Nat]
  /\ nb \in Nat \ {0} /\ \A o \in Objects : bins[o] < nb

(* The scores of the two sides of a split in a leaf of a histogram.        *)
RightSide(h, l, s) == SideScore(h, l, TrueBins(s, DOMAIN h[l]))
LeftSide(h, l, s) == SideScore(h, l, DOMAIN h[l] \ TrueBins(s, DOMAIN h[l]))

(* A histogram's two sides of a split are its objects'.                    *)
LEMMA SidesOfBins ==
  ASSUME fit \in Fits, NEW s, NEW bins, NEW nb, BinsTell(s, bins, nb),
         NEW leaf, NEW w \in Nat \ {0}, NEW h, h = Build(bins, leaf, w, nb), NEW l \in 0 .. w - 1
  PROVE  RightSide(h, l, s) = ScoreOf(Rights(s, leaf, l)) /\ LeftSide(h, l, s) = ScoreOf(Lefts(s, leaf, l))
<1>0. /\ s \in SearchSplits(fit) /\ NamesABorder(s)
      /\ bins = BinsOf(<<s.kind, s.feature>>) /\ bins \in [Objects -> Nat]
      /\ nb \in Nat \ {0} /\ \A o \in Objects : bins[o] < nb
  BY DEF BinsTell
<1>a. bins \in [Objects -> Nat] /\ nb \in Nat \ {0}
  BY <1>0
<1> DEFINE right == TrueBins(s, DOMAIN h[l])
<1>1. DOMAIN h[l] = 0 .. nb - 1
  <2>1. Counts(h, bins, leaf, w, nb)
    BY BuiltCells
  <2> QED  BY <2>1 DEF Counts
<1>2. \A o \in Objects : bins[o] \in 0 .. nb - 1
  BY <1>0
<1>3. \A o \in Objects : Passes(s, o) <=> bins[o] \in right
  <2> TAKE o \in Objects
  <2>1. DevicePasses(s, o) <=> Passes(s, o)
    BY <1>0, DeviceSendsAlike
  <2>2. DevicePasses(s, o) <=> IF s.kind = "onehot" THEN bins[o] = s.at ELSE bins[o] >= s.at
    BY <1>0 DEF DevicePasses
  <2> QED  BY <1>1, <1>2, <2>1, <2>2 DEF TrueBins
<1> HIDE DEF right
<1>4. SideScore(h, l, right) = ScoreOf(Rights(s, leaf, l))
  <2>1. SideScore(h, l, right) = ScoreOf({o \in Objects : leaf[o] = l /\ bins[o] \in right /\ bins[o] \in 0 .. nb - 1})
    BY <1>a, BuiltSideScore
  <2>2. {o \in Objects : leaf[o] = l /\ bins[o] \in right /\ bins[o] \in 0 .. nb - 1} = Rights(s, leaf, l)
    BY <1>2, <1>3 DEF Rights
  <2> QED  BY <2>1, <2>2
<1>5. SideScore(h, l, DOMAIN h[l] \ right) = ScoreOf(Lefts(s, leaf, l))
  <2> DEFINE S == DOMAIN h[l] \ right
  <2>1. {o \in Objects : leaf[o] = l /\ bins[o] \in S /\ bins[o] \in 0 .. nb - 1} = Lefts(s, leaf, l)
    BY <1>1, <1>2, <1>3 DEF Lefts
  <2> HIDE DEF S
  <2>2. SideScore(h, l, S) = ScoreOf({o \in Objects : leaf[o] = l /\ bins[o] \in S /\ bins[o] \in 0 .. nb - 1})
    BY <1>a, BuiltSideScore
  <2> QED  BY <2>1, <2>2 DEF S
<1> QED  BY <1>4, <1>5 DEF right, RightSide, LeftSide

(* What a scan over the leaves of a list of splits gives.                  *)
ScanOf(prior, s, nb) ==
  ScanScore(Build(BinsOf(<<s.kind, s.feature>>), AssignLeaves(prior), Pow2(Len(prior)), nb), s)

(* The scan of one level's histograms is the rescan one level further.     *)
LEMMA ScanIsRescan ==
  ASSUME fit \in Fits, NEW prior \in Seq(SearchSplits(fit)),
         NEW s \in SearchSplits(fit), NamesABorder(s), <<s.kind, s.feature>> \in DeviceColumns,
         NEW nb \in Nat \ {0}, \A o \in Objects : BinsOf(<<s.kind, s.feature>>)[o] < nb
  PROVE  ScanOf(prior, s, nb) = RescanScore(Append(prior, s)) /\ RescanScore(Append(prior, s)) \in Int
<1> DEFINE n == Len(prior)
           w == Pow2(n)
           bins == BinsOf(<<s.kind, s.feature>>)
           leaf == AssignLeaves(prior)
           h == Build(bins, leaf, w, nb)
           more == Append(prior, s)
           next == AssignLeaves(more)
           At(l) == {o \in Objects : next[o] = l}
           value == [l \in Leaves(2 * w) |-> ScoreOf(At(l))]
           right(l) == TrueBins(s, DOMAIN h[l])
           other == [l \in DOMAIN h |-> SideScore(h, l, right(l)) + SideScore(h, l, DOMAIN h[l] \ right(l))]
<1>1. n \in Nat /\ Len(more) = n + 1
  OBVIOUS
<1>2. w \in Nat \ {0} /\ Pow2(n + 1) = 2 * w
  BY <1>1, Pow2Steps
<1>3. bins \in [Objects -> Nat]
  BY BinsAreNumbers
<1>4. leaf \in [Objects -> 0 .. w - 1]
  BY <1>1, AssignedRange
<1>5. \A o \in Objects : next[o] = leaf[o] + (IF Passes(s, o) THEN w ELSE 0)
  BY OneSplitMore
<1>6. DOMAIN h = 0 .. w - 1 /\ Cardinality(DOMAIN h) = w
  <2>1. Counts(h, bins, leaf, w, nb)
    BY BuiltCells
  <2>2. DOMAIN h = 0 .. w - 1
    BY <2>1 DEF Counts
  <2> HIDE DEF w, h
  <2> QED  BY <1>2, <2>2, Intervals
<1>7. RescanScore(more) = SumTo(2 * w, value)
  BY <1>1, <1>2 DEF RescanScore
<1>8. ScanOf(prior, s, nb) = SumTo(w, other)
  BY <1>6 DEF ScanOf, ScanScore
<1>9. \A l \in 0 .. 2 * w - 1 : value[l] \in Int /\ value[l] = ScoreOf(At(l))
  <2> TAKE l \in 0 .. 2 * w - 1
  <2>1. value[l] = ScoreOf(At(l))
    BY DEF Leaves
  <2>2. At(l) \in SUBSET Objects
    OBVIOUS
  <2> HIDE DEF At, value
  <2> QED  BY <2>1, <2>2, ScoreIsInt
<1>10. ASSUME NEW l \in 0 .. w - 1 PROVE other[l] = value[l] + value[w + l]
  <2>1. other[l] = SideScore(h, l, right(l)) + SideScore(h, l, DOMAIN h[l] \ right(l))
    BY <1>6
  <2>2. /\ SideScore(h, l, right(l)) = ScoreOf(Rights(s, leaf, l))
        /\ SideScore(h, l, DOMAIN h[l] \ right(l)) = ScoreOf(Lefts(s, leaf, l))
    <3>1. h = Build(bins, leaf, w, nb) /\ BinsTell(s, bins, nb)
      BY <1>3 DEF BinsTell
    <3> HIDE DEF w, leaf, h, bins
    <3>2. w \in Nat \ {0} /\ l \in 0 .. w - 1
      BY <1>2
    <3>3. RightSide(h, l, s) = ScoreOf(Rights(s, leaf, l)) /\ LeftSide(h, l, s) = ScoreOf(Lefts(s, leaf, l))
      BY <3>1, <3>2, SidesOfBins
    <3> QED  BY <3>3 DEF RightSide, LeftSide
  <2>3. l \in 0 .. 2 * w - 1 /\ w + l \in 0 .. 2 * w - 1
    BY <1>2
  <2> HIDE DEF w, leaf, next
  <2>4. At(l) = Lefts(s, leaf, l)
    BY <1>2, <1>4, <1>5 DEF Lefts
  <2>5. At(w + l) = Rights(s, leaf, l)
    BY <1>2, <1>4, <1>5 DEF Rights
  <2>6. value[l] = ScoreOf(Lefts(s, leaf, l)) /\ value[w + l] = ScoreOf(Rights(s, leaf, l))
    BY <1>9, <2>3, <2>4, <2>5
  <2>7. ScoreOf(Lefts(s, leaf, l)) \in Int /\ ScoreOf(Rights(s, leaf, l)) \in Int
    BY <1>9, <2>3, <2>6
  <2> HIDE DEF other, right, h, value
  <2> QED  BY <2>1, <2>2, <2>6, <2>7
<1> HIDE DEF w, value, other
<1>11. \A l \in 0 .. 2 * w - 1 : value[l] \in Int
  BY <1>9
<1>12. SumTo(2 * w, value) = SumTo(w, other)
  BY <1>2, <1>10, <1>11, SumOfHalves
<1>13. SumTo(2 * w, value) \in Int
  <2>1. 2 * w \in Nat
    BY <1>2
  <2> QED  BY <1>11, <2>1, SumIsInt
<1> QED  BY <1>7, <1>8, <1>12, <1>13

-----------------------------------------------------------------------------
(* The reference: what a rescan of the candidates of a level chooses.      *)
Rescans(prior, cands) == [s \in cands |-> RescanScore(Append(prior, s))]
Weighed(prior, cands) == [s \in cands |-> CandidateWeight(prior, s) * RescanScore(Append(prior, s))]
CpuCandidatesOf(prior) ==
  IF fit.ctrs = <<>> THEN Candidates(Floats \cup OneHots) ELSE CtrAwareCandidates(prior)
Reference(prior, s) == FirstBest(Weighed(prior, CpuCandidatesOf(prior)), s)

(* A level's histograms, as far as its candidates read them, are those of  *)
(* the partition of the splits before it.                                  *)
ReadsLevel(prior, cands, h) ==
  /\ prior \in Seq(SearchSplits(fit)) /\ cands \in SUBSET SearchSplits(fit)
  /\ \A s \in cands :
       /\ NamesABorder(s) /\ <<s.kind, s.feature>> \in DeviceColumns
       /\ HistBins(<<s.kind, s.feature>>) \in Nat \ {0}
       /\ \A o \in Objects : BinsOf(<<s.kind, s.feature>>)[o] < HistBins(<<s.kind, s.feature>>)
       /\ h[<<s.kind, s.feature>>] =
            Build(BinsOf(<<s.kind, s.feature>>), AssignLeaves(prior), Pow2(Len(prior)), HistBins(<<s.kind, s.feature>>))

(* Then a scan of them is a rescan.                                        *)
LEMMA ScansAreRescans ==
  ASSUME fit \in Fits, NEW prior, NEW cands, NEW h, ReadsLevel(prior, cands, h), NEW s \in cands
  PROVE  /\ ScanScore(h[<<s.kind, s.feature>>], s) = RescanScore(Append(prior, s))
         /\ RescanScore(Append(prior, s)) \in Int
<1> DEFINE nb == HistBins(<<s.kind, s.feature>>)
<1>1. /\ prior \in Seq(SearchSplits(fit)) /\ s \in SearchSplits(fit)
      /\ NamesABorder(s) /\ <<s.kind, s.feature>> \in DeviceColumns
      /\ nb \in Nat \ {0} /\ \A o \in Objects : BinsOf(<<s.kind, s.feature>>)[o] < nb
  BY DEF ReadsLevel
<1>2. ScanScore(h[<<s.kind, s.feature>>], s) = ScanOf(prior, s, nb)
  BY DEF ReadsLevel, ScanOf
<1> HIDE DEF nb
<1>3. ScanOf(prior, s, nb) = RescanScore(Append(prior, s)) /\ RescanScore(Append(prior, s)) \in Int
  BY <1>1, ScanIsRescan
<1> QED  BY <1>2, <1>3

(* so the best of a scan is the best of a rescan.                          *)
LEMMA ChoiceIsRescan ==
  ASSUME fit \in Fits, NEW prior, NEW cands, NEW h, ReadsLevel(prior, cands, h), cands # {}
  PROVE  Choice(h, cands) \in cands /\ FirstBest(Rescans(prior, cands), Choice(h, cands))
<1> DEFINE score == [s \in cands |-> ScanScore(h[<<s.kind, s.feature>>], s)]
<1>1. \A s \in cands : score[s] = RescanScore(Append(prior, s)) /\ RescanScore(Append(prior, s)) \in Int
  BY ScansAreRescans
<1>2. score = Rescans(prior, cands)
  BY <1>1 DEF Rescans
<1>3. Choice(h, cands) = select_best(score)
  BY DEF Choice
<1>4. Choosable(cands)
  BY SearchSplitsChoosable DEF ReadsLevel
<1>5. ScoredCands(cands, score)
  BY <1>1, <1>4 DEF ScoredCands
<1> HIDE DEF score
<1>6. FirstBest(score, select_best(score))
  BY <1>5, SelectBestIsFirst
<1>7. select_best(score) \in cands
  BY <1>5, <1>6 DEF FirstBest, ScoredCands
<1> QED  BY <1>2, <1>3, <1>6, <1>7

(* Candidates of the same weight are ranked as without it.                 *)
LEMMA EquallyWeighed ==
  ASSUME NEW prior, NEW cands, NEW w \in Nat \ {0},
         \A s \in cands : CandidateWeight(prior, s) = w /\ RescanScore(Append(prior, s)) \in Int,
         NEW x, FirstBest(Rescans(prior, cands), x)
  PROVE  FirstBest(Weighed(prior, cands), x)
<1>1. x \in cands
  BY DEF FirstBest, Rescans
<1> DEFINE R(s) == RescanScore(Append(prior, s))
<1>2. \A d \in cands : R(d) <= R(x) /\ (Before(d, x) => R(d) < R(x))
  BY DEF FirstBest, Rescans
<1>3. \A d \in cands : R(d) \in Int /\ Weighed(prior, cands)[d] = w * R(d)
  BY DEF Weighed
<1>4. \A a, b \in Int : (a <= b => w * a <= w * b) /\ (a < b => w * a < w * b)
  OBVIOUS
<1> HIDE DEF R
<1>5. \A d \in cands : w * R(d) <= w * R(x) /\ (Before(d, x) => w * R(d) < w * R(x))
  BY <1>1, <1>2, <1>3, <1>4
<1>6. DOMAIN Weighed(prior, cands) = cands
  BY DEF Weighed
<1> QED  BY <1>1, <1>3, <1>5, <1>6 DEF FirstBest

(* What the CPU has chosen are borders.                                    *)
LEMMA ChosenAreBorders ==
  ASSUME fit \in Fits, Book, ~fit.device
  PROVE  chosen \in Seq(SearchSplits(fit)) /\ \A i \in DOMAIN chosen : NamesABorder(chosen[i])
<1>1. \A i \in DOMAIN chosen : chosen[i] \in Candidates(Floats \cup OneHots \cup Ctrs)
  BY DEF Book, TreeBook, Chosen, Cands
<1>2. \A s \in Candidates(Floats \cup OneHots \cup Ctrs) : s.kind = "float" => s.at <= fit.floats[s.feature].borders
  BY CpuCandidates
<1> QED  BY <1>1, <1>2, ChosenSplits DEF NamesABorder

(* A level of floats and one-hots starts from the partition of the splits  *)
(* chosen.                                                                 *)
LEMMA PlainReadsLevel ==
  ASSUME fit \in Fits, Book, Searching, NEW cols, cols \in SUBSET (Floats \cup OneHots),
         hists' = [col \in cols |-> LevelHist(col)], NEW cands \in SUBSET Candidates(cols)
  PROVE  ReadsLevel(chosen, cands, hists')
<1>0. ~fit.device
  BY DEF Searching
<1>1. chosen \in Seq(SearchSplits(fit)) /\ \A i \in DOMAIN chosen : NamesABorder(chosen[i])
  BY <1>0, ChosenAreBorders
<1>2. /\ Parted(chosen, leaf_of, width, Len(chosen))
      /\ \A col \in cols : /\ HistBins(col) \in Nat \ {0}
                           /\ hists'[col] = Build(BinsOf(col), leaf_of, width, HistBins(col))
  BY PlainLevelIsBuilt
<1>3. width = Pow2(Len(chosen)) /\ leaf_of = AssignLeaves(chosen)
  <2>1. SubSeq(chosen, 1, Len(chosen)) = chosen
    BY <1>1
  <2> QED  BY <1>1, <1>2, <2>1 DEF Parted
<1>4. cols \subseteq Floats \cup OneHots \cup Ctrs
  OBVIOUS
<1>5. /\ Candidates(cols) \subseteq SearchSplits(fit)
      /\ \A s \in Candidates(cols) : <<s.kind, s.feature>> \in cols /\ NamesABorder(s)
  BY <1>4, CpuCandidates DEF NamesABorder
<1>6. \A col \in cols : col \in DeviceColumns /\ \A o \in Objects : BinsOf(col)[o] < HistBins(col)
  BY <1>0, <1>4, HistsHoldBins, SearchedColumns
<1> QED  BY <1>1, <1>2, <1>3, <1>5, <1>6 DEF ReadsLevel

(* None of its candidates is weighed down.                                 *)
LEMMA PlainWeights ==
  ASSUME fit \in Fits, NEW s \in Candidates(Floats \cup OneHots), NEW prior
  PROVE  CandidateWeight(prior, s) = Whole
<1>1. Floats \cup OneHots \subseteq Floats \cup OneHots \cup Ctrs
  OBVIOUS
<1>2. <<s.kind, s.feature>> \in Floats \cup OneHots
  BY <1>1, CpuCandidates
<1>3. s.kind # "ctr"
  BY <1>2, ColumnKinds
<1> QED  BY <1>3 DEF CandidateWeight

(* A best of a rescan is the reference, if all candidates weigh alike.     *)
LEMMA PlainReference ==
  ASSUME fit \in Fits, fit.ctrs = <<>>, NEW prior, NEW h,
         ReadsLevel(prior, Candidates(Floats \cup OneHots), h), NEW x,
         FirstBest(Rescans(prior, Candidates(Floats \cup OneHots)), x)
  PROVE  Reference(prior, x)
<1> DEFINE cands == Candidates(Floats \cup OneHots)
<1>1. \A s \in cands : CandidateWeight(prior, s) = Whole /\ RescanScore(Append(prior, s)) \in Int
  BY PlainWeights, ScansAreRescans
<1>2. Whole \in Nat \ {0}
  BY CtrAssumption
<1>3. CpuCandidatesOf(prior) = cands
  BY DEF CpuCandidatesOf
<1> HIDE DEF cands
<1>4. FirstBest(Weighed(prior, cands), x)
  BY <1>1, <1>2, EquallyWeighed DEF cands
<1> QED  BY <1>3, <1>4 DEF Reference

(* select_level_plain chooses the reference.                               *)
LEMMA PlainChoosesReference ==
  ASSUME fit \in Fits, Book, SelectLevelPlain
  PROVE  chosen' = chosen \/ \E s \in Splits : chosen' = Append(chosen, s) /\ Reference(chosen, s)
<1> DEFINE cols == Floats \cup OneHots
           cands == Candidates(cols)
<1>1. Searching /\ hists' = [col \in cols |-> LevelHist(col)] /\ fit.ctrs = <<>>
      /\ (cols = {} => chosen' = chosen) /\ (cols # {} => TakeSplit(Choice(hists', cands)))
  BY DEF SelectLevelPlain, Searching
<1>2. CASE cols = {}
  BY <1>1, <1>2
<1>3. CASE cols # {}
  <2>1. ReadsLevel(chosen, cands, hists')
    BY <1>1, PlainReadsLevel
  <2>2. cands # {} /\ cands \subseteq SearchSplits(fit)
    <3>1. cols \subseteq Floats \cup OneHots \cup Ctrs
      OBVIOUS
    <3> QED  BY <1>3, <3>1, CpuCandidates
  <2> HIDE DEF cands, cols
  <2>3. Choice(hists', cands) \in cands /\ FirstBest(Rescans(chosen, cands), Choice(hists', cands))
    BY <2>1, <2>2, ChoiceIsRescan
  <2>4. Reference(chosen, Choice(hists', cands))
    BY <1>1, <2>1, <2>3, PlainReference DEF cands, cols
  <2>5. chosen' = Append(chosen, Choice(hists', cands))
    BY <1>1, <1>3 DEF TakeSplit
  <2>6. SearchSplits(fit) \in SUBSET Splits
    BY SplitRangeIsFinite DEF SearchSplits
  <2> QED  BY <2>2, <2>3, <2>4, <2>5, <2>6
<1> QED  BY <1>2, <1>3

(* Fewer candidates read the same histograms.                              *)
LEMMA ReadsFewer ==
  ASSUME NEW prior, NEW cands, NEW h, ReadsLevel(prior, cands, h), NEW few \in SUBSET cands
  PROVE  ReadsLevel(prior, few, h)
BY DEF ReadsLevel

(* A winner of each part, and the best of the winners.                     *)
StagedBest(score, part, W, x) ==
  /\ \A d \in DOMAIN score : \E p \in DOMAIN part : d \in part[p]
  /\ \A p \in DOMAIN part :
       /\ part[p] \subseteq DOMAIN score
       /\ \E w \in W : w \in part[p] /\ FirstBest([d \in part[p] |-> score[d]], w)
  /\ W \subseteq DOMAIN score /\ FirstBest([d \in W |-> score[d]], x)

LEMMA StagedIsBest ==
  ASSUME NEW cands, NEW score, ScoredCands(cands, score), NEW part, NEW W, NEW x,
         StagedBest(score, part, W, x)
  PROVE  FirstBest(score, x)
<1>1. DOMAIN score = cands /\ W \in SUBSET cands
  BY DEF ScoredCands, StagedBest
<1>2. ASSUME NEW d \in cands PROVE \E w \in W : Beats(score, w, d)
  <2>1. PICK p \in DOMAIN part : d \in part[p]
    BY <1>1, <1>2 DEF StagedBest
  <2>2. PICK w \in W : w \in part[p] /\ FirstBest([e \in part[p] |-> score[e]], w)
    BY DEF StagedBest
  <2> QED  BY <2>1, <2>2 DEF Beats, FirstBest
<1>3. x \in W /\ \A w \in W : Beats(score, x, w)
  BY DEF StagedBest, FirstBest, Beats
<1> QED  BY <1>1, <1>2, <1>3, BestOfWinners

(* Scores of a rescan, one for each candidate.                             *)
LEMMA RescansAreScored ==
  ASSUME fit \in Fits, NEW prior, NEW cands, NEW h, ReadsLevel(prior, cands, h), cands # {}
  PROVE  ScoredCands(cands, Rescans(prior, cands)) /\ ScoredCands(cands, Weighed(prior, cands))
<1>1. Choosable(cands)
  BY SearchSplitsChoosable DEF ReadsLevel
<1>2. ASSUME NEW s \in cands
      PROVE  RescanScore(Append(prior, s)) \in Int /\ CandidateWeight(prior, s) \in Int
  <2>1. RescanScore(Append(prior, s)) \in Int
    BY ScansAreRescans
  <2>2. s.kind = "ctr" => s.feature \in 1 .. Len(fit.ctrs)
    BY DEF ReadsLevel, SearchSplits
  <2> QED  BY <2>1, <2>2, WeightsAreWhole
<1>3. \A s \in cands : CandidateWeight(prior, s) * RescanScore(Append(prior, s)) \in Int
  BY <1>2
<1> QED  BY <1>1, <1>2, <1>3 DEF ScoredCands, Rescans, Weighed

(* select_level_perturbed chooses the reference, without noise and with    *)
(* every feature selected.                                                 *)
LEMMA PerturbedChoosesReference ==
  ASSUME fit \in Fits, Book, SelectLevelPerturbed, fit.noise # "noisy", ~fit.rsm
  PROVE  \E s \in Splits : chosen' = Append(chosen, s) /\ Reference(chosen, s)
<1> DEFINE cands == Candidates(Floats \cup OneHots)
           part == [col \in Floats |-> CandidatesOf(col)]
           W == {Choice(hists', CandidatesOf(col)) : col \in Floats}
           x == Choice(hists', W)
<1>1. /\ Searching /\ hists' = [col \in Floats |-> LevelHist(col)] /\ fit.ctrs = <<>>
      /\ Floats # {} /\ TakeSplit(x) /\ fit.noise # "none"
  BY DEF SelectLevelPerturbed, SelectedFeatures, PerturbedChoices, Searching
<1>2. OneHots = {} /\ cands = Candidates(Floats)
  <2>1. Len(fit.cats) = 0
    BY <1>1, FitsAssumption DEF IsFit
  <2>2. OneHots = {}
    BY <2>1 DEF OneHots
  <2> QED  BY <2>2
<1>3. ReadsLevel(chosen, cands, hists')
  BY <1>1, <1>2, PlainReadsLevel
<1>4. \A col \in Floats : CandidatesOf(col) \subseteq cands /\ CandidatesOf(col) # {}
  <2>1. ASSUME NEW col \in Floats PROVE CandidatesOf(col) \subseteq cands /\ CandidatesOf(col) # {}
    <3>1. Candidates({col}) = CandidatesOf(col)
      BY DEF Candidates
    <3>2. {col} \subseteq Floats \cup OneHots \cup Ctrs /\ {col} # {} /\ {col} \subseteq Floats
      OBVIOUS
    <3>3. Candidates({col}) # {} /\ Candidates({col}) \subseteq Candidates(Floats)
      BY <3>2, CpuCandidates, MoreColumns
    <3> QED  BY <1>2, <3>1, <3>3
  <2> QED  BY <2>1
<1>5. \A d \in cands : \E col \in Floats : d \in CandidatesOf(col)
  BY <1>2 DEF Candidates
<1> HIDE DEF cands
<1>6. ASSUME NEW col \in Floats
      PROVE  /\ Choice(hists', CandidatesOf(col)) \in CandidatesOf(col)
             /\ FirstBest(Rescans(chosen, CandidatesOf(col)), Choice(hists', CandidatesOf(col)))
  BY <1>3, <1>4, ReadsFewer, ChoiceIsRescan
<1>7. W \subseteq cands /\ W # {}
  BY <1>1, <1>4, <1>6
<1> HIDE DEF W
<1>8. x \in W /\ FirstBest(Rescans(chosen, W), x)
  BY <1>3, <1>7, ReadsFewer, ChoiceIsRescan
<1>9. cands # {}
  BY <1>7
<1> DEFINE score == Rescans(chosen, cands)
<1>10. DOMAIN score = cands /\ \A s \in cands : score[s] = RescanScore(Append(chosen, s))
  BY DEF Rescans
<1> HIDE DEF x, score
<1>11. StagedBest(score, part, W, x)
  <2>1. \A few \in SUBSET cands : [d \in few |-> score[d]] = Rescans(chosen, few)
    BY <1>10 DEF Rescans
  <2>2. \A d \in DOMAIN score : \E p \in DOMAIN part : d \in part[p]
    BY <1>5, <1>10
  <2>3. ASSUME NEW col \in Floats
        PROVE  /\ part[col] \subseteq DOMAIN score
               /\ \E w \in W : w \in part[col] /\ FirstBest([d \in part[col] |-> score[d]], w)
    <3>1. part[col] = CandidatesOf(col) /\ Choice(hists', CandidatesOf(col)) \in W
      BY DEF W
    <3> HIDE DEF part
    <3> QED  BY <1>4, <1>6, <1>10, <2>1, <3>1
  <2>4. W \subseteq DOMAIN score /\ FirstBest([d \in W |-> score[d]], x)
    BY <1>7, <1>8, <1>10, <2>1
  <2> QED  BY <2>2, <2>3, <2>4 DEF StagedBest
<1>12. FirstBest(score, x)
  <2>1. ScoredCands(cands, score)
    BY <1>3, <1>9, RescansAreScored DEF score
  <2> HIDE DEF part
  <2> QED  BY <1>11, <2>1, StagedIsBest
<1>13. Reference(chosen, x)
  BY <1>1, <1>3, <1>12, PlainReference DEF cands, score
<1>14. chosen' = Append(chosen, x)
  BY <1>1 DEF TakeSplit
<1>15. x \in Splits
  <2>1. SearchSplits(fit) \in SUBSET Splits
    BY SplitRangeIsFinite DEF SearchSplits
  <2> QED  BY <1>3, <1>7, <1>8, <2>1 DEF ReadsLevel
<1> QED  BY <1>13, <1>14, <1>15

(* select_level_ctr_aware chooses the reference.                           *)
LEMMA CtrAwareChoosesReference ==
  ASSUME fit \in Fits, Book, SelectLevelCtrAware
  PROVE  chosen' = chosen \/ \E s \in Splits : chosen' = Append(chosen, s) /\ Reference(chosen, s)
<1> DEFINE cands == CtrAwareCandidates(chosen)
           score == [s \in cands |-> CandidateWeight(chosen, s) * ScanScore(hists'[<<s.kind, s.feature>>], s)]
<1>1. /\ ~fit.device /\ fit.ctrs # <<>>
      /\ hists' = [col \in Floats \cup Ctrs |-> Build(BinsOf(col), AssignLeaves(chosen), Pow2(Len(chosen)), n_bins(col))]
      /\ IF cands = {} THEN chosen' = chosen ELSE chosen' = Append(chosen, select_best(score))
  BY DEF SelectLevelCtrAware, CtrSearching, build_ctr_aware_histogram
<1>2. chosen \in Seq(SearchSplits(fit))
  BY <1>1, ChosenAreBorders
<1>3. /\ cands \subseteq SearchSplits(fit)
      /\ \A s \in cands : <<s.kind, s.feature>> \in Floats \cup Ctrs /\ NamesABorder(s)
  <2> DEFINE cols == Floats \cup {<<"ctr", c>> : c \in EligibleCtrs(UsedProjections(chosen))}
  <2>1. cols \subseteq Floats \cup Ctrs
    BY DEF EligibleCtrs, Ctrs
  <2>2. cands = Candidates(cols)
    BY DEF CtrAwareCandidates
  <2> HIDE DEF cols, cands
  <2>3. cols \subseteq Floats \cup OneHots \cup Ctrs
    BY <2>1
  <2> QED  BY <2>1, <2>2, <2>3, CpuCandidates DEF NamesABorder
<1> HIDE DEF cands
<1>4. \A col \in Floats \cup Ctrs : /\ col \in DeviceColumns /\ HistBins(col) = n_bins(col)
                                    /\ HistBins(col) \in Nat \ {0}
                                    /\ \A o \in Objects : BinsOf(col)[o] < HistBins(col)
  BY <1>1, HistsHoldBins, SearchedColumns DEF HistBins
<1>5. ReadsLevel(chosen, cands, hists')
  BY <1>1, <1>2, <1>3, <1>4 DEF ReadsLevel
<1>6. CASE cands = {}
  BY <1>1, <1>6
<1>7. CASE cands # {}
  <2>1. score = Weighed(chosen, cands)
    <3>1. \A s \in cands : ScanScore(hists'[<<s.kind, s.feature>>], s) = RescanScore(Append(chosen, s))
      BY <1>5, ScansAreRescans
    <3> QED  BY <3>1 DEF Weighed
  <2> HIDE DEF score
  <2>2. ScoredCands(cands, score)
    BY <1>5, <1>7, <2>1, RescansAreScored
  <2>3. FirstBest(score, select_best(score))
    BY <2>2, SelectBestIsFirst
  <2>4. Reference(chosen, select_best(score))
    BY <1>1, <2>1, <2>3 DEF Reference, CpuCandidatesOf, cands
  <2>5. select_best(score) \in Splits
    BY <2>2, <2>3 DEF FirstBest, ScoredCands, Choosable
  <2> QED  BY <1>1, <1>7, <2>4, <2>5
<1> QED  BY <1>6, <1>7

-----------------------------------------------------------------------------
(* The sweep of the device, where the float columns are equally wide.      *)

(* What a fit with columns of the same width is swept for.                 *)
LEMMA EquallyWideColumns ==
  ASSUME fit \in Fits, fit.device, EquallyWide
  PROVE  /\ Thresholds(DeviceFloats) = Candidates(Floats)
         /\ \A s \in DeviceCandidates : NamesABorder(s)
<1>1. \A i \in 1 .. Len(fit.floats) : fit.floats[i].borders \in Nat /\ fit.floats[i].borders = n_bins_used - 1
  BY ColumnsOfFit DEF EquallyWide
<1>2. ASSUME NEW s \in Thresholds(DeviceFloats) PROVE s \in Candidates(Floats) /\ NamesABorder(s)
  <2>1. PICK i \in 1 .. Len(fit.floats), a \in 1 .. n_bins_used - 1 : s = Split("float", i, a)
    BY <1>2 DEF Thresholds, DeviceFloats
  <2>2. n_bins_used \in Nat
    BY WidestColumn DEF n_bins_used
  <2>3. i \in Bordered /\ a \in 1 .. fit.floats[i].borders
    BY <1>1, <2>1, <2>2 DEF Bordered
  <2>4. <<"float", i>> \in Floats /\ s \in CandidatesOf(<<"float", i>>)
    BY <2>1, <2>3 DEF Floats, CandidatesOf
  <2>5. s \in Candidates(Floats)
    BY <2>4 DEF Candidates
  <2>6. s.at = a /\ s.feature = i
    BY <2>1, SplitFields
  <2> QED  BY <2>3, <2>5, <2>6, ColumnsOfFit DEF NamesABorder
<1>3. ASSUME NEW s \in Candidates(Floats) PROVE s \in Thresholds(DeviceFloats)
  <2>1. PICK i \in Bordered : s \in CandidatesOf(<<"float", i>>)
    BY <1>3 DEF Candidates, Floats
  <2>2. PICK a \in 1 .. fit.floats[i].borders : s = Split("float", i, a)
    BY <2>1 DEF CandidatesOf
  <2>3. i \in 1 .. Len(fit.floats)
    BY DEF Bordered
  <2>4. a \in 1 .. n_bins_used - 1
    BY <1>1, <2>2, <2>3
  <2>5. <<"float", i>> \in DeviceFloats /\ s = Split(<<"float", i>>[1], <<"float", i>>[2], a)
    BY <2>2, <2>3 DEF DeviceFloats
  <2> QED  BY <2>4, <2>5 DEF Thresholds
<1>4. ASSUME NEW s \in DeviceCandidates PROVE NamesABorder(s)
  <2>1. CASE s.kind # "float"
    BY <2>1 DEF NamesABorder
  <2>2. CASE s.kind = "float"
    <3>1. s \notin Equalities
      BY <2>2, SplitFields DEF Equalities, OneHots
    <3>2. s \in Thresholds(DeviceFloats \cup Ctrs)
      BY <1>4, <3>1 DEF DeviceCandidates
    <3>3. PICK col \in DeviceFloats \cup Ctrs, a \in 1 .. n_bins_used - 1 : s = Split(col[1], col[2], a)
      BY <3>2 DEF Thresholds
    <3>4. col[1] = "float"
      BY <2>2, <3>3, SplitFields
    <3>5. col \in DeviceFloats
      BY <3>4, ColumnKinds
    <3>6. s \in Thresholds(DeviceFloats)
      BY <3>3, <3>5 DEF Thresholds
    <3> QED  BY <1>2, <3>6
  <2> QED  BY <2>1, <2>2
<1> QED  BY <1>2, <1>3, <1>4

(* A dense column has a bin for each number up to its largest.             *)
LEMMA DenseBins ==
  ASSUME NEW bins \in [Objects -> Nat], IsDense(bins)
  PROVE  0 .. (1 + Max({bins[o] : o \in Objects})) - 1 = {bins[o] : o \in Objects}
<1> DEFINE S == {bins[o] : o \in Objects}
<1>1. IsFiniteSet(S)
  <2>1. DOMAIN bins = Objects
    OBVIOUS
  <2> HIDE DEF S
  <2> QED  BY <2>1, ObjectsAreFinite, FiniteValues DEF S
<1>2. S \in SUBSET Int /\ S # {} /\ S \in SUBSET Nat
  BY ObjectsAreFinite
<1> HIDE DEF S
<1>3. Max(S) \in S /\ Max(S) \in Int /\ \A x \in S : Max(S) >= x
  BY <1>1, <1>2, MaxIsIn
<1>4. 0 .. Max(S) \subseteq S
  BY <1>3 DEF S, IsDense
<1>5. S \subseteq 0 .. Max(S)
  BY <1>2, <1>3
<1>6. (1 + Max(S)) - 1 = Max(S)
  BY <1>3
<1> QED  BY <1>4, <1>5, <1>6 DEF S

(* The bins swept of the one-hot columns are the values there are.         *)
LEMMA EqualitiesAreValues ==
  ASSUME fit \in Fits
  PROVE  Equalities = Candidates(OneHots)
<1>1. ASSUME NEW col \in OneHots
      PROVE  {Split(col[1], col[2], a) : a \in 0 .. real_folds(col) - 1} = CandidatesOf(col)
  <2>1. col[1] = "onehot" /\ col[2] \in 1 .. Len(fit.cats)
    BY ColumnKinds
  <2>2. fit.cats[col[2]] \in [Objects -> Nat] /\ IsDense(fit.cats[col[2]])
    BY <2>1, FitsAssumption DEF IsFit
  <2>3. real_folds(col) = 1 + Max({fit.cats[col[2]][o] : o \in Objects})
    BY <2>1 DEF real_folds
  <2>4. 0 .. real_folds(col) - 1 = {fit.cats[col[2]][o] : o \in Objects}
    BY <2>2, <2>3, DenseBins
  <2>5. CandidatesOf(col) = {Split(col[1], col[2], a) : a \in {fit.cats[col[2]][o] : o \in Objects}}
    BY <2>1 DEF CandidatesOf
  <2> QED  BY <2>4, <2>5
<1> QED  BY <1>1 DEF Equalities, Candidates

(* The candidates of the three passes.                                     *)
CtrSweep == UNION {Thresholds({<<"ctr", c>>}) : c \in EligibleCtrs(search.projections)}

LEMMA SweepIsCpuCandidates ==
  ASSUME fit \in Fits, fit.device, EquallyWide, NEW prior,
         fit.ctrs # <<>> => search.projections = UsedProjections(prior)
  PROVE  CpuCandidatesOf(prior) = Thresholds(DeviceFloats) \cup Equalities \cup CtrSweep
<1>1. Thresholds(DeviceFloats) = Candidates(Floats) /\ Equalities = Candidates(OneHots)
  BY EquallyWideColumns, EqualitiesAreValues
<1>2. \A a, b : Candidates(a \cup b) = Candidates(a) \cup Candidates(b)
  BY DEF Candidates
<1>3. CASE fit.ctrs = <<>>
  <2>1. EligibleCtrs(search.projections) = {}
    BY <1>3 DEF EligibleCtrs
  <2>2. CtrSweep = {}
    BY <2>1 DEF CtrSweep
  <2> QED  BY <1>1, <1>2, <1>3, <2>2 DEF CpuCandidatesOf
<1>4. CASE fit.ctrs # <<>>
  <2> DEFINE E == EligibleCtrs(search.projections)
             cols == {<<"ctr", c>> : c \in E}
  <2>1. n_bins_used - 1 = CtrBorders
    <3>1. n_bins_of(fit) = CtrBorders + 1 /\ CtrBorders \in Nat
      BY <1>4, FitsAssumption DEF IsFit
    <3> QED  BY <3>1 DEF n_bins_used
  <2>2. \A c \in E : Thresholds({<<"ctr", c>>}) = CandidatesOf(<<"ctr", c>>)
    <3> TAKE c \in E
    <3>1. Thresholds({<<"ctr", c>>}) = {Split("ctr", c, a) : a \in 1 .. CtrBorders}
      BY <2>1 DEF Thresholds
    <3>2. CandidatesOf(<<"ctr", c>>) = {Split("ctr", c, a) : a \in 1 .. CtrBorders}
      BY DEF CandidatesOf
    <3> QED  BY <3>1, <3>2
  <2>3. CtrSweep = Candidates(cols)
    <3>1. CtrSweep = UNION {Thresholds({<<"ctr", c>>}) : c \in E}
      BY DEF CtrSweep
    <3>2. Candidates(cols) = UNION {CandidatesOf(col) : col \in cols}
      BY DEF Candidates
    <3> HIDE DEF E
    <3>3. {Thresholds({<<"ctr", c>>}) : c \in E} = {CandidatesOf(<<"ctr", c>>) : c \in E}
      BY <2>2
    <3>4. {CandidatesOf(col) : col \in cols} = {CandidatesOf(<<"ctr", c>>) : c \in E}
      OBVIOUS
    <3> QED  BY <3>1, <3>2, <3>3, <3>4
  <2>4. OneHots = {} /\ Equalities = {}
    <3>1. fit.cats = <<>>
      BY <1>4, ColumnsOfFit
    <3>2. OneHots = {}
      BY <3>1 DEF OneHots
    <3> QED  BY <3>2 DEF Equalities
  <2>5. CtrAwareCandidates(prior) = Candidates(Floats \cup cols)
    BY <1>4 DEF CtrAwareCandidates
  <2> HIDE DEF cols
  <2> QED  BY <1>1, <1>2, <1>4, <2>3, <2>4, <2>5 DEF CpuCandidatesOf
<1> QED  BY <1>3, <1>4

(* What the host keeps of the splits chosen for a search over CTR columns. *)
Tracks(sr, ch) ==
  /\ DOMAIN sr = {"group_used", "projections", "float_leaf_of", "float_split_count"}
  /\ sr.group_used = fit.used \cup UsedGroups(ch)
  /\ sr.projections = UsedProjections(ch)
  /\ sr.float_split_count = Len(OfKind(ch, "float"))
  /\ sr.float_leaf_of = AssignLeaves(OfKind(ch, "float"))

(* The device weighs by those books as the CPU does by the splits.         *)
LEMMA ResidentWeightIsCpu ==
  ASSUME fit \in Fits, NEW prior, fit.ctrs # <<>> => Tracks(search, prior), NEW s \in SearchSplits(fit)
  PROVE  ResidentWeight(s) = CandidateWeight(prior, s)
<1>1. CASE s.kind # "ctr"
  BY <1>1 DEF ResidentWeight, CandidateWeight
<1>2. CASE s.kind = "ctr"
  <2>1. fit.ctrs # <<>>
    BY <1>2, ColumnsOfFit DEF SearchSplits
  <2>2. Tracks(search, prior)
    BY <2>1
  <2>3. ResidentMax = max_bucket_count_with_phantom(prior)
    BY <2>2 DEF Tracks, ResidentMax, max_bucket_count_with_phantom
  <2> QED  BY <2>2, <2>3 DEF Tracks, ResidentWeight, CandidateWeight
<1> QED  BY <1>1, <1>2

(* The histograms a sweep reads, and its weights.                          *)
Sweeps(prior, h) ==
  /\ fit \in Fits /\ fit.device /\ ReadsLevel(prior, DeviceCandidates, h)
  /\ \A s \in DeviceCandidates : ResidentWeight(s) = CandidateWeight(prior, s)

(* The winner of some of the candidates, if there are any.                 *)
WinnerOf(prior, cands, win) ==
  IF cands = {} THEN win = {} ELSE \E x \in cands : win = {x} /\ FirstBest(Weighed(prior, cands), x)

(* A pass over candidates of one weight.                                   *)
LEMMA PassWins ==
  ASSUME NEW prior, NEW h, Sweeps(prior, h), NEW cands \in SUBSET DeviceCandidates,
         NEW w, \A s \in cands : CandidateWeight(prior, s) = w /\ w \in Nat \ {0}
  PROVE  WinnerOf(prior, cands, Pass(h, cands))
<1>1. CASE cands = {}
  BY <1>1 DEF WinnerOf, Pass
<1>2. CASE cands # {}
  <2>1. fit \in Fits /\ ReadsLevel(prior, cands, h)
    BY ReadsFewer DEF Sweeps
  <2>2. Pass(h, cands) = {Choice(h, cands)}
    BY <1>2 DEF Pass, Choice, Score
  <2>3. Choice(h, cands) \in cands /\ FirstBest(Rescans(prior, cands), Choice(h, cands))
    BY <1>2, <2>1, ChoiceIsRescan
  <2>4. \A s \in cands : CandidateWeight(prior, s) = w /\ RescanScore(Append(prior, s)) \in Int
    BY <2>1, ScansAreRescans
  <2>5. w \in Nat \ {0}
    BY <1>2
  <2>6. FirstBest(Weighed(prior, cands), Choice(h, cands))
    BY <2>3, <2>4, <2>5, EquallyWeighed
  <2> QED  BY <1>2, <2>2, <2>3, <2>6 DEF WinnerOf
<1> QED  BY <1>1, <1>2

(* Candidates of which none comes before one of the others.                *)
NoneBefore(few, others) == \A a \in few, b \in others : ~Before(b, a)

(* A challenge leaves the winner of the two passes.                        *)
LEMMA ChallengeWins ==
  ASSUME NEW prior, NEW h, Sweeps(prior, h), NEW P \in SUBSET DeviceCandidates, NEW Q \in SUBSET DeviceCandidates,
         NoneBefore(P, Q), NEW p, NEW q, WinnerOf(prior, P, p), WinnerOf(prior, Q, q)
  PROVE  WinnerOf(prior, P \cup Q, Challenge(h, p, q))
<1> DEFINE Of(s) == CandidateWeight(prior, s) * RescanScore(Append(prior, s))
<1>0. fit \in Fits /\ ReadsLevel(prior, DeviceCandidates, h)
  BY DEF Sweeps
<1>1. ASSUME NEW s \in DeviceCandidates
      PROVE  ResidentWeight(s) * Score(h, s) = Of(s) /\ Of(s) \in Int
  <2>1. Score(h, s) = RescanScore(Append(prior, s)) /\ RescanScore(Append(prior, s)) \in Int
    BY <1>0, ScansAreRescans DEF Score
  <2>2. ResidentWeight(s) = CandidateWeight(prior, s)
    BY DEF Sweeps
  <2>3. CandidateWeight(prior, s) \in Nat \ {0}
    <3>1. s.kind = "ctr" => s.feature \in 1 .. Len(fit.ctrs)
      BY <1>0 DEF ReadsLevel, SearchSplits
    <3> QED  BY <1>0, <3>1, WeightsAreWhole
  <2> QED  BY <2>1, <2>2, <2>3
<1>2. \A cands : DOMAIN Weighed(prior, cands) = cands /\ \A s \in cands : Weighed(prior, cands)[s] = Of(s)
  BY DEF Weighed
<1> HIDE DEF Of
<1>3. CASE Q = {}
  <2>1. Challenge(h, p, q) = p /\ P \cup Q = P
    BY <1>3 DEF WinnerOf, Challenge
  <2> QED  BY <2>1
<1>4. CASE P = {} /\ Q # {}
  <2>1. Challenge(h, p, q) = q /\ P \cup Q = Q
    BY <1>4 DEF WinnerOf, Challenge
  <2> QED  BY <2>1
<1>5. CASE P # {} /\ Q # {}
  <2>1. PICK x \in P : p = {x} /\ FirstBest(Weighed(prior, P), x)
    BY <1>5 DEF WinnerOf
  <2>2. PICK y \in Q : q = {y} /\ FirstBest(Weighed(prior, Q), y)
    BY <1>5 DEF WinnerOf
  <2>3. \A d \in P : Of(d) <= Of(x) /\ (Before(d, x) => Of(d) < Of(x))
    BY <1>2, <2>1 DEF FirstBest
  <2>4. \A d \in Q : Of(d) <= Of(y) /\ (Before(d, y) => Of(d) < Of(y))
    BY <1>2, <2>2 DEF FirstBest
  <2>5. Challenge(h, p, q) = IF Of(y) > Of(x) THEN {y} ELSE {x}
    BY <1>1, <2>1, <2>2 DEF Challenge
  <2>6. \A d \in P \cup Q : Of(d) \in Int
    BY <1>1
  <2>7. CASE Of(y) > Of(x)
    <3>1. \A d \in P \cup Q : Of(d) <= Of(y) /\ (Before(d, y) => Of(d) < Of(y))
      BY <2>3, <2>4, <2>6, <2>7
    <3>2. FirstBest(Weighed(prior, P \cup Q), y)
      BY <1>2, <3>1 DEF FirstBest
    <3> QED  BY <2>5, <2>7, <3>2 DEF WinnerOf
  <2>8. CASE ~(Of(y) > Of(x))
    <3>1. \A d \in Q : ~Before(d, x)
      BY DEF NoneBefore
    <3>2. \A d \in P \cup Q : Of(d) <= Of(x) /\ (Before(d, x) => Of(d) < Of(x))
      BY <2>3, <2>4, <2>6, <2>8, <3>1
    <3>3. FirstBest(Weighed(prior, P \cup Q), x)
      BY <1>2, <3>2 DEF FirstBest
    <3> QED  BY <2>5, <2>8, <3>3 DEF WinnerOf
  <2> QED  BY <2>7, <2>8
<1> QED  BY <1>3, <1>4, <1>5

(* The thresholds of one CTR column, and what they weigh.                  *)
LEMMA ColumnThresholds ==
  ASSUME fit \in Fits, fit.device, NEW c \in 1 .. Len(fit.ctrs), NEW prior
  PROVE  /\ Thresholds({<<"ctr", c>>}) \in SUBSET DeviceCandidates
         /\ \A s \in Thresholds({<<"ctr", c>>}) :
              /\ CandidateWeight(prior, s) = CandidateWeight(prior, Split("ctr", c, 1))
              /\ CandidateWeight(prior, Split("ctr", c, 1)) \in Nat \ {0}
<1>1. \A s \in Thresholds({<<"ctr", c>>}) : s.kind = "ctr" /\ s.feature = c
  BY SplitFields DEF Thresholds
<1>2. Split("ctr", c, 1).kind = "ctr" /\ Split("ctr", c, 1).feature = c
  BY SplitFields
<1>3. CandidateWeight(prior, Split("ctr", c, 1)) \in Nat \ {0}
  BY <1>2, WeightsAreWhole
<1> QED  BY <1>1, <1>2, <1>3, PassesSweep DEF CandidateWeight

(* The third pass, of a winner for each eligible column.                   *)
LEMMA PassCWins ==
  ASSUME NEW prior, NEW h, Sweeps(prior, h)
  PROVE  WinnerOf(prior, CtrSweep, PassC(h)) /\ CtrSweep \in SUBSET DeviceCandidates
<1> DEFINE E == EligibleCtrs(search.projections)
           T(c) == Thresholds({<<"ctr", c>>})
           W == UNION {Pass(h, T(c)) : c \in E}
           score == Weighed(prior, CtrSweep)
           local == [s \in W |-> ResidentWeight(s) * Score(h, s)]
<1>1. fit \in Fits /\ fit.device /\ ReadsLevel(prior, DeviceCandidates, h)
  BY DEF Sweeps
<1>2. \A c \in E : c \in 1 .. Len(fit.ctrs)
  BY DEF EligibleCtrs
<1>3. \A c \in E : T(c) \in SUBSET DeviceCandidates /\ WinnerOf(prior, T(c), Pass(h, T(c)))
  <2> TAKE c \in E
  <2> DEFINE w == CandidateWeight(prior, Split("ctr", c, 1))
  <2>1. T(c) \in SUBSET DeviceCandidates /\ \A s \in T(c) : CandidateWeight(prior, s) = w /\ w \in Nat \ {0}
    BY <1>1, <1>2, ColumnThresholds
  <2> HIDE DEF T, w
  <2> QED  BY <2>1, PassWins
<1>4. CtrSweep = UNION {T(c) : c \in E} /\ CtrSweep \in SUBSET DeviceCandidates
  BY <1>3 DEF CtrSweep
<1> HIDE DEF T, E
<1>5. ASSUME NEW c \in E, T(c) # {}
      PROVE  \E w \in W : w \in T(c) /\ FirstBest(Weighed(prior, T(c)), w)
  BY <1>3, <1>5 DEF WinnerOf
<1>6. W \subseteq CtrSweep
  <2>1. \A c \in E : Pass(h, T(c)) \subseteq T(c)
    BY <1>3 DEF WinnerOf
  <2> QED  BY <1>4, <2>1
<1>7. CASE CtrSweep = {}
  <2>1. W = {}
    BY <1>6, <1>7
  <2>2. PassC(h) = {}
    BY <2>1 DEF PassC, W, T, E
  <2> QED  BY <1>4, <1>7, <2>2 DEF WinnerOf
<1>8. CASE CtrSweep # {}
  <2>1. PICK c \in E : T(c) # {}
    BY <1>4, <1>8
  <2>2. W # {}
    BY <1>5, <2>1
  <2>3. PassC(h) = {select_best(local)}
    BY <2>2 DEF PassC, W, T, E
  <2>4. ReadsLevel(prior, CtrSweep, h) /\ ReadsLevel(prior, W, h)
    BY <1>1, <1>4, <1>6, ReadsFewer
  <2> HIDE DEF W
  <2>5. local = Weighed(prior, W)
    <3>1. ASSUME NEW s \in W
          PROVE  ResidentWeight(s) = CandidateWeight(prior, s) /\ Score(h, s) = RescanScore(Append(prior, s))
      BY <1>1, <1>4, <1>6, <2>4, ScansAreRescans DEF Score, Sweeps
    <3> QED  BY <3>1 DEF Weighed
  <2> HIDE DEF local
  <2>6. ScoredCands(W, local) /\ ScoredCands(CtrSweep, score)
    BY <1>1, <1>8, <2>2, <2>4, <2>5, RescansAreScored
  <2>7. FirstBest(local, select_best(local))
    BY <2>6, SelectBestIsFirst
  <2> DEFINE x == select_best(local)
  <2> HIDE DEF x
  <2>8. \A few \in SUBSET CtrSweep : [d \in few |-> score[d]] = Weighed(prior, few)
    BY DEF Weighed
  <2>9. DOMAIN score = CtrSweep
    BY DEF Weighed
  <2> DEFINE F == {k \in E : T(k) # {}}
             full == [k \in F |-> T(k)]
  <2> HIDE DEF score
  <2>10. StagedBest(score, full, W, x)
    <3>1. \A d \in DOMAIN score : \E k \in DOMAIN full : d \in full[k]
      BY <1>4, <2>9
    <3>2. ASSUME NEW k \in DOMAIN full
          PROVE  /\ full[k] \subseteq DOMAIN score
                 /\ \E w \in W : w \in full[k] /\ FirstBest([d \in full[k] |-> score[d]], w)
      <4>1. k \in E /\ T(k) # {} /\ full[k] = T(k)
        OBVIOUS
      <4>2. T(k) \in SUBSET CtrSweep
        BY <1>4, <4>1
      <4> HIDE DEF full
      <4> QED  BY <1>5, <2>8, <2>9, <4>1, <4>2
    <3>3. W \subseteq DOMAIN score /\ FirstBest([d \in W |-> score[d]], x)
      BY <1>6, <2>5, <2>7, <2>8, <2>9 DEF x
    <3> QED  BY <3>1, <3>2, <3>3 DEF StagedBest
  <2> HIDE DEF full
  <2>11. FirstBest(score, x)
    BY <2>6, <2>10, StagedIsBest
  <2>12. x \in CtrSweep
    BY <2>9, <2>11 DEF FirstBest
  <2> QED  BY <1>4, <1>8, <2>3, <2>11, <2>12 DEF WinnerOf, x, score
<1> QED  BY <1>7, <1>8

(* The winner of a level is the reference.                                 *)
LEMMA DeviceWinnerIsReference ==
  ASSUME NEW prior, NEW h, Sweeps(prior, h), EquallyWide, fit.ctrs # <<>> => Tracks(search, prior),
         NEW s \in DeviceWinner(h)
  PROVE  Reference(prior, s)
<1> DEFINE A == Thresholds(DeviceFloats)
           B == Equalities
<1>1. fit \in Fits /\ fit.device
  BY DEF Sweeps
<1>2. A \in SUBSET DeviceCandidates /\ B \in SUBSET DeviceCandidates
  BY PassesSweep
<1>3. /\ \A d \in A : d.kind = "float"
      /\ \A d \in B : d.kind = "onehot"
      /\ \A d \in CtrSweep : d.kind = "ctr"
  <2>1. \A d \in A : d.kind = "float"
    BY SplitFields DEF Thresholds, DeviceFloats
  <2>2. \A d \in B : d.kind = "onehot"
    BY SplitFields DEF Equalities, OneHots
  <2>3. \A c : \A d \in Thresholds({<<"ctr", c>>}) : d.kind = "ctr"
    BY SplitFields DEF Thresholds
  <2> QED  BY <2>1, <2>2, <2>3 DEF CtrSweep
<1>4. \A d \in A \cup B : CandidateWeight(prior, d) = Whole /\ Whole \in Nat \ {0}
  BY <1>3, CtrAssumption DEF CandidateWeight
<1>5. CpuCandidatesOf(prior) = (A \cup B) \cup CtrSweep
  BY <1>1, SweepIsCpuCandidates DEF Tracks
<1>6. NoneBefore(A, B) /\ NoneBefore(A \cup B, CtrSweep)
  BY <1>3 DEF NoneBefore, Before
<1> HIDE DEF A, B
<1>7. WinnerOf(prior, A, Pass(h, A)) /\ WinnerOf(prior, B, Pass(h, B))
  BY <1>2, <1>4, PassWins
<1> DEFINE two == Challenge(h, Pass(h, A), Pass(h, B))
<1>8. WinnerOf(prior, A \cup B, two)
  BY <1>2, <1>6, <1>7, ChallengeWins
<1>9. WinnerOf(prior, CtrSweep, PassC(h)) /\ CtrSweep \in SUBSET DeviceCandidates
  BY PassCWins
<1> HIDE DEF two
<1>10. WinnerOf(prior, (A \cup B) \cup CtrSweep, Challenge(h, two, PassC(h)))
  <2>1. A \cup B \in SUBSET DeviceCandidates
    BY <1>2
  <2> QED  BY <1>6, <1>8, <1>9, <2>1, ChallengeWins
<1>11. DeviceWinner(h) = Challenge(h, two, PassC(h))
  BY DEF DeviceWinner, two, A, B
<1>12. WinnerOf(prior, CpuCandidatesOf(prior), DeviceWinner(h))
  BY <1>5, <1>10, <1>11
<1> QED  BY <1>12 DEF WinnerOf, Reference

(* A split more is one more of its kind.                                   *)
LEMMA OneMoreOfKind ==
  ASSUME NEW ch \in Seq(Splits), NEW s \in Splits, NEW k
  PROVE  /\ OfKind(ch, k) \in Seq(Splits)
         /\ OfKind(Append(ch, s), k) = IF s.kind = k THEN Append(OfKind(ch, k), s) ELSE OfKind(ch, k)
<1> DEFINE n == Len(ch)
           more == Append(ch, s)
<1>1. /\ more \in Seq(Splits) /\ Len(more) = n + 1 /\ n \in Nat /\ more[n + 1] = s
      /\ SubSeq(more, 1, n) = ch /\ n \in 0 .. Len(more)
  OBVIOUS
<1> HIDE DEF more, n
<1>2. PICK g : Keeps(more, Len(more), k, g)
  BY <1>1, KeptExists
<1>3. OfKind(more, k) = g[n + 1]
  BY <1>1, <1>2, OfKindIs
<1>4. OfKind(ch, k) = g[n]
  BY <1>1, <1>2, OfKindOfFirst
<1>5. g[n] \in Seq(Splits) /\ g[n + 1] = IF s.kind = k THEN Append(g[n], s) ELSE g[n]
  <2>1. n + 1 \in 1 .. n + 1 /\ n \in 0 .. n + 1 /\ (n + 1) - 1 = n
    BY <1>1
  <2> QED  BY <1>1, <1>2, <2>1 DEF Keeps
<1> QED  BY <1>3, <1>4, <1>5 DEF more

(* The projections and groups of one split more.                           *)
LEMMA OneMoreUsed ==
  ASSUME NEW ch \in Seq(Splits), NEW s \in Splits
  PROVE  /\ UsedProjections(Append(ch, s)) =
              UsedProjections(ch) \cup IF s.kind = "ctr" THEN {fit.ctrs[s.feature].members} ELSE {}
         /\ UsedGroups(Append(ch, s)) =
              UsedGroups(ch) \cup IF s.kind = "ctr" THEN {fit.ctrs[s.feature].group} ELSE {}
<1> DEFINE n == Len(ch)
           more == Append(ch, s)
           old == {j \in DOMAIN ch : ch[j].kind = "ctr"}
           all == {j \in DOMAIN more : more[j].kind = "ctr"}
<1>1. /\ DOMAIN more = 1 .. n + 1 /\ DOMAIN ch = 1 .. n /\ n \in Nat /\ more[n + 1] = s
      /\ \A j \in 1 .. n : more[j] = ch[j]
  OBVIOUS
<1> HIDE DEF more, n
<1>2. all = old \cup IF s.kind = "ctr" THEN {n + 1} ELSE {}
  BY <1>1
<1>3. \A j \in old : more[j] = ch[j]
  BY <1>1
<1>4. UsedProjections(more) = {fit.ctrs[more[i].feature].members : i \in all}
      /\ UsedProjections(ch) = {fit.ctrs[ch[i].feature].members : i \in old}
  BY DEF UsedProjections
<1>5. UsedGroups(more) = {fit.ctrs[more[i].feature].group : i \in all}
      /\ UsedGroups(ch) = {fit.ctrs[ch[i].feature].group : i \in old}
  BY DEF UsedGroups
<1> HIDE DEF old, all
<1>6. UsedProjections(more) = UsedProjections(ch) \cup IF s.kind = "ctr" THEN {fit.ctrs[s.feature].members} ELSE {}
  BY <1>1, <1>2, <1>3, <1>4
<1>7. UsedGroups(more) = UsedGroups(ch) \cup IF s.kind = "ctr" THEN {fit.ctrs[s.feature].group} ELSE {}
  BY <1>1, <1>2, <1>3, <1>5
<1> QED  BY <1>6, <1>7 DEF more

(* The host's books follow the splits.                                     *)
LEMMA TracksOn ==
  ASSUME fit \in Fits, fit.ctrs # <<>>, NEW ch \in Seq(SearchSplits(fit)), Tracks(search, ch),
         NEW s \in SearchSplits(fit), NamesABorder(s)
  PROVE  Tracks(AfterSplit(s), Append(ch, s))
<1>1. ch \in Seq(Splits) /\ s \in Splits /\ SearchSplits(fit) \in SUBSET Splits
  <2>1. SearchSplits(fit) \in SUBSET Splits
    BY SplitRangeIsFinite DEF SearchSplits
  <2> QED  BY <2>1
<1> DEFINE floats == OfKind(ch, "float")
           more == Append(ch, s)
<1>2. /\ floats \in Seq(Splits)
      /\ OfKind(more, "float") = IF s.kind = "float" THEN Append(floats, s) ELSE floats
  BY <1>1, OneMoreOfKind
<1>3. /\ UsedProjections(more) =
           UsedProjections(ch) \cup IF s.kind = "ctr" THEN {fit.ctrs[s.feature].members} ELSE {}
      /\ UsedGroups(more) = UsedGroups(ch) \cup IF s.kind = "ctr" THEN {fit.ctrs[s.feature].group} ELSE {}
  BY <1>1, OneMoreUsed
<1>4. s.kind = "ctr" \/ s.kind = "float"
  <2>1. Len(fit.cats) = 0
    BY ColumnsOfFit
  <2> QED  BY <2>1 DEF SearchSplits
<1> HIDE DEF floats, more
<1>5. CASE s.kind = "ctr"
  <2>1. AfterSplit(s) = [search EXCEPT !.group_used = @ \cup {fit.ctrs[s.feature].group},
                                       !.projections = @ \cup {fit.ctrs[s.feature].members}]
    BY <1>5 DEF AfterSplit
  <2>2. OfKind(more, "float") = floats
    BY <1>2, <1>5
  <2> QED  BY <1>3, <1>5, <2>1, <2>2 DEF Tracks, floats, more
<1>6. CASE s.kind = "float"
  <2> DEFINE next == [o \in Objects |-> search.float_leaf_of[o] +
                        IF DevicePasses(s, o) THEN Pow2(search.float_split_count) ELSE 0]
  <2>1. AfterSplit(s) = [search EXCEPT !.float_split_count = @ + 1, !.float_leaf_of = next]
    BY <1>6 DEF AfterSplit
  <2>2. /\ search.float_leaf_of = AssignLeaves(floats) /\ search.float_split_count = Len(floats)
        /\ OfKind(more, "float") = Append(floats, s)
    BY <1>2, <1>6 DEF Tracks, floats
  <2>3. next = AssignLeaves(Append(floats, s))
    <3>1. Len(Append(floats, s)) \in Nat
      BY <1>1, <1>2
    <3>2. \E V : AssignLeaves(Append(floats, s)) \in [Objects -> V]
      BY <3>1, AssignedRange
    <3>3. \A o \in Objects : next[o] = AssignLeaves(Append(floats, s))[o]
      <4> TAKE o \in Objects
      <4>1. AssignLeaves(Append(floats, s))[o]
              = AssignLeaves(floats)[o] + (IF Passes(s, o) THEN Pow2(Len(floats)) ELSE 0)
        BY <1>1, <1>2, OneSplitMore
      <4>2. DevicePasses(s, o) <=> Passes(s, o)
        BY DeviceSendsAlike
      <4> QED  BY <2>2, <4>1, <4>2
    <3> HIDE DEF next
    <3>4. next \in [Objects -> {next[o] : o \in Objects}]
      BY DEF next
    <3> QED  BY <3>2, <3>3, <3>4
  <2>4. Len(Append(floats, s)) = Len(floats) + 1
    BY <1>1, <1>2
  <2> HIDE DEF next
  <2>5. UsedProjections(more) = UsedProjections(ch) /\ UsedGroups(more) = UsedGroups(ch)
    BY <1>3, <1>6
  <2> QED  BY <2>1, <2>2, <2>3, <2>4, <2>5 DEF Tracks, more
<1> QED  BY <1>4, <1>5, <1>6

(* A search starts with books of no split.                                 *)
LEMMA TracksFresh ==
  ASSUME DeviceInit
  PROVE  Tracks(search, <<>>)
<1>1. OfKind(<<>>, "float") = <<>>
  <2>1. <<>> \in Seq(Splits) /\ Len(<<>>) = 0
    OBVIOUS
  <2>2. PICK g : Keeps(<<>>, Len(<<>>), "float", g)
    BY <2>1, KeptExists
  <2>3. OfKind(<<>>, "float") = g[0]
    BY <2>1, <2>2, OfKindIs
  <2> QED  BY <2>2, <2>3 DEF Keeps
<1>2. UsedGroups(<<>>) = {} /\ UsedProjections(<<>>) = {}
  BY DEF UsedGroups, UsedProjections
<1> QED  BY <1>1, <1>2, NoSplitOneLeaf DEF DeviceInit, NoSearch, Tracks

-----------------------------------------------------------------------------
(* The book of references.                                                 *)

(* The fits whose splits are those of a rescan: without noise and with     *)
(* every feature selected, or on a device with columns of one width.       *)
Comparable ==
  fit.segments = <<>> /\ IF fit.device THEN EquallyWide ELSE fit.noise # "noisy" /\ ~fit.rsm

LastIsReference(ch) == ch # <<>> => Reference(SubSeq(ch, 1, Len(ch) - 1), ch[Len(ch)])

(* The last split is the reference, and a device's host keeps track.       *)
SplitBook(sr, ch) ==
  Comparable => LastIsReference(ch) /\ (fit.device /\ fit.ctrs # <<>> => Tracks(sr, ch))

(* The reference depends on the fit alone.                                 *)
LEMMA ReferenceStays ==
  ASSUME fit' = fit
  PROVE  /\ \A prior, s : Reference(prior, s)' = Reference(prior, s)
         /\ \A sr, ch : Tracks(sr, ch)' = Tracks(sr, ch)
         /\ EquallyWide' = EquallyWide /\ Comparable' = Comparable
<1>1. \A docs : ScoreOf(docs)' = ScoreOf(docs)
  BY DEF ScoreOf, SumOf
<1>2. \A splits : AssignLeaves(splits)' = AssignLeaves(splits)
  BY FitStays DEF AssignLeaves
<1>3. \A splits : RescanScore(splits)' = RescanScore(splits)
  BY <1>1, <1>2 DEF RescanScore
<1>4. \A splits : UsedProjections(splits)' = UsedProjections(splits) /\ UsedGroups(splits)' = UsedGroups(splits)
  BY DEF UsedProjections, UsedGroups
<1>5. \A used : EligibleCtrs(used)' = EligibleCtrs(used)
  BY DEF EligibleCtrs
<1>6. \A used : eligible_max_bucket_count(used)' = eligible_max_bucket_count(used)
  BY <1>5 DEF eligible_max_bucket_count
<1>7. \A leaf, n : PhantomMax(leaf, n)' = PhantomMax(leaf, n)
  BY DEF PhantomMax
<1>8. \A splits : max_bucket_count_with_phantom(splits)' = max_bucket_count_with_phantom(splits)
  BY <1>2, <1>4, <1>6, <1>7 DEF max_bucket_count_with_phantom
<1>9. \A splits, s : CandidateWeight(splits, s)' = CandidateWeight(splits, s)
  BY <1>4, <1>8 DEF CandidateWeight
<1>10. \A prior : CpuCandidatesOf(prior)' = CpuCandidatesOf(prior)
  BY <1>4, <1>5, FitStays DEF CpuCandidatesOf, CtrAwareCandidates
<1>11. \A prior, cands : Weighed(prior, cands)' = Weighed(prior, cands)
  BY <1>3, <1>9 DEF Weighed
<1>12. \A prior, s : Reference(prior, s)' = Reference(prior, s)
  BY <1>10, <1>11 DEF Reference
<1>13. \A sr, ch : Tracks(sr, ch)' = Tracks(sr, ch)
  BY <1>2, <1>4 DEF Tracks
<1>14. EquallyWide' = EquallyWide
  BY DEF EquallyWide, n_bins_used, n_bins_of
<1>15. Comparable' = Comparable
  BY <1>14 DEF Comparable
<1> QED  BY <1>12, <1>13, <1>14, <1>15

(* So does the book.                                                       *)
LEMMA SplitBookStays ==
  ASSUME fit' = fit, SplitBook(search', chosen')
  PROVE  SplitBook(search, chosen)'
<1>1. LastIsReference(chosen') => LastIsReference(chosen)'
  BY ReferenceStays DEF LastIsReference
<1>2. Tracks(search', chosen') => Tracks(search, chosen)'
  BY ReferenceStays
<1> QED  BY <1>1, <1>2, ReferenceStays DEF SplitBook

(* A split more is the last.                                               *)
LEMMA OneMoreReference ==
  ASSUME NEW ch \in Seq(Splits), NEW s \in Splits, Reference(ch, s)
  PROVE  LastIsReference(Append(ch, s))
<1>1. /\ Len(Append(ch, s)) - 1 = Len(ch) /\ SubSeq(Append(ch, s), 1, Len(ch)) = ch
      /\ Append(ch, s)[Len(Append(ch, s))] = s
  OBVIOUS
<1> QED  BY <1>1 DEF LastIsReference

(* A level of the device keeps the book.                                   *)
LEMMA DeviceLevelKeepsReference ==
  ASSUME fit \in Fits, Book, DeviceLevel, SplitBook(search, chosen)
  PROVE  SplitBook(search', chosen')
<1> SUFFICES ASSUME Comparable PROVE LastIsReference(chosen') /\ (fit.ctrs # <<>> => Tracks(search', chosen'))
  BY DEF SplitBook
<1>1. fit.device /\ EquallyWide /\ TakeOnDevice(DeviceWinner(hists'))
  BY DEF DeviceLevel, Comparable
<1>2. LastIsReference(chosen) /\ (fit.ctrs # <<>> => Tracks(search, chosen))
  BY <1>1 DEF SplitBook
<1>3. /\ chosen \in Seq(Splits) /\ chosen \in Seq(SearchSplits(fit)) /\ Len(chosen) \in Nat
      /\ DOMAIN chosen = 1 .. Len(chosen)
  BY ChosenSplits
<1>4. \A i \in DOMAIN chosen : NamesABorder(chosen[i])
  <2>1. \A i \in DOMAIN chosen : chosen[i] \in DeviceCandidates
    BY <1>1 DEF Book, TreeBook, Chosen, Cands
  <2> QED  BY <1>1, <2>1, EquallyWideColumns
<1>5. leaf_of = AssignLeaves(chosen)
  <2>1. SubSeq(chosen, 1, Len(chosen)) = chosen
    BY <1>3
  <2> QED  BY <1>1, <1>4, <2>1 DEF Book, TreeBook, Parted
<1>6. hists' = [col \in DeviceColumns |-> Build(BinsOf(col), AssignLeaves(chosen), Pow2(Len(chosen)), n_bins_line)]
  BY <1>5, DeviceHistsAreBuilt
<1>7. ReadsLevel(chosen, DeviceCandidates, hists')
  <2>1. /\ DeviceCandidates \subseteq SearchSplits(fit)
        /\ \A s \in DeviceCandidates : <<s.kind, s.feature>> \in DeviceColumns /\ NamesABorder(s)
    BY <1>1, SweptCandidates, EquallyWideColumns
  <2>2. \A col \in DeviceColumns : /\ HistBins(col) \in Nat \ {0} /\ HistBins(col) = n_bins_line
                                   /\ \A o \in Objects : BinsOf(col)[o] < HistBins(col)
    BY <1>1, HistsHoldBins DEF HistBins
  <2> QED  BY <1>3, <1>6, <2>1, <2>2 DEF ReadsLevel
<1>8. Sweeps(chosen, hists')
  <2>1. \A s \in DeviceCandidates : ResidentWeight(s) = CandidateWeight(chosen, s)
    BY <1>2, <1>7, ResidentWeightIsCpu DEF ReadsLevel
  <2> QED  BY <1>1, <1>7, <2>1 DEF Sweeps
<1> DEFINE winner == DeviceWinner(hists')
<1>9. \A s \in winner : Reference(chosen, s)
  BY <1>1, <1>2, <1>8, DeviceWinnerIsReference
<1>10. winner \subseteq DeviceCandidates
  <2>1. \A s \in winner : s \in CpuCandidatesOf(chosen)
    BY <1>9 DEF Reference, FirstBest, Weighed
  <2>2. CpuCandidatesOf(chosen) = Thresholds(DeviceFloats) \cup Equalities \cup CtrSweep
    BY <1>1, <1>2, SweepIsCpuCandidates DEF Tracks
  <2>3. CtrSweep \subseteq DeviceCandidates
    BY <1>8, PassCWins
  <2> HIDE DEF winner
  <2> QED  BY <2>1, <2>2, <2>3, PassesSweep
<1> HIDE DEF winner
<1>11. CASE winner = {}
  <2>1. UNCHANGED <<chosen, search>>
    BY <1>1, <1>11 DEF TakeOnDevice, winner
  <2> QED  BY <1>2, <2>1
<1>12. CASE winner # {}
  <2>1. PICK s \in winner : chosen' = Append(chosen, s) /\ search' = AfterSplit(s)
    BY <1>1, <1>12 DEF TakeOnDevice, winner
  <2>2. s \in SearchSplits(fit) /\ NamesABorder(s) /\ s \in Splits
    <3>1. SearchSplits(fit) \in SUBSET Splits
      BY SplitRangeIsFinite DEF SearchSplits
    <3> QED  BY <1>1, <1>10, <3>1, SweptCandidates, EquallyWideColumns
  <2>3. LastIsReference(chosen')
    BY <1>3, <1>9, <2>1, <2>2, OneMoreReference
  <2>4. ASSUME fit.ctrs # <<>> PROVE Tracks(search', chosen')
    BY <1>2, <1>3, <2>1, <2>2, <2>4, TracksOn
  <2> QED  BY <2>3, <2>4
<1> QED  BY <1>11, <1>12

(* And so does every step of the search on the CPU.                        *)
LEMMA ObliviousKeepsReference ==
  ASSUME fit \in Fits, Book, GrowOblivious, SplitBook(search, chosen)
  PROVE  SplitBook(search', chosen')
<1> SUFFICES ASSUME Comparable, ~fit.device PROVE LastIsReference(chosen')
  <2>1. SelectLevelOrdered \/ ObliviousNext \/ SelectLevelCtrAware
    BY DEF GrowOblivious
  <2>2. ~fit.device
    BY <2>1 DEF SelectLevelOrdered, ObliviousNext, SelectLevelCtrAware, SelectLevelPlain, SelectLevelPerturbed,
                EndTreeEarly, FinishOblivious, Searching, CtrSearching
  <2> QED  BY <2>2 DEF SplitBook
<1>1. LastIsReference(chosen) /\ chosen \in Seq(Splits)
  BY ChosenSplits DEF SplitBook
<1>2. CASE chosen' = chosen
  BY <1>1, <1>2
<1>3. CASE \E s \in Splits : chosen' = Append(chosen, s) /\ Reference(chosen, s)
  BY <1>1, <1>3, OneMoreReference
<1>4. CASE SelectLevelPlain
  BY <1>2, <1>3, <1>4, PlainChoosesReference
<1>5. CASE SelectLevelPerturbed
  <2>1. fit.noise # "noisy" /\ ~fit.rsm
    BY DEF Comparable
  <2> QED  BY <1>3, <1>5, <2>1, PerturbedChoosesReference
<1>6. CASE EndTreeEarly \/ FinishOblivious
  BY <1>2, <1>6 DEF EndTreeEarly, FinishOblivious, oblivious
<1>7. CASE SelectLevelCtrAware
  BY <1>2, <1>3, <1>7, CtrAwareChoosesReference
<1>8. CASE SelectLevelOrdered
  BY <1>8 DEF SelectLevelOrdered, Comparable
<1> QED  BY <1>4, <1>5, <1>6, <1>7, <1>8 DEF GrowOblivious, ObliviousNext

(* The book is that of the references.                                     *)
LEMMA BookedReferences ==
  ASSUME fit \in Fits, Book, SplitBook(search, chosen)
  PROVE  ChosenIsReference /\ DeviceChoosesAsCpu
<1> DEFINE n == Len(chosen)
           prior == SubSeq(chosen, 1, n - 1)
<1>1. ASSUME chosen # <<>>, Comparable
      PROVE  LastIsBest(CpuCandidatesOf(prior), LAMBDA s : CandidateWeight(prior, s))
  <2>1. Reference(prior, chosen[n])
    BY <1>1 DEF SplitBook, LastIsReference
  <2> HIDE DEF prior
  <2>2. /\ chosen[n] \in CpuCandidatesOf(prior)
        /\ \A d \in CpuCandidatesOf(prior) :
             IF Before(d, chosen[n])
             THEN CandidateWeight(prior, d) * RescanScore(Append(prior, d))
                    < CandidateWeight(prior, chosen[n]) * RescanScore(Append(prior, chosen[n]))
             ELSE CandidateWeight(prior, d) * RescanScore(Append(prior, d))
                    <= CandidateWeight(prior, chosen[n]) * RescanScore(Append(prior, chosen[n]))
    BY <2>1 DEF Reference, FirstBest, Weighed
  <2> QED  BY <2>2 DEF LastIsBest, prior
<1>2. ChosenIsReference
  BY <1>1 DEF ChosenIsReference, Comparable, CpuCandidatesOf
<1>3. DeviceChoosesAsCpu
  BY <1>1 DEF DeviceChoosesAsCpu, Comparable, CpuCandidatesOf
<1> QED  BY <1>2, <1>3

-----------------------------------------------------------------------------
(* The splits of all growers.                                              *)

(* The objects a level of a path was chosen for are those that followed it *)
(* so far.                                                                 *)
LEMMA FollowersAreDocs ==
  ASSUME RegionKept, NEW i \in 1 .. Len(path)
  PROVE  DocsAt(i) = Followers(path, i - 1)
<1> DEFINE L == Len(path)
<1>1. /\ L \in Nat /\ i \in 1 .. L /\ frontier = Followers(path, L)
      /\ \A k \in 1 .. L : terminal_docs[k] = Followers(path, k - 1) \ Followers(path, k)
  BY DEF RegionKept, RegionBook
<1>2. DocsAt(i) \subseteq Objects
  <2>1. \A k \in i .. L : k \in 1 .. L
    BY <1>1
  <2>2. \A k \in i .. L : terminal_docs[k] \subseteq Objects
    BY <1>1, <2>1 DEF Followers
  <2> QED  BY <1>1, <2>2 DEF DocsAt, Followers
<1>3. Followers(path, i - 1) \subseteq Objects
  BY DEF Followers
<1>4. ASSUME NEW o \in Objects PROVE o \in DocsAt(i) <=> Follows(path, o, i - 1)
  <2> DEFINE b == RegionBin(o)
  <2>1. b \in 0 .. L /\ \A k \in 1 .. L : Follows(path, o, k) <=> k <= b
    BY BinOfRegion
  <2> HIDE DEF b
  <2>2. ASSUME NEW k \in 0 .. L PROVE Follows(path, o, k) <=> k <= b
    <3>1. CASE k = 0
      BY <2>1, <3>1 DEF Follows
    <3>2. CASE k # 0
      BY <2>1, <3>2
    <3> QED  BY <3>1, <3>2
  <2>3. o \in frontier <=> L <= b
    BY <1>1, <2>2 DEF Followers
  <2>4. ASSUME NEW k \in 1 .. L PROVE o \in terminal_docs[k] <=> k = b + 1
    <3>1. k - 1 \in 0 .. L /\ k \in 0 .. L
      BY <1>1
    <3>2. o \in terminal_docs[k] <=> Follows(path, o, k - 1) /\ ~Follows(path, o, k)
      BY <1>1 DEF Followers
    <3>3. o \in terminal_docs[k] <=> k - 1 <= b /\ ~(k <= b)
      BY <2>2, <3>1, <3>2
    <3> QED  BY <1>1, <2>1, <3>3
  <2>5. o \in DocsAt(i) <=> L <= b \/ \E k \in i .. L : o \in terminal_docs[k]
    BY <2>3 DEF DocsAt
  <2>6. \A k \in i .. L : k \in 1 .. L
    BY <1>1
  <2>7. o \in DocsAt(i) <=> L <= b \/ \E k \in i .. L : k = b + 1
    BY <2>4, <2>5, <2>6
  <2>8. o \in DocsAt(i) <=> L <= b \/ b + 1 \in i .. L
    BY <2>7
  <2>9. o \in DocsAt(i) <=> i - 1 <= b
    BY <1>1, <2>1, <2>8
  <2>10. i - 1 \in 0 .. L
    BY <1>1
  <2> QED  BY <2>2, <2>9, <2>10
<1> QED  BY <1>2, <1>3, <1>4 DEF Followers

(* A device splits every leaf as the CPU does.                             *)
LEMMA KeptSplitsAreCpu == ASSUME GrowthBook PROVE DeviceLeafWiseIsCpu
<1> SUFFICES ASSUME fit.device, fit.cats = <<>>
             PROVE  /\ \A n \in (1 .. Len(nodes)) \ LeafNodes :
                         /\ CpuSplit(nodes[n].docs) = {nodes[n].split}
                         /\ nodes[nodes[n].right].docs = {o \in nodes[n].docs : Passes(nodes[n].split, o)}
                    /\ \A i \in DOMAIN path : CpuSplit(DocsAt(i)) = {path[i].split}
  BY DEF DeviceLeafWiseIsCpu
<1>1. NodesBook(nodes, leaf_owner) /\ RegionKept
  BY DEF GrowthBook, LeafWise, LeafWiseBook
<1>2. ASSUME NEW n \in (1 .. Len(nodes)) \ LeafNodes
      PROVE  /\ CpuSplit(nodes[n].docs) = {nodes[n].split}
             /\ nodes[nodes[n].right].docs = {o \in nodes[n].docs : Passes(nodes[n].split, o)}
  <2>1. n \in 1 .. Len(nodes) /\ nodes[n].split # NoSplit
    BY DEF LeafNodes, IsLeaf
  <2>2. /\ nodes[nodes[n].right].docs = RightDocs(nodes[n].split, nodes[n].docs)
        /\ AsCpu(nodes[n].split, nodes[n].docs)
    BY <1>1, <2>1 DEF NodesBook, ForkBook
  <2> QED  BY <2>2 DEF AsCpu
<1>3. ASSUME NEW i \in DOMAIN path PROVE CpuSplit(DocsAt(i)) = {path[i].split}
  <2>1. i \in 1 .. Len(path) /\ AsCpu(path[i].split, Followers(path, i - 1))
    <3>1. path \in Seq(PathLevels) /\ \A j \in 1 .. Len(path) : AsCpu(path[j].split, Followers(path, j - 1))
      BY <1>1 DEF RegionKept, RegionBook
    <3> QED  BY <3>1
  <2>2. DocsAt(i) = Followers(path, i - 1)
    BY <1>1, <2>1, FollowersAreDocs
  <2> QED  BY <2>1, <2>2 DEF AsCpu
<1> QED  BY <1>2, <1>3

(* A tree starts without splits.                                           *)
LEMMA FreshSplits == ASSUME Init PROVE SplitBook(search, chosen)
<1>1. chosen = <<>> /\ DeviceInit
  BY DEF Init, ObliviousInit
<1>2. Tracks(search, chosen)
  BY <1>1, TracksFresh
<1> QED  BY <1>1, <1>2 DEF SplitBook, LastIsReference

(* Every step of the growers keeps the book of references.                 *)
LEMMA SplitsStep ==
  ASSUME GrowthBook, SplitBook(search, chosen), [Next]_vars
  PROVE  SplitBook(search, chosen)'
<1>1. fit \in Fits /\ Book
  BY DEF GrowthBook
<1>2. CASE GrowOblivious
  <2>1. fit' = fit
    BY <1>2, ObliviousIsKept DEF NextGrowthBook
  <2>2. SplitBook(search', chosen')
    BY <1>1, <1>2, ObliviousKeepsReference
  <2> QED  BY <2>1, <2>2, SplitBookStays
<1>3. CASE GrowOnDevice
  <2>1. fit' = fit
    BY <1>3, DeviceIsKept DEF NextGrowthBook
  <2>2. CASE DeviceLevel
    <3>1. SplitBook(search', chosen')
      BY <1>1, <2>2, DeviceLevelKeepsReference
    <3> QED  BY <2>1, <3>1, SplitBookStays
  <2>3. CASE OrderedDeviceLevel
    <3>1. ~Comparable
      BY <2>3 DEF OrderedDeviceLevel, Comparable
    <3>2. SplitBook(search', chosen')
      BY <3>1 DEF SplitBook
    <3> QED  BY <2>1, <3>2, SplitBookStays
  <2>4. CASE FinishDevice
    <3>1. search' = search /\ chosen' = chosen
      BY <2>4 DEF FinishDevice, oblivious
    <3>2. SplitBook(search', chosen')
      BY <3>1
    <3> QED  BY <2>1, <3>2, SplitBookStays
  <2> QED  BY <1>3, <2>2, <2>3, <2>4 DEF GrowOnDevice, DeviceNext
<1>4. CASE GrowLeafWise
  <2>1. fit' = fit
    BY <1>4, LeafWiseIsKept DEF NextGrowthBook
  <2>2. search' = search /\ chosen' = chosen
    BY <1>4 DEF GrowLeafWise, oblivious
  <2>3. SplitBook(search', chosen')
    BY <2>2
  <2> QED  BY <2>1, <2>3, SplitBookStays
<1>5. CASE UNCHANGED vars
  <2>1. fit' = fit /\ search' = search /\ chosen' = chosen
    BY <1>5 DEF vars, oblivious
  <2>2. SplitBook(search', chosen')
    BY <2>1
  <2> QED  BY <2>1, <2>2, SplitBookStays
<1> QED  BY <1>2, <1>3, <1>4, <1>5 DEF Next, Returned

(* However a tree's splits are searched, for every fit without noise,      *)
(* sampled columns or ordered segments, and every score:                   *)
(* by histograms that are carried over or subtracted, in one sweep or in   *)
(* passes of the device whose winners challenge each other, or by bins of  *)
(* a leaf past a column's last border, each is the first of the best that  *)
(* a fresh scan of the rows by the CPU's candidates, weights and order     *)
(* finds (select_best_split and grow_oblivious_tree_resident,              *)
(* cb-train/src/tree.rs and cb-backend/src/gpu_runtime/session.rs;         *)
(* device_best_split_for_node, cb-backend/src/kernels).                    *)
THEOREM SplitsStayReferences == Spec => []SplitsAreReferences
<1> DEFINE Kept == GrowthBook /\ SplitBook(search, chosen)
<1>1. Init => Kept
  BY FreshGrowth, FreshSplits
<1>2. Kept /\ [Next]_vars => Kept'
  <2> SUFFICES ASSUME GrowthBook, SplitBook(search, chosen), [Next]_vars PROVE Kept'
    OBVIOUS
  <2>1. GrowthBook'
    BY GrowersStep
  <2>2. SplitBook(search, chosen)'
    BY SplitsStep
  <2> QED  BY <2>1, <2>2
<1>3. Kept => SplitsAreReferences
  <2> SUFFICES ASSUME GrowthBook, SplitBook(search, chosen) PROVE SplitsAreReferences
    OBVIOUS
  <2>1. ChosenIsReference /\ DeviceChoosesAsCpu
    BY BookedReferences DEF GrowthBook
  <2>2. DeviceLeafWiseIsCpu
    BY KeptSplitsAreCpu
  <2> QED  BY <2>1, <2>2 DEF SplitsAreReferences
<1> QED  BY <1>1, <1>2, <1>3, PTL DEF Spec
=============================================================================
