------------------------ MODULE FoldTrainingProofs ------------------------
(***************************************************************************)
(* Why the approximants of a CPU fit are what they stand for, for any      *)
(* learn set, options, draws and number of trees: the orders drawn are     *)
(* permutations, a row's categorical values and its approximant know       *)
(* nothing of the rows after it, each buffer is what the trees say of its  *)
(* own columns, and a saved table decides as training would.               *)
(***************************************************************************)
EXTENDS FoldTraining, Induction, FiniteSetTheorems, SequenceTheorems

-----------------------------------------------------------------------------
(* Orders. *)

(* An order of n objects visits each of them once.                         *)
Orders(n) == {p \in [1..n -> 1..n] :
                /\ \A x \in 1..n : \E k \in 1..n : p[k] = x
                /\ \A j, k \in 1..n : p[j] = p[k] => j = k}

(* Two places of an order may be swapped.                                  *)
LEMMA SwapKeepsOrder ==
  ASSUME NEW n \in Nat, NEW p \in Orders(n), NEW a \in 1..n, NEW b \in 1..n
  PROVE  [p EXCEPT ![a] = p[b], ![b] = p[a]] \in Orders(n)
<1> DEFINE q == [p EXCEPT ![a] = p[b], ![b] = p[a]]
<1>1. p \in [1..n -> 1..n]
  BY DEF Orders
<1>2. \A k \in 1..n : q[k] = IF k = b THEN p[a] ELSE IF k = a THEN p[b] ELSE p[k]
  BY <1>1
<1>3. q \in [1..n -> 1..n]
  BY <1>1
<1> HIDE DEF q
<1>4. ASSUME NEW x \in 1..n PROVE \E k \in 1..n : q[k] = x
  <2>1. PICK k \in 1..n : p[k] = x
    BY DEF Orders
  <2> QED  BY <1>2, <2>1
<1>5. ASSUME NEW j \in 1..n, NEW k \in 1..n, q[j] = q[k] PROVE j = k
  <2>1. \A i, m \in 1..n : p[i] = p[m] => i = m
    BY DEF Orders
  <2> QED  BY <1>2, <1>5, <2>1
<1> QED  BY <1>3, <1>4, <1>5 DEF Orders, q

(* The objects as they come are in an order.                               *)
LEMMA IdentityIsOrder == ASSUME NEW n \in Nat PROVE Identity(n) \in Orders(n)
<1>1. \A k \in 1..n : Identity(n)[k] = k
  BY DEF Identity
<1>2. Identity(n) \in [1..n -> 1..n]
  BY DEF Identity
<1> HIDE DEF Identity
<1> QED  BY <1>1, <1>2 DEF Orders

(* The Fisher-Yates pass visits every object once, whatever it draws.      *)
LEMMA ShuffleIsOrder ==
  ASSUME NEW n \in Nat, n > 0, NEW draws \in Draws(n)
  PROVE  ShuffleInPlace(n, draws) \in Orders(n)
<1> DEFINE Swapped(x, i, j) == [x EXCEPT ![i + 1] = x[j + 1], ![j + 1] = x[i + 1]]
           Rec(v) == v = [i \in 0..(n - 1) |->
              IF i = 0 THEN Identity(n)
              ELSE LET j == draws[i]
                   IN  [v[i - 1] EXCEPT ![i + 1] = v[i - 1][j + 1],
                                        ![j + 1] = v[i - 1][i + 1]]]
           F == [i \in 1..(n - 1) |-> [x \in Orders(n) |-> Swapped(x, i, draws[i])]]
<1>1. \A i \in 1..(n - 1) : draws[i] \in 0..(n - 1)
  BY DEF Draws
<1>2. \A i \in 1..(n - 1) : \A x \in Orders(n) : Swapped(x, i, draws[i]) \in Orders(n)
  <2> TAKE i \in 1..(n - 1)
  <2> TAKE x \in Orders(n)
  <2>1. i + 1 \in 1..n /\ draws[i] + 1 \in 1..n
    BY <1>1
  <2> QED  BY <2>1, SwapKeepsOrder
<1>3. F \in [1..(n - 1) -> [Orders(n) -> Orders(n)]]
  <2> HIDE DEF Swapped
  <2> QED  BY <1>2
<1>4. PICK g : Stepwise(Orders(n), n - 1, Identity(n), F, g)
  <2>1. n - 1 \in Nat
    OBVIOUS
  <2> HIDE DEF F
  <2> QED  BY <1>3, <2>1, IdentityIsOrder, StepsExist
<1>5. Rec(g)
  <2>1. g \in [0..(n - 1) -> Orders(n)]
    BY <1>4 DEF Stepwise
  <2>2. ASSUME NEW i \in 0..(n - 1), i # 0
        PROVE  g[i] = Swapped(g[i - 1], i, draws[i])
    <3>1. i \in 1..(n - 1) /\ i - 1 \in 0..(n - 1)
      BY <2>2
    <3>2. g[i] = F[i][g[i - 1]] /\ g[i - 1] \in Orders(n)
      BY <1>4, <2>1, <3>1 DEF Stepwise
    <3> HIDE DEF Swapped
    <3> QED  BY <3>1, <3>2
  <2>3. g[0] = Identity(n)
    BY <1>4 DEF Stepwise
  <2> QED  BY <2>1, <2>2, <2>3
<1> DEFINE v == CHOOSE w : Rec(w)
<1>6. Rec(v)
  <2> HIDE DEF Rec
  <2> QED  BY <1>5
<1>7. ShuffleInPlace(n, draws) = v[n - 1]
  BY DEF ShuffleInPlace
<1> HIDE DEF v
<1> DEFINE Whole == {i \in 0..(n - 1) : v[i] \in Orders(n)}
<1>8. 0 \in Whole
  BY <1>6, IdentityIsOrder
<1>9. ASSUME NEW i \in 0..(n - 1) - 1, i \in Whole PROVE i + 1 \in Whole
  <2>1. i + 1 \in 1..(n - 1) /\ i + 1 # 0 /\ (i + 1) - 1 = i /\ v[i] \in Orders(n)
    BY <1>9
  <2>2. v[i + 1] = Swapped(v[(i + 1) - 1], i + 1, draws[i + 1])
    <3>1. i + 1 \in 0..(n - 1)
      BY <2>1
    <3> QED  BY <1>6, <2>1, <3>1
  <2> HIDE DEF Swapped
  <2> QED  BY <1>2, <2>1, <2>2
<1>10. 0..(n - 1) \subseteq Whole
  <2>1. n - 1 \in Nat
    OBVIOUS
  <2> HIDE DEF Whole
  <2> QED  BY <1>8, <1>9, <2>1, BoundedInduction
<1> QED  BY <1>7, <1>10

(* An order read through another is an order.                              *)
LEMMA CarriedIsOrder ==
  ASSUME NEW n \in Nat, NEW s \in Orders(n), NEW p \in Orders(n)
  PROVE  Carried(s, p) \in Orders(n)
<1>1. s \in [1..n -> 1..n] /\ p \in [1..n -> 1..n]
  BY DEF Orders
<1>2. Carried(s, p) = [k \in 1..n |-> s[p[k]]]
  BY <1>1 DEF Carried
<1>3. ASSUME NEW x \in 1..n PROVE \E k \in 1..n : s[p[k]] = x
  <2>1. PICK j \in 1..n : s[j] = x
    BY DEF Orders
  <2>2. PICK k \in 1..n : p[k] = j
    BY DEF Orders
  <2> QED  BY <2>1, <2>2
<1>4. ASSUME NEW j \in 1..n, NEW k \in 1..n, s[p[j]] = s[p[k]] PROVE j = k
  <2>1. \A i, m \in 1..n : (s[i] = s[m] => i = m) /\ (p[i] = p[m] => i = m)
    BY DEF Orders
  <2> QED  BY <1>1, <1>4, <2>1
<1> DEFINE c == Carried(s, p)
<1>5. c \in [1..n -> 1..n] /\ \A k \in 1..n : c[k] = s[p[k]]
  BY <1>1, <1>2
<1> HIDE DEF c
<1>6. \A x \in 1..n : \E k \in 1..n : c[k] = x
  BY <1>3, <1>5
<1>7. \A j, k \in 1..n : c[j] = c[k] => j = k
  BY <1>4, <1>5
<1> QED  BY <1>5, <1>6, <1>7 DEF Orders, c

(* An object has one position in an order.                                 *)
LEMMA PositionIsItsOwn ==
  ASSUME NEW n \in Nat, NEW p \in Orders(n)
  PROVE  /\ \A x \in 1..n : PositionIn(p, x) \in 1..n /\ p[PositionIn(p, x)] = x
         /\ \A k \in 1..n : PositionIn(p, p[k]) = k
<1>1. DOMAIN p = 1..n /\ \A k \in 1..n : p[k] \in 1..n
  BY DEF Orders
<1>2. ASSUME NEW x \in 1..n PROVE PositionIn(p, x) \in 1..n /\ p[PositionIn(p, x)] = x
  <2>1. \E k \in 1..n : p[k] = x
    BY DEF Orders
  <2> QED  BY <1>1, <2>1 DEF PositionIn
<1>3. ASSUME NEW k \in 1..n PROVE PositionIn(p, p[k]) = k
  <2>1. PositionIn(p, p[k]) \in 1..n /\ p[PositionIn(p, p[k])] = p[k]
    BY <1>1, <1>2
  <2> QED  BY <2>1 DEF Orders
<1> QED  BY <1>2, <1>3

-----------------------------------------------------------------------------
(* The body/tail segments of ordered boosting.                             *)

(* The next boundary lies behind the last one and not behind the end.      *)
LEMMA BoundaryAdvances ==
  ASSUME NEW n \in Nat, NEW left \in 1..n, left < n,
         NEW mult \in Seq(Int), Len(mult) = 2, mult[2] > 0
  PROVE  NextBoundary(n, left, mult) \in (left + 1)..n
<1>1. mult[1] \in Int /\ mult[2] \in Int
  BY ElementOfSeq
<1>2. SelectTailSize(left, mult) \in Int
  <2>1. ((left * mult[1]) + mult[2]) - 1 \in Int
    BY <1>1
  <2> QED  BY <1>1, <2>1 DEF SelectTailSize
<1>3. Smaller(SelectTailSize(left, mult), n) \in Int /\ Smaller(SelectTailSize(left, mult), n) <= n
  BY <1>2 DEF Smaller
<1> QED  BY <1>3 DEF NextBoundary

(* Boundaries rise from a first one to the end.                            *)
Rising(b, first, n) ==
  /\ b \in Seq(1..n) /\ Len(b) > 0
  /\ b[1] = first /\ b[Len(b)] = n
  /\ \A i \in 1..(Len(b) - 1) : b[i] < b[i + 1]

(* A smaller boundary put before rising ones leaves them rising.           *)
LEMMA RisingCons ==
  ASSUME NEW n \in Nat, NEW left \in 1..n, NEW next \in 1..n, left < next,
         NEW b, Rising(b, next, n)
  PROVE  Rising(<<left>> \o b, left, n)
<1> DEFINE c == <<left>> \o b
<1>1. b \in Seq(1..n) /\ Len(b) \in Nat /\ Len(b) > 0 /\ <<left>> \in Seq(1..n)
  BY LenProperties DEF Rising
<1>2. /\ c \in Seq(1..n) /\ Len(c) = Len(b) + 1
      /\ \A i \in 1..(Len(b) + 1) : c[i] = IF i = 1 THEN left ELSE b[i - 1]
  BY <1>1, ConcatProperties
<1> HIDE DEF c
<1>3. c[1] = left /\ c[Len(c)] = n
  BY <1>1, <1>2 DEF Rising
<1>4. ASSUME NEW i \in 1..(Len(c) - 1) PROVE c[i] < c[i + 1]
  <2>1. CASE i = 1
    <3>1. c[1] = left /\ c[2] = b[1] /\ b[1] = next
      BY <1>1, <1>2 DEF Rising
    <3> QED  BY <2>1, <3>1
  <2>2. CASE i # 1
    <3>1. i - 1 \in 1..(Len(b) - 1) /\ (i - 1) + 1 = i
      BY <1>1, <1>2, <2>2
    <3>2. c[i] = b[i - 1] /\ c[i + 1] = b[i]
      <4>1. i \in 1..(Len(b) + 1) /\ i + 1 \in 1..(Len(b) + 1) /\ i + 1 # 1 /\ (i + 1) - 1 = i
        BY <1>1, <1>2, <2>2
      <4> QED  BY <1>2, <2>2, <4>1
    <3>3. b[i - 1] < b[(i - 1) + 1]
      BY <3>1 DEF Rising
    <3> QED  BY <3>1, <3>2, <3>3
  <2> QED  BY <2>1, <2>2
<1> QED  BY <1>1, <1>2, <1>3, <1>4 DEF Rising, c

(* The last object alone is a rising sequence.                             *)
LEMMA RisingOne == ASSUME NEW n \in Nat \ {0} PROVE Rising(<<n>>, n, n)
<1>1. <<n>> \in Seq(1..n) /\ Len(<<n>>) = 1 /\ <<n>>[1] = n
  OBVIOUS
<1> HIDE DEF Rising
<1> QED  BY <1>1 DEF Rising

(* The boundaries rise from the first batch to the last object.            *)
LEMMA BoundariesRise ==
  ASSUME NEW n \in Nat \ {0}, NEW mult \in Seq(Int), Len(mult) = 2, mult[2] > 0
  PROVE  \E first \in 1..n : Rising(BodyTailBoundaries(n, mult), first, n)
<1> DEFINE next == [left \in 1..n |-> IF left < n THEN NextBoundary(n, left, mult) ELSE n]
           X == [1..n -> Seq(1..n)]
           x0 == [left \in 1..n |-> <<left>>]
           Longer(h) == [left \in 1..n |-> IF left >= n THEN <<left>> ELSE <<left>> \o h[next[left]]]
           F == [h \in X |-> Longer(h)]
           Rec(f) == f = [left \in 1..n |-> IF left >= n THEN <<left>>
                                            ELSE <<left>> \o f[NextBoundary(n, left, mult)]]
<1>1. \A left \in 1..n : next[left] \in 1..n /\ (left < n => next[left] > left)
  BY BoundaryAdvances
<1>2. \A left \in 1..n : left < n => next[left] = NextBoundary(n, left, mult)
  OBVIOUS
<1> HIDE DEF next
<1>3. x0 \in X /\ F \in [X -> X]
  <2>1. \A left \in 1..n : <<left>> \in Seq(1..n)
    OBVIOUS
  <2>2. ASSUME NEW h \in X PROVE Longer(h) \in X
    <3>1. ASSUME NEW left \in 1..n PROVE <<left>> \o h[next[left]] \in Seq(1..n)
      <4>1. h[next[left]] \in Seq(1..n)
        BY <1>1
      <4> QED  BY <2>1, <4>1, ConcatProperties
    <3> QED  BY <2>1, <3>1
  <2> HIDE DEF Longer
  <2> QED  BY <2>1, <2>2
<1>4. PICK g : Orbit(X, x0, F, g)
  <2> HIDE DEF X, x0, F
  <2> QED  BY <1>3, PrimitiveRecursion
<1>5. /\ \A k \in Nat : g[k] \in X
      /\ g[0] = x0
      /\ \A k \in Nat : g[k + 1] = Longer(g[k])
  BY <1>4 DEF Orbit
<1> DEFINE Settled == {k \in Nat : \A left \in 1..n : left >= n - k => g[k + 1][left] = g[k][left]}
<1>6. 0 \in Settled
  <2>1. g[0 + 1] = Longer(g[0])
    BY <1>5
  <2>2. ASSUME NEW left \in 1..n, left >= n - 0 PROVE g[0 + 1][left] = g[0][left]
    BY <1>5, <2>1, <2>2
  <2> QED  BY <2>2
<1>7. ASSUME NEW k \in Nat, k \in Settled PROVE k + 1 \in Settled
  <2>1. ASSUME NEW left \in 1..n, left >= n - (k + 1)
        PROVE  g[(k + 1) + 1][left] = g[k + 1][left]
    <3>1. k + 1 \in Nat
      OBVIOUS
    <3>2. /\ g[(k + 1) + 1][left] = IF left >= n THEN <<left>> ELSE <<left>> \o g[k + 1][next[left]]
          /\ g[k + 1][left] = IF left >= n THEN <<left>> ELSE <<left>> \o g[k][next[left]]
      <4>1. g[(k + 1) + 1] = Longer(g[k + 1]) /\ g[k + 1] = Longer(g[k])
        BY <1>5, <3>1
      <4> HIDE DEF X, F
      <4> QED  BY <4>1
    <3>3. ASSUME ~(left >= n) PROVE g[k + 1][next[left]] = g[k][next[left]]
      <4>1. next[left] \in 1..n /\ next[left] >= n - k
        BY <1>1, <2>1, <3>3
      <4> QED  BY <1>7, <4>1
    <3> QED  BY <3>2, <3>3
  <2> QED  BY <2>1
<1>8. Nat \subseteq Settled
  <2> HIDE DEF Settled
  <2> QED  BY <1>6, <1>7, SetInduction
<1>9. Rec(g[n])
  <2>1. n \in Settled /\ n \in Nat /\ g[n] \in X /\ g[n + 1] = Longer(g[n])
    BY <1>5, <1>8
  <2>2. \A left \in 1..n : g[n + 1][left] = g[n][left]
    <3>1. \A left \in 1..n : left >= n - n
      OBVIOUS
    <3> QED  BY <2>1, <3>1
  <2>3. ASSUME NEW left \in 1..n
        PROVE  g[n][left] = IF left >= n THEN <<left>>
                            ELSE <<left>> \o g[n][NextBoundary(n, left, mult)]
    <3>1. Longer(g[n])[left] = IF left >= n THEN <<left>> ELSE <<left>> \o g[n][next[left]]
      OBVIOUS
    <3>2. g[n][left] = Longer(g[n])[left]
      BY <2>1, <2>2
    <3>3. ~(left >= n) => next[left] = NextBoundary(n, left, mult)
      BY <1>2
    <3> HIDE DEF Longer
    <3>4. CASE left >= n
      BY <3>1, <3>2, <3>4
    <3>5. CASE ~(left >= n)
      BY <3>1, <3>2, <3>3, <3>5
    <3> QED  BY <3>4, <3>5
  <2>4. DOMAIN g[n] = 1..n /\ g[n] = [left \in 1..n |-> g[n][left]]
    BY <2>1
  <2> HIDE DEF Longer, F
  <2> QED  BY <2>3, <2>4
<1> DEFINE from == CHOOSE f : Rec(f)
<1>10. Rec(from)
  <2> HIDE DEF Rec
  <2> QED  BY <1>9
<1>11. BodyTailBoundaries(n, mult) = from[Smaller(SelectMinBatchSize(n), n)]
  BY DEF BodyTailBoundaries
<1> HIDE DEF from
<1>12. ASSUME NEW left \in 1..n
       PROVE  from[left] = IF left >= n THEN <<left>> ELSE <<left>> \o from[next[left]]
  <2>1. from[left] = IF left >= n THEN <<left>>
                     ELSE <<left>> \o from[NextBoundary(n, left, mult)]
    BY <1>10
  <2>2. ~(left >= n) => next[left] = NextBoundary(n, left, mult)
    BY <1>2
  <2>3. CASE left >= n
    BY <2>1, <2>3
  <2>4. CASE ~(left >= n)
    BY <2>1, <2>2, <2>4
  <2> QED  BY <2>3, <2>4
<1> DEFINE Good == {k \in Nat : \A left \in 1..n : left >= n - k => Rising(from[left], left, n)}
<1>13. 0 \in Good
  <2>1. ASSUME NEW left \in 1..n, left >= n - 0 PROVE Rising(from[left], left, n)
    <3>1. left = n
      BY <2>1
    <3>2. from[n] = <<n>>
      <4>1. n \in 1..n /\ n >= n
        OBVIOUS
      <4> QED  BY <1>12, <4>1
    <3> QED  BY <3>1, <3>2, RisingOne
  <2> QED  BY <2>1
<1>14. ASSUME NEW k \in Nat, k \in Good PROVE k + 1 \in Good
  <2>1. ASSUME NEW left \in 1..n, left >= n - (k + 1) PROVE Rising(from[left], left, n)
    <3>1. CASE left >= n
      <4>1. left = n
        BY <3>1
      <4>2. from[n] = <<n>>
        <5>1. n \in 1..n /\ n >= n
          OBVIOUS
        <5> QED  BY <1>12, <5>1
      <4> QED  BY <4>1, <4>2, RisingOne
    <3>2. CASE ~(left >= n)
      <4>1. next[left] \in 1..n /\ next[left] > left /\ next[left] >= n - k
        BY <1>1, <2>1, <3>2
      <4>2. Rising(from[next[left]], next[left], n)
        BY <1>14, <4>1
      <4>3. from[left] = <<left>> \o from[next[left]]
        BY <1>12, <3>2
      <4> QED  BY <4>1, <4>2, <4>3, RisingCons
    <3> QED  BY <3>1, <3>2
  <2> QED  BY <2>1
<1>15. Nat \subseteq Good
  <2> HIDE DEF Good
  <2> QED  BY <1>13, <1>14, SetInduction
<1>16. Smaller(SelectMinBatchSize(n), n) \in 1..n
  <2>1. n > 500 => n \div 50 \in Nat /\ n \div 50 >= 1
    OBVIOUS
  <2> QED  BY <2>1 DEF Smaller, SelectMinBatchSize
<1> DEFINE first == Smaller(SelectMinBatchSize(n), n)
<1>17. Rising(from[first], first, n)
  <2>1. first \in 1..n
    BY <1>16
  <2>2. \A left \in 1..n : left >= n - n => Rising(from[left], left, n)
    BY <1>15
  <2> HIDE DEF first
  <2>3. first >= n - n
    BY <2>1
  <2> QED  BY <2>1, <2>2, <2>3
<1> QED  BY <1>11, <1>16, <1>17

(* The segments follow each other without gap or overlap to the last       *)
(* object.                                                                 *)
Abutting(segs, n) ==
  /\ Len(segs) \in Nat /\ DOMAIN segs = 1..Len(segs)
  /\ \A s \in DOMAIN segs :
       /\ segs[s].body \in 1..n /\ segs[s].tail \in 1..n
       /\ segs[s].body < segs[s].tail
       /\ segs[s].tail = IF s = Len(segs) THEN n ELSE segs[s + 1].body

(* The segments between two boundaries each abut.                          *)
LEMMA SegmentsFollow ==
  ASSUME NEW n \in Nat \ {0}, NEW mult \in Seq(Int), Len(mult) = 2, mult[2] > 0
  PROVE  Abutting(BodyTailSegments(n, mult), n)
<1> DEFINE b == BodyTailBoundaries(n, mult)
           m == Larger(Len(b), 1) - 1
           segs == BodyTailSegments(n, mult)
<1>1. /\ b \in Seq(1..n) /\ Len(b) \in Nat /\ Len(b) > 0 /\ b[Len(b)] = n
      /\ \A i \in 1..(Len(b) - 1) : b[i] < b[i + 1]
      /\ \A i \in 1..Len(b) : b[i] \in 1..n
  BY BoundariesRise, LenProperties, ElementOfSeq DEF Rising
<1>2. m = Len(b) - 1
  <2>1. \A k \in Nat : k > 0 => Larger(k, 1) - 1 = k - 1
    BY DEF Larger
  <2> HIDE DEF b
  <2>2. Len(b) \in Nat /\ Len(b) > 0
    BY <1>1
  <2> QED  BY <2>1, <2>2
<1>3. segs = [s \in 1..m |-> [body |-> b[s], tail |-> b[s + 1]]]
  BY DEF BodyTailSegments
<1> HIDE DEF b, m, segs
<1>4. m \in Nat
  BY <1>1, <1>2
<1>5. segs \in Seq([body : 1..n, tail : 1..n])
  <2>1. \A s \in 1..m : b[s] \in 1..n /\ b[s + 1] \in 1..n
    BY <1>1, <1>2
  <2> QED  BY <1>3, <1>4, <2>1
<1>6. Len(segs) = m /\ DOMAIN segs = 1..m
  BY <1>3, <1>4, <1>5, LenProperties
<1>7. ASSUME NEW s \in 1..m
      PROVE  /\ segs[s].body \in 1..n /\ segs[s].tail \in 1..n
             /\ segs[s].body < segs[s].tail
             /\ segs[s].tail = IF s = m THEN n ELSE segs[s + 1].body
  <2>1. segs[s].body = b[s] /\ segs[s].tail = b[s + 1]
    BY <1>3
  <2>2. b[s] \in 1..n /\ b[s + 1] \in 1..n /\ b[s] < b[s + 1]
    BY <1>1, <1>2
  <2>3. s = m => b[s + 1] = n
    BY <1>1, <1>2, <1>4
  <2>4. s # m => s + 1 \in 1..m /\ segs[s + 1].body = b[s + 1]
    BY <1>3, <1>4
  <2> QED  BY <2>1, <2>2, <2>3, <2>4
<1>8. Abutting(segs, n)
  BY <1>4, <1>6, <1>7 DEF Abutting
<1> QED  BY <1>8 DEF segs

-----------------------------------------------------------------------------
(* Sums over leaves.                                                       *)

(* One learn set's sum adds its members one after the other.               *)
Addends(f, S) == [k \in 1..N |-> [x \in Int |-> x + (IF k \in S THEN f[k] ELSE 0)]]

(* The sum over a set is the end of its running sum.                       *)
LEMMA SumIsRunning ==
  ASSUME N \in Nat, NEW f \in [1..N -> Int], NEW S
  PROVE  \E g : Stepwise(Int, N, 0, Addends(f, S), g) /\ SumOver(f, S) = g[N]
<1> DEFINE F == Addends(f, S)
           Rec(u) == u = [k \in 0..N |-> IF k = 0 THEN 0
                                         ELSE u[k - 1] + (IF k \in S THEN f[k] ELSE 0)]
           upTo == CHOOSE u : Rec(u)
<1>1. F \in [1..N -> [Int -> Int]]
  BY DEF Addends
<1>2. \A k \in 1..N : \A x \in Int : F[k][x] = x + (IF k \in S THEN f[k] ELSE 0)
  BY DEF Addends
<1> HIDE DEF F
<1>3. PICK g : Stepwise(Int, N, 0, F, g)
  <2> DEFINE X == Int
             n == N
             x0 == 0
  <2>1. n \in Nat /\ x0 \in X /\ F \in [1..n -> [X -> X]]
    BY <1>1
  <2> HIDE DEF X, n, x0
  <2>2. \E g : Stepwise(X, n, x0, F, g)
    BY <2>1, StepsExist
  <2> QED  BY <2>2 DEF X, n, x0
<1>4. Rec(g)
  <2>1. g \in [0..N -> Int] /\ g[0] = 0
    BY <1>3 DEF Stepwise
  <2>2. ASSUME NEW k \in 0..N, k # 0
        PROVE  g[k] = g[k - 1] + (IF k \in S THEN f[k] ELSE 0)
    <3>1. k \in 1..N /\ k - 1 \in 0..N
      BY <2>2
    <3>2. g[k - 1] \in Int /\ g[k] = F[k][g[k - 1]]
      BY <1>3, <2>1, <3>1 DEF Stepwise
    <3> QED  BY <1>2, <3>1, <3>2
  <2> QED  BY <2>1, <2>2
<1>5. Rec(upTo)
  <2> HIDE DEF Rec
  <2> QED  BY <1>4
<1>6. SumOver(f, S) = upTo[N]
  BY DEF SumOver
<1> HIDE DEF upTo
<1>7. \A k \in 0..N : upTo[k] = IF k = 0 THEN 0 ELSE upTo[k - 1] + (IF k \in S THEN f[k] ELSE 0)
  BY <1>5
<1> DEFINE Same == {k \in 0..N : upTo[k] = g[k]}
<1>8. 0 \in Same
  BY <1>3, <1>7 DEF Stepwise
<1>9. ASSUME NEW k \in 0..N - 1, k \in Same PROVE k + 1 \in Same
  <2>1. k + 1 \in 1..N /\ k + 1 \in 0..N /\ k + 1 # 0 /\ (k + 1) - 1 = k /\ upTo[k] = g[k]
    BY <1>9
  <2>2. g[k] \in Int /\ g[k + 1] = F[k + 1][g[k]]
    BY <1>3, <2>1 DEF Stepwise
  <2>3. upTo[k + 1] = upTo[k] + (IF k + 1 \in S THEN f[k + 1] ELSE 0)
    BY <1>7, <2>1
  <2>4. F[k + 1][g[k]] = g[k] + (IF k + 1 \in S THEN f[k + 1] ELSE 0)
    BY <1>2, <2>1, <2>2
  <2> QED  BY <2>1, <2>2, <2>3, <2>4
<1>10. 0..N \subseteq Same
  <2> HIDE DEF Same
  <2> QED  BY <1>8, <1>9, BoundedInduction
<1> QED  BY <1>3, <1>6, <1>10 DEF F

(* Sums of integers are integers.                                          *)
LEMMA SumType ==
  ASSUME N \in Nat, NEW f \in [1..N -> Int], NEW S
  PROVE  SumOver(f, S) \in Int
BY SumIsRunning DEF Stepwise

(* A sum reads its members only.                                           *)
LEMMA SumReadsMembers ==
  ASSUME N \in Nat, NEW f \in [1..N -> Int], NEW h \in [1..N -> Int], NEW S,
         \A k \in 1..N : k \in S => f[k] = h[k]
  PROVE  SumOver(f, S) = SumOver(h, S)
<1>1. PICK g : Stepwise(Int, N, 0, Addends(f, S), g) /\ SumOver(f, S) = g[N]
  BY SumIsRunning
<1>2. PICK u : Stepwise(Int, N, 0, Addends(h, S), u) /\ SumOver(h, S) = u[N]
  BY SumIsRunning
<1>3. \A k \in 1..N : \A x \in Int : Addends(f, S)[k][x] = Addends(h, S)[k][x]
  BY DEF Addends
<1>4. \A k \in 0..N : g[k] = u[k]
  <2> DEFINE X == Int
             n == N
             F == Addends(f, S)
             G == Addends(h, S)
             x0 == 0
  <2>1. n \in Nat /\ SameSteps(X, n, x0, F, G, g, u)
    BY <1>1, <1>2, <1>3 DEF SameSteps
  <2> HIDE DEF X, n, F, G, x0
  <2>2. \A k \in 0..n : g[k] = u[k]
    BY <2>1, StepsAgree
  <2> QED  BY <2>2 DEF n
<1> QED  BY <1>1, <1>2, <1>4

(* A grain of which numbers are multiples.                                 *)
Multiple(x, d) == \E q \in Int : x = d * q

(* The powers of two, as their recursion has them.                         *)
LEMMA PowersAreGrains ==
  /\ Pow2 \in [Nat -> Nat \ {0}]
  /\ Pow2[0] = 1
  /\ \A k \in Nat : Pow2[k + 1] = 2 * Pow2[k]
<1> DEFINE X == Nat \ {0}
           F == [x \in X |-> 2 * x]
<1>1. 1 \in X /\ F \in [X -> X]
  OBVIOUS
<1>2. \E g : Recursion(X, 1, F, g)
  <2> HIDE DEF X, F
  <2> QED  BY <1>1, RecursionExists
<1>3. \E g : g \in [Nat -> X] /\ g = [k \in Nat |-> IF k = 0 THEN 1 ELSE 2 * g[k - 1]]
  <2>1. PICK g : g \in [Nat -> X] /\ g = [k \in Nat |-> IF k = 0 THEN 1 ELSE F[g[k - 1]]]
    BY <1>2 DEF Recursion
  <2>2. ASSUME NEW k \in Nat PROVE g[k] = IF k = 0 THEN 1 ELSE 2 * g[k - 1]
    <3>1. CASE k = 0
      BY <2>1, <3>1
    <3>2. CASE k # 0
      <4>1. k - 1 \in Nat
        BY <3>2
      <4> QED  BY <2>1, <3>2, <4>1
    <3> QED  BY <3>1, <3>2
  <2>3. g = [k \in Nat |-> IF k = 0 THEN 1 ELSE 2 * g[k - 1]]
    BY <2>1, <2>2
  <2> QED  BY <2>1, <2>3
<1>4. Pow2 = [k \in Nat |-> IF k = 0 THEN 1 ELSE 2 * Pow2[k - 1]]
  BY <1>3 DEF Pow2
<1>5. Pow2[0] = 1
  BY <1>4
<1>6. ASSUME NEW k \in Nat PROVE Pow2[k + 1] = 2 * Pow2[k]
  <2>1. k + 1 \in Nat /\ k + 1 # 0 /\ (k + 1) - 1 = k
    OBVIOUS
  <2> QED  BY <1>4, <2>1
<1> DEFINE Positive == {k \in Nat : Pow2[k] \in X}
<1>7. Nat \subseteq Positive
  <2>1. 0 \in Positive
    BY <1>5
  <2>2. ASSUME NEW k \in Nat, k \in Positive PROVE k + 1 \in Positive
    BY <1>6, <2>2
  <2> HIDE DEF Positive
  <2> QED  BY <2>1, <2>2, SetInduction
<1> QED  BY <1>4, <1>5, <1>6, <1>7

(* A multiple of the double grain is one of the grain, and so is its half. *)
LEMMA HalfOfMultiple ==
  ASSUME NEW d \in Int, NEW x, Multiple(x, 2 * d)
  PROVE  x \in Int /\ x \div 2 \in Int /\ 2 * (x \div 2) = x /\ Multiple(x \div 2, d) /\ Multiple(x, d)
<1>1. PICK q \in Int : x = (2 * d) * q
  BY DEF Multiple
<1>2. d * q \in Int /\ x = 2 * (d * q) /\ 2 * q \in Int
  BY <1>1
<1>3. x \div 2 = d * q
  <2>1. \A z \in Int : (2 * z) \div 2 = z
    OBVIOUS
  <2> QED  BY <1>2, <2>1
<1>4. x = d * (2 * q)
  BY <1>1
<1> QED  BY <1>2, <1>3, <1>4 DEF Multiple

(* Multiples of a power are multiples of every smaller one.                *)
LEMMA SmallerGrain ==
  ASSUME NEW m \in Nat, NEW k \in 0..m, NEW x, Multiple(x, Pow2[m])
  PROVE  Multiple(x, Pow2[k])
<1> DEFINE Fine == {j \in 0..m : Multiple(x, Pow2[m - j])}
<1>1. 0 \in Fine
  OBVIOUS
<1>2. ASSUME NEW j \in 0..m - 1, j \in Fine PROVE j + 1 \in Fine
  <2> DEFINE e == m - (j + 1)
  <2>1. e \in Nat /\ m - j = e + 1
    OBVIOUS
  <2>2. Pow2[m - j] = 2 * Pow2[e] /\ Pow2[e] \in Int
    BY <2>1, PowersAreGrains
  <2>3. Multiple(x, 2 * Pow2[e])
    BY <1>2, <2>2
  <2> QED  BY <2>2, <2>3, HalfOfMultiple
<1>3. 0..m \subseteq Fine
  <2> HIDE DEF Fine
  <2> QED  BY <1>1, <1>2, BoundedInduction
<1>4. m - k \in Fine /\ m - (m - k) = k
  BY <1>3
<1> QED  BY <1>4

(* A unit can be halved once for every tree.                               *)
LEMMA UnitIsPower == Unit = Pow2[Iterations] /\ Unit \in Nat \ {0} /\ Iterations \in Nat
  BY UnitAssumption, PowersAreGrains

(* A leaf value is rounded to the grid.                                    *)
LEMMA DeltaOnGrid ==
  ASSUME NEW sum \in Int, NEW weight \in Nat
  PROVE  LeafDelta(sum, weight) \in Int /\ Multiple(LeafDelta(sum, weight), Unit)
<1>1. CASE weight = 0
  <2>1. LeafDelta(sum, weight) = 0 /\ 0 = Unit * 0
    BY <1>1, UnitIsPower DEF LeafDelta
  <2> QED  BY <2>1 DEF Multiple
<1>2. CASE weight # 0
  <2> DEFINE d == 2 * weight * Unit
             q == sum \div d
  <2>1. d \in Nat \ {0}
    <3>1. 2 * weight \in Nat \ {0}
      BY <1>2
    <3>2. \A a, b \in Nat \ {0} : a * b \in Nat \ {0}
      OBVIOUS
    <3> QED  BY <3>1, <3>2, UnitIsPower
  <2>2. LeafDelta(sum, weight) = q * Unit
    BY <1>2 DEF LeafDelta
  <2> HIDE DEF d
  <2>3. q \in Int
    BY <2>1
  <2> HIDE DEF q
  <2>4. q * Unit \in Int /\ q * Unit = Unit * q
    BY <2>3, UnitIsPower
  <2> QED  BY <2>2, <2>3, <2>4 DEF Multiple
<1> QED  BY <1>1, <1>2

(* What is known of the inputs of a fit.                                   *)
Inputs == config \in Configs /\ data \in Datasets /\ flipped \in Objects

(* A learn set: objects, one class each, and rows whose class is not read. *)
LEMMA LearnSet ==
  ASSUME data \in Datasets
  PROVE  /\ N \in Nat \ {0} /\ Objects = 1..N
         /\ data.cls \in [Objects -> {0, 1}]
         /\ IsList(data.extra)
         /\ StreamDraws \subseteq Draws(N)
BY DataAssumption DEF N, Objects, IsList

(* Derivatives are integers.                                               *)
LEMMA DerivativesType ==
  ASSUME NEW cls \in [Objects -> {0, 1}], NEW a \in [Objects -> Int]
  PROVE  Derivatives(cls, a) \in [Objects -> Int]
<1>1. \A i \in Objects : Target(cls, i) - a[i] \in Int
  <2> TAKE i \in Objects
  <2>1. 4 * Unit * cls[i] \in Int
    <3>1. cls[i] \in Int /\ 4 * Unit \in Int
      BY UnitIsPower
    <3>2. \A x, y \in Int : x * y \in Int
      OBVIOUS
    <3> QED  BY <3>1, <3>2
  <2> QED  BY <2>1 DEF Target
<1> QED  BY <1>1 DEF Derivatives

(* Every object's leaf has a value, and leaf values are whole units.       *)
LEMMA LeafValuesOnGrid ==
  ASSUME data \in Datasets, NEW leafOf, NEW ders \in [Objects -> Int]
  PROVE  /\ \A i \in Objects : leafOf[i] \in DOMAIN LeafValues(leafOf, ders)
         /\ \A leaf \in DOMAIN LeafValues(leafOf, ders) :
              /\ LeafValues(leafOf, ders)[leaf] \in Int
              /\ Multiple(LeafValues(leafOf, ders)[leaf], Unit)
<1>1. N \in Nat \ {0} /\ Objects = 1..N
  BY LearnSet
<1>2. ASSUME NEW S \in SUBSET Objects
      PROVE  /\ LeafDelta(SumOver(ders, S), Cardinality(S)) \in Int
             /\ Multiple(LeafDelta(SumOver(ders, S), Cardinality(S)), Unit)
  <2>1. Cardinality(S) \in Nat
    <3>1. IsFiniteSet(1..N)
      BY <1>1, FS_Interval
    <3> QED  BY <1>1, <3>1, FS_Subset, FS_CardinalityType
  <2>2. SumOver(ders, S) \in Int
    BY <1>1, SumType
  <2> QED  BY <2>1, <2>2, DeltaOnGrid
<1> DEFINE members(leaf) == {i \in Objects : leafOf[i] = leaf}
           leaves == {leafOf[i] : i \in Objects}
<1>3. LeafValues(leafOf, ders) =
        [leaf \in leaves |-> LeafDelta(SumOver(ders, members(leaf)), Cardinality(members(leaf)))]
  BY DEF LeafValues
<1>4. \A leaf \in leaves : members(leaf) \in SUBSET Objects
  OBVIOUS
<1>5. \A i \in Objects : leafOf[i] \in leaves
  OBVIOUS
<1> HIDE DEF members, leaves
<1> QED  BY <1>2, <1>3, <1>4, <1>5

(* An approximant moved by integer leaf values stays one.                  *)
LEMMA AdvancedType ==
  ASSUME NEW a \in [Objects -> Int], NEW leafOf, NEW values,
         \A i \in Objects : values[leafOf[i]] \in Int
  PROVE  /\ Advanced(a, leafOf, values) \in [Objects -> Int]
         /\ \A i \in Objects : Advanced(a, leafOf, values)[i] = a[i] + values[leafOf[i]]
BY DEF Advanced

-----------------------------------------------------------------------------
(* The columns of a fit.                                                   *)

(* Joined sequences have the elements of their parts.                      *)
LEMMA ConcatType ==
  ASSUME NEW S, NEW seqs, Len(seqs) \in Nat, \A k \in 1..Len(seqs) : seqs[k] \in Seq(S)
  PROVE  Concat(seqs) \in Seq(S)
<1> DEFINE n == Len(seqs)
           Rec(u) == u = [k \in 0..n |-> IF k = 0 THEN <<>> ELSE u[k - 1] \o seqs[k]]
           upTo == CHOOSE u : Rec(u)
           X == Seq(S)
           x0 == <<>>
           F == [k \in 1..n |-> [x \in X |-> x \o seqs[k]]]
<1>1. n \in Nat /\ x0 \in X /\ \A k \in 1..n : \A x \in X : x \o seqs[k] \in X
  BY EmptySeq, ConcatProperties
<1>2. Concat(seqs) = upTo[n]
  BY DEF Concat
<1> HIDE DEF n, X
<1>3. F \in [1..n -> [X -> X]] /\ \A k \in 1..n : \A x \in X : F[k][x] = x \o seqs[k]
  BY <1>1
<1> HIDE DEF F, x0
<1>4. PICK g : Stepwise(X, n, x0, F, g)
  BY <1>1, <1>3, StepsExist
<1>5. Rec(g)
  <2>1. g \in [0..n -> X] /\ g[0] = <<>>
    BY <1>4 DEF Stepwise, x0
  <2>2. ASSUME NEW k \in 0..n, k # 0 PROVE g[k] = g[k - 1] \o seqs[k]
    <3>1. k \in 1..n /\ k - 1 \in 0..n
      BY <1>1, <2>2
    <3>2. g[k] = F[k][g[k - 1]] /\ g[k - 1] \in X
      BY <1>4, <2>1, <3>1 DEF Stepwise
    <3> QED  BY <1>3, <3>1, <3>2
  <2> QED  BY <2>1, <2>2
<1>6. Rec(upTo)
  <2> HIDE DEF Rec
  <2> QED  BY <1>5
<1> HIDE DEF upTo
<1>7. \A k \in 0..n : upTo[k] = IF k = 0 THEN <<>> ELSE upTo[k - 1] \o seqs[k]
  BY <1>6
<1> DEFINE Typed == {k \in 0..n : upTo[k] \in X}
<1>8. 0 \in Typed
  BY <1>1, <1>7 DEF x0
<1>9. ASSUME NEW k \in 0..n - 1, k \in Typed PROVE k + 1 \in Typed
  <2>1. k + 1 \in 1..n /\ k + 1 \in 0..n /\ k + 1 # 0 /\ (k + 1) - 1 = k /\ upTo[k] \in X
    BY <1>1, <1>9
  <2>2. upTo[k + 1] = upTo[k] \o seqs[k + 1]
    BY <1>7, <2>1
  <2> QED  BY <1>1, <2>1, <2>2
<1>10. 0..n \subseteq Typed
  <2> HIDE DEF Typed
  <2> QED  BY <1>1, <1>8, <1>9, BoundedInduction
<1> QED  BY <1>1, <1>2, <1>10 DEF X

(* The candidates a setting offers: a class selector its type has, and a   *)
(* prior.                                                                  *)
PriorsOf(ctr) ==
  {p \in Int : \E s \in {ctr.simple, ctr.combinations} :
      LET priors == IF s.priors = <<>> THEN DefaultPriors ELSE s.priors
      IN  \E q \in 1..Len(priors) : p = priors[q]}

(* What the search may take: a projection of the settings, a class         *)
(* selector of the type, a prior.                                          *)
Offered(ctr) ==
  {c \in [projection : {ctr.projections[j] : j \in DOMAIN ctr.projections},
          type : CtrTypes, border : Int, prior : PriorsOf(ctr)] :
     c.border \in 0..(TargetBorderCount(c.type) - 1)}

(* Every candidate of a search is one of these.                            *)
LEMMA CandidatesAreOffered ==
  ASSUME config \in Configs
  PROVE  CtrCandidates(config.settings) \in Seq(Offered(config.settings))
<1> DEFINE ctr == config.settings
           ps == ctr.projections
<1>1. /\ Len(ps) \in Nat /\ DOMAIN ps = 1..Len(ps)
      /\ \A s \in {ctr.simple, ctr.combinations} : s.type \in CtrTypes /\ s.priors \in Seq(Int)
  BY ConfigAssumption DEF IsList
<1> HIDE DEF ctr, ps
<1>2. ASSUME NEW j \in DOMAIN ps PROVE CandidatesOf(ctr, ps[j]) \in Seq(Offered(ctr))
  <2> DEFINE c == CtrConfigFor(ctr, ps[j])
             made(b, q) == [projection |-> ps[j], type |-> c.type, border |-> b - 1, prior |-> c.priors[q]]
             row(b) == [q \in 1..Len(c.priors) |-> made(b, q)]
             m == TargetBorderCount(c.type)
             rows == [b \in 1..m |-> row(b)]
  <2> DEFINE s == IF Cardinality(ps[j]) = 1 THEN ctr.simple ELSE ctr.combinations
  <2>7. s \in {ctr.simple, ctr.combinations} /\ s.type \in CtrTypes /\ s.priors \in Seq(Int)
    BY <1>1
  <2>8. c.type = s.type /\ c.priors = IF s.priors = <<>> THEN DefaultPriors ELSE s.priors
    BY DEF CtrConfigFor
  <2> HIDE DEF s, c
  <2>1. c.type \in CtrTypes /\ c.priors \in Seq(Int)
    BY <2>7, <2>8 DEF DefaultPriors
  <2> USE DEF c
  <2>2. m \in Nat
    BY DEF TargetBorderCount
  <2>3. CandidatesOf(ctr, ps[j]) = Concat(rows)
    BY DEF CandidatesOf
  <2> HIDE DEF c
  <2>4. ASSUME NEW b \in 1..m, NEW q \in 1..Len(c.priors) PROVE made(b, q) \in Offered(ctr)
    <3>1. c.priors[q] \in PriorsOf(ctr)
      <4>1. c.priors[q] \in Int
        BY <2>1, ElementOfSeq
      <4> QED  BY <2>7, <2>8, <4>1 DEF PriorsOf
    <3>2. b - 1 \in 0..(TargetBorderCount(c.type) - 1) /\ b - 1 \in Int
      BY <2>2
    <3>3. ps[j] \in {ctr.projections[k] : k \in DOMAIN ctr.projections}
      BY DEF ps
    <3> HIDE DEF m
    <3> QED  BY <2>1, <3>1, <3>2, <3>3 DEF Offered
  <2> HIDE DEF m, made
  <2>5. \A b \in 1..m : row(b) \in Seq(Offered(ctr))
    <3>1. Len(c.priors) \in Nat
      BY <2>1, LenProperties
    <3> QED  BY <2>4, <3>1
  <2> HIDE DEF row
  <2>6. rows \in Seq({row(b) : b \in 1..m}) /\ DOMAIN rows = 1..m
    BY <2>2
  <2>9. Len(rows) = m /\ \A k \in 1..m : rows[k] = row(k)
    BY <2>2, <2>6, LenProperties
  <2> HIDE DEF rows
  <2> QED  BY <2>2, <2>3, <2>5, <2>9, ConcatType
<1> DEFINE all == [j \in DOMAIN ps |-> CandidatesOf(ctr, ps[j])]
<1>3. CtrCandidates(ctr) = Concat(all)
  BY DEF CtrCandidates, ps
<1>4. Len(all) = Len(ps) /\ \A j \in 1..Len(ps) : all[j] \in Seq(Offered(ctr))
  <2>1. all \in Seq(Seq(Offered(ctr))) /\ DOMAIN all = 1..Len(ps)
    BY <1>1, <1>2
  <2> QED  BY <1>1, <1>2, <2>1, LenProperties
<1> HIDE DEF all
<1> QED  BY <1>1, <1>3, <1>4, ConcatType DEF ctr

(* One column per candidate, read off the candidate and the order alone.   *)
LEMMA ColumnsFollowCandidates ==
  ASSUME config \in Configs, NEW cls, NEW order
  PROVE  LET cols == CtrColumns(CtrData, cls, config.settings, order)
             cs == CtrCandidates(config.settings)
         IN  /\ cols = [j \in 1..Len(cs) |-> MaterializeCtrFeature(CtrData, cls, cs[j], order)]
             /\ Len(cs) \in Nat /\ DOMAIN cols = 1..Len(cs)
             /\ \A j \in 1..Len(cs) : cols[j].candidate = cs[j] /\ cs[j] \in Offered(config.settings)
<1> DEFINE cs == CtrCandidates(config.settings)
<1>1. cs \in Seq(Offered(config.settings))
  BY CandidatesAreOffered
<1>2. Len(cs) \in Nat /\ DOMAIN cs = 1..Len(cs)
      /\ \A j \in 1..Len(cs) : cs[j] \in Offered(config.settings)
  BY <1>1, LenProperties, ElementOfSeq
<1>3. \A j \in 1..Len(cs) : MaterializeCtrFeature(CtrData, cls, cs[j], order).candidate = cs[j]
  BY DEF MaterializeCtrFeature
<1> HIDE DEF cs
<1> QED  BY <1>2, <1>3 DEF CtrColumns, cs

(* How often a key can occur.                                              *)
RowCount == N + Len(data.extra)

(* A key occurs in some of the rows.                                       *)
LEMMA OccurrencesType ==
  ASSUME data \in Datasets, NEW projection, NEW key
  PROVE  Occurrences(CtrData, projection, key) \in 0..RowCount
<1> DEFINE rows == RowsWith(CtrData.rows, DOMAIN CtrData.rows, projection, key)
           extra == RowsWith(CtrData.extra, DOMAIN CtrData.extra, projection, key)
           m == Len(data.extra)
<1>1. N \in Nat \ {0} /\ Objects = 1..N /\ m \in Nat /\ DOMAIN data.extra = 1..m
  BY LearnSet DEF IsList
<1>2. rows \in SUBSET (1..N)
  BY <1>1 DEF RowsWith, CtrData, Objects
<1>3. extra \in SUBSET (1..m)
  BY <1>1 DEF RowsWith, CtrData
<1> HIDE DEF rows, extra, m
<1>4. /\ IsFiniteSet(1..N) /\ Cardinality(1..N) = N
      /\ IsFiniteSet(1..m) /\ Cardinality(1..m) = m
  <2>1. \A k \in Nat : IsFiniteSet(1..k) /\ Cardinality(1..k) = k
    <3> TAKE k \in Nat
    <3>1. IsFiniteSet(1..k) /\ Cardinality(1..k) = IF 1 > k THEN 0 ELSE k - 1 + 1
      BY FS_Interval
    <3> QED  BY <3>1
  <2> QED  BY <1>1, <2>1
<1>5. Cardinality(rows) \in Nat /\ Cardinality(rows) <= N
  <2>1. IsFiniteSet(rows) /\ Cardinality(rows) <= Cardinality(1..N)
    BY <1>2, <1>4, FS_Subset
  <2>2. Cardinality(rows) \in Nat
    BY <2>1, FS_CardinalityType
  <2> QED  BY <1>4, <2>1, <2>2
<1>6. Cardinality(extra) \in Nat /\ Cardinality(extra) <= m
  <2>1. IsFiniteSet(extra) /\ Cardinality(extra) <= Cardinality(1..m)
    BY <1>3, <1>4, FS_Subset
  <2>2. Cardinality(extra) \in Nat
    BY <2>1, FS_CardinalityType
  <2> QED  BY <1>4, <2>1, <2>2
<1>7. Occurrences(CtrData, projection, key) = Cardinality(rows) + Cardinality(extra)
  BY DEF Occurrences, rows, extra
<1> QED  BY <1>1, <1>5, <1>6, <1>7 DEF RowCount, m

(* The greatest of finitely many numbers is one of them.                   *)
LEMMA GreatestIsIn ==
  ASSUME NEW bound \in Nat, NEW S \in SUBSET (0..bound)
  PROVE  /\ Greatest(S) \in 0..bound
         /\ S # {} => Greatest(S) \in S /\ \A x \in S : x <= Greatest(S)
<1>1. CASE S = {}
  BY <1>1 DEF Greatest
<1>2. CASE S # {}
  <2> DEFINE T == {bound - x : x \in S}
  <2>1. T \in SUBSET Nat /\ T # {}
    BY <1>2
  <2>2. PICK t \in T : \A u \in T : t <= u
    BY <2>1, LeastElement
  <2>3. PICK x \in S : t = bound - x
    BY <2>2
  <2>4. \A y \in S : y <= x
    <3> TAKE y \in S
    <3>1. bound - y \in T
      OBVIOUS
    <3> QED  BY <2>2, <2>3, <3>1
  <2>5. Greatest(S) = CHOOSE z \in S : \A y \in S : y <= z
    BY <1>2 DEF Greatest
  <2> QED  BY <2>4, <2>5
<1> QED  BY <1>1, <1>2

(* A counter is divided by the count of some key.                          *)
LEMMA CounterDenominatorType ==
  ASSUME data \in Datasets, NEW projection
  PROVE  CounterDenominator(CtrData, projection) \in 0..RowCount
<1> DEFINE S == {Occurrences(CtrData, projection, k) : k \in KeysOf(CtrData, projection)}
<1>1. S \in SUBSET (0..RowCount)
  BY OccurrencesType
<1>2. RowCount \in Nat
  BY LearnSet DEF RowCount, IsList
<1>3. CounterDenominator(CtrData, projection) = Greatest(S)
  BY DEF CounterDenominator
<1> HIDE DEF S
<1> QED  BY <1>1, <1>2, <1>3, GreatestIsIn

(* Counts and totals are bounded by the number of rows.                    *)
LEMMA PairType ==
  ASSUME data \in Datasets, NEW c, c.type \in CtrTypes, NEW cls,
         NEW earlier \in SUBSET Objects, NEW key
  PROVE  LET pair == OnlinePair(CtrData, cls, c, earlier, key)
         IN  pair.num \in 0..RowCount /\ pair.total \in 0..RowCount
<1> DEFINE pair == OnlinePair(CtrData, cls, c, earlier, key)
           same == RowsWith(CtrData.rows, earlier, c.projection, key)
<1>1. N \in Nat \ {0} /\ Objects = 1..N /\ Len(data.extra) \in Nat
  BY LearnSet DEF IsList
<1>2. ASSUME NEW S \in SUBSET Objects PROVE Cardinality(S) \in 0..RowCount
  <2>1. IsFiniteSet(1..N) /\ Cardinality(1..N) = N
    <3>1. IsFiniteSet(1..N) /\ Cardinality(1..N) = IF 1 > N THEN 0 ELSE N - 1 + 1
      BY <1>1, FS_Interval
    <3> QED  BY <1>1, <3>1
  <2>2. Cardinality(S) \in Nat /\ Cardinality(S) <= N
    BY <1>1, <2>1, FS_Subset, FS_CardinalityType
  <2> QED  BY <1>1, <2>2 DEF RowCount
<1>3. same \in SUBSET Objects
  BY DEF RowsWith
<1> HIDE DEF same
<1>4. CASE c.type = Counter
  <2>1. pair.num = Occurrences(CtrData, c.projection, key)
        /\ pair.total = CounterDenominator(CtrData, c.projection)
    BY <1>4 DEF OnlinePair
  <2> HIDE DEF pair
  <2>2. pair.num \in 0..RowCount /\ pair.total \in 0..RowCount
    BY <2>1, OccurrencesType, CounterDenominatorType
  <2> QED  BY <2>2 DEF pair
<1>5. CASE c.type # Counter
  <2>1. pair.num = Counted(c.type, c.border, cls, same) /\ pair.total = Cardinality(same)
    BY <1>5 DEF OnlinePair, same
  <2>2. \E S \in SUBSET Objects : Counted(c.type, c.border, cls, same) = Cardinality(S)
    <3>1. c.type \in {Buckets, Borders, Mean}
      BY <1>5 DEF CtrTypes
    <3>2. /\ {i \in same : cls[i] = c.border} \in SUBSET Objects
          /\ {i \in same : cls[i] > c.border} \in SUBSET Objects
          /\ {i \in same : cls[i] = 1} \in SUBSET Objects
      BY <1>3
    <3> QED  BY <3>1, <3>2 DEF Counted, Buckets, Borders, Mean
  <2> HIDE DEF pair
  <2>3. pair.num \in 0..RowCount /\ pair.total \in 0..RowCount
    BY <1>2, <1>3, <2>1, <2>2
  <2> QED  BY <2>3 DEF pair
<1> QED  BY <1>4, <1>5

(* A scaled value is a fraction, and its bin one of the column's.          *)
LEMMA BinType ==
  ASSUME NEW pair, pair.num \in Nat, pair.total \in Nat, NEW p \in Int
  PROVE  /\ Scaled(pair, p).num \in Int
         /\ Scaled(pair, p).den \in Nat \ {0}
         /\ OnlineBin(pair, p) = Larger(0, Smaller(BorderCount, Scaled(pair, p).num \div Scaled(pair, p).den))
         /\ Scaled(pair, p).num \div Scaled(pair, p).den \in Int
         /\ OnlineBin(pair, p) \in 0..BorderCount
<1>1. NormHalves(p) \in Nat \ {0} /\ ShiftHalves(p) \in Nat
  BY DEF NormHalves, ShiftHalves, Larger, Smaller
<1>2. \A x, y \in Int : x * y \in Int
  OBVIOUS
<1>3. \A x, y \in Nat \ {0} : x * y \in Nat \ {0}
  OBVIOUS
<1>4. Scaled(pair, p).den = (pair.total + 1) * NormHalves(p)
  BY DEF Scaled
<1>5. Scaled(pair, p).den \in Nat \ {0}
  <2>1. pair.total + 1 \in Nat \ {0}
    OBVIOUS
  <2> QED  BY <1>1, <1>3, <1>4, <2>1
<1>6. Scaled(pair, p).num = (2 * pair.num + p + ShiftHalves(p) * (pair.total + 1)) * BorderCount
  BY DEF Scaled
<1>7. Scaled(pair, p).num \in Int
  <2>1. ShiftHalves(p) * (pair.total + 1) \in Int
    BY <1>1, <1>2
  <2>2. 2 * pair.num + p + ShiftHalves(p) * (pair.total + 1) \in Int
    BY <2>1
  <2> QED  BY <1>2, <1>6, <2>2, BoundsAssumption
<1>8. OnlineBin(pair, p) = Larger(0, Smaller(BorderCount, Scaled(pair, p).num \div Scaled(pair, p).den))
  BY DEF OnlineBin
<1>9. Scaled(pair, p).num \div Scaled(pair, p).den \in Int
  BY <1>5, <1>7
<1>10. \A q \in Int : Larger(0, Smaller(BorderCount, q)) \in 0..BorderCount
  BY BoundsAssumption DEF Larger, Smaller
<1> QED  BY <1>5, <1>7, <1>8, <1>9, <1>10

(* The bins of a column are integers.                                      *)
LEMMA ColumnBinsAreInts ==
  ASSUME data \in Datasets, NEW c \in Offered(config.settings), NEW cls,
         NEW order \in Orders(N)
  PROVE  \A i \in Objects : MaterializeCtrFeature(CtrData, cls, c, order).bins[i] \in Int
<1> TAKE i \in Objects
<1> DEFINE pair == OnlinePair(CtrData, cls, c, Passed(order, i), Key(data.rows[i], c.projection))
<1>1. N \in Nat \ {0} /\ Objects = 1..N
  BY LearnSet
<1>2. c.type \in CtrTypes /\ c.prior \in Int
  BY DEF Offered, PriorsOf
<1>3. Passed(order, i) \in SUBSET Objects
  <2>1. PositionIn(order, i) \in 1..N
    BY <1>1, PositionIsItsOwn
  <2>2. \A k \in 1..N : order[k] \in 1..N
    BY DEF Orders
  <2> QED  BY <1>1, <2>1, <2>2 DEF Passed
<1>4. RowCount \in Nat
  BY LearnSet DEF RowCount, IsList
<1>5. pair.num \in Nat /\ pair.total \in Nat
  <2>1. pair.num \in 0..RowCount /\ pair.total \in 0..RowCount
    BY <1>2, <1>3, PairType
  <2> HIDE DEF pair
  <2> QED  BY <1>4, <2>1
<1>6. MaterializeCtrFeature(CtrData, cls, c, order).bins[i] = OnlineBin(pair, c.prior)
  BY DEF MaterializeCtrFeature, CtrData, Objects
<1> HIDE DEF pair
<1> QED  BY <1>2, <1>5, <1>6, BinType

(* A split the search may take: a condition on floats, or a bin of a       *)
(* candidate on offer.                                                     *)
LevelOk(level) ==
  level.kind = "ctr" => /\ level.candidate \in Offered(config.settings)
                        /\ level.bin \in 0..(BorderCount - 1)

(* Reading a column by its place or by its candidate's identity is the     *)
(* same, because a column is made from its candidate and the order alone.  *)
LEMMA SearchReadsByIdentity ==
  ASSUME data \in Datasets, config \in Configs, NEW order \in Orders(N), NEW cols,
         cols = CtrColumns(CtrData, data.cls, config.settings, order),
         NEW choice \in [1..Depth -> SearchLevels(cols)]
  PROVE  LET levels == [l \in 1..Depth |-> choice[l].level]
         IN  /\ SearchLeafOf(cols, choice) = AssignLeafOverCtrColumns(cols, levels)
             /\ \A l \in 1..Depth : LevelOk(levels[l])
<1> DEFINE cs == CtrCandidates(config.settings)
           levels == [l \in 1..Depth |-> choice[l].level]
           made(c) == MaterializeCtrFeature(CtrData, data.cls, c, order)
<1>1. /\ DOMAIN cols = 1..Len(cs) /\ Len(cs) \in Nat
      /\ \A j \in 1..Len(cs) : cols[j] = made(cs[j])
      /\ \A j \in 1..Len(cs) : cols[j].candidate = cs[j] /\ cs[j] \in Offered(config.settings)
      /\ \A j \in 1..Len(cs) : \A i \in Objects : cols[j].bins[i] \in Int
  <2>1. /\ DOMAIN cols = 1..Len(cs) /\ Len(cs) \in Nat
        /\ cols = [j \in 1..Len(cs) |-> MaterializeCtrFeature(CtrData, data.cls, cs[j], order)]
        /\ \A j \in 1..Len(cs) : cols[j].candidate = cs[j] /\ cs[j] \in Offered(config.settings)
    BY ColumnsFollowCandidates
  <2> HIDE DEF cs
  <2>2. \A j \in 1..Len(cs) : cols[j] = made(cs[j])
    BY <2>1
  <2> HIDE DEF made
  <2>3. \A j \in 1..Len(cs) : \A i \in Objects : made(cs[j]).bins[i] \in Int
    BY <2>1, ColumnBinsAreInts DEF made
  <2> QED  BY <2>1, <2>2, <2>3
<1> HIDE DEF cs, made
<1>2. ASSUME NEW l \in 1..Depth, NEW i \in Objects
      PROVE  SearchPasses(cols, choice[l], i) <=> LevelPasses(cols, choice[l].level, i)
  <2> DEFINE chosen == choice[l]
  <2>1. chosen \in SearchLevels(cols)
    OBVIOUS
  <2> HIDE DEF chosen
  <2>2. CASE \E s \in data.floats : chosen = [level |-> FloatLevel(s), column |-> 0]
    <3>1. PICK s \in data.floats : chosen = [level |-> FloatLevel(s), column |-> 0]
      BY <2>2
    <3>2. chosen.column = 0 /\ chosen.level.kind = "float"
      BY <3>1 DEF FloatLevel
    <3>3. SearchPasses(cols, chosen, i) <=> LevelPasses(cols, chosen.level, i)
      BY <3>2 DEF SearchPasses, LevelPasses
    <3> QED  BY <3>3 DEF chosen
  <2>3. ASSUME NEW j \in DOMAIN cols, NEW b \in 0..(BorderCount - 1),
               chosen = [level |-> CtrLevel(cols[j].candidate, b), column |-> j]
        PROVE  SearchPasses(cols, chosen, i) <=> LevelPasses(cols, chosen.level, i)
    <3>1. /\ chosen.column = j /\ j # 0
          /\ chosen.level.kind # "float"
          /\ chosen.level.candidate = cols[j].candidate
      BY <1>1, <2>3 DEF CtrLevel
    <3> DEFINE Alike == {k \in Nat : k \in DOMAIN cols /\ IsColumnOf(cols[k], chosen.level.candidate)}
    <3>2. j \in Alike
      BY <1>1, <3>1 DEF IsColumnOf
    <3>3. PICK k \in Alike : \A m \in Alike : k <= m
      BY <3>2, LeastElement
    <3>4. ASSUME NEW m \in DOMAIN cols, IsColumnOf(cols[m], chosen.level.candidate)
          PROVE  cols[m] = cols[j]
      <4>1. cs[m] = cs[j]
        BY <1>1, <3>1, <3>4 DEF IsColumnOf
      <4> QED  BY <1>1, <4>1
    <3>5. \A m \in 1..(k - 1) : ~IsColumnOf(cols[m], chosen.level.candidate)
      <4> TAKE m \in 1..(k - 1)
      <4>1. m \in Nat /\ m \in DOMAIN cols /\ m < k
        BY <1>1, <3>3
      <4> QED  BY <3>3, <4>1
    <3>6. k \in DOMAIN cols /\ IsColumnOf(cols[k], chosen.level.candidate)
      BY <3>3
    <3> HIDE DEF Alike
    <3>7. LevelPasses(cols, chosen.level, i) <=> cols[j].bins[i] > chosen.level.bin
      BY <3>1, <3>4, <3>5, <3>6 DEF LevelPasses
    <3>8. SearchPasses(cols, chosen, i) <=> cols[j].bins[i] > chosen.level.bin
      BY <3>1 DEF SearchPasses
    <3> QED  BY <3>7, <3>8
  <2>4. CASE \E j \in DOMAIN cols, b \in 0..(BorderCount - 1) :
               chosen = [level |-> CtrLevel(cols[j].candidate, b), column |-> j]
    BY <2>3, <2>4 DEF chosen
  <2>5. \/ \E s \in data.floats : chosen = [level |-> FloatLevel(s), column |-> 0]
        \/ \E j \in DOMAIN cols, b \in 0..(BorderCount - 1) :
             chosen = [level |-> CtrLevel(cols[j].candidate, b), column |-> j]
    BY <2>1 DEF SearchLevels
  <2> QED  BY <2>2, <2>4, <2>5
<1>3. \A l \in 1..Depth, i \in Objects :
        SearchPasses(cols, choice[l], i) = LevelPasses(cols, choice[l].level, i)
  <2>1. ASSUME NEW l \in 1..Depth, NEW i \in Objects
        PROVE  SearchPasses(cols, choice[l], i) \in BOOLEAN
    <3>1. choice[l] \in SearchLevels(cols)
      OBVIOUS
    <3>2. \/ choice[l].column = 0
          \/ /\ choice[l].column \in 1..Len(cs)
             /\ choice[l].level.bin \in 0..(BorderCount - 1)
      BY <1>1, <3>1 DEF SearchLevels, FloatLevel, CtrLevel
    <3>3. CASE choice[l].column = 0
      <4>1. SearchPasses(cols, choice[l], i) = (i \in choice[l].level.passing)
        BY <3>3 DEF SearchPasses
      <4> QED  BY <4>1
    <3>4. CASE choice[l].column # 0
      <4>1. SearchPasses(cols, choice[l], i) = (cols[choice[l].column].bins[i] > choice[l].level.bin)
        BY <3>4 DEF SearchPasses
      <4>2. cols[choice[l].column].bins[i] \in Int /\ choice[l].level.bin \in Int
        BY <1>1, <3>2, <3>4, BoundsAssumption
      <4> QED  BY <4>1, <4>2
    <3> QED  BY <3>3, <3>4
  <2>2. ASSUME NEW x, NEW i PROVE LevelPasses(cols, x, i) \in BOOLEAN
    <3>1. CASE x.kind = "float"
      <4>1. LevelPasses(cols, x, i) = (i \in x.passing)
        BY <3>1 DEF LevelPasses
      <4> QED  BY <4>1
    <3>2. CASE x.kind # "float"
      <4>1. LevelPasses(cols, x, i) = \E j \in DOMAIN cols :
              /\ IsColumnOf(cols[j], x.candidate)
              /\ \A k \in 1..(j - 1) : ~IsColumnOf(cols[k], x.candidate)
              /\ cols[j].bins[i] > x.bin
        BY <3>2 DEF LevelPasses
      <4> QED  BY <4>1
    <3> QED  BY <3>1, <3>2
  <2> QED  BY <1>2, <2>1, <2>2
<1>4. SearchLeafOf(cols, choice) = AssignLeafOverCtrColumns(cols, levels)
  BY <1>3 DEF SearchLeafOf, AssignLeafOverCtrColumns
<1>5. ASSUME NEW l \in 1..Depth PROVE LevelOk(choice[l].level)
  <2>1. choice[l] \in SearchLevels(cols)
    OBVIOUS
  <2>2. \/ \E s \in data.floats : choice[l].level = FloatLevel(s)
        \/ \E j \in DOMAIN cols, b \in 0..(BorderCount - 1) :
             choice[l].level = CtrLevel(cols[j].candidate, b)
    BY <2>1 DEF SearchLevels
  <2>3. CASE \E s \in data.floats : choice[l].level = FloatLevel(s)
    <3>1. choice[l].level.kind # "ctr"
      BY <2>3 DEF FloatLevel
    <3> QED  BY <3>1 DEF LevelOk
  <2>4. CASE \E j \in DOMAIN cols, b \in 0..(BorderCount - 1) :
               choice[l].level = CtrLevel(cols[j].candidate, b)
    <3>1. PICK j \in DOMAIN cols, b \in 0..(BorderCount - 1) :
            choice[l].level = CtrLevel(cols[j].candidate, b)
      BY <2>4
    <3>2. choice[l].level.candidate = cols[j].candidate /\ choice[l].level.bin = b
      BY <3>1 DEF CtrLevel
    <3> QED  BY <1>1, <3>2 DEF LevelOk
  <2> QED  BY <2>2, <2>3, <2>4
<1> QED  BY <1>4, <1>5

-----------------------------------------------------------------------------
(* The orders of the fit.                                                  *)

(* The fold a tree is grown on is one of the learning folds.               *)
LEMMA TakenFoldIsOne ==
  ASSUME iter \in Nat, HasCtr
  PROVE  TakenFold \in FoldIds
<1>1. LearningFolds = IF PermutationCount > 2 THEN PermutationCount - 1 ELSE 1
  BY BoundsAssumption DEF LearningFolds, LearningFoldCount, Larger
<1>2. FoldIds = 1..LearningFolds
  BY DEF FoldIds
<1>3. CASE PermutationCount = 4 /\ SeedZero
  <2>1. Len(RecordedCycle) = 5
    BY DEF RecordedCycle
  <2>2. TakenFold = RecordedCycle[(iter % 5) + 1]
    BY <1>3, <2>1 DEF TakenFold, StructureFoldCycle
  <2>3. (iter % 5) + 1 \in 1..5
    OBVIOUS
  <2>4. \A k \in 1..5 : RecordedCycle[k] \in 1..3
    BY DEF RecordedCycle
  <2> QED  BY <1>1, <1>2, <1>3, <2>2, <2>3, <2>4
<1>4. CASE ~(PermutationCount = 4 /\ SeedZero)
  <2>1. TakenFold = 1
    BY <1>4 DEF TakenFold, StructureFoldCycle
  <2> QED  BY <1>1, <1>2, <2>1, BoundsAssumption
<1> QED  BY <1>3, <1>4

(* Whatever was drawn, the order of every fold and of the average is one.  *)
LEMMA OrdersOfTheFit ==
  ASSUME Inputs, NEW drawn \in [1..(LearningFolds + 1) -> Orders(N)]
  PROVE  /\ \A f \in FoldIds : FoldOrder(drawn, f) \in Orders(N)
         /\ AverageOrder(drawn) \in Orders(N)
<1>1. N \in Nat \ {0} /\ Objects = 1..N
  BY LearnSet DEF Inputs
<1>2. LearningFolds \in Nat \ {0}
  BY BoundsAssumption DEF LearningFolds, LearningFoldCount, Larger
<1>3. Identity(N) \in Orders(N)
  BY <1>1, IdentityIsOrder
<1>4. \A k \in 1..(LearningFolds + 1) : drawn[k] \in Orders(N) /\ Carried(drawn[1], drawn[k]) \in Orders(N)
  <2> TAKE k \in 1..(LearningFolds + 1)
  <2>1. drawn[1] \in Orders(N) /\ drawn[k] \in Orders(N)
    BY <1>2
  <2> QED  BY <1>1, <2>1, CarriedIsOrder
<1>5. 1 \in 1..(LearningFolds + 1) /\ LearningFolds + 1 \in 1..(LearningFolds + 1)
  BY <1>2
<1>6. Shuffled \in BOOLEAN
  BY DEF Shuffled, NeedShuffle
<1>7. ASSUME NEW f \in FoldIds PROVE FoldOrder(drawn, f) \in Orders(N)
  <2>1. f \in 1..(LearningFolds + 1) /\ (f = 1 \/ f > 1)
    BY <1>2 DEF FoldIds
  <2>2. CASE ~Shuffled
    BY <1>3, <2>2 DEF FoldOrder, StructureOrder
  <2>3. CASE Shuffled /\ f = 1
    BY <1>4, <1>5, <2>3 DEF FoldOrder, StructureOrder
  <2>4. CASE Shuffled /\ f > 1
    <3>1. FoldOrder(drawn, f) = Carried(drawn[1], drawn[f])
      BY <2>1, <2>4 DEF FoldOrder, StructureOrder
    <3> QED  BY <1>4, <2>1, <3>1
  <2> QED  BY <1>6, <2>1, <2>2, <2>3, <2>4
<1>8. AverageOrder(drawn) \in Orders(N)
  BY <1>4, <1>5 DEF AverageOrder, AveragingOrder
<1> QED  BY <1>7, <1>8

(* Where an object stands in the order of the segments.                    *)
LEMMA LearningOrderIsOrder ==
  ASSUME Inputs, stream \in [1..(LearningFolds + 1) -> Orders(N)]
  PROVE  LearningOrder \in Orders(N)
<1>1. N \in Nat \ {0}
  BY LearnSet DEF Inputs
<1>2. LearningFolds \in Nat \ {0}
  BY BoundsAssumption DEF LearningFolds, LearningFoldCount, Larger
<1>3. stream[1] \in Orders(N) /\ Identity(N) \in Orders(N)
  BY <1>1, <1>2, IdentityIsOrder
<1> QED  BY <1>3 DEF LearningOrder, OrderedLearningOrder

(* The segments of a fit abut.                                             *)
LEMMA SegmentsOfTheFit == ASSUME Inputs PROVE Abutting(Segments, N)
<1>1. N \in Nat \ {0}
  BY LearnSet DEF Inputs
<1>2. CASE config.ordered
  <2>1. Segments = BodyTailSegments(N, FoldLenMultiplier)
    BY <1>2 DEF Segments
  <2>2. Abutting(BodyTailSegments(N, FoldLenMultiplier), N)
    BY <1>1, SegmentsFollow, BoundsAssumption
  <2> QED  BY <2>1, <2>2
<1>3. CASE ~config.ordered
  <2>1. Segments = <<>>
    BY <1>3 DEF Segments
  <2>2. Len(Segments) = 0 /\ DOMAIN Segments = {} /\ 1..0 = {}
    BY <2>1
  <2> QED  BY <2>2 DEF Abutting
<1> QED  BY <1>2, <1>3

-----------------------------------------------------------------------------
(* The learn set and the options are chosen once.                          *)
LEMMA InputsStay ==
  ASSUME UNCHANGED inputs
  PROVE  /\ Inputs' = Inputs /\ N' = N /\ Objects' = Objects /\ TwinCls' = TwinCls
         /\ HasCtr' = HasCtr /\ ExpCtr' = ExpCtr /\ CtrData' = CtrData
         /\ LearningFolds' = LearningFolds /\ FoldIds' = FoldIds
         /\ Segments' = Segments /\ Orders(N)' = Orders(N)
         /\ \A order : ColumnsUnder(order)' = ColumnsUnder(order)
         /\ \A drawn, f : FoldOrder(drawn, f)' = FoldOrder(drawn, f)
         /\ \A drawn : AverageOrder(drawn)' = AverageOrder(drawn)
<1>1. config' = config /\ data' = data /\ flipped' = flipped
  BY DEF inputs
<1>2. Objects' = Objects /\ N' = N /\ HasCtr' = HasCtr
  BY <1>1 DEF Objects, N, HasCtr
<1>3. Inputs' = Inputs /\ TwinCls' = TwinCls /\ ExpCtr' = ExpCtr /\ CtrData' = CtrData
  BY <1>1, <1>2 DEF Inputs, TwinCls, ExpCtr, CtrData
<1>4. LearningFolds' = LearningFolds /\ Shuffled' = Shuffled
  BY <1>1, <1>2 DEF LearningFolds, Shuffled
<1>5. FoldIds' = FoldIds /\ Segments' = Segments /\ Orders(N)' = Orders(N)
  BY <1>1, <1>2, <1>4 DEF FoldIds, Segments
<1>6. \A order : ColumnsUnder(order)' = ColumnsUnder(order)
  BY <1>1, <1>3 DEF ColumnsUnder
<1>7. \A drawn, f : FoldOrder(drawn, f)' = FoldOrder(drawn, f)
  BY <1>2, <1>4 DEF FoldOrder
<1>8. \A drawn : AverageOrder(drawn)' = AverageOrder(drawn)
  BY <1>2, <1>4 DEF AverageOrder
<1> QED  BY <1>2, <1>3, <1>4, <1>5, <1>6, <1>7, <1>8

(* The counters of the loop.                                               *)
Counts ==
  /\ stage \in {"folds", "iteration", "search", "leaves", "done"}
  /\ iter \in 0..Iterations
  /\ stage = "folds" => iter = 0
  /\ stage \in {"search", "leaves"} => iter < Iterations

(* The columns of a fold are those of its order, for the whole fit.        *)
ColumnsKept ==
  stage # "folds" =>
    /\ stream \in [1..(LearningFolds + 1) -> Orders(N)]
    /\ foldColumns = [f \in FoldIds |-> ColumnsUnder(FoldOrder(stream, f))]
    /\ averagingColumns = IF HasCtr THEN ColumnsUnder(AverageOrder(stream)) ELSE <<>>

(* A tree has one level per unit of depth.                                 *)
LevelsOk(levels) == DOMAIN levels = 1..Depth /\ \A l \in 1..Depth : LevelOk(levels[l])

(* What the search left: levels that name their columns by identity, and,  *)
(* with CTRs, the leaves these levels give on the fold it read.            *)
GrownKept ==
  stage = "leaves" =>
    /\ LevelsOk(grown.levels)
    /\ HasCtr => grown.leafOf = AssignLeafOverCtrColumns(foldColumns[TakenFold], grown.levels)

(* A tree gives each object the value of one of its leaves, a multiple of  *)
(* the grain that the halvings done so far leave.                          *)
TreeOk(t, grain) ==
  /\ t = [levels |-> t.levels, leafOf |-> t.leafOf, values |-> t.values]
  /\ LevelsOk(t.levels)
  /\ \A i \in Objects : t.leafOf[i] \in DOMAIN t.values
  /\ \A leaf \in DOMAIN t.values : Multiple(t.values[leaf], grain)

(* How often the values of a tree may have been halved by now, and what is *)
(* left of their grain.                                                    *)
Halvings == IF stage \in {"search", "leaves"} THEN iter ELSE IF iter = 0 THEN 0 ELSE iter - 1
Grain == Pow2[Iterations - Halvings]

(* So many trees.                                                          *)
TreesOk(ts, n, grain) ==
  /\ ts = [t \in 1..n |-> ts[t]] /\ Len(ts) = n
  /\ \A t \in 1..n : TreeOk(ts[t], grain)

(* The model: one tree per completed iteration.                            *)
TreesKept == TreesOk(trees, iter, Grain) /\ bias \in Int

(* The part of the invariant that is not about approximants.               *)
Kept == Inputs /\ Counts /\ ColumnsKept /\ GrownKept /\ TreesKept

(* It holds before the folds are drawn.                                    *)
LEMMA InitKept == ASSUME Init PROVE Kept
<1>1. Inputs
  <2>1. data \in Datasets /\ config \in Configs
    BY DEF Init
  <2>2. 1 \in Objects
    BY <2>1, LearnSet
  <2> QED  BY <2>1, <2>2 DEF Init, Inputs
<1>2. stage = "folds" /\ iter = 0 /\ trees = <<>> /\ bias = Bias0
  BY DEF Init
<1>3. Counts
  BY <1>2, UnitAssumption DEF Counts
<1>4. ColumnsKept /\ GrownKept
  BY <1>2 DEF ColumnsKept, GrownKept
<1>5. TreesKept
  <2>1. 1..0 = {} /\ Len(<<>>) = 0 /\ <<>> = [t \in {} |-> trees[t]]
    OBVIOUS
  <2> QED  BY <1>2, <2>1, UnitAssumption DEF TreesKept, TreesOk
<1> QED  BY <1>1, <1>3, <1>4, <1>5 DEF Kept

(* Before the first halving every value may be finer than the unit asks.   *)
LEMMA GrainIsPower ==
  ASSUME Counts
  PROVE  /\ Halvings \in 0..Iterations /\ Iterations - Halvings \in 0..Iterations
         /\ Grain \in Nat \ {0}
<1>1. Iterations \in Nat
  BY UnitAssumption
<1>2. Halvings \in 0..Iterations
  BY <1>1 DEF Counts, Halvings
<1>3. Iterations - Halvings \in 0..Iterations
  BY <1>1, <1>2
<1> QED  BY <1>1, <1>2, <1>3, PowersAreGrains DEF Grain

(* Creating the folds keeps it, whatever is drawn.                         *)
LEMMA CreateFoldsKept == ASSUME Kept, CreateFolds PROVE Kept'
<1>1. Inputs /\ N \in Nat \ {0} /\ StreamDraws \subseteq Draws(N)
  BY LearnSet DEF Kept, Inputs
<1>2. UNCHANGED inputs /\ UNCHANGED <<iter, bias, trees, grown, tables>> /\ stage = "folds" /\ stage' = "iteration"
  BY DEF CreateFolds
<1>3. LearningFolds \in Nat \ {0}
  BY BoundsAssumption DEF LearningFolds, LearningFoldCount, Larger
<1>4. stream' \in [1..(LearningFolds + 1) -> Orders(N)]
  <2>1. PICK draws \in [1..(LearningFolds + 1) -> StreamDraws] :
            stream' = [k \in DOMAIN draws |-> ShuffleInPlace(N, draws[k])]
    BY DEF CreateFolds
  <2>2. \A k \in 1..(LearningFolds + 1) : ShuffleInPlace(N, draws[k]) \in Orders(N)
    BY <1>1, ShuffleIsOrder
  <2>3. DOMAIN draws = 1..(LearningFolds + 1)
    OBVIOUS
  <2> QED  BY <2>1, <2>2, <2>3
<1>5. ColumnsKept'
  <2>1. foldColumns' = [f \in FoldIds |-> ColumnsUnder(FoldOrder(stream', f))]
    BY DEF CreateFolds
  <2>2. averagingColumns' = IF HasCtr THEN ColumnsUnder(AverageOrder(stream')) ELSE <<>>
    BY DEF CreateFolds
  <2>3. \A o : ColumnsUnder(o)' = ColumnsUnder(o)
    BY <1>2, InputsStay
  <2>4. stream' \in [1..(LearningFolds' + 1) -> Orders(N)']
    BY <1>2, <1>4, InputsStay
  <2>5. foldColumns' = [f \in FoldIds |-> ColumnsUnder(FoldOrder(stream, f))]'
    BY <1>2, <2>1, InputsStay
  <2>6. averagingColumns' = (IF HasCtr THEN ColumnsUnder(AverageOrder(stream)) ELSE <<>>)'
    BY <1>2, <2>2, InputsStay
  <2> QED  BY <2>4, <2>5, <2>6 DEF ColumnsKept
<1>6. Counts'
  BY <1>2 DEF Kept, Counts
<1>7. GrownKept'
  BY <1>2 DEF GrownKept
<1>8. TreesKept'
  <2>1. iter = 0 /\ iter' = iter /\ trees' = trees /\ bias' = bias
    BY <1>2 DEF Kept, Counts
  <2>2. 1..0 = {}
    OBVIOUS
  <2> QED  BY <2>1, <2>2 DEF Kept, TreesKept, TreesOk
<1> QED  BY <1>1, <1>2, <1>5, <1>6, <1>7, <1>8, InputsStay DEF Kept

(* The columns stay as they were drawn.                                    *)
LEMMA ColumnsStay ==
  ASSUME ColumnsKept, stage # "folds", UNCHANGED <<inputs, columns>>
  PROVE  ColumnsKept'
<1>1. UNCHANGED inputs /\ UNCHANGED <<stream, foldColumns, averagingColumns>>
  BY DEF columns
<1>2. stream' \in [1..(LearningFolds' + 1) -> Orders(N)']
  BY <1>1, InputsStay DEF ColumnsKept
<1>3. foldColumns' = [f \in FoldIds |-> ColumnsUnder(FoldOrder(stream, f))]'
  BY <1>1, InputsStay DEF ColumnsKept
<1>4. averagingColumns' = (IF HasCtr THEN ColumnsUnder(AverageOrder(stream)) ELSE <<>>)'
  BY <1>1, InputsStay DEF ColumnsKept
<1> QED  BY <1>2, <1>3, <1>4 DEF ColumnsKept

(* What a tree is depends on the inputs of the fit alone.                  *)
LEMMA TreesStay ==
  ASSUME UNCHANGED inputs
  PROVE  /\ \A t, grain : TreeOk(t, grain)' = TreeOk(t, grain)
         /\ \A ts, n, grain : TreesOk(ts, n, grain)' = TreesOk(ts, n, grain)
<1>1. Objects' = Objects /\ config' = config
  BY InputsStay DEF inputs
<1>2. \A level : LevelOk(level)' = LevelOk(level)
  BY <1>1 DEF LevelOk
<1>3. \A levels : LevelsOk(levels)' = LevelsOk(levels)
  BY <1>2 DEF LevelsOk
<1>4. \A t, grain : TreeOk(t, grain)' = TreeOk(t, grain)
  BY <1>1, <1>3 DEF TreeOk
<1> QED  BY <1>4 DEF TreesOk

(* A halved tree still lies on the grid, one half as fine.                 *)
LEMMA HalvedTreeOk ==
  ASSUME NEW t, NEW grain \in Nat, TreeOk(t, 2 * grain)
  PROVE  /\ TreeOk(HalvedTree(t), grain)
         /\ HalvedTree(t).leafOf = t.leafOf /\ HalvedTree(t).levels = t.levels
         /\ DOMAIN HalvedTree(t).values = DOMAIN t.values
         /\ \A leaf \in DOMAIN t.values :
              /\ t.values[leaf] \in Int /\ HalvedTree(t).values[leaf] \in Int
              /\ t.values[leaf] = 2 * HalvedTree(t).values[leaf]
              /\ HalvedTree(t).values[leaf] = t.values[leaf] \div 2
<1> DEFINE levels == t.levels
           leafOf == t.leafOf
           values == t.values
           half == [leaf \in DOMAIN values |-> values[leaf] \div 2]
           tree == [levels |-> levels, leafOf |-> leafOf, values |-> half]
<1>1. t = [levels |-> levels, leafOf |-> leafOf, values |-> values]
  BY DEF TreeOk
<1>2. HalvedTree(t) = tree
  <2>1. HalvedTree(t) = [t EXCEPT !.values = [leaf \in DOMAIN t.values |-> t.values[leaf] \div 2]]
    BY DEF HalvedTree
  <2>2. [t EXCEPT !.values = half] = tree
    <3> HIDE DEF levels, leafOf, values, half
    <3>1. [[levels |-> levels, leafOf |-> leafOf, values |-> values] EXCEPT !.values = half]
            = [levels |-> levels, leafOf |-> leafOf, values |-> half]
      OBVIOUS
    <3>2. t = [levels |-> levels, leafOf |-> leafOf, values |-> values]
      BY <1>1
    <3>3. tree = [levels |-> levels, leafOf |-> leafOf, values |-> half]
      OBVIOUS
    <3> QED  BY <3>1, <3>2, <3>3
  <2> QED  BY <2>1, <2>2
<1>3. \A leaf \in DOMAIN values :
        /\ values[leaf] \in Int /\ values[leaf] \div 2 \in Int
        /\ values[leaf] = 2 * (values[leaf] \div 2)
        /\ Multiple(values[leaf] \div 2, grain)
  BY HalfOfMultiple DEF TreeOk
<1>4. LevelsOk(levels) /\ \A i \in Objects : leafOf[i] \in DOMAIN values
  BY DEF TreeOk
<1> HIDE DEF levels, leafOf, values, half
<1>5. DOMAIN half = DOMAIN values /\ \A leaf \in DOMAIN values : half[leaf] = values[leaf] \div 2
  BY DEF half
<1>6. tree.levels = levels /\ tree.leafOf = leafOf /\ tree.values = half
      /\ tree = [levels |-> levels, leafOf |-> leafOf, values |-> half]
  OBVIOUS
<1> HIDE DEF tree
<1>7. TreeOk(tree, grain)
  BY <1>3, <1>4, <1>5, <1>6 DEF TreeOk
<1>8. /\ tree.leafOf = leafOf /\ tree.levels = levels
      /\ DOMAIN tree.values = DOMAIN values
      /\ \A leaf \in DOMAIN values :
              /\ values[leaf] \in Int /\ tree.values[leaf] \in Int
              /\ values[leaf] = 2 * tree.values[leaf]
              /\ tree.values[leaf] = values[leaf] \div 2
  BY <1>3, <1>5, <1>6
<1> QED  BY <1>2, <1>7, <1>8 DEF levels, leafOf, values

(* A tree of a coarse grain is one of a finer grain.                       *)
LEMMA FinerTreeOk ==
  ASSUME NEW t, NEW m \in Nat, NEW k \in 0..m, TreeOk(t, Pow2[m])
  PROVE  TreeOk(t, Pow2[k])
<1>1. \A leaf \in DOMAIN t.values : Multiple(t.values[leaf], Pow2[k])
  BY SmallerGrain DEF TreeOk
<1> QED  BY <1>1 DEF TreeOk

(* Shrinkage keeps it: the model is halved at most once per iteration.     *)
LEMMA StartIterationKept == ASSUME Kept, StartIteration PROVE Kept'
<1>1. /\ UNCHANGED inputs /\ UNCHANGED columns /\ UNCHANGED <<iter, grown, buffers, tables>>
      /\ stage = "iteration" /\ stage' = "search" /\ iter < Iterations
  BY DEF StartIteration
<1>2. Counts'
  BY <1>1 DEF Kept, Counts
<1>3. ColumnsKept'
  BY <1>1, ColumnsStay DEF Kept
<1>4. GrownKept'
  BY <1>1 DEF GrownKept
<1>5. iter \in Nat /\ Iterations \in Nat /\ iter < Iterations /\ iter' = iter
  BY <1>1, UnitAssumption DEF Kept, Counts
<1>6. Grain' = Pow2[Iterations - iter]
  BY <1>1 DEF Grain, Halvings
<1>7. iter > 0 => Grain = 2 * Grain' /\ Grain' \in Nat
                  /\ Grain = Pow2[Iterations - iter + 1]
  <2>1. iter > 0 => Grain = Pow2[Iterations - iter + 1]
    <3>1. iter > 0 => Iterations - (iter - 1) = Iterations - iter + 1
      BY <1>5
    <3> QED  BY <1>1, <1>5, <3>1 DEF Grain, Halvings
  <2>2. Iterations - iter \in Nat
    BY <1>5
  <2>3. Pow2[Iterations - iter + 1] = 2 * Pow2[Iterations - iter] /\ Pow2[Iterations - iter] \in Nat
    BY <2>2, PowersAreGrains
  <2> QED  BY <1>6, <2>1, <2>3
<1>8. TreesOk(trees, iter, Grain) /\ bias \in Int
  BY DEF Kept, TreesKept
<1>9. TreesOk(trees', iter, Grain') /\ bias' \in Int
  <2>1. CASE config.shrinks /\ iter > 0
    <3>1. trees' = [t \in DOMAIN trees |-> HalvedTree(trees[t])] /\ bias' = bias \div 2
      BY <2>1 DEF StartIteration
    <3>2. DOMAIN trees = 1..iter
      BY <1>8 DEF TreesOk
    <3>3. trees' = [t \in 1..iter |-> HalvedTree(trees[t])]
      BY <3>1, <3>2
    <3>4. \A t \in 1..iter : trees'[t] = HalvedTree(trees[t]) /\ TreeOk(HalvedTree(trees[t]), Grain')
      BY <1>7, <1>8, <2>1, <3>3, HalvedTreeOk DEF TreesOk
    <3>5. trees' = [t \in 1..iter |-> trees'[t]]
      BY <3>3
    <3>6. Len(trees') = iter
      <4> DEFINE S == {HalvedTree(trees[t]) : t \in 1..iter}
      <4>1. trees' \in [1..iter -> S]
        BY <3>3
      <4> HIDE DEF S
      <4>2. trees' \in Seq(S)
        BY <1>5, <4>1
      <4> QED  BY <1>5, <4>1, <4>2, LenProperties
    <3>7. bias' \in Int
      BY <1>8, <3>1
    <3> QED  BY <3>4, <3>5, <3>6, <3>7 DEF TreesOk
  <2>2. CASE ~(config.shrinks /\ iter > 0)
    <3>1. trees' = trees /\ bias' = bias
      BY <2>2 DEF StartIteration
    <3>2. CASE iter = 0
      BY <1>8, <3>1, <3>2 DEF TreesOk
    <3>3. CASE iter > 0
      <4>1. Iterations - iter + 1 \in Nat /\ Iterations - iter \in 0..(Iterations - iter + 1)
        BY <1>5
      <4>2. \A t \in 1..iter : TreeOk(trees[t], Grain')
        <5> TAKE t \in 1..iter
        <5>1. TreeOk(trees[t], Pow2[Iterations - iter + 1])
          BY <1>7, <1>8, <3>3 DEF TreesOk
        <5> QED  BY <1>6, <4>1, <5>1, FinerTreeOk
      <4> QED  BY <1>8, <3>1, <4>2 DEF TreesOk
    <3> QED  BY <1>5, <3>2, <3>3
  <2> QED  BY <2>1, <2>2
<1>10. TreesKept'
  BY <1>1, <1>9, TreesStay DEF TreesKept
<1> QED  BY <1>1, <1>2, <1>3, <1>4, <1>10, InputsStay DEF Kept

(* A search of either kind keeps it: it names the column it took by the    *)
(* identity the leaf assignment finds it by.                               *)
LEMMA GrowTreeKept == ASSUME Kept, GrowTree PROVE Kept'
<1>1. /\ UNCHANGED inputs /\ UNCHANGED columns /\ UNCHANGED <<iter, bias, trees, approx, tables>>
      /\ stage = "search" /\ stage' = "leaves"
  BY DEF GrowTree
<1>2. Counts'
  BY <1>1 DEF Kept, Counts
<1>3. ColumnsKept'
  BY <1>1, ColumnsStay DEF Kept
<1>4. TreesKept'
  <2>1. Grain' = Grain
    BY <1>1 DEF Grain, Halvings
  <2> QED  BY <1>1, <2>1, TreesStay DEF Kept, TreesKept
<1>5. config \in Configs /\ data \in Datasets /\ N \in Nat \ {0} /\ Objects = 1..N
  BY LearnSet DEF Kept, Inputs
<1> DEFINE cols == IF HasCtr THEN foldColumns[TakenFold] ELSE <<>>
<1>6. PICK choice \in [1..Depth -> SearchLevels(cols)] :
         grown' = [levels |-> [l \in 1..Depth |-> choice[l].level],
                   leafOf |-> SearchLeafOf(cols, choice)]
  BY DEF GrowTree
<1>7. grown'.levels = [l \in 1..Depth |-> choice[l].level] /\ grown'.leafOf = SearchLeafOf(cols, choice)
  BY <1>6
<1>8. CASE HasCtr
  <2>1. TakenFold \in FoldIds
    BY <1>8, TakenFoldIsOne, UnitAssumption DEF Kept, Counts
  <2>2. /\ stream \in [1..(LearningFolds + 1) -> Orders(N)]
        /\ foldColumns = [f \in FoldIds |-> ColumnsUnder(FoldOrder(stream, f))]
    BY <1>1 DEF Kept, ColumnsKept
  <2>3. FoldOrder(stream, TakenFold) \in Orders(N)
    BY <2>1, <2>2, OrdersOfTheFit DEF Kept
  <2>4. cols = CtrColumns(CtrData, data.cls, config.settings, FoldOrder(stream, TakenFold))
    BY <1>8, <2>1, <2>2 DEF ColumnsUnder
  <2>5. cols = foldColumns[TakenFold]
    BY <1>8
  <2> HIDE DEF cols
  <2>6. /\ SearchLeafOf(cols, choice) = AssignLeafOverCtrColumns(cols, grown'.levels)
        /\ \A l \in 1..Depth : LevelOk(grown'.levels[l])
    <3>1. choice \in [1..Depth -> SearchLevels(cols)]
      BY <1>6 DEF cols
    <3>2. LET levels == [l \in 1..Depth |-> choice[l].level]
          IN  /\ SearchLeafOf(cols, choice) = AssignLeafOverCtrColumns(cols, levels)
              /\ \A l \in 1..Depth : LevelOk(levels[l])
      BY <1>5, <2>3, <2>4, <3>1, SearchReadsByIdentity
    <3> QED  BY <1>7, <3>2
  <2>7. LevelsOk(grown'.levels)
    BY <1>7, <2>6 DEF LevelsOk
  <2>8. UNCHANGED <<foldColumns, iter>> /\ TakenFold' = TakenFold
    BY <1>1 DEF columns, TakenFold
  <2>9. GrownKept'
    <3>1. \A level : LevelOk(level)' = LevelOk(level)
      BY <1>1 DEF LevelOk, inputs
    <3>2. LevelsOk(grown.levels)'
      BY <2>7, <3>1 DEF LevelsOk
    <3>3. AssignLeafOverCtrColumns(foldColumns[TakenFold], grown.levels)'
            = AssignLeafOverCtrColumns(foldColumns[TakenFold], grown'.levels)
      BY <1>1, <2>8, InputsStay DEF AssignLeafOverCtrColumns, LevelPasses
    <3> QED  BY <1>7, <2>5, <2>6, <3>2, <3>3 DEF GrownKept
  <2> QED  BY <1>1, <1>2, <1>3, <1>4, <2>9, InputsStay DEF Kept
<1>9. CASE ~HasCtr
  <2>1. cols = <<>>
    BY <1>9
  <2>2. \A l \in 1..Depth : choice[l] \in SearchLevels(cols)
    BY <1>6
  <2>3. SearchLevels(cols) = [level : {FloatLevel(s) : s \in data.floats}, column : {0}]
    <3>1. DOMAIN cols = {}
      BY <2>1
    <3> HIDE DEF cols
    <3>2. {[level |-> CtrLevel(cols[j].candidate, b), column |-> j] :
              j \in DOMAIN cols, b \in 0..(BorderCount - 1)} = {}
      BY <3>1
    <3> DEFINE X == [level : {FloatLevel(s) : s \in data.floats}, column : {0}]
               Y == {[level |-> CtrLevel(cols[j].candidate, b), column |-> j] :
                       j \in DOMAIN cols, b \in 0..(BorderCount - 1)}
    <3>3. SearchLevels(cols) = X \cup Y
      BY DEF SearchLevels
    <3>4. Y = {}
      BY <3>2
    <3> HIDE DEF X, Y
    <3>5. SearchLevels(cols) = X
      BY <3>3, <3>4
    <3> QED  BY <3>5 DEF X
  <2> HIDE DEF cols
  <2>4. ASSUME NEW l \in 1..Depth PROVE choice[l].level.kind = "float"
    <3>1. choice[l].level \in {FloatLevel(s) : s \in data.floats}
      BY <2>2, <2>3
    <3>2. PICK s \in data.floats : choice[l].level = FloatLevel(s)
      BY <3>1
    <3> QED  BY <3>2 DEF FloatLevel
  <2>5. LevelsOk(grown'.levels)
    BY <1>7, <2>4 DEF LevelsOk, LevelOk
  <2>6. GrownKept'
    <3>1. \A level : LevelOk(level)' = LevelOk(level)
      BY <1>1 DEF LevelOk, inputs
    <3>2. LevelsOk(grown.levels)'
      BY <2>5, <3>1 DEF LevelsOk
    <3>3. ~HasCtr'
      BY <1>1, <1>9, InputsStay
    <3> QED  BY <3>2, <3>3 DEF GrownKept
  <2> QED  BY <1>1, <1>2, <1>3, <1>4, <2>6, InputsStay DEF Kept
<1> QED  BY <1>8, <1>9

(* The tree an iteration adds.                                             *)
LEMMA EstimatedTree ==
  ASSUME Kept, NEW leafOf, NEW ders \in [Objects -> Int], stage = "leaves"
  PROVE  TreeOk([levels |-> grown.levels, leafOf |-> leafOf, values |-> LeafValues(leafOf, ders)], Grain)
<1> DEFINE levels == grown.levels
           values == LeafValues(leafOf, ders)
           tree == [levels |-> levels, leafOf |-> leafOf, values |-> values]
<1>1. LevelsOk(levels)
  BY DEF Kept, GrownKept
<1>2. /\ \A i \in Objects : leafOf[i] \in DOMAIN values
      /\ \A leaf \in DOMAIN values : Multiple(values[leaf], Unit)
  BY LeafValuesOnGrid DEF Kept, Inputs
<1>3. \A leaf \in DOMAIN values : Multiple(values[leaf], Grain)
  <2>1. Iterations \in Nat /\ Iterations - Halvings \in 0..Iterations
    BY GrainIsPower, UnitAssumption DEF Kept
  <2> HIDE DEF values
  <2> QED  BY <1>2, <2>1, UnitIsPower, SmallerGrain DEF Grain
<1> HIDE DEF levels, values
<1>4. tree.levels = levels /\ tree.leafOf = leafOf /\ tree.values = values
      /\ tree = [levels |-> levels, leafOf |-> leafOf, values |-> values]
  OBVIOUS
<1> HIDE DEF tree
<1>5. TreeOk(tree, Grain)
  BY <1>1, <1>2, <1>3, <1>4 DEF TreeOk
<1> QED  BY <1>5 DEF tree, levels, values

(* A model with one tree more.                                             *)
Grows(ts, n, t, more, grain) ==
  TreesOk(more, n + 1, grain) /\ more[n + 1] = t /\ \A k \in 1..n : more[k] = ts[k]

(* Appending a tree gives that model.                                      *)
LEMMA TreesAppend ==
  ASSUME NEW ts, NEW n \in Nat, NEW grain, TreesOk(ts, n, grain), NEW t, TreeOk(t, grain)
  PROVE  Grows(ts, n, t, Append(ts, t), grain)
<1> DEFINE S == {ts[k] : k \in 1..n} \cup {t}
<1>1. ts = [k \in 1..n |-> ts[k]] /\ Len(ts) = n /\ \A k \in 1..n : TreeOk(ts[k], grain)
  BY DEF TreesOk
<1>2. ts \in Seq(S)
  <2>1. [k \in 1..n |-> ts[k]] \in [1..n -> S]
    OBVIOUS
  <2> HIDE DEF S
  <2>2. [k \in 1..n |-> ts[k]] \in Seq(S)
    BY <2>1
  <2> QED  BY <1>1, <2>2
<1>3. t \in S
  OBVIOUS
<1> HIDE DEF S
<1>4. /\ Append(ts, t) \in Seq(S) /\ Len(Append(ts, t)) = n + 1
      /\ \A k \in 1..n : Append(ts, t)[k] = ts[k]
      /\ Append(ts, t)[n + 1] = t
  BY <1>1, <1>2, <1>3, AppendProperties
<1>5. Append(ts, t) = [k \in 1..(n + 1) |-> Append(ts, t)[k]]
  BY <1>4, LenProperties
<1>6. \A k \in 1..(n + 1) : TreeOk(Append(ts, t)[k], grain)
  <2> TAKE k \in 1..(n + 1)
  <2>1. k \in 1..n \/ k = n + 1
    OBVIOUS
  <2> QED  BY <1>1, <1>4, <2>1
<1> QED  BY <1>4, <1>5, <1>6 DEF TreesOk, Grows

(* The derivatives of the averaging fold are integers.                     *)
LEMMA AveragingType ==
  ASSUME Inputs, approx \in [Objects -> Int], ExpCtr => avgExp \in [Objects -> Int]
  PROVE  AveragingDerivatives \in [Objects -> Int]
<1>1. data.cls \in [Objects -> {0, 1}]
  BY LearnSet DEF Inputs
<1>2. CASE ExpCtr
  BY <1>1, <1>2, DerivativesType DEF AveragingDerivatives
<1>3. CASE ~ExpCtr
  BY <1>1, <1>3, DerivativesType DEF AveragingDerivatives
<1> QED  BY <1>2, <1>3

(* The buffers hold one number per object, fold and segment.               *)
BuffersTyped ==
  stage # "folds" =>
    /\ approx \in [Objects -> Int]
    /\ ExpCtr => avgExp \in [Objects -> Int]
    /\ foldApprox \in [FoldIds -> [Objects -> Int]]
    /\ segApprox \in [DOMAIN Segments -> [Objects -> Int]]
    /\ segTwin \in [DOMAIN Segments -> [Objects -> Int]]

(* Estimating the leaves keeps it: a tree with whole values joins.         *)
LEMMA EstimateLeavesKept == ASSUME Kept, BuffersTyped, EstimateLeaves PROVE Kept'
<1>1. /\ UNCHANGED inputs /\ UNCHANGED columns /\ UNCHANGED <<bias, tables>>
      /\ stage = "leaves" /\ stage' = "iteration" /\ iter' = iter + 1
  BY DEF EstimateLeaves
<1>2. iter \in Nat /\ Iterations \in Nat /\ iter < Iterations
  BY <1>1, UnitAssumption DEF Kept, Counts
<1>3. Counts'
  BY <1>1, <1>2 DEF Counts
<1>4. ColumnsKept'
  BY <1>1, ColumnsStay DEF Kept
<1>5. GrownKept'
  BY <1>1 DEF GrownKept
<1>6. TreesKept'
  <2> DEFINE tree == [levels |-> grown.levels, leafOf |-> LeafValueLeafOf,
                      values |-> LeafValues(LeafValueLeafOf, AveragingDerivatives)]
  <2>1. AveragingDerivatives \in [Objects -> Int]
    BY <1>1, AveragingType DEF Kept, BuffersTyped
  <2>2. TreeOk(tree, Grain)
    BY <1>1, <2>1, EstimatedTree
  <2>3. trees' = Append(trees, tree)
    BY DEF EstimateLeaves
  <2> HIDE DEF tree
  <2>4. TreesOk(trees', iter + 1, Grain)
    <3>1. Grows(trees, iter, tree, trees', Grain)
      BY <1>2, <2>2, <2>3, TreesAppend DEF Kept, TreesKept
    <3> QED  BY <3>1 DEF Grows
  <2>5. Grain' = Grain
    <3>1. Halvings' = Halvings
      BY <1>1, <1>2 DEF Halvings
    <3> QED  BY <3>1 DEF Grain
  <2> QED  BY <1>1, <2>4, <2>5, TreesStay DEF Kept, TreesKept
<1> QED  BY <1>1, <1>3, <1>4, <1>5, <1>6, InputsStay DEF Kept

(* Baking the tables keeps it.                                             *)
LEMMA BakeTablesKept == ASSUME Kept, BakeTables PROVE Kept'
<1>1. /\ UNCHANGED inputs /\ UNCHANGED columns /\ UNCHANGED <<iter, bias, trees, grown>>
      /\ stage = "iteration" /\ stage' = "done"
  BY DEF BakeTables
<1>2. Counts' /\ GrownKept'
  BY <1>1 DEF Kept, Counts, GrownKept
<1>3. ColumnsKept'
  BY <1>1, ColumnsStay DEF Kept
<1>4. TreesKept'
  <2>1. Grain' = Grain
    BY <1>1 DEF Grain, Halvings
  <2> QED  BY <1>1, <2>1, TreesStay DEF Kept, TreesKept
<1> QED  BY <1>1, <1>2, <1>3, <1>4, InputsStay DEF Kept

(* A stuttering step keeps it.                                             *)
LEMMA StutterKept == ASSUME Kept, UNCHANGED vars PROVE Kept'
<1>1. UNCHANGED inputs /\ UNCHANGED columns /\ UNCHANGED <<stage, iter, bias, trees, grown>>
  BY DEF vars
<1>2. Counts' /\ Grain' = Grain /\ Inputs'
  BY <1>1, InputsStay DEF Kept, Counts, Grain, Halvings
<1>3. TreesKept'
  BY <1>1, <1>2, TreesStay DEF Kept, TreesKept
<1>4. ColumnsKept'
  <2>1. CASE stage = "folds"
    BY <1>1, <2>1 DEF ColumnsKept
  <2>2. CASE stage # "folds"
    BY <1>1, <2>2, ColumnsStay DEF Kept
  <2> QED  BY <2>1, <2>2
<1>5. GrownKept'
  <2>1. \A level : LevelOk(level)' = LevelOk(level)
    BY <1>1 DEF LevelOk, inputs
  <2>2. LevelsOk(grown.levels)' = LevelsOk(grown.levels)
    BY <1>1, <2>1 DEF LevelsOk
  <2>3. TakenFold' = TakenFold /\ foldColumns' = foldColumns
    BY <1>1 DEF TakenFold, columns
  <2>4. AssignLeafOverCtrColumns(foldColumns[TakenFold], grown.levels)'
          = AssignLeafOverCtrColumns(foldColumns[TakenFold], grown.levels)
    BY <1>1, <2>3, InputsStay DEF AssignLeafOverCtrColumns, LevelPasses
  <2> QED  BY <1>1, <2>2, <2>4, InputsStay DEF Kept, GrownKept
<1> QED  BY <1>2, <1>3, <1>4, <1>5 DEF Kept

(* An approximant advanced by leaf values is one.                          *)
LEMMA AdvancedByValues ==
  ASSUME data \in Datasets, NEW a \in [Objects -> Int], NEW leafOf, NEW ders \in [Objects -> Int]
  PROVE  Advanced(a, leafOf, LeafValues(leafOf, ders)) \in [Objects -> Int]
<1>1. \A i \in Objects : LeafValues(leafOf, ders)[leafOf[i]] \in Int
  BY LeafValuesOnGrid
<1> QED  BY <1>1, AdvancedType

(* What a segment adds to a row, and the rows it reads for that.           *)
Mine(leafOf, order, segment, i) ==
  {j \in Objects : leafOf[j] = leafOf[i]
                   /\ PositionIn(order, j) <= Larger(PositionIn(order, i), segment.body)}

(* The delta of a row is read from its leaf, from the rows up to it or its *)
(* body.                                                                   *)
LEMMA SegmentDelta ==
  ASSUME data \in Datasets, NEW leafOf, NEW ders \in [Objects -> Int], NEW order, NEW segment,
         NEW i \in Objects
  PROVE  /\ OrderedApproxDelta(leafOf, ders, order, segment)[i] \in Int
         /\ OrderedApproxDelta(leafOf, ders, order, segment)[i] =
              IF PositionIn(order, i) > segment.tail THEN 0
              ELSE LeafDelta(SumOver(ders, Mine(leafOf, order, segment, i)),
                             Cardinality(Mine(leafOf, order, segment, i)))
<1>1. N \in Nat /\ Objects = 1..N
  BY LearnSet
<1> DEFINE M == Mine(leafOf, order, segment, i)
<1>2. OrderedApproxDelta(leafOf, ders, order, segment)[i] =
        IF PositionIn(order, i) > segment.tail THEN 0 ELSE LeafDelta(SumOver(ders, M), Cardinality(M))
  BY DEF OrderedApproxDelta, Mine
<1>3. M \subseteq 1..N
  BY <1>1 DEF Mine
<1> HIDE DEF M
<1>4. Cardinality(M) \in Nat
  <2>1. IsFiniteSet(1..N)
    BY <1>1, FS_Interval
  <2>2. IsFiniteSet(M)
    BY <1>3, <2>1, FS_Subset
  <2> QED  BY <2>2, FS_CardinalityType
<1>5. SumOver(ders, M) \in Int
  BY <1>1, SumType
<1>6. LeafDelta(SumOver(ders, M), Cardinality(M)) \in Int
  BY <1>4, <1>5, DeltaOnGrid
<1> QED  BY <1>2, <1>6 DEF M

(* Each segment advances by its own deltas.                                *)
LEMMA AdvancedSegmentsType ==
  ASSUME data \in Datasets, NEW cls \in [Objects -> {0, 1}], NEW leafOf,
         NEW segs \in [DOMAIN Segments -> [Objects -> Int]]
  PROVE  /\ AdvancedSegments(segs, cls, leafOf) \in [DOMAIN Segments -> [Objects -> Int]]
         /\ \A s \in DOMAIN Segments, i \in Objects :
              AdvancedSegments(segs, cls, leafOf)[s][i] = segs[s][i]
                + OrderedApproxDelta(leafOf, Derivatives(cls, segs[s]), LearningOrder, Segments[s])[i]
<1> DEFINE D(s) == OrderedApproxDelta(leafOf, Derivatives(cls, segs[s]), LearningOrder, Segments[s])
           new == AdvancedSegments(segs, cls, leafOf)
<1>1. DOMAIN segs = DOMAIN Segments /\ \A s \in DOMAIN Segments : segs[s] \in [Objects -> Int]
  OBVIOUS
<1>2. new = [s \in DOMAIN Segments |-> [i \in Objects |-> segs[s][i] + D(s)[i]]]
  BY <1>1 DEF AdvancedSegments
<1>3. ASSUME NEW s \in DOMAIN Segments, NEW i \in Objects PROVE segs[s][i] \in Int /\ D(s)[i] \in Int
  <2>1. segs[s] \in [Objects -> Int]
    BY <1>1
  <2>2. Derivatives(cls, segs[s]) \in [Objects -> Int]
    BY <2>1, DerivativesType
  <2> QED  BY <2>1, <2>2, SegmentDelta
<1> HIDE DEF D
<1>4. \A s \in DOMAIN Segments : [i \in Objects |-> segs[s][i] + D(s)[i]] \in [Objects -> Int]
  BY <1>3
<1>5. new \in [DOMAIN Segments -> [Objects -> Int]]
  BY <1>2, <1>4
<1>6. \A s \in DOMAIN Segments, i \in Objects : new[s][i] = segs[s][i] + D(s)[i]
  BY <1>2
<1> QED  BY <1>5, <1>6 DEF D

(* The twin's classes differ in one object.                                *)
LEMMA TwinClasses ==
  ASSUME Inputs
  PROVE  /\ data.cls \in [Objects -> {0, 1}] /\ TwinCls \in [Objects -> {0, 1}]
         /\ \A i \in Objects : i # flipped => TwinCls[i] = data.cls[i]
<1>1. data.cls \in [Objects -> {0, 1}] /\ flipped \in Objects
  BY LearnSet DEF Inputs
<1>2. TwinCls = [data.cls EXCEPT ![flipped] = 1 - data.cls[flipped]]
  BY DEF TwinCls
<1> QED  BY <1>1, <1>2

(* A step that leaves the buffers or halves the linear one keeps numbers.  *)
LEMMA EstimateLeavesTyped ==
  ASSUME Kept, BuffersTyped, EstimateLeaves PROVE BuffersTyped'
<1>1. UNCHANGED inputs /\ stage = "leaves" /\ data \in Datasets /\ Inputs
  BY DEF EstimateLeaves, Kept, Inputs
<1>2. /\ approx \in [Objects -> Int]
      /\ ExpCtr => avgExp \in [Objects -> Int]
      /\ foldApprox \in [FoldIds -> [Objects -> Int]]
      /\ segApprox \in [DOMAIN Segments -> [Objects -> Int]]
      /\ segTwin \in [DOMAIN Segments -> [Objects -> Int]]
  BY <1>1 DEF BuffersTyped
<1> DEFINE leafOf == LeafValueLeafOf
           values == LeafValues(leafOf, AveragingDerivatives)
<1>3. /\ approx' = Advanced(approx, leafOf, values)
      /\ avgExp' = IF ExpCtr THEN AdvancedExp(avgExp, leafOf, values) ELSE avgExp
      /\ segApprox' = AdvancedSegments(segApprox, data.cls, leafOf)
      /\ segTwin' = AdvancedSegments(segTwin, TwinCls, leafOf)
      /\ foldApprox' = [f \in FoldIds |->
           Advanced(foldApprox[f], FoldLeafOf(f),
                    LeafValues(FoldLeafOf(f), Derivatives(data.cls, foldApprox[f])))]
  BY DEF EstimateLeaves
<1>4. AveragingDerivatives \in [Objects -> Int]
  BY <1>1, <1>2, AveragingType
<1>5. approx' \in [Objects -> Int] /\ (ExpCtr => avgExp' \in [Objects -> Int])
  BY <1>1, <1>2, <1>3, <1>4, AdvancedByValues DEF AdvancedExp
<1>6. foldApprox' \in [FoldIds -> [Objects -> Int]]
  <2>1. ASSUME NEW f \in FoldIds
        PROVE  Advanced(foldApprox[f], FoldLeafOf(f),
                        LeafValues(FoldLeafOf(f), Derivatives(data.cls, foldApprox[f]))) \in [Objects -> Int]
    <3>1. foldApprox[f] \in [Objects -> Int]
      BY <1>2
    <3>2. Derivatives(data.cls, foldApprox[f]) \in [Objects -> Int]
      BY <1>1, <3>1, TwinClasses, DerivativesType
    <3> QED  BY <1>1, <3>1, <3>2, AdvancedByValues
  <2> QED  BY <1>3, <2>1
<1>7. segApprox' \in [DOMAIN Segments -> [Objects -> Int]]
  BY <1>1, <1>2, <1>3, TwinClasses, AdvancedSegmentsType
<1>8. segTwin' \in [DOMAIN Segments -> [Objects -> Int]]
  BY <1>1, <1>2, <1>3, TwinClasses, AdvancedSegmentsType
<1> QED  BY <1>1, <1>5, <1>6, <1>7, <1>8, InputsStay DEF BuffersTyped

(* The steps that estimate no leaves keep the buffers.                     *)
LEMMA OthersTyped ==
  ASSUME Kept, BuffersTyped, CreateFolds \/ StartIteration \/ GrowTree \/ BakeTables \/ UNCHANGED vars
  PROVE  BuffersTyped'
<1>1. CASE CreateFolds
  <2> DEFINE start == [i \in Objects |-> bias]
  <2>1. /\ approx' = start
        /\ avgExp' = IF ExpCtr THEN start ELSE <<>>
        /\ foldApprox' = [f \in FoldIds |-> start]
        /\ segApprox' = [s \in DOMAIN Segments |-> start]
        /\ segTwin' = segApprox'
    BY <1>1 DEF CreateFolds
  <2>2. start \in [Objects -> Int]
    BY DEF Kept, TreesKept
  <2>3. UNCHANGED inputs
    BY <1>1 DEF CreateFolds
  <2> HIDE DEF start
  <2> QED  BY <2>1, <2>2, <2>3, InputsStay DEF BuffersTyped
<1>2. CASE StartIteration
  <2>1. UNCHANGED inputs /\ UNCHANGED buffers /\ stage = "iteration"
    BY <1>2 DEF StartIteration
  <2>2. approx' = approx \/ approx' = Halved(approx)
    BY <1>2 DEF StartIteration
  <2>3. approx' \in [Objects -> Int]
    <3>1. approx \in [Objects -> Int]
      BY <2>1 DEF BuffersTyped
    <3>2. Halved(approx) \in [Objects -> Int]
      BY <3>1 DEF Halved
    <3> QED  BY <2>2, <3>1, <3>2
  <2> QED  BY <2>1, <2>3, InputsStay DEF BuffersTyped, buffers
<1>3. CASE GrowTree \/ BakeTables
  <2>1. UNCHANGED inputs /\ UNCHANGED buffers /\ UNCHANGED approx /\ stage # "folds"
    BY <1>3 DEF GrowTree, BakeTables
  <2> QED  BY <2>1, InputsStay DEF BuffersTyped, buffers
<1>4. CASE UNCHANGED vars
  <2>1. UNCHANGED inputs /\ UNCHANGED buffers /\ UNCHANGED approx /\ UNCHANGED stage
    BY <1>4 DEF vars
  <2> QED  BY <2>1, InputsStay DEF BuffersTyped, buffers
<1> QED  BY <1>1, <1>2, <1>3, <1>4

-----------------------------------------------------------------------------
(* No row learns from its future.                                          *)

(* The segments of the twin data differ where the flipped object may reach.*)
SegmentsKept ==
  stage # "folds" =>
    \A s \in DOMAIN Segments, i \in Objects :
       PositionIn(LearningOrder, flipped) > Larger(PositionIn(LearningOrder, i), Segments[s].body)
         => segApprox[s][i] = segTwin[s][i]

(* Advancing keeps the twins equal before the flipped object: the rows a   *)
(* delta reads come before it, or are of the body.                         *)
LEMMA EstimateLeavesSegments ==
  ASSUME Kept, BuffersTyped, SegmentsKept, EstimateLeaves PROVE SegmentsKept'
<1>1. UNCHANGED inputs /\ UNCHANGED columns /\ stage = "leaves" /\ data \in Datasets /\ Inputs
  BY DEF EstimateLeaves, Kept, Inputs
<1>2. /\ segApprox \in [DOMAIN Segments -> [Objects -> Int]]
      /\ segTwin \in [DOMAIN Segments -> [Objects -> Int]]
  BY <1>1 DEF BuffersTyped
<1> DEFINE leafOf == LeafValueLeafOf
<1>3. /\ segApprox' = AdvancedSegments(segApprox, data.cls, leafOf)
      /\ segTwin' = AdvancedSegments(segTwin, TwinCls, leafOf)
  BY DEF EstimateLeaves
<1> HIDE DEF leafOf
<1>4. LearningOrder \in Orders(N)
  BY <1>1, LearningOrderIsOrder DEF Kept, ColumnsKept
<1>5. N \in Nat \ {0} /\ Objects = 1..N /\ flipped \in Objects
  BY <1>1, LearnSet DEF Inputs
<1>6. ASSUME NEW s \in DOMAIN Segments, NEW i \in Objects,
             PositionIn(LearningOrder, flipped) > Larger(PositionIn(LearningOrder, i), Segments[s].body)
      PROVE  segApprox'[s][i] = segTwin'[s][i]
  <2> DEFINE at(x) == PositionIn(LearningOrder, x)
             body == Segments[s].body
             upto == Larger(at(i), body)
             M == Mine(leafOf, LearningOrder, Segments[s], i)
             ders == Derivatives(data.cls, segApprox[s])
             twin == Derivatives(TwinCls, segTwin[s])
  <2>1. \A x \in Objects : at(x) \in 1..N
    BY <1>4, <1>5, PositionIsItsOwn
  <2>2. body \in 1..N
    BY <1>1, SegmentsOfTheFit DEF Abutting
  <2>3. M = {j \in Objects : leafOf[j] = leafOf[i] /\ at(j) <= upto}
    BY DEF Mine
  <2>4. /\ segApprox[s] \in [Objects -> Int] /\ segTwin[s] \in [Objects -> Int]
        /\ ders \in [Objects -> Int] /\ twin \in [Objects -> Int]
    BY <1>1, <1>2, TwinClasses, DerivativesType
  <2>5. \A j \in Objects : /\ ders[j] = Target(data.cls, j) - segApprox[s][j]
                           /\ twin[j] = Target(TwinCls, j) - segTwin[s][j]
    BY DEF Derivatives
  <2>6. \A j \in Objects : at(flipped) > Larger(at(j), body) => segApprox[s][j] = segTwin[s][j]
    BY <1>1 DEF SegmentsKept
  <2>7. at(flipped) > upto
    BY <1>6
  <2>8. /\ segApprox'[s][i] = segApprox[s][i]
              + OrderedApproxDelta(leafOf, ders, LearningOrder, Segments[s])[i]
        /\ segTwin'[s][i] = segTwin[s][i]
              + OrderedApproxDelta(leafOf, twin, LearningOrder, Segments[s])[i]
    <3>1. data.cls \in [Objects -> {0, 1}] /\ TwinCls \in [Objects -> {0, 1}]
      BY <1>1, TwinClasses
    <3>2. AdvancedSegments(segApprox, data.cls, leafOf)[s][i] = segApprox[s][i]
              + OrderedApproxDelta(leafOf, ders, LearningOrder, Segments[s])[i]
      <4>1. data \in Datasets /\ segApprox \in [DOMAIN Segments -> [Objects -> Int]]
        BY <1>1, <1>2
      <4>2. \A q \in DOMAIN Segments, j \in Objects :
              AdvancedSegments(segApprox, data.cls, leafOf)[q][j] = segApprox[q][j]
                + OrderedApproxDelta(leafOf, Derivatives(data.cls, segApprox[q]), LearningOrder, Segments[q])[j]
        BY <3>1, <4>1, AdvancedSegmentsType
      <4> QED  BY <4>2
    <3>3. AdvancedSegments(segTwin, TwinCls, leafOf)[s][i] = segTwin[s][i]
              + OrderedApproxDelta(leafOf, twin, LearningOrder, Segments[s])[i]
      <4>1. data \in Datasets /\ segTwin \in [DOMAIN Segments -> [Objects -> Int]]
        BY <1>1, <1>2
      <4>2. \A q \in DOMAIN Segments, j \in Objects :
              AdvancedSegments(segTwin, TwinCls, leafOf)[q][j] = segTwin[q][j]
                + OrderedApproxDelta(leafOf, Derivatives(TwinCls, segTwin[q]), LearningOrder, Segments[q])[j]
        BY <3>1, <4>1, AdvancedSegmentsType
      <4> QED  BY <4>2
    <3> QED  BY <1>3, <3>2, <3>3
  <2>9. /\ OrderedApproxDelta(leafOf, ders, LearningOrder, Segments[s])[i] =
              IF at(i) > Segments[s].tail THEN 0 ELSE LeafDelta(SumOver(ders, M), Cardinality(M))
        /\ OrderedApproxDelta(leafOf, twin, LearningOrder, Segments[s])[i] =
              IF at(i) > Segments[s].tail THEN 0 ELSE LeafDelta(SumOver(twin, M), Cardinality(M))
    BY <1>1, <2>4, SegmentDelta
  <2> HIDE DEF at, M, ders, twin, body
  <2>10. ASSUME NEW j \in Objects, j \in M PROVE ders[j] = twin[j]
    <3>1. at(j) <= upto
      BY <2>3, <2>10
    <3>2. at(j) \in 1..N /\ at(i) \in 1..N /\ at(flipped) \in 1..N
      BY <1>5, <2>1
    <3>3. at(flipped) > Larger(at(j), body) /\ at(j) # at(flipped)
      BY <2>2, <2>7, <3>1, <3>2 DEF Larger
    <3>4. segApprox[s][j] = segTwin[s][j]
      BY <2>6, <3>3
    <3>5. TwinCls[j] = data.cls[j]
      BY <1>1, <3>3, TwinClasses
    <3>6. Target(TwinCls, j) = Target(data.cls, j)
      BY <3>5 DEF Target
    <3> QED  BY <2>5, <3>4, <3>6
  <2>11. SumOver(ders, M) = SumOver(twin, M)
    BY <1>5, <2>4, <2>10, SumReadsMembers
  <2>12. segApprox[s][i] = segTwin[s][i]
    BY <2>6, <2>7
  <2> QED  BY <2>8, <2>9, <2>11, <2>12
<1>7. LearningOrder' = LearningOrder
  BY <1>1, InputsStay DEF LearningOrder, columns, inputs
<1>8. flipped' = flipped /\ Segments' = Segments /\ Objects' = Objects
  BY <1>1, InputsStay DEF inputs
<1> QED  BY <1>6, <1>7, <1>8 DEF SegmentsKept

(* The other steps leave the segments alone or start them equal.           *)
LEMMA OthersSegments ==
  ASSUME SegmentsKept, CreateFolds \/ StartIteration \/ GrowTree \/ BakeTables \/ UNCHANGED vars
  PROVE  SegmentsKept'
<1>1. CASE CreateFolds
  <2>1. segTwin' = segApprox'
    BY <1>1 DEF CreateFolds
  <2> QED  BY <2>1 DEF SegmentsKept
<1>2. CASE StartIteration \/ GrowTree \/ BakeTables \/ UNCHANGED vars
  <2>1. UNCHANGED inputs /\ UNCHANGED columns /\ UNCHANGED buffers
        /\ (stage' # "folds" => stage # "folds")
    BY <1>2 DEF StartIteration, GrowTree, BakeTables, vars
  <2>2. LearningOrder' = LearningOrder
    BY <2>1, InputsStay DEF LearningOrder, columns, inputs
  <2>3. flipped' = flipped /\ Segments' = Segments /\ Objects' = Objects
    BY <2>1, InputsStay DEF inputs
  <2> QED  BY <2>1, <2>2, <2>3 DEF SegmentsKept, buffers
<1> QED  BY <1>1, <1>2

(* A statistic of earlier rows reads the classes of these rows only.       *)
LEMMA PairReadsEarlier ==
  ASSUME NEW cls, NEW other, NEW earlier, \A i \in earlier : cls[i] = other[i], NEW c, NEW key
  PROVE  OnlinePair(CtrData, cls, c, earlier, key) = OnlinePair(CtrData, other, c, earlier, key)
<1> DEFINE same == RowsWith(CtrData.rows, earlier, c.projection, key)
<1>1. \A i \in same : cls[i] = other[i]
  BY DEF RowsWith
<1> HIDE DEF same
<1>2. /\ {i \in same : cls[i] = c.border} = {i \in same : other[i] = c.border}
      /\ {i \in same : cls[i] > c.border} = {i \in same : other[i] > c.border}
      /\ {i \in same : cls[i] = 1} = {i \in same : other[i] = 1}
  BY <1>1
<1>3. Counted(c.type, c.border, cls, same) = Counted(c.type, c.border, other, same)
  BY <1>2 DEF Counted
<1> QED  BY <1>3 DEF OnlinePair, same

(* The columns of an order depend on the classes of earlier rows only.     *)
LEMMA ColumnsReadThePast ==
  ASSUME Inputs, NEW order \in Orders(N), NEW k \in Objects, NEW m \in 1..k
  PROVE  LET other == [data.cls EXCEPT ![order[k]] = 1 - @]
             mine  == ColumnsUnder(order)
             its   == CtrColumns(CtrData, other, config.settings, order)
         IN  \A j \in DOMAIN mine : mine[j].bins[order[m]] = its[j].bins[order[m]]
<1> DEFINE other == [data.cls EXCEPT ![order[k]] = 1 - @]
           mine  == ColumnsUnder(order)
           its   == CtrColumns(CtrData, other, config.settings, order)
           cs    == CtrCandidates(config.settings)
           x     == order[m]
           Bin(cls, c) == OnlineBin(OnlinePair(CtrData, cls, c, Passed(order, x),
                                               Key(CtrData.rows[x], c.projection)), c.prior)
<1>1. config \in Configs /\ N \in Nat \ {0} /\ Objects = 1..N /\ data.cls \in [Objects -> {0, 1}]
  BY LearnSet DEF Inputs
<1>2. order \in [1..N -> 1..N] /\ \A a, b \in 1..N : order[a] = order[b] => a = b
  BY DEF Orders
<1>3. m \in 1..N /\ k \in 1..N /\ order[k] \in 1..N /\ x \in 1..N
  BY <1>1, <1>2
<1>4. PositionIn(order, x) = m
  BY <1>1, <1>3, PositionIsItsOwn
<1>5. Passed(order, x) = {order[l] : l \in 1..(m - 1)}
  BY <1>4 DEF Passed
<1>6. \A y \in Passed(order, x) : data.cls[y] = other[y]
  <2> TAKE y \in Passed(order, x)
  <2>1. PICK l \in 1..(m - 1) : y = order[l]
    BY <1>5
  <2>2. l \in 1..N /\ l # k
    BY <1>1, <1>3
  <2>3. y # order[k] /\ y \in Objects
    BY <1>1, <1>2, <1>3, <2>1, <2>2
  <2> QED  BY <1>1, <2>3
<1>7. /\ mine = [j \in 1..Len(cs) |-> MaterializeCtrFeature(CtrData, data.cls, cs[j], order)]
      /\ its = [j \in 1..Len(cs) |-> MaterializeCtrFeature(CtrData, other, cs[j], order)]
  BY <1>1, ColumnsFollowCandidates DEF ColumnsUnder
<1>8. DOMAIN CtrData.rows = 1..N
  BY <1>1 DEF CtrData, Objects
<1> HIDE DEF other
<1>9. \A c : /\ MaterializeCtrFeature(CtrData, data.cls, c, order).bins[x] = Bin(data.cls, c)
             /\ MaterializeCtrFeature(CtrData, other, c, order).bins[x] = Bin(other, c)
  BY <1>3, <1>8 DEF MaterializeCtrFeature
<1>10. \A c : Bin(data.cls, c) = Bin(other, c)
  BY <1>6, PairReadsEarlier
<1> HIDE DEF mine, its, cs, x, Bin
<1>11. \A j \in DOMAIN mine : mine[j].bins[x] = its[j].bins[x]
  BY <1>7, <1>9, <1>10
<1> QED  BY <1>11 DEF other, mine, its, x

(* Both halves of the property: the CTR columns by what a prefix reads,    *)
(* the segments by their twins.                                            *)
LEMMA FutureUnread ==
  ASSUME Kept, BuffersTyped, SegmentsKept PROVE NoRowLearnsFromItsFuture
<1>1. OwnClassNeverRead
  <2> SUFFICES ASSUME stage = "iteration", HasCtr
               PROVE  \A order \in {FoldOrder(stream, f) : f \in FoldIds} \cup {AverageOrder(stream)} :
                        \A k \in Objects :
                          LET other == [data.cls EXCEPT ![order[k]] = 1 - @]
                              mine  == ColumnsUnder(order)
                              its   == CtrColumns(CtrData, other, config.settings, order)
                          IN  \A j \in DOMAIN mine, m \in 1..k :
                                 mine[j].bins[order[m]] = its[j].bins[order[m]]
    BY DEF OwnClassNeverRead
  <2> TAKE order \in {FoldOrder(stream, f) : f \in FoldIds} \cup {AverageOrder(stream)}
  <2> TAKE k \in Objects
  <2>1. order \in Orders(N)
    BY OrdersOfTheFit DEF Kept, ColumnsKept
  <2> QED  BY <2>1, ColumnsReadThePast DEF Kept
<1>2. LaterClassesNeverReachARow
  <2> SUFFICES ASSUME stage = "iteration", NEW s \in DOMAIN segApprox, NEW i \in Objects
               PROVE  PositionIn(LearningOrder, flipped) >
                          Larger(PositionIn(LearningOrder, i), Segments[s].body)
                        => segApprox[s][i] = segTwin[s][i]
    BY DEF LaterClassesNeverReachARow
  <2>1. DOMAIN segApprox = DOMAIN Segments
    BY DEF BuffersTyped
  <2> QED  BY <2>1 DEF SegmentsKept
<1> QED  BY <1>1, <1>2 DEF NoRowLearnsFromItsFuture

-----------------------------------------------------------------------------
(* The averaging approximant is the model's.                               *)

(* What the trees add to an object, one after the other.                   *)
Votes(ts, i) == [t \in 1..Len(ts) |-> [x \in Int |-> x + ts[t].values[ts[t].leafOf[i]]]]

(* What the trees say of an object, from a starting value.                 *)
Told(ts, start, i, a) == Ends(Int, Len(ts), start, Votes(ts, i), a)

(* The averaging approximant is what the model says.                       *)
ApproxKept == stage # "folds" => \A i \in Objects : Told(trees, bias, i, approx[i])

(* The values of n trees at an object are integers.                        *)
Voting(ts, n, i) ==
  /\ \A k \in 1..n : ts[k].values[ts[k].leafOf[i]] \in Int
  /\ Votes(ts, i) \in [1..n -> [Int -> Int]]
  /\ \A k \in 1..n : \A x \in Int : Votes(ts, i)[k][x] = x + ts[k].values[ts[k].leafOf[i]]

(* So they are for the trees of a fit.                                     *)
LEMMA VotesAreNumbers ==
  ASSUME NEW n \in Nat, NEW grain \in Nat, NEW ts, TreesOk(ts, n, grain), NEW i \in Objects
  PROVE  Voting(ts, n, i)
<1>1. ASSUME NEW k \in 1..n PROVE ts[k].values[ts[k].leafOf[i]] \in Int
  <2>1. ts[k].leafOf[i] \in DOMAIN ts[k].values
        /\ \A leaf \in DOMAIN ts[k].values : Multiple(ts[k].values[leaf], grain)
    BY DEF TreesOk, TreeOk
  <2> QED  BY <2>1 DEF Multiple
<1>2. Votes(ts, i) = [t \in 1..n |-> [x \in Int |-> x + ts[t].values[ts[t].leafOf[i]]]]
  BY DEF Votes, TreesOk
<1> DEFINE v(t) == ts[t].values[ts[t].leafOf[i]]
<1>3. Votes(ts, i) = [t \in 1..n |-> [x \in Int |-> x + v(t)]] /\ \A t \in 1..n : v(t) \in Int
  BY <1>1, <1>2
<1> HIDE DEF v
<1>4. Votes(ts, i) \in [1..n -> [Int -> Int]] /\ \A k \in 1..n : \A x \in Int : Votes(ts, i)[k][x] = x + v(k)
  BY <1>3
<1> QED  BY <1>3, <1>4 DEF v, Voting

(* No trees say the starting value.                                        *)
LEMMA ToldNothing == ASSUME NEW x \in Int, NEW i PROVE Told(<<>>, x, i, x)
<1> DEFINE g == [k \in 0..0 |-> x]
<1>1. Len(<<>>) = 0 /\ 1..0 = {} /\ g \in [0..0 -> Int] /\ g[0] = x
  OBVIOUS
<1>2. Stepwise(Int, 0, x, Votes(<<>>, i), g)
  BY <1>1 DEF Stepwise
<1> QED  BY <1>1, <1>2 DEF Told, Ends

(* One more tree adds its value.                                           *)
LEMMA ToldMore ==
  ASSUME NEW n \in Nat, NEW grain \in Nat, NEW ts, TreesOk(ts, n, grain), NEW t, TreeOk(t, grain),
         NEW i \in Objects, NEW x, NEW a, Told(ts, x, i, a)
  PROVE  Told(Append(ts, t), x, i, a + t.values[t.leafOf[i]])
<1> DEFINE more == Append(ts, t)
           X == Int
           F == Votes(ts, i)
           G == Votes(more, i)
<1>1. /\ TreesOk(more, n + 1, grain) /\ more[n + 1] = t
      /\ \A k \in 1..n : more[k] = ts[k]
  <2>1. Grows(ts, n, t, more, grain)
    BY TreesAppend
  <2> QED  BY <2>1 DEF Grows
<1>2. Len(ts) = n /\ Len(more) = n + 1
  BY <1>1 DEF TreesOk
<1>3. /\ \A k \in 1..n : \A y \in X : F[k][y] = y + ts[k].values[ts[k].leafOf[i]]
      /\ \A k \in 1..(n + 1) : \A y \in X : G[k][y] = y + more[k].values[more[k].leafOf[i]]
      /\ \A k \in 1..(n + 1) : more[k].values[more[k].leafOf[i]] \in Int
  <2>1. Voting(ts, n, i)
    BY VotesAreNumbers
  <2>2. n + 1 \in Nat /\ TreesOk(more, n + 1, grain)
    BY <1>1
  <2> HIDE DEF more
  <2>3. Voting(more, n + 1, i)
    BY <2>2, VotesAreNumbers
  <2> QED  BY <2>1, <2>3 DEF Voting
<1>4. Ends(X, n, x, F, a)
  BY <1>2 DEF Told
<1>5. a \in X
  BY <1>4 DEF Ends, Stepwise
<1> DEFINE z == a + t.values[t.leafOf[i]]
<1> HIDE DEF more, F, G
<1>6. \A k \in 1..n : \A y \in X : F[k][y] = G[k][y]
  BY <1>1, <1>3
<1>7. z = G[n + 1][a] /\ z \in X
  <2>1. n + 1 \in 1..(n + 1)
    OBVIOUS
  <2>2. G[n + 1][a] = a + more[n + 1].values[more[n + 1].leafOf[i]]
        /\ more[n + 1].values[more[n + 1].leafOf[i]] \in Int
    BY <1>3, <1>5, <2>1
  <2>3. more[n + 1].values[more[n + 1].leafOf[i]] = t.values[t.leafOf[i]]
    BY <1>1
  <2> QED  BY <1>5, <2>2, <2>3
<1> HIDE DEF X, z
<1>8. Ends(X, n + 1, x, G, z)
  BY <1>4, <1>6, <1>7, StepsExtend
<1>9. Told(more, x, i, z)
  BY <1>2, <1>8 DEF Told, X, G
<1> QED  BY <1>9 DEF more, z

(* Halving the bias and the trees halves the sum: only the trees need be   *)
(* even.                                                                   *)
LEMMA HalfOfSum == ASSUME NEW a \in Int, NEW w \in Int PROVE (a + 2 * w) \div 2 = a \div 2 + w
OBVIOUS

(* Halved trees say half, from half the start: values are even as long as  *)
(* the grain is.                                                           *)
LEMMA ToldHalved ==
  ASSUME NEW n \in Nat, NEW grain \in Nat, NEW ts, TreesOk(ts, n, 2 * grain),
         NEW halves, TreesOk(halves, n, grain), \A t \in 1..n : halves[t] = HalvedTree(ts[t]),
         NEW i \in Objects, NEW x \in Int, NEW a, Told(ts, x, i, a)
  PROVE  Told(halves, x \div 2, i, a \div 2)
<1> DEFINE F == Votes(ts, i)
           G == Votes(halves, i)
           v(t) == ts[t].values[ts[t].leafOf[i]]
           w(t) == halves[t].values[halves[t].leafOf[i]]
<1>1. Len(ts) = n /\ Len(halves) = n /\ 2 * grain \in Nat
  BY DEF TreesOk
<1>2. /\ \A k \in 1..n : \A y \in Int : F[k][y] = y + v(k)
      /\ \A k \in 1..n : \A y \in Int : G[k][y] = y + w(k)
      /\ \A k \in 1..n : v(k) \in Int /\ w(k) \in Int
  <2>1. Voting(ts, n, i)
    <3> DEFINE d == 2 * grain
    <3>1. d \in Nat /\ TreesOk(ts, n, d)
      BY <1>1
    <3> HIDE DEF d
    <3> QED  BY <3>1, VotesAreNumbers
  <2>2. Voting(halves, n, i)
    BY VotesAreNumbers
  <2> QED  BY <2>1, <2>2 DEF Voting
<1>3. \A k \in 1..n : v(k) = 2 * w(k)
  <2> TAKE k \in 1..n
  <2>1. TreeOk(ts[k], 2 * grain) /\ halves[k] = HalvedTree(ts[k])
    BY DEF TreesOk
  <2>2. /\ HalvedTree(ts[k]).leafOf = ts[k].leafOf
        /\ \A leaf \in DOMAIN ts[k].values : ts[k].values[leaf] = 2 * HalvedTree(ts[k]).values[leaf]
    BY <2>1, HalvedTreeOk
  <2>3. ts[k].leafOf[i] \in DOMAIN ts[k].values
    BY <2>1 DEF TreeOk
  <2> QED  BY <2>1, <2>2, <2>3
<1>4. PICK g : Stepwise(Int, n, x, F, g) /\ a = g[n]
  BY <1>1 DEF Told, Ends
<1> HIDE DEF F, G, v, w
<1> DEFINE h == [k \in 0..n |-> g[k] \div 2]
<1>5. g \in [0..n -> Int] /\ g[0] = x /\ \A k \in 1..n : g[k] = F[k][g[k - 1]]
  BY <1>4 DEF Stepwise
<1>6. h \in [0..n -> Int] /\ h[0] = x \div 2 /\ h[n] = a \div 2
  BY <1>4, <1>5
<1>7. ASSUME NEW k \in 1..n PROVE h[k] = G[k][h[k - 1]]
  <2>1. k - 1 \in 0..n /\ k \in 0..n /\ g[k - 1] \in Int /\ w(k) \in Int
    <3>1. k - 1 \in 0..n /\ k \in 0..n
      OBVIOUS
    <3>2. g[k - 1] \in Int
      BY <1>5, <3>1
    <3> QED  BY <1>2, <3>1, <3>2
  <2>2. g[k] = g[k - 1] + 2 * w(k)
    BY <1>2, <1>3, <1>5, <2>1
  <2>3. h[k] = g[k] \div 2 /\ h[k - 1] = g[k - 1] \div 2 /\ h[k - 1] \in Int
    BY <2>1
  <2> HIDE DEF h
  <2>4. h[k] = h[k - 1] + w(k)
    BY <2>1, <2>2, <2>3, HalfOfSum
  <2> QED  BY <1>2, <2>3, <2>4
<1> HIDE DEF h
<1>8. Stepwise(Int, n, x \div 2, G, h)
  BY <1>6, <1>7 DEF Stepwise
<1> QED  BY <1>1, <1>6, <1>8 DEF Told, Ends, G

(* Shrinkage halves the averaging approximant with the model.              *)
LEMMA StartIterationApprox ==
  ASSUME Kept, BuffersTyped, ApproxKept, StartIteration, TreesKept' PROVE ApproxKept'
<1>1. UNCHANGED inputs /\ stage = "iteration" /\ iter < Iterations /\ iter' = iter /\ stage' = "search"
  BY DEF StartIteration
<1>2. Objects' = Objects
  BY <1>1, InputsStay
<1>3. \A i \in Objects : Told(trees, bias, i, approx[i])
  BY <1>1 DEF ApproxKept
<1>4. CASE config.shrinks /\ iter > 0
  <2>1. /\ bias' = bias \div 2 /\ trees' = [t \in DOMAIN trees |-> HalvedTree(trees[t])]
        /\ approx' = Halved(approx)
    BY <1>4 DEF StartIteration
  <2>2. iter \in Nat /\ TreesOk(trees, iter, Grain) /\ bias \in Int /\ Iterations \in Nat
    BY UnitAssumption DEF Kept, Counts, TreesKept
  <2>3. TreesOk(trees', iter, Grain')
    BY <1>1, TreesStay DEF TreesKept
  <2>4. Grain = 2 * Grain' /\ Grain' \in Nat
    <3>1. Grain' = Pow2[Iterations - iter] /\ Grain = Pow2[Iterations - (iter - 1)]
      BY <1>1, <1>4 DEF Grain, Halvings
    <3>2. Iterations - iter \in Nat /\ Iterations - (iter - 1) = (Iterations - iter) + 1
      BY <1>1, <2>2
    <3> QED  BY <3>1, <3>2, PowersAreGrains
  <2>5. \A t \in 1..iter : trees'[t] = HalvedTree(trees[t])
    BY <2>1, <2>2 DEF TreesOk
  <2>6. ASSUME NEW i \in Objects PROVE Told(trees', bias', i, approx'[i])
    <3>1. approx'[i] = approx[i] \div 2
      BY <1>1, <2>1 DEF Halved, BuffersTyped
    <3>2. Told(trees, bias, i, approx[i])
      BY <1>3
    <3> DEFINE n == iter
               grain == Grain'
               ts == trees
               halves == trees'
               x == bias
               a == approx[i]
    <3>3. /\ n \in Nat /\ grain \in Nat /\ TreesOk(ts, n, 2 * grain) /\ TreesOk(halves, n, grain)
          /\ x \in Int /\ \A t \in 1..n : halves[t] = HalvedTree(ts[t])
      BY <2>2, <2>3, <2>4, <2>5
    <3>4. Told(ts, x, i, a)
      BY <3>2
    <3> HIDE DEF n, grain, ts, halves, x, a
    <3>5. Told(halves, x \div 2, i, a \div 2)
      BY <3>3, <3>4, ToldHalved
    <3> QED  BY <2>1, <3>1, <3>5 DEF halves, x, a
  <2> QED  BY <1>2, <2>6 DEF ApproxKept, Told, Votes
<1>5. CASE ~(config.shrinks /\ iter > 0)
  <2>1. UNCHANGED <<bias, trees, approx>>
    BY <1>5 DEF StartIteration
  <2> QED  BY <1>2, <1>3, <2>1 DEF ApproxKept, Told, Votes
<1> QED  BY <1>4, <1>5

(* A new tree advances it by what it adds to the model.                    *)
LEMMA EstimateLeavesApprox ==
  ASSUME Kept, BuffersTyped, ApproxKept, EstimateLeaves PROVE ApproxKept'
<1>1. UNCHANGED inputs /\ stage = "leaves" /\ bias' = bias /\ Inputs
  BY DEF EstimateLeaves, Kept
<1> DEFINE leafOf == LeafValueLeafOf
           values == LeafValues(leafOf, AveragingDerivatives)
           tree == [levels |-> grown.levels, leafOf |-> leafOf, values |-> values]
<1>2. /\ trees' = Append(trees, tree)
      /\ approx' = Advanced(approx, leafOf, values)
  BY DEF EstimateLeaves
<1>3. /\ approx \in [Objects -> Int] /\ AveragingDerivatives \in [Objects -> Int]
      /\ data \in Datasets
  BY <1>1, AveragingType DEF BuffersTyped, Inputs
<1>4. TreeOk(tree, Grain)
  BY <1>1, <1>3, EstimatedTree
<1>5. \A i \in Objects : values[leafOf[i]] \in Int
  BY <1>3, LeafValuesOnGrid
<1>6. tree.values = values /\ tree.leafOf = leafOf
  OBVIOUS
<1> HIDE DEF leafOf, values, tree
<1>7. \A i \in Objects : approx'[i] = approx[i] + tree.values[tree.leafOf[i]]
  <2>1. \A i \in Objects : Advanced(approx, leafOf, values)[i] = approx[i] + values[leafOf[i]]
    BY <1>3, <1>5, AdvancedType
  <2> QED  BY <1>2, <1>6, <2>1
<1>8. iter \in Nat /\ Grain \in Nat /\ TreesOk(trees, iter, Grain)
  BY GrainIsPower, UnitAssumption DEF Kept, Counts, TreesKept
<1>9. ASSUME NEW i \in Objects PROVE Told(trees', bias', i, approx'[i])
  <2>1. Told(trees, bias, i, approx[i])
    BY <1>1 DEF ApproxKept
  <2> DEFINE n == iter
             grain == Grain
             ts == trees
             t == tree
             x == bias
             a == approx[i]
  <2>2. n \in Nat /\ grain \in Nat /\ TreesOk(ts, n, grain) /\ TreeOk(t, grain) /\ Told(ts, x, i, a)
    BY <1>4, <1>8, <2>1
  <2> HIDE DEF n, grain, ts, t, x, a
  <2>3. Told(Append(ts, t), x, i, a + t.values[t.leafOf[i]])
    BY <2>2, ToldMore
  <2> QED  BY <1>1, <1>2, <1>7, <2>3 DEF ts, t, x, a
<1> QED  BY <1>1, <1>9, InputsStay DEF ApproxKept, Told, Votes

(* No other step moves model or approximant.                               *)
LEMMA OthersApprox ==
  ASSUME Kept, ApproxKept, CreateFolds \/ GrowTree \/ BakeTables \/ UNCHANGED vars
  PROVE  ApproxKept'
<1>1. CASE CreateFolds
  <2>1. /\ UNCHANGED inputs /\ UNCHANGED <<bias, trees>> /\ stage = "folds"
        /\ approx' = [i \in Objects |-> bias]
    BY <1>1 DEF CreateFolds
  <2>2. Len(trees) = 0 /\ bias \in Int
    BY <2>1 DEF Kept, Counts, TreesKept, TreesOk
  <2>3. trees = <<>>
    <3>1. trees = [t \in 1..0 |-> trees[t]] /\ 1..0 = {}
      BY <2>1 DEF Kept, Counts, TreesKept, TreesOk
    <3> QED  BY <3>1
  <2>4. \A i \in Objects : approx'[i] = bias /\ Told(<<>>, bias, i, bias)
    BY <2>1, <2>2, ToldNothing
  <2> QED  BY <2>1, <2>3, <2>4, InputsStay DEF ApproxKept, Told, Votes
<1>2. CASE GrowTree \/ BakeTables \/ UNCHANGED vars
  <2>1. UNCHANGED inputs /\ UNCHANGED <<bias, trees, approx>> /\ (stage' # "folds" => stage # "folds")
    BY <1>2 DEF GrowTree, BakeTables, vars
  <2> QED  BY <2>1, InputsStay DEF ApproxKept, Told, Votes
<1> QED  BY <1>1, <1>2

(* The recursive function of a property ends where the recursion does.     *)
LEMMA EndOfRecursion ==
  ASSUME NEW n \in Nat, NEW X, NEW x0, NEW F, NEW g, Stepwise(X, n, x0, F, g),
         NEW u, u[0] = x0, \A k \in 1..n : u[k - 1] = g[k - 1] => u[k] = F[k][g[k - 1]]
  PROVE  u[n] = g[n]
<1> DEFINE Same == {k \in 0..n : u[k] = g[k]}
<1>1. 0 \in Same
  BY DEF Stepwise
<1>2. ASSUME NEW k \in 0..n - 1, k \in Same PROVE k + 1 \in Same
  <2>1. k + 1 \in 1..n /\ k + 1 \in 0..n /\ (k + 1) - 1 = k /\ u[k] = g[k]
    BY <1>2
  <2>2. g[k + 1] = F[k + 1][g[k]] /\ u[k + 1] = F[k + 1][g[k]]
    BY <2>1 DEF Stepwise
  <2> QED  BY <2>1, <2>2
<1>3. 0..n \subseteq Same
  <2> HIDE DEF Same
  <2> QED  BY <1>1, <1>2, BoundedInduction
<1> QED  BY <1>3

(* So it is what the property's own sum over the model gives.              *)
LEMMA LearnApproxFollows ==
  ASSUME Kept, ApproxKept PROVE LearnApproxIsModel
<1> SUFFICES ASSUME stage = "iteration", NEW i \in Objects
             PROVE  LET upTo[t \in 0..Len(trees)] ==
                          IF t = 0 THEN bias
                          ELSE upTo[t - 1] + trees[t].values[trees[t].leafOf[i]]
                    IN  approx[i] = upTo[Len(trees)]
  BY DEF LearnApproxIsModel
<1> DEFINE n == Len(trees)
           v(t) == trees[t].values[trees[t].leafOf[i]]
           Rec(u) == u = [t \in 0..n |-> IF t = 0 THEN bias ELSE u[t - 1] + v(t)]
           upTo == CHOOSE u : Rec(u)
           F == Votes(trees, i)
<1>1. n = iter /\ n \in Nat /\ TreesOk(trees, iter, Grain) /\ Grain \in Nat
  BY GrainIsPower, UnitAssumption DEF Kept, Counts, TreesKept, TreesOk
<1>2. (\A k \in 1..n : \A y \in Int : F[k][y] = y + v(k)) /\ \A k \in 1..n : v(k) \in Int
  <2>1. Voting(trees, n, i)
    BY <1>1, VotesAreNumbers
  <2> QED  BY <2>1 DEF Voting
<1>3. PICK g : Stepwise(Int, n, bias, F, g) /\ approx[i] = g[n]
  BY DEF ApproxKept, Told, Ends
<1> HIDE DEF n, v, F
<1>4. g \in [0..n -> Int] /\ g[0] = bias /\ \A k \in 1..n : g[k] = F[k][g[k - 1]]
  BY <1>3 DEF Stepwise
<1>5. ASSUME NEW k \in 1..n PROVE k - 1 \in 0..n /\ k \in 0..n /\ g[k - 1] \in Int /\ g[k] = g[k - 1] + v(k)
  <2>1. k - 1 \in 0..n /\ k \in 0..n
    BY <1>1
  <2>2. g[k - 1] \in Int
    BY <1>4, <2>1
  <2> QED  BY <1>2, <1>4, <2>1, <2>2
<1>6. Rec(g)
  <2>1. ASSUME NEW k \in 0..n, k # 0 PROVE g[k] = g[k - 1] + v(k)
    <3>1. k \in 1..n
      BY <1>1, <2>1
    <3> QED  BY <1>5, <3>1
  <2> QED  BY <1>4, <2>1
<1>7. Rec(upTo)
  <2> HIDE DEF Rec
  <2> QED  BY <1>6
<1> HIDE DEF upTo
<1>8. \A k \in 0..n : upTo[k] = IF k = 0 THEN bias ELSE upTo[k - 1] + v(k)
  BY <1>7
<1>9. upTo[0] = bias
  BY <1>1, <1>8
<1>10. ASSUME NEW k \in 1..n, upTo[k - 1] = g[k - 1] PROVE upTo[k] = F[k][g[k - 1]]
  <2>1. k \in 0..n /\ k # 0 /\ g[k - 1] \in Int
    BY <1>1, <1>5
  <2> QED  BY <1>2, <1>8, <1>10, <2>1
<1>11. upTo[n] = g[n]
  <2> DEFINE X == Int
             x0 == bias
  <2>1. Stepwise(X, n, x0, F, g) /\ upTo[0] = x0
    BY <1>3, <1>9
  <2> HIDE DEF X, x0, Rec
  <2> QED  BY <1>1, <1>10, <2>1, EndOfRecursion
<1>12. approx[i] = upTo[n]
  BY <1>3, <1>11
<1> QED  BY <1>12 DEF n, upTo, v

-----------------------------------------------------------------------------
(* A learning fold's approximant is the fit on its own columns.            *)

(* One tree's effect on an approximant over the columns of one fold.       *)
Refit(f, levels, a) ==
  LET leafOf == AssignLeafOverCtrColumns(foldColumns[f], levels)
  IN  Advanced(a, leafOf, LeafValues(leafOf, Derivatives(data.cls, a)))

(* The effects of the trees, one after the other.                          *)
Refits(f, ts) == [t \in 1..Len(ts) |-> [a \in [Objects -> Int] |-> Refit(f, ts[t].levels, a)]]

(* Each fold's approximant is where these end.                             *)
FoldFitsKept ==
  (stage # "folds" /\ ~config.shrinks) =>
     \A f \in FoldIds :
        Ends([Objects -> Int], Len(trees), [i \in Objects |-> bias], Refits(f, trees), foldApprox[f])

(* A step that keeps the columns keeps the effects.                        *)
LEMMA RefitStays ==
  ASSUME UNCHANGED inputs, foldColumns' = foldColumns
  PROVE  /\ \A f, levels, a : Refit(f, levels, a)' = Refit(f, levels, a)
         /\ \A f, ts : Refits(f, ts)' = Refits(f, ts)
<1>1. Objects' = Objects /\ N' = N /\ data' = data /\ data.cls' = data.cls
  BY InputsStay DEF inputs
<1>2. \A f, S : SumOver(f, S)' = SumOver(f, S)
  BY <1>1 DEF SumOver
<1>3. \A cls, a : Derivatives(cls, a)' = Derivatives(cls, a)
  BY <1>1 DEF Derivatives, Target
<1>4. \A leafOf, ders : LeafValues(leafOf, ders)' = LeafValues(leafOf, ders)
  BY <1>1, <1>2 DEF LeafValues
<1>5. \A a, leafOf, values : Advanced(a, leafOf, values)' = Advanced(a, leafOf, values)
  BY <1>1 DEF Advanced
<1>6. \A cols, levels : AssignLeafOverCtrColumns(cols, levels)' = AssignLeafOverCtrColumns(cols, levels)
  BY <1>1 DEF AssignLeafOverCtrColumns, LevelPasses
<1>7. \A f, levels, a : Refit(f, levels, a)' = Refit(f, levels, a)
  BY <1>1, <1>3, <1>4, <1>5, <1>6 DEF Refit
<1>8. \A f, ts : Refits(f, ts)' = Refits(f, ts)
  BY <1>1, <1>7 DEF Refits
<1> QED  BY <1>7, <1>8

(* A refit approximant is one.                                             *)
LEMMA RefitType ==
  ASSUME data \in Datasets, NEW f, NEW levels, NEW a \in [Objects -> Int]
  PROVE  Refit(f, levels, a) \in [Objects -> Int]
<1>1. data.cls \in [Objects -> {0, 1}]
  BY LearnSet
<1>2. Derivatives(data.cls, a) \in [Objects -> Int]
  BY <1>1, DerivativesType
<1> QED  BY <1>2, AdvancedByValues DEF Refit

(* A new tree advances every fold over its own columns, the taken one,     *)
(* whose leaves it reuses, included.                                       *)
LEMMA EstimateLeavesFits ==
  ASSUME Kept, BuffersTyped, FoldFitsKept, EstimateLeaves PROVE FoldFitsKept'
<1>1. /\ UNCHANGED inputs /\ UNCHANGED columns /\ stage = "leaves" /\ bias' = bias
      /\ data \in Datasets /\ config' = config
  BY DEF EstimateLeaves, Kept, Inputs, inputs
<1> SUFFICES ASSUME ~config.shrinks, NEW f \in FoldIds
             PROVE  Ends([Objects -> Int], Len(trees'), [i \in Objects |-> bias],
                         Refits(f, trees'), foldApprox'[f])
  <2>1. foldColumns' = foldColumns
    BY <1>1 DEF columns
  <2> QED  BY <1>1, <2>1, InputsStay, RefitStays DEF FoldFitsKept
<1> DEFINE X == [Objects -> Int]
           n == iter
           x0 == [i \in Objects |-> bias]
           tree == [levels |-> grown.levels, leafOf |-> LeafValueLeafOf,
                    values |-> LeafValues(LeafValueLeafOf, AveragingDerivatives)]
           F == Refits(f, trees)
           G == Refits(f, trees')
           y == foldApprox[f]
           z == Refit(f, grown.levels, y)
<1>2. n \in Nat /\ Len(trees) = n /\ Grain \in Nat /\ TreesOk(trees, n, Grain)
  BY GrainIsPower, UnitAssumption DEF Kept, Counts, TreesKept, TreesOk
<1>3. y \in X /\ z \in X
  <2>1. y \in X
    BY <1>1 DEF BuffersTyped
  <2> QED  BY <1>1, <2>1, RefitType
<1>4. Grows(trees, n, tree, trees', Grain) /\ tree.levels = grown.levels
  <2>1. AveragingDerivatives \in [Objects -> Int]
    BY <1>1, AveragingType DEF Kept, BuffersTyped
  <2>2. TreeOk(tree, Grain)
    BY <1>1, <2>1, EstimatedTree
  <2>3. trees' = Append(trees, tree) /\ tree.levels = grown.levels
    BY DEF EstimateLeaves
  <2> HIDE DEF tree
  <2> QED  BY <1>2, <2>2, <2>3, TreesAppend
<1> HIDE DEF tree
<1>5. Len(trees') = n + 1 /\ trees'[n + 1] = tree /\ \A k \in 1..n : trees'[k] = trees[k]
  BY <1>4 DEF Grows, TreesOk
<1>6. foldApprox'[f] = z
  <2>1. foldApprox'[f] = Advanced(foldApprox[f], FoldLeafOf(f),
                            LeafValues(FoldLeafOf(f), Derivatives(data.cls, foldApprox[f])))
    BY DEF EstimateLeaves
  <2>2. HasCtr
    BY DEF FoldIds
  <2>3. FoldLeafOf(f) = AssignLeafOverCtrColumns(foldColumns[f], grown.levels)
    BY <1>1, <2>2 DEF FoldLeafOf, Kept, GrownKept
  <2> QED  BY <2>1, <2>3 DEF Refit
<1>7. Ends(X, n, x0, F, y)
  BY <1>1, <1>2 DEF FoldFitsKept
<1>8. \A k \in 1..n : \A x \in X : F[k][x] = G[k][x]
  BY <1>2, <1>5 DEF Refits
<1>9. z = G[n + 1][y]
  <2>1. n + 1 \in 1..Len(trees')
    BY <1>2, <1>5
  <2> QED  BY <1>3, <1>4, <1>5, <2>1 DEF Refits
<1> HIDE DEF X, n, x0, F, G, y, z
<1>10. Ends(X, n + 1, x0, G, z)
  BY <1>2, <1>3, <1>7, <1>8, <1>9, StepsExtend
<1> QED  BY <1>5, <1>6, <1>10 DEF X, x0, G

(* No other step moves a fold where the model does not shrink.             *)
LEMMA OthersFits ==
  ASSUME Kept, FoldFitsKept, CreateFolds \/ StartIteration \/ GrowTree \/ BakeTables \/ UNCHANGED vars
  PROVE  FoldFitsKept'
<1>1. CASE CreateFolds
  <2> DEFINE x0 == [i \in Objects |-> bias]
             X == [Objects -> Int]
  <2>1. /\ UNCHANGED inputs /\ UNCHANGED <<bias, trees>> /\ stage = "folds"
        /\ foldApprox' = [f \in FoldIds |-> x0]
    BY <1>1 DEF CreateFolds
  <2>2. Len(trees) = 0 /\ bias \in Int
    BY <2>1 DEF Kept, Counts, TreesKept, TreesOk
  <2>3. x0 \in X
    BY <2>2
  <2>4. x0' = x0 /\ X' = X /\ FoldIds' = FoldIds
    BY <2>1, InputsStay
  <2> HIDE DEF x0, X
  <2>5. ASSUME NEW F PROVE Ends(X, 0, x0, F, x0)
    <3> DEFINE g == [k \in 0..0 |-> x0]
    <3>1. 1..0 = {} /\ g \in [0..0 -> X] /\ g[0] = x0
      BY <2>3
    <3> HIDE DEF g
    <3>2. Stepwise(X, 0, x0, F, g)
      BY <3>1 DEF Stepwise
    <3> QED  BY <3>1, <3>2 DEF Ends
  <2>6. \A f \in FoldIds : foldApprox'[f] = x0 /\ Ends(X, 0, x0, Refits(f, trees)', x0)
    BY <2>1, <2>5
  <2>7. \A f \in FoldIds' : Ends(X', Len(trees)', x0', Refits(f, trees)', foldApprox'[f])
    BY <2>1, <2>2, <2>4, <2>6
  <2> QED  BY <2>7 DEF FoldFitsKept, x0, X
<1>2. CASE StartIteration \/ GrowTree \/ BakeTables \/ UNCHANGED vars
  <2>1. /\ UNCHANGED inputs /\ UNCHANGED columns /\ UNCHANGED buffers
        /\ (stage' # "folds" => stage # "folds")
        /\ (~config.shrinks => UNCHANGED <<bias, trees>>)
    BY <1>2 DEF StartIteration, GrowTree, BakeTables, vars
  <2>2. foldColumns' = foldColumns /\ foldApprox' = foldApprox /\ config' = config
    BY <2>1 DEF columns, buffers, inputs
  <2> QED  BY <2>1, <2>2, InputsStay, RefitStays DEF FoldFitsKept
<1> QED  BY <1>1, <1>2

(* So each is what the property's own recursion over the trees gives.      *)
LEMMA FoldApproxFollows ==
  ASSUME Kept, BuffersTyped, FoldFitsKept PROVE FoldApproxIsItsOwnFit
<1> SUFFICES ASSUME stage = "iteration", ~config.shrinks, NEW f \in FoldIds
             PROVE  LET fit[t \in 0..Len(trees)] ==
                          IF t = 0 THEN [i \in Objects |-> bias]
                          ELSE LET leafOf == AssignLeafOverCtrColumns(foldColumns[f], trees[t].levels)
                               IN  Advanced(fit[t - 1], leafOf,
                                            LeafValues(leafOf, Derivatives(data.cls, fit[t - 1])))
                    IN  foldApprox[f] = fit[Len(trees)]
  BY DEF FoldApproxIsItsOwnFit
<1> DEFINE n == Len(trees)
           X == [Objects -> Int]
           x0 == [i \in Objects |-> bias]
           Rec(u) == u = [t \in 0..n |-> IF t = 0 THEN x0 ELSE Refit(f, trees[t].levels, u[t - 1])]
           fit == CHOOSE u : Rec(u)
           F == Refits(f, trees)
<1>1. n \in Nat
  BY UnitAssumption DEF Kept, Counts, TreesKept, TreesOk
<1>2. \A k \in 1..n : \A a \in X : F[k][a] = Refit(f, trees[k].levels, a)
  BY DEF Refits
<1>3. PICK g : Stepwise(X, n, x0, F, g) /\ foldApprox[f] = g[n]
  BY DEF FoldFitsKept, Ends
<1> HIDE DEF n, F, X, x0
<1>4. g \in [0..n -> X] /\ g[0] = x0 /\ \A k \in 1..n : g[k] = F[k][g[k - 1]]
  BY <1>3 DEF Stepwise
<1>5. ASSUME NEW k \in 1..n
      PROVE  k - 1 \in 0..n /\ k \in 0..n /\ g[k - 1] \in X /\ g[k] = Refit(f, trees[k].levels, g[k - 1])
  <2>1. k - 1 \in 0..n /\ k \in 0..n
    BY <1>1
  <2>2. g[k - 1] \in X
    BY <1>4, <2>1
  <2> QED  BY <1>2, <1>4, <2>1, <2>2
<1>6. Rec(g)
  <2>1. ASSUME NEW k \in 0..n, k # 0 PROVE g[k] = Refit(f, trees[k].levels, g[k - 1])
    <3>1. k \in 1..n
      BY <1>1, <2>1
    <3> QED  BY <1>5, <3>1
  <2> QED  BY <1>4, <2>1
<1>7. Rec(fit)
  <2> HIDE DEF Rec
  <2> QED  BY <1>6
<1> HIDE DEF fit
<1>8. \A k \in 0..n : fit[k] = IF k = 0 THEN x0 ELSE Refit(f, trees[k].levels, fit[k - 1])
  BY <1>7
<1>9. fit[0] = x0
  BY <1>1, <1>8
<1>10. ASSUME NEW k \in 1..n, fit[k - 1] = g[k - 1] PROVE fit[k] = F[k][g[k - 1]]
  <2>1. k \in 0..n /\ k # 0 /\ g[k - 1] \in X
    BY <1>1, <1>5
  <2> QED  BY <1>2, <1>8, <1>10, <2>1
<1>11. fit[n] = g[n]
  <2> HIDE DEF Rec
  <2> QED  BY <1>1, <1>3, <1>9, <1>10, EndOfRecursion
<1>12. foldApprox[f] = fit[n]
  BY <1>3, <1>11
<1> QED  BY <1>12 DEF n, fit, x0, Refit

(* An order visits all objects.                                            *)
LEMMA OrdersCover ==
  ASSUME NEW n \in Nat, NEW p \in Orders(n) PROVE {p[k] : k \in 1..n} = 1..n
<1>1. p \in [1..n -> 1..n] /\ \A x \in 1..n : \E k \in 1..n : p[k] = x
  BY DEF Orders
<1> QED  BY <1>1

-----------------------------------------------------------------------------
(* The theorems.                                                           *)

(* The parts of BuffersAreTheirFits, from those of the invariant.          *)
LEMMA TypesFollow == ASSUME Kept, BuffersTyped PROVE TypeOK
<1>1. stage \in {"folds", "iteration", "search", "leaves", "done"} /\ iter \in 0..Iterations
      /\ Len(trees) = iter
  BY DEF Kept, Counts, TreesKept, TreesOk
<1>2. ASSUME stage # "folds", NEW k \in DOMAIN stream PROVE stream[k] \in [Objects -> Objects]
  <2>1. Objects = 1..N
    BY LearnSet DEF Kept, Inputs
  <2>2. stream[k] \in Orders(N)
    BY <1>2 DEF Kept, ColumnsKept
  <2> QED  BY <2>1, <2>2 DEF Orders
<1> QED  BY <1>1, <1>2 DEF TypeOK, BuffersTyped

(* Every order visits all objects and the segments abut.                   *)
LEMMA FoldsCover == ASSUME Kept PROVE FoldsVisitEveryObject
<1> SUFFICES ASSUME stage = "iteration"
             PROVE  /\ \A f \in FoldIds : {FoldOrder(stream, f)[k] : k \in Objects} = Objects
                    /\ {AverageOrder(stream)[k] : k \in Objects} = Objects
                    /\ LET segs == Segments
                       IN  \A s \in DOMAIN segs :
                             /\ 0 < segs[s].body /\ segs[s].body < segs[s].tail
                             /\ segs[s].tail = IF s = Len(segs) THEN N ELSE segs[s + 1].body
  BY DEF FoldsVisitEveryObject
<1>1. N \in Nat /\ Objects = 1..N /\ Inputs
  BY LearnSet DEF Kept, Inputs
<1>2. stream \in [1..(LearningFolds + 1) -> Orders(N)]
  BY DEF Kept, ColumnsKept
<1>3. (\A f \in FoldIds : FoldOrder(stream, f) \in Orders(N)) /\ AverageOrder(stream) \in Orders(N)
  BY <1>1, <1>2, OrdersOfTheFit
<1>4. /\ \A f \in FoldIds : {FoldOrder(stream, f)[k] : k \in Objects} = Objects
      /\ {AverageOrder(stream)[k] : k \in Objects} = Objects
  <2>1. \A p \in Orders(N) : {p[k] : k \in Objects} = Objects
    BY <1>1, OrdersCover
  <2> QED  BY <1>3, <2>1
<1>5. \A s \in DOMAIN Segments :
        /\ 0 < Segments[s].body /\ Segments[s].body < Segments[s].tail
        /\ Segments[s].tail = IF s = Len(Segments) THEN N ELSE Segments[s + 1].body
  BY <1>1, SegmentsOfTheFit DEF Abutting
<1> QED  BY <1>4, <1>5

(* The inductive invariant.                                                *)
FitInvariant == Kept /\ BuffersTyped /\ SegmentsKept /\ ApproxKept /\ FoldFitsKept

(* It holds of every fit.                                                  *)
LEMMA FitInvariantHolds == Spec => []FitInvariant
<1>1. Init => FitInvariant
  <2>1. Init => Kept
    BY InitKept
  <2>2. Init => BuffersTyped /\ SegmentsKept /\ ApproxKept /\ FoldFitsKept
    BY DEF Init, BuffersTyped, SegmentsKept, ApproxKept, FoldFitsKept
  <2> QED  BY <2>1, <2>2 DEF FitInvariant
<1>2. FitInvariant /\ [Next]_vars => FitInvariant'
  <2> SUFFICES ASSUME FitInvariant, [Next]_vars PROVE FitInvariant'
    OBVIOUS
  <2>1. Kept /\ BuffersTyped /\ SegmentsKept /\ ApproxKept /\ FoldFitsKept
    BY DEF FitInvariant
  <2>2. CASE CreateFolds
    BY <2>1, <2>2, CreateFoldsKept, OthersTyped, OthersSegments, OthersApprox, OthersFits DEF FitInvariant
  <2>3. CASE StartIteration
    <3>1. Kept'
      BY <2>1, <2>3, StartIterationKept
    <3>2. ApproxKept'
      BY <2>1, <2>3, <3>1, StartIterationApprox DEF Kept
    <3> QED  BY <2>1, <2>3, <3>1, <3>2, OthersTyped, OthersSegments, OthersFits DEF FitInvariant
  <2>4. CASE GrowTree
    BY <2>1, <2>4, GrowTreeKept, OthersTyped, OthersSegments, OthersApprox, OthersFits DEF FitInvariant
  <2>5. CASE EstimateLeaves
    BY <2>1, <2>5, EstimateLeavesKept, EstimateLeavesTyped, EstimateLeavesSegments,
       EstimateLeavesApprox, EstimateLeavesFits DEF FitInvariant
  <2>6. CASE BakeTables
    BY <2>1, <2>6, BakeTablesKept, OthersTyped, OthersSegments, OthersApprox, OthersFits DEF FitInvariant
  <2>7. CASE UNCHANGED vars
    BY <2>1, <2>7, StutterKept, OthersTyped, OthersSegments, OthersApprox, OthersFits DEF FitInvariant
  <2> QED  BY <2>2, <2>3, <2>4, <2>5, <2>6, <2>7 DEF Next
<1> QED  BY <1>1, <1>2, PTL DEF Spec

(* Every fold visits every object, and every buffer the iterations advance *)
(* side by side is the approximant it stands for, whichever fold each tree *)
(* was searched on.                                                        *)
THEOREM FoldsKeepTheirBuffers == Spec => []BuffersAreTheirFits
<1>1. FitInvariant => BuffersAreTheirFits
  <2> SUFFICES ASSUME FitInvariant PROVE BuffersAreTheirFits
    OBVIOUS
  <2>1. TakenFoldLeavesAreItsOwn
    BY DEF TakenFoldLeavesAreItsOwn, FitInvariant, Kept, GrownKept
  <2> QED  BY <2>1, TypesFollow, FoldsCover, LearnApproxFollows, FoldApproxFollows
           DEF FitInvariant, BuffersAreTheirFits
<1> QED  BY <1>1, FitInvariantHolds, PTL

(* The target statistics a row is trained on know neither its own class    *)
(* nor a later one's, and its approximant no later one's.                  *)
THEOREM FutureIsUnread == Spec => []NoRowLearnsFromItsFuture
<1>1. FitInvariant => NoRowLearnsFromItsFuture
  BY FutureUnread DEF FitInvariant
<1> QED  BY <1>1, FitInvariantHolds, PTL

-----------------------------------------------------------------------------
(* The saved tables decide as training would.                              *)

(* The persisted border lies 2^-20 below the next bin.  That is below      *)
(* every value of the next bin as long as the values are fractions of at   *)
(* most 2^20 parts: the learn set is not larger than the borders are fine. *)
FineBorders ==
  \A d \in Datasets, c \in Configs : \A p \in PriorsOf(c.settings) :
     (Len(d.rows) + Len(d.extra) + 1) * NormHalves(p) <= BorderUnit

(* A fraction of at most 2^20 parts is above the persisted border exactly  *)
(* when its integer part is above the bin.                                 *)
LEMMA BorderSeparates ==
  ASSUME NEW num \in Int, NEW den \in Nat \ {0}, den <= BorderUnit, NEW bin \in Nat
  PROVE  num * BorderUnit > ((bin + 1) * BorderUnit - 1) * den <=> num \div den > bin
<1> DEFINE next == (bin + 1) * den
           q == num \div den
<1>1. next \in Int /\ q \in Int
  OBVIOUS
<1>2. ((bin + 1) * BorderUnit - 1) * den = BorderUnit * next - den
  BY DEF BorderUnit
<1>3. q > bin <=> num >= next
  <2>1. den * q <= num /\ num < den * (q + 1)
    OBVIOUS
  <2>2. ASSUME q > bin PROVE num >= next
    <3>1. den * (bin + 1) <= den * q
      BY <1>1, <2>2
    <3> QED  BY <2>1, <3>1
  <2>3. ASSUME ~(q > bin) PROVE num < next
    <3>1. den * (q + 1) <= den * (bin + 1)
      BY <1>1, <2>3
    <3> QED  BY <2>1, <3>1
  <2> QED  BY <1>1, <2>2, <2>3
<1> HIDE DEF next, q
<1>4. num * BorderUnit > BorderUnit * next - den <=> num >= next
  BY <1>1 DEF BorderUnit
<1> QED  BY <1>2, <1>3, <1>4 DEF q

(* A looked-up value reads the history training would have read after the  *)
(* whole learn set, and an unknown value an empty one.                     *)
LEMMA LookedUpPair ==
  ASSUME Inputs, NEW c \in Offered(config.settings), NEW key
  PROVE  NumeratorDenominator(BakeCtrTable(CtrData, data.cls, c.projection, c.type), key, c.border)
           = OnlinePair(CtrData, data.cls, c, Objects, key)
<1> DEFINE rows == CtrData.rows
           keys == IF c.type = Counter THEN KeysOf(CtrData, c.projection)
                   ELSE {Key(rows[i], c.projection) : i \in DOMAIN rows}
           same(k) == RowsWith(rows, Objects, c.projection, k)
           zeros(k) == Counted(Buckets, 0, data.cls, same(k))
           ones(k) == Counted(Buckets, 1, data.cls, same(k))
           counts == [k \in keys |-> IF c.type = Counter THEN <<Occurrences(CtrData, c.projection, k)>>
                                     ELSE <<zeros(k), ones(k)>>]
           table == BakeCtrTable(CtrData, data.cls, c.projection, c.type)
<1>1. N \in Nat \ {0} /\ Objects = 1..N /\ data.cls \in [Objects -> {0, 1}] /\ DOMAIN rows = Objects
  BY LearnSet DEF Inputs, CtrData, Objects
<1>2. /\ table.type = c.type /\ table.counts = counts
      /\ table.denominator = IF c.type = Counter THEN CounterDenominator(CtrData, c.projection) ELSE 0
  BY <1>1 DEF BakeCtrTable
<1>3. c.type \in CtrTypes /\ c.border \in 0..(TargetBorderCount(c.type) - 1)
  BY DEF Offered
<1>4. DOMAIN counts = keys /\ (key \in keys => counts[key] =
         IF c.type = Counter THEN <<Occurrences(CtrData, c.projection, key)>> ELSE <<zeros(key), ones(key)>>)
  OBVIOUS
<1> HIDE DEF table, counts
<1>5. Cardinality({}) = 0
  BY FS_EmptySet
<1>6. CASE c.type = Counter
  <2>1. key \notin keys => Occurrences(CtrData, c.projection, key) = 0
    <3> SUFFICES ASSUME key \notin keys PROVE Occurrences(CtrData, c.projection, key) = 0
      OBVIOUS
    <3>1. /\ RowsWith(CtrData.rows, DOMAIN CtrData.rows, c.projection, key) = {}
          /\ RowsWith(CtrData.extra, DOMAIN CtrData.extra, c.projection, key) = {}
      BY <1>6 DEF KeysOf, RowsWith
    <3> QED  BY <1>5, <3>1 DEF Occurrences
  <2> DEFINE occ == Occurrences(CtrData, c.projection, key)
  <2>2. key \in keys => counts[key][1] = occ
    BY <1>4, <1>6
  <2> HIDE DEF keys, occ
  <2>3. NumeratorDenominator(table, key, c.border)
          = [num |-> occ, total |-> CounterDenominator(CtrData, c.projection)]
    BY <1>2, <1>4, <1>6, <2>1, <2>2 DEF NumeratorDenominator, occ
  <2>4. OnlinePair(CtrData, data.cls, c, Objects, key)
          = [num |-> occ, total |-> CounterDenominator(CtrData, c.projection)]
    BY <1>6 DEF OnlinePair, occ
  <2> QED  BY <2>3, <2>4 DEF table
<1>7. CASE c.type # Counter
  <2> DEFINE S == same(key)
             num == Counted(c.type, c.border, data.cls, S)
             Z == {i \in S : data.cls[i] = 0}
             O == {i \in S : data.cls[i] = 1}
  <2>1. c.type \in {Buckets, Borders, Mean}
    BY <1>3, <1>7 DEF CtrTypes
  <2>2. OnlinePair(CtrData, data.cls, c, Objects, key) = [num |-> num, total |-> Cardinality(S)]
    BY <1>7 DEF OnlinePair
  <2>3. S \subseteq Objects
    BY DEF RowsWith
  <2>4. zeros(key) = Cardinality(Z) /\ ones(key) = Cardinality(O)
    BY DEF Counted, Buckets, Borders, Mean
  <2>5. key \notin keys => S = {}
    BY <1>1, <1>7 DEF RowsWith
  <2> HIDE DEF S
  <2>16. \A i \in S : data.cls[i] \in {0, 1}
    BY <1>1, <2>3
  <2>6. S = Z \cup O /\ Z \cap O = {}
    BY <2>16
  <2>7. {i \in S : data.cls[i] > 0} = O
    <3>1. \A i \in S : data.cls[i] > 0 <=> data.cls[i] = 1
      BY <2>16
    <3> QED  BY <3>1
  <2>8. Cardinality(S) = Cardinality(Z) + Cardinality(O)
    <3>1. IsFiniteSet(1..N)
      BY <1>1, FS_Interval
    <3>2. Z \subseteq 1..N /\ O \subseteq 1..N
      BY <1>1, <2>3
    <3> HIDE DEF Z, O
    <3>3. IsFiniteSet(Z) /\ IsFiniteSet(O)
      BY <3>1, <3>2, FS_Subset
    <3>4. Cardinality(Z \cup O) = Cardinality(Z) + Cardinality(O) - Cardinality(Z \cap O)
      BY <3>3, FS_Union
    <3>5. Cardinality(Z) \in Nat /\ Cardinality(O) \in Nat
      BY <3>3, FS_CardinalityType
    <3>6. Cardinality(Z \cap O) = 0
      BY <1>5, <2>6
    <3>7. Cardinality(S) = Cardinality(Z \cup O)
      BY <2>6
    <3> QED  BY <3>4, <3>5, <3>6, <3>7
  <2>9. num = IF c.type = Buckets THEN Cardinality({i \in S : data.cls[i] = c.border}) ELSE Cardinality(O)
    <3>1. CASE c.type = Buckets
      BY <3>1 DEF Counted, Buckets, Borders, Mean
    <3>2. CASE c.type = Borders
      <4>1. c.border = 0
        BY <1>3, <3>2 DEF TargetBorderCount, Borders, Buckets
      <4>2. num = Cardinality({i \in S : data.cls[i] > 0})
        BY <3>2, <4>1 DEF Counted, Borders, Buckets, Mean
      <4> QED  BY <2>7, <3>2, <4>2 DEF Borders, Buckets
    <3>3. CASE c.type = Mean
      BY <3>3 DEF Counted, Mean, Borders, Buckets
    <3> QED  BY <2>1, <3>1, <3>2, <3>3
  <2>10. c.type = Buckets => c.border \in {0, 1}
    BY <1>3 DEF TargetBorderCount
  <2>11. c.border = 0 => {i \in S : data.cls[i] = c.border} = Z
    OBVIOUS
  <2>12. c.border = 1 => {i \in S : data.cls[i] = c.border} = O
    OBVIOUS
  <2>13. num = IF c.type = Buckets /\ c.border = 0 THEN Cardinality(Z) ELSE Cardinality(O)
    <3> HIDE DEF num, Z, O
    <3> QED  BY <2>9, <2>10, <2>11, <2>12
  <2>14. CASE key \notin keys
    <3>1. NumeratorDenominator(table, key, c.border) = [num |-> 0, total |-> 0]
      BY <1>2, <1>4, <1>7, <2>14 DEF NumeratorDenominator
    <3>2. Z = {} /\ O = {} /\ Cardinality(S) = 0
      BY <1>5, <2>5, <2>14
    <3>3. num = 0
      BY <1>5, <2>13, <3>2
    <3> QED  BY <2>2, <3>1, <3>2, <3>3 DEF table
  <2>15. CASE key \in keys
    <3> DEFINE z == Cardinality(Z)
               o == Cardinality(O)
    <3>1. counts[key] = <<z, o>>
      BY <1>4, <1>7, <2>4, <2>15
    <3> HIDE DEF z, o, keys
    <3>2. NumeratorDenominator(table, key, c.border)
            = [num |-> IF c.type = Buckets THEN counts[key][c.border + 1] ELSE counts[key][2],
               total |-> counts[key][1] + counts[key][2]]
      BY <1>2, <1>4, <1>7, <2>15 DEF NumeratorDenominator
    <3>3. counts[key][1] = z /\ counts[key][2] = o
      BY <3>1
    <3>4. (IF c.type = Buckets THEN counts[key][c.border + 1] ELSE counts[key][2])
            = IF c.type = Buckets /\ c.border = 0 THEN z ELSE o
      BY <2>10, <3>3
    <3>5. num = (IF c.type = Buckets /\ c.border = 0 THEN z ELSE o) /\ Cardinality(S) = z + o
      BY <2>8, <2>13 DEF z, o
    <3> HIDE DEF num
    <3> QED  BY <2>2, <3>2, <3>3, <3>4, <3>5 DEF table
  <2> QED  BY <2>14, <2>15
<1> QED  BY <1>6, <1>7

(* A pair read with a prior passes the saved border of a bin exactly when  *)
(* its own bin is a later one.                                             *)
LEMMA DecidesAlike ==
  ASSUME Inputs, FineBorders, NEW c \in Offered(config.settings), NEW key,
         NEW bin \in 0..(BorderCount - 1),
         NEW pair, pair = OnlinePair(CtrData, data.cls, c, Objects, key)
  PROVE  Above(Scaled(pair, c.prior), CtrBinBorderToValueSpace(bin)) <=> OnlineBin(pair, c.prior) > bin
<1> DEFINE num == Scaled(pair, c.prior).num
           den == Scaled(pair, c.prior).den
<1>1. c.type \in CtrTypes /\ c.prior \in Int /\ c.prior \in PriorsOf(config.settings)
  BY DEF Offered, PriorsOf
<1>2. data \in Datasets /\ config \in Configs /\ N \in Nat \ {0} /\ Len(data.extra) \in Nat
  BY LearnSet DEF Inputs, IsList
<1>3. pair.num \in 0..RowCount /\ pair.total \in 0..RowCount
  BY <1>1, <1>2, PairType
<1>4. RowCount \in Nat /\ pair.num \in Nat /\ pair.total \in Nat /\ pair.total <= RowCount
  BY <1>2, <1>3 DEF RowCount
<1>5. /\ num \in Int /\ den \in Nat \ {0}
      /\ OnlineBin(pair, c.prior) = Larger(0, Smaller(BorderCount, num \div den))
      /\ num \div den \in Int
  BY <1>1, <1>4, BinType
<1>6. den <= BorderUnit
  <2> DEFINE norm == NormHalves(c.prior)
  <2>1. norm \in Nat
    BY <1>1 DEF NormHalves, Larger, Smaller
  <2>2. (RowCount + 1) * norm <= BorderUnit
    BY <1>1, <1>2 DEF FineBorders, RowCount, N
  <2>3. den = (pair.total + 1) * norm
    BY DEF Scaled
  <2> HIDE DEF den, norm
  <2>4. \A a, b, d \in Nat : a <= b => (a + 1) * d <= (b + 1) * d
    OBVIOUS
  <2>5. (pair.total + 1) * norm <= (RowCount + 1) * norm
    BY <1>4, <2>1, <2>4
  <2>6. (pair.total + 1) * norm \in Int /\ (RowCount + 1) * norm \in Int /\ BorderUnit \in Int
    BY <1>4, <2>1 DEF BorderUnit
  <2> QED  BY <2>2, <2>3, <2>5, <2>6
<1>7. Above(Scaled(pair, c.prior), CtrBinBorderToValueSpace(bin))
        <=> num * BorderUnit > ((bin + 1) * BorderUnit - 1) * den
  BY DEF Above, CtrBinBorderToValueSpace
<1> HIDE DEF num, den
<1>8. bin \in Nat /\ bin < BorderCount /\ BorderCount \in Nat
  BY BoundsAssumption
<1>9. num * BorderUnit > ((bin + 1) * BorderUnit - 1) * den <=> num \div den > bin
  BY <1>5, <1>6, <1>8, BorderSeparates
<1> DEFINE q == num \div den
<1>10. q \in Int /\ OnlineBin(pair, c.prior) = Larger(0, Smaller(BorderCount, q))
  BY <1>5
<1> HIDE DEF q
<1>11. Larger(0, Smaller(BorderCount, q)) > bin <=> q > bin
  BY <1>8, <1>10 DEF Larger, Smaller
<1> QED  BY <1>7, <1>9, <1>10, <1>11 DEF q

(* The saved tables are those of the CTR levels of the model.              *)
TablesKept ==
  stage = "done" =>
    tables = {BakeCtrTable(CtrData, data.cls, v.candidate.projection, v.candidate.type) :
                v \in CtrLevelsOf(trees)}

(* Only the baking writes them, from the model it leaves alone.            *)
LEMMA TablesStep == ASSUME Kept, TablesKept, [Next]_vars PROVE TablesKept'
<1>1. CASE BakeTables
  <2>1. /\ tables' = {BakeCtrTable(CtrData, data.cls, v.candidate.projection, v.candidate.type) :
                        v \in CtrLevelsOf(trees)}
        /\ trees' = trees /\ UNCHANGED inputs
    BY <1>1 DEF BakeTables
  <2>2. data' = data /\ CtrData' = CtrData
    BY <2>1, InputsStay DEF inputs
  <2> QED  BY <2>1, <2>2 DEF TablesKept, CtrLevelsOf
<1>2. CASE UNCHANGED vars
  <2>1. UNCHANGED inputs /\ UNCHANGED <<stage, trees, tables>>
    BY <1>2 DEF vars
  <2>2. data' = data /\ CtrData' = CtrData
    BY <2>1, InputsStay DEF inputs
  <2> QED  BY <2>1, <2>2 DEF TablesKept, CtrLevelsOf
<1>3. CASE CreateFolds \/ StartIteration \/ GrowTree \/ EstimateLeaves
  BY <1>3 DEF TablesKept, CreateFolds, StartIteration, GrowTree, EstimateLeaves
<1> QED  BY <1>1, <1>2, <1>3 DEF Next

(* A level finds its own table, the table has the pair training would      *)
(* count, and the border separates the bins.                               *)
LEMMA TablesDecide ==
  ASSUME Kept, TablesKept, FineBorders PROVE AppliedCtrContinuesTraining
<1> SUFFICES ASSUME stage = "done", NEW v \in CtrLevelsOf(trees), NEW key
             PROVE  PassesCtrSplit(v, key) <=>
                      OnlineBin(OnlinePair(CtrData, data.cls, v.candidate, Objects, key),
                                v.candidate.prior) > v.bin
  BY DEF AppliedCtrContinuesTraining
<1> DEFINE c == v.candidate
           Baked(w) == BakeCtrTable(CtrData, data.cls, w.candidate.projection, w.candidate.type)
           table == Baked(v)
           pair == OnlinePair(CtrData, data.cls, c, Objects, key)
<1>1. Inputs
  BY DEF Kept
<1>2. c \in Offered(config.settings) /\ v.bin \in 0..(BorderCount - 1)
  <2>1. PICK t \in DOMAIN trees : v \in {trees[t].levels[l] : l \in {m \in DOMAIN trees[t].levels :
                                                   trees[t].levels[m].kind = "ctr"}}
    BY DEF CtrLevelsOf
  <2>2. PICK l \in DOMAIN trees[t].levels : v = trees[t].levels[l] /\ v.kind = "ctr"
    BY <2>1
  <2>3. DOMAIN trees = 1..iter
    BY DEF Kept, TreesKept, TreesOk
  <2>4. LevelOk(v)
    BY <2>1, <2>2, <2>3 DEF Kept, TreesKept, TreesOk, TreeOk, LevelsOk
  <2> QED  BY <2>2, <2>4 DEF LevelOk
<1>3. TableFor(v) = table
  <2> DEFINE Fits(t) == t.projection = c.projection /\ t.type = c.type
  <2>1. \A w : Baked(w).projection = w.candidate.projection /\ Baked(w).type = w.candidate.type
    BY DEF BakeCtrTable
  <2>2. tables = {Baked(w) : w \in CtrLevelsOf(trees)}
    BY DEF TablesKept
  <2>3. table \in tables /\ Fits(table)
    <3>1. table \in {Baked(w) : w \in CtrLevelsOf(trees)}
      OBVIOUS
    <3>2. Fits(Baked(v))
      BY <2>1
    <3> QED  BY <2>2, <3>1, <3>2
  <2>4. ASSUME NEW t \in tables, Fits(t) PROVE t = table
    <3>1. PICK w \in CtrLevelsOf(trees) : t = Baked(w)
      BY <2>2
    <3>2. w.candidate.projection = c.projection /\ w.candidate.type = c.type
      BY <2>1, <2>4, <3>1
    <3> QED  BY <3>1, <3>2
  <2>5. TableFor(v) = CHOOSE t \in tables : Fits(t)
    BY DEF TableFor
  <2> HIDE DEF Fits, table
  <2> QED  BY <2>3, <2>4, <2>5
<1>4. NumeratorDenominator(table, key, c.border) = pair
  BY <1>1, <1>2, LookedUpPair
<1>5. Above(Scaled(pair, c.prior), CtrBinBorderToValueSpace(v.bin)) <=> OnlineBin(pair, c.prior) > v.bin
  <2> DEFINE bin == v.bin
  <2>1. bin \in 0..(BorderCount - 1) /\ c \in Offered(config.settings)
    BY <1>2
  <2> HIDE DEF bin, c
  <2>2. Above(Scaled(pair, c.prior), CtrBinBorderToValueSpace(bin)) <=> OnlineBin(pair, c.prior) > bin
    BY <1>1, <2>1, DecidesAlike
  <2> QED  BY <2>2 DEF bin
<1>6. PassesCtrSplit(v, key) <=> Above(Scaled(pair, c.prior), CtrBinBorderToValueSpace(v.bin))
  <2>1. PassesCtrSplit(v, key) <=> Above(Scaled(NumeratorDenominator(TableFor(v), key, c.border), c.prior),
                                         CtrBinBorderToValueSpace(v.bin))
    BY DEF PassesCtrSplit
  <2> HIDE DEF pair, table
  <2> QED  BY <1>3, <1>4, <2>1
<1> QED  BY <1>5, <1>6

(* With borders finer than the learn set is large, a saved table decides   *)
(* each split of the model as training would decide it for a row after the *)
(* whole learn set, whether the value is known or not.                     *)
THEOREM TablesContinueTraining ==
  ASSUME FineBorders PROVE Spec => []AppliedCtrContinuesTraining
<1>1. Init => TablesKept
  BY DEF Init, TablesKept
<1>2. FitInvariant /\ TablesKept /\ [Next]_vars => TablesKept'
  BY TablesStep DEF FitInvariant
<1>3. FitInvariant /\ TablesKept => AppliedCtrContinuesTraining
  BY TablesDecide DEF FitInvariant
<1> QED  BY <1>1, <1>2, <1>3, FitInvariantHolds, PTL DEF Spec

=============================================================================
