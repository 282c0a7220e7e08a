------------------------------ MODULE Induction ------------------------------
(***************************************************************************)
(* Induction over the naturals for sets instead of predicates, and the     *)
(* recursive functions of the models: that they exist, so that their       *)
(* defining equation may be used.                                          *)
(***************************************************************************)
EXTENDS Integers, WellFoundedInduction, TLAPS

(* A set of numbers has a least one.                                       *)
LEMMA LeastElement ==
  ASSUME NEW S \in SUBSET Nat, S # {}
  PROVE  \E x \in S : \A y \in S : x <= y
<1> DEFINE R == OpToRel(<, Nat)
<1>1. IsWellFoundedOn(R, Nat)
  BY NatLessThanWellFounded
<1>2. \A x, y \in Nat : <<y, x>> \in R <=> y < x
  BY DEF OpToRel
<1> HIDE DEF R
<1>3. PICK x \in S : \A y \in S : <<y, x>> \notin R
  BY <1>1, WFMin
<1>4. \A y \in S : ~(y < x)
  BY <1>2, <1>3
<1> QED  BY <1>4

(* What holds of 0 and passes from each number to the next holds of all.   *)
LEMMA SetInduction ==
  ASSUME NEW S, 0 \in S, \A n \in Nat : n \in S => n + 1 \in S
  PROVE  Nat \subseteq S
<1> SUFFICES ASSUME Nat \ S # {} PROVE FALSE
  OBVIOUS
<1>1. PICK x \in Nat \ S : \A y \in Nat \ S : x <= y
  BY LeastElement
<1>2. x - 1 \in Nat /\ x - 1 \in S
  BY <1>1
<1> QED  BY <1>1, <1>2

(* A sequence of values in which each follows from the one before.         *)
Orbit(X, x0, F, g) ==
  g \in [Nat -> X] /\ g[0] = x0 /\ \A n \in Nat : g[n + 1] = F[g[n]]

(* Every start and step have a sequence.                                   *)
LEMMA PrimitiveRecursion ==
  ASSUME NEW X, NEW x0 \in X, NEW F, F \in [X -> X]
  PROVE  \E g : Orbit(X, x0, F, g)
<1> DEFINE Begins(h, n) == /\ h \in [0 .. n -> X] /\ h[0] = x0
                           /\ \A i \in 0 .. n - 1 : h[i + 1] = F[h[i]]
           Reached == {n \in Nat : \E h \in [0 .. n -> X] : Begins(h, n)}
<1>1. 0 \in Reached
  <2>1. Begins([i \in 0 .. 0 |-> x0], 0)
    OBVIOUS
  <2> QED  BY <2>1
<1>2. ASSUME NEW n \in Nat, n \in Reached PROVE n + 1 \in Reached
  <2>1. PICK h \in [0 .. n -> X] : Begins(h, n)
    BY <1>2
  <2> DEFINE k == [i \in 0 .. n + 1 |-> IF i = n + 1 THEN F[h[n]] ELSE h[i]]
  <2>2. k \in [0 .. n + 1 -> X] /\ k[0] = x0
    BY <2>1
  <2>3. \A i \in 0 .. (n + 1) - 1 : k[i + 1] = F[k[i]]
    BY <2>1
  <2>4. Begins(k, n + 1)
    <3> HIDE DEF k
    <3> QED  BY <2>2, <2>3
  <2> QED  BY <2>2, <2>4
<1>3. Nat \subseteq Reached
  <2> HIDE DEF Reached
  <2> QED  BY <1>1, <1>2, SetInduction
<1>4. ASSUME NEW n \in Nat, NEW m \in Nat, n <= m,
             NEW h \in [0 .. n -> X], Begins(h, n), NEW k \in [0 .. m -> X], Begins(k, m)
      PROVE  \A i \in 0 .. n : h[i] = k[i]
  <2> DEFINE Same == {i \in Nat : i <= n => h[i] = k[i]}
  <2>1. 0 \in Same
    BY <1>4
  <2>2. ASSUME NEW i \in Nat, i \in Same PROVE i + 1 \in Same
    <3> SUFFICES ASSUME i + 1 <= n PROVE h[i + 1] = k[i + 1]
      OBVIOUS
    <3>1. i \in 0 .. n - 1 /\ i \in 0 .. m - 1 /\ h[i] = k[i]
      BY <1>4, <2>2
    <3> QED  BY <1>4, <3>1
  <2>3. Nat \subseteq Same
    <3> HIDE DEF Same
    <3> QED  BY <2>1, <2>2, SetInduction
  <2> QED  BY <2>3
<1> DEFINE piece == [n \in Nat |-> CHOOSE h \in [0 .. n -> X] : Begins(h, n)]
           g == [n \in Nat |-> piece[n][n]]
<1>5. ASSUME NEW n \in Nat PROVE piece[n] \in [0 .. n -> X] /\ Begins(piece[n], n)
  BY <1>3
<1>6. g \in [Nat -> X]
  <2> HIDE DEF piece
  <2> QED  BY <1>5
<1>7. g[0] = x0
  <2> HIDE DEF piece
  <2> QED  BY <1>5
<1>8. ASSUME NEW n \in Nat PROVE g[n + 1] = F[g[n]]
  <2> HIDE DEF piece
  <2>1. piece[n + 1][n] = piece[n][n]
    <3>1. n \in 0 .. n /\ n <= n + 1
      OBVIOUS
    <3> HIDE DEF Begins
    <3> QED  BY <1>4, <1>5, <3>1
  <2>2. piece[n + 1][n + 1] = F[piece[n + 1][n]]
    BY <1>5
  <2> QED  BY <2>1, <2>2
<1> QED  BY <1>6, <1>7, <1>8 DEF Orbit

(* The same as one equation, the form of a recursive definition.           *)
Recursion(X, x0, F, g) ==
  g \in [Nat -> X] /\ g = [k \in Nat |-> IF k = 0 THEN x0 ELSE F[g[k - 1]]]

(* Every recursive equation of this form has a solution.                   *)
LEMMA RecursionExists ==
  ASSUME NEW X, NEW x0 \in X, NEW F, F \in [X -> X]
  PROVE  \E g : Recursion(X, x0, F, g)
<1>1. PICK g : g \in [Nat -> X] /\ g[0] = x0 /\ \A n \in Nat : g[n + 1] = F[g[n]]
  BY PrimitiveRecursion DEF Orbit
<1>2. ASSUME NEW k \in Nat PROVE g[k] = IF k = 0 THEN x0 ELSE F[g[k - 1]]
  <2>1. CASE k = 0
    BY <1>1, <2>1
  <2>2. CASE k # 0
    <3>1. k - 1 \in Nat /\ (k - 1) + 1 = k
      BY <2>2
    <3> QED  BY <1>1, <2>2, <3>1
  <2> QED  BY <2>1, <2>2
<1>3. g = [k \in Nat |-> IF k = 0 THEN x0 ELSE F[g[k - 1]]]
  BY <1>1, <1>2
<1> QED  BY <1>1, <1>3 DEF Recursion

(* At most k steps from p, fewer if one of them is the last.               *)
Walk(S, step, stop, f) ==
  f = [k \in Nat |-> [p \in S |->
         IF k = 0 THEN p ELSE IF stop[p] THEN step[p] ELSE f[k - 1][step[p]]]]

(* Every step and stop have a walk.                                        *)
LEMMA WalkExists ==
  ASSUME NEW S, NEW step \in [S -> S], NEW stop \in [S -> BOOLEAN]
  PROVE  \E f : Walk(S, step, stop, f)
<1> DEFINE X == [S -> S]
           x0 == [p \in S |-> p]
           Longer(h) == [p \in S |-> IF stop[p] THEN step[p] ELSE h[step[p]]]
           F == [h \in X |-> Longer(h)]
<1>1. x0 \in X /\ F \in [X -> X]
  OBVIOUS
<1>2. PICK g : g \in [Nat -> X] /\ g = [k \in Nat |-> IF k = 0 THEN x0 ELSE F[g[k - 1]]]
  <2> HIDE DEF X, x0, F
  <2>1. \E g : Recursion(X, x0, F, g)
    BY <1>1, RecursionExists
  <2> QED  BY <2>1 DEF Recursion
<1>3. ASSUME NEW k \in Nat
      PROVE  g[k] = [p \in S |-> IF k = 0 THEN p
                                 ELSE IF stop[p] THEN step[p] ELSE g[k - 1][step[p]]]
  <2>1. CASE k = 0
    <3>1. g[k] = [p \in S |-> p]
      BY <1>2, <2>1
    <3> QED  BY <2>1, <3>1
  <2>2. CASE k # 0
    <3>1. k - 1 \in Nat
      BY <2>2
    <3>2. g[k - 1] \in X
      BY <1>2, <3>1
    <3>3. g[k] = F[g[k - 1]]
      BY <1>2, <2>2
    <3>4. g[k] = Longer(g[k - 1])
      BY <3>2, <3>3
    <3> QED  BY <2>2, <3>4
  <2> QED  BY <2>1, <2>2
<1>4. g = [k \in Nat |-> [p \in S |-> IF k = 0 THEN p
                                      ELSE IF stop[p] THEN step[p] ELSE g[k - 1][step[p]]]]
  BY <1>2, <1>3
<1> QED  BY <1>4 DEF Walk

(* A walk of one step more is a step and the rest of the walk.             *)
LEMMA WalkSteps ==
  ASSUME NEW S, NEW step \in [S -> S], NEW stop \in [S -> BOOLEAN], NEW f, Walk(S, step, stop, f)
  PROVE  /\ \A p \in S : f[0][p] = p
         /\ \A k \in Nat : \A p \in S :
              f[k + 1][p] = IF stop[p] THEN step[p] ELSE f[k][step[p]]
         /\ \A k \in Nat : \A p \in S : f[k][p] \in S
<1>1. ASSUME NEW k \in Nat, NEW p \in S
      PROVE  f[k][p] = IF k = 0 THEN p ELSE IF stop[p] THEN step[p] ELSE f[k - 1][step[p]]
  BY DEF Walk
<1>2. \A p \in S : f[0][p] = p
  BY <1>1
<1>3. ASSUME NEW k \in Nat, NEW p \in S
      PROVE  f[k + 1][p] = IF stop[p] THEN step[p] ELSE f[k][step[p]]
  <2>1. k + 1 \in Nat /\ k + 1 # 0 /\ (k + 1) - 1 = k
    OBVIOUS
  <2> QED  BY <1>1, <2>1
<1> DEFINE In == {k \in Nat : \A p \in S : f[k][p] \in S}
<1>4. 0 \in In
  BY <1>2
<1>5. ASSUME NEW k \in Nat, k \in In PROVE k + 1 \in In
  <2>1. ASSUME NEW p \in S PROVE f[k + 1][p] \in S
    <3>1. step[p] \in S
      OBVIOUS
    <3>2. f[k][step[p]] \in S
      BY <1>5, <3>1
    <3> QED  BY <1>3, <3>1, <3>2
  <2> QED  BY <2>1
<1>6. Nat \subseteq In
  <2> HIDE DEF In
  <2> QED  BY <1>4, <1>5, SetInduction
<1> QED  BY <1>2, <1>3, <1>6

(* The same up to a bound.                                                 *)
LEMMA BoundedInduction ==
  ASSUME NEW n \in Nat, NEW S, 0 \in S, \A k \in 0 .. n - 1 : k \in S => k + 1 \in S
  PROVE  0 .. n \subseteq S
<1> DEFINE T == {k \in Nat : k <= n => k \in S}
<1>1. 0 \in T
  OBVIOUS
<1>2. ASSUME NEW k \in Nat, k \in T PROVE k + 1 \in T
  <2> SUFFICES ASSUME k + 1 <= n PROVE k + 1 \in S
    OBVIOUS
  <2>1. k \in 0 .. n - 1 /\ k \in S
    BY <1>2
  <2> QED  BY <2>1
<1>3. Nat \subseteq T
  <2> HIDE DEF T
  <2> QED  BY <1>1, <1>2, SetInduction
<1> QED  BY <1>3

(* Of the numbers of a list one is the greatest.                           *)
LEMMA GreatestOfList ==
  ASSUME NEW n \in Nat \ {0}, NEW g \in [1 .. n -> Int]
  PROVE  \E x \in {g[i] : i \in 1 .. n} : \A y \in {g[i] : i \in 1 .. n} : x >= y
<1> DEFINE Under(k, b) == \A i \in 1 .. n : i <= k => g[i] <= b
           Bounded == {k \in Nat : \E b \in Int : Under(k, b)}
<1>1. 0 \in Bounded
  <2>1. Under(0, 0)
    OBVIOUS
  <2> QED  BY <2>1
<1>2. ASSUME NEW k \in Nat, k \in Bounded PROVE k + 1 \in Bounded
  <2>1. PICK b \in Int : Under(k, b)
    BY <1>2
  <2> DEFINE c == IF k + 1 \in 1 .. n /\ g[k + 1] > b THEN g[k + 1] ELSE b
  <2>2. c \in Int /\ Under(k + 1, c)
    BY <2>1
  <2> HIDE DEF Under, c
  <2> QED  BY <2>2
<1>3. n \in Bounded
  <2> HIDE DEF Bounded
  <2> QED  BY <1>1, <1>2, SetInduction
<1>4. PICK b \in Int : \A i \in 1 .. n : g[i] <= b
  BY <1>3
<1> DEFINE S == {g[i] : i \in 1 .. n}
           D == {d \in Nat : \E x \in S : d = b - x}
<1>5. b - g[1] \in D
  BY <1>4
<1>6. PICK d \in D : \A e \in D : d <= e
  BY <1>5, LeastElement
<1>7. PICK x \in S : d = b - x
  BY <1>6
<1>8. ASSUME NEW y \in S PROVE x >= y
  <2>1. PICK i \in 1 .. n : y = g[i]
    OBVIOUS
  <2>2. y \in Int /\ y <= b
    BY <1>4, <2>1
  <2>3. b - y \in D
    <3>1. b - y \in Nat /\ y \in S
      BY <2>2
    <3> HIDE DEF S
    <3> QED  BY <3>1
  <2>4. d <= b - y /\ d \in Nat /\ x \in Int
    BY <1>6, <2>3
  <2> HIDE DEF S, D
  <2> QED  BY <1>7, <2>2, <2>4
<1> QED  BY <1>7, <1>8

(* A recursion over 0 .. n whose step knows how far it is, the form of the *)
(* sums and prefixes that a definition keeps in a local function.          *)
Stepwise(X, n, x0, F, g) ==
  g \in [0 .. n -> X] /\ g[0] = x0 /\ \A k \in 1 .. n : g[k] = F[k][g[k - 1]]

(* Every start and steps have a recursion.                                 *)
LEMMA StepsExist ==
  ASSUME NEW n \in Nat, NEW X, NEW x0 \in X, NEW F, F \in [1 .. n -> [X -> X]]
  PROVE  \E g : Stepwise(X, n, x0, F, g)
<1> DEFINE Reached == {k \in 0 .. n : \E g : Stepwise(X, k, x0, F, g)}
<1>1. 0 \in Reached
  <2>1. Stepwise(X, 0, x0, F, [i \in 0 .. 0 |-> x0])
    BY DEF Stepwise
  <2> QED  BY <2>1
<1>2. ASSUME NEW k \in 0 .. n - 1, k \in Reached PROVE k + 1 \in Reached
  <2>1. PICK g : Stepwise(X, k, x0, F, g)
    BY <1>2
  <2> DEFINE h == [i \in 0 .. k + 1 |-> IF i = k + 1 THEN F[k + 1][g[k]] ELSE g[i]]
  <2>2. g[k] \in X /\ k + 1 \in 1 .. n
    BY <2>1 DEF Stepwise
  <2>3. F[k + 1][g[k]] \in X
    BY <2>2
  <2>4. h \in [0 .. k + 1 -> X] /\ h[0] = x0
    BY <2>1, <2>3 DEF Stepwise
  <2>5. ASSUME NEW i \in 1 .. k + 1 PROVE h[i] = F[i][h[i - 1]]
    <3>1. i - 1 \in 0 .. k /\ h[i - 1] = g[i - 1]
      OBVIOUS
    <3>2. CASE i = k + 1
      BY <3>1, <3>2
    <3>3. CASE i # k + 1
      <4>1. i \in 1 .. k /\ h[i] = g[i]
        BY <3>3
      <4> HIDE DEF h
      <4> QED  BY <2>1, <3>1, <4>1 DEF Stepwise
    <3> QED  BY <3>2, <3>3
  <2>6. Stepwise(X, k + 1, x0, F, h)
    <3> HIDE DEF h
    <3> QED  BY <2>4, <2>5 DEF Stepwise
  <2> QED  BY <2>6
<1>3. 0 .. n \subseteq Reached
  <2> HIDE DEF Reached
  <2> QED  BY <1>1, <1>2, BoundedInduction
<1> QED  BY <1>3

(* Two recursions of one length that step alike.                           *)
SameSteps(X, n, x0, F, G, g, h) ==
  /\ Stepwise(X, n, x0, F, g)
  /\ Stepwise(X, n, x0, G, h)
  /\ \A k \in 1 .. n : \A x \in X : F[k][x] = G[k][x]

(* They have the same values.                                              *)
LEMMA StepsAgree ==
  ASSUME NEW n \in Nat, NEW X, NEW x0, NEW F, NEW G, NEW g, NEW h, SameSteps(X, n, x0, F, G, g, h)
  PROVE  \A k \in 0 .. n : g[k] = h[k]
<1> DEFINE Same == {k \in 0 .. n : g[k] = h[k]}
<1>1. 0 \in Same
  BY DEF SameSteps, Stepwise
<1>2. ASSUME NEW k \in 0 .. n - 1, k \in Same PROVE k + 1 \in Same
  <2>1. k + 1 \in 1 .. n /\ (k + 1) - 1 = k /\ g[k] = h[k] /\ g[k] \in X
    BY <1>2 DEF SameSteps, Stepwise
  <2>2. g[k + 1] = F[k + 1][g[k]] /\ h[k + 1] = G[k + 1][h[k]]
    BY <2>1 DEF SameSteps, Stepwise
  <2>3. F[k + 1][g[k]] = G[k + 1][g[k]]
    BY <2>1 DEF SameSteps
  <2> QED  BY <2>1, <2>2, <2>3
<1>3. 0 .. n \subseteq Same
  <2> HIDE DEF Same
  <2> QED  BY <1>1, <1>2, BoundedInduction
<1> QED  BY <1>3

(* The value a recursion of n steps ends in.                               *)
Ends(X, n, x0, F, y) == \E g : Stepwise(X, n, x0, F, g) /\ y = g[n]

(* A recursion goes on by one step.                                        *)
LEMMA StepsExtend ==
  ASSUME NEW n \in Nat, NEW X, NEW x0, NEW F, NEW G,
         \A k \in 1 .. n : \A x \in X : F[k][x] = G[k][x],
         NEW y, Ends(X, n, x0, F, y), NEW z \in X, z = G[n + 1][y]
  PROVE  Ends(X, n + 1, x0, G, z)
<1>0. PICK g : Stepwise(X, n, x0, F, g) /\ y = g[n]
  BY DEF Ends
<1> DEFINE h == [i \in 0 .. n + 1 |-> IF i = n + 1 THEN z ELSE g[i]]
<1>1. h \in [0 .. n + 1 -> X] /\ h[0] = x0 /\ h[n + 1] = z
  BY <1>0 DEF Stepwise
<1>2. ASSUME NEW i \in 1 .. n + 1 PROVE h[i] = G[i][h[i - 1]]
  <2>1. i - 1 \in 0 .. n /\ h[i - 1] = g[i - 1]
    OBVIOUS
  <2>2. CASE i = n + 1
    BY <1>0, <2>1, <2>2
  <2>3. CASE i # n + 1
    <3>1. i \in 1 .. n /\ h[i] = g[i]
      BY <2>3
    <3>2. g[i - 1] \in X /\ g[i] = F[i][g[i - 1]]
      BY <1>0, <2>1, <3>1 DEF Stepwise
    <3> HIDE DEF h
    <3> QED  BY <2>1, <3>1, <3>2
  <2> QED  BY <2>2, <2>3
<1>3. Stepwise(X, n + 1, x0, G, h)
  <2> HIDE DEF h
  <2> QED  BY <1>1, <1>2 DEF Stepwise
<1> QED  BY <1>1, <1>3 DEF Ends

=============================================================================
