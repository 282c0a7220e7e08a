------------------------ MODULE MCSnapshotTraining ------------------------
(***************************************************************************)
(* Arithmetic modulo a prime stands for f64: every operator is injective   *)
(* in each argument, so any difference of inputs or state shows in the     *)
(* trees. Inf is the one non-finite value and absorbs.                     *)
(***************************************************************************)
EXTENDS SnapshotTraining

Prime == 11
Inf == Prime
MCNumber == 0 .. Prime
MCTree == 0 .. Prime
MCRng == 0 .. Prime - 1
MCCarry == 0 .. 1

Arith(xs, value) == IF Inf \in xs THEN Inf ELSE value % Prime

Key(in) == (IF in.hashed = "h2" THEN 5 ELSE 1) + (IF in.features = "x2" THEN 3 ELSE 0)
           + (IF in.weights = Ones THEN 0 ELSE 1)
Diverges(in) == in.hashed = "diverging"

MCStartBias(in) == IF in.hashed = "zero bias" THEN 0 ELSE 2
MCStartApprox(in) == MCStartBias(in)
MCStartRng(in) == 3
MCStartCarry == 0
MCGrow(in, a, r, y) ==
  IF Diverges(in) /\ r # 3 THEN Inf ELSE Arith({a}, 3 * a + 5 * r + 2 * Key(in) + 4 * y + 1)
MCAdvance(a, t) == Arith({a, t}, a + 2 * t)
MCDraw(r, t) == (4 * r + 1) % Prime
MCRemember(y, t) == 1
MCShrink(i, x) == Arith({x}, x * (i + 3))
MCIsFinite(x) == x # Inf
MCShape(h) == IF h = "h2" THEN 2 ELSE 1

MCStraight ==
  [in \in Inputs |->
     LET run[k \in 0 .. in.iterations] ==
           IF k = 0 THEN StartMemory(in) ELSE Iteration(in, k - 1, run[k - 1])
     IN run]

Call == [hashed |-> "h1", iterations |-> 3, weights |-> Ones, features |-> "x1",
         shrink |-> FALSE, uses |-> {}, zeroInterval |-> FALSE]

MCInputs == {InputsOf(c) : c \in Configs}

(* The same run with a positive and a zero interval, other data, other     *)
(* weights, shrinkage from a zero bias, a diverging fit and a fit outside  *)
(* the snapshot regime.                                                    *)
SoundCalls ==
  {Call, [Call EXCEPT !.zeroInterval = TRUE], [Call EXCEPT !.hashed = "h2"],
   [Call EXCEPT !.weights = "w", !.zeroInterval = TRUE],
   [Call EXCEPT !.hashed = "zero bias", !.shrink = TRUE],
   [Call EXCEPT !.hashed = "diverging"],
   [Call EXCEPT !.uses = {"bootstrap"}]}

(* The caller spells "no weights" as the empty column. *)
EmptyWeightCalls == {[Call EXCEPT !.weights = NoWeights, !.zeroInterval = z] : z \in BOOLEAN}

(* model_shrink_rate, with the non-zero starting bias of boost_from_average. *)
ShrinkingCalls == {[Call EXCEPT !.shrink = TRUE, !.zeroInterval = z] : z \in BOOLEAN}

(* The same fingerprinted fields over other feature values. *)
OtherFeatureCalls == {[Call EXCEPT !.features = x, !.zeroInterval = z] :
                        x \in {"x1", "x2"}, z \in BOOLEAN}

AllCalls == SoundCalls \cup EmptyWeightCalls \cup ShrinkingCalls \cup OtherFeatureCalls

SpecLive == Spec /\ Fairness
===========================================================================
