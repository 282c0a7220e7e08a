------------------------------ MODULE LearnDraws ------------------------------
(***************************************************************************)
(* What one tree of the CPU trainer takes from the learn RNG, the one      *)
(* stream every per-tree sample of a fit is read from (cb-train/src/       *)
(* boosting.rs, tree.rs, bootstrap.rs).                                    *)
(*                                                                         *)
(* A position is the number of draws taken so far, and the data is what    *)
(* decides how many come next: NormalCost(p) is what std_normal takes when *)
(* it starts at p (its rejection loop takes pairs until one is accepted),  *)
(* Passes(p) whether draw p is <= rsm.                                     *)
(***************************************************************************)
EXTENDS Integers, FiniteSets

CONSTANTS
  Objects,         \* n, the objects of the pool
  Listed,          \* the listed float features, border-less ones included
  Bordered,        \* those that have a border, a subset of 1..Listed
  Depth,
  NormalCost(_), Passes(_)

ASSUME DrawsAssumption ==
  /\ Objects \in Nat /\ Depth \in Nat /\ Listed \in Nat
  /\ Bordered \subseteq 1 .. Listed
  /\ Bordered # {}

Policies == {"SymmetricTree", "Depthwise", "Lossguide", "Region"}
Bootstraps == {"No", "Bayesian", "Bernoulli", "Mvs", "Poisson"}

(* What of BoostParams decides the draws and the grower.  partial: the     *)
(* subsample rate is below 1, for Bayesian the temperature is not 0.       *)
(* other: anything else that keeps a fit off the device (groups, eval      *)
(* sets, penalties, monotone constraints, several dimensions, shrinkage).  *)
Configurations ==
  [policy : Policies, ordered : BOOLEAN, ctr : BOOLEAN, bootstrap : Bootstraps,
   partial : BOOLEAN, rsm : BOOLEAN, perturb : BOOLEAN, score : {"Normal", "Gumbel"},
   langevin : BOOLEAN, steps : 1 .. 2, other : BOOLEAN]

(* validate_rsm, validate_langevin, validate_leaf_estimation_iterations.   *)
Accepted(c) ==
  /\ c.rsm => c.policy = "SymmetricTree"
  /\ c.langevin => c.policy = "SymmetricTree" /\ ~c.ordered
  /\ c.steps > 1 => c.policy = "SymmetricTree"

draws_active(c) == c.bootstrap # "No" \/ c.perturb \/ c.rsm \/ c.langevin

(* Poisson samples live on the device: the host stream gives it nothing.   *)
HostDraws(c) == draws_active(c) /\ c.bootstrap # "Poisson"

PRE_TREE_DRAWS == 2
POST_TREE_EXTRA_DRAWS == 2

(* bootstrap(): one seed for Bayesian and MVS, one draw per object for     *)
(* Bernoulli, none where the rate keeps everything.                        *)
BootstrapDraws(c) ==
  IF ~c.partial THEN 0
  ELSE CASE c.bootstrap = "Bernoulli" -> Objects
         [] c.bootstrap \in {"Bayesian", "Mvs"} -> 1
         [] OTHER -> 0

(* Where the stream is after k normals, or k score instances, from p.      *)
normalsEnd[k \in Nat] ==
  [p \in Nat |-> IF k = 0 THEN p ELSE normalsEnd[k - 1][p + NormalCost(p)]]

InstancesEnd(c, k, p) == IF c.score = "Gumbel" THEN p + k ELSE normalsEnd[k][p]

(* The features the draws at p .. p + Listed - 1 leave in a level.         *)
Selected(c, p) == {f \in 1 .. Listed : c.rsm => Passes(p + f - 1)}

(* select_level_perturbed: the reselection, the CalcScores seed, and one   *)
(* instance per selected feature, with or without borders.                 *)
LevelEnd(c, p) == InstancesEnd(c, Cardinality(Selected(c, p)), p + Listed + 1)

(* No selected feature can be split on: the depth loop breaks.             *)
LevelStops(c, p) == Selected(c, p) \cap Bordered = {}

(* Where at most k more levels leave the stream.                           *)
levelsEnd(c) ==
  LET after[k \in Nat] ==
        [p \in Nat |-> IF k = 0 THEN p
                       ELSE IF LevelStops(c, p) THEN LevelEnd(c, p)
                       ELSE after[k - 1][LevelEnd(c, p)]]
  IN after

SearchEnd(c, p) == levelsEnd(c)[Depth][p]

(* The dispatch of the CPU branch: only one of the growers is handed the   *)
(* RNG.                                                                    *)
Grower(c) == CASE c.policy = "Region" -> "region"
               [] c.policy \in {"Depthwise", "Lossguide"} -> "leaf_wise"
               [] c.ctr -> "with_ctr"
               [] c.ordered -> "ordered"
               [] OTHER -> "perturbed"

GrowEnd(c, p) == IF Grower(c) = "perturbed" THEN SearchEnd(c, p) ELSE p

(* The leaf phase: A, then B and C of every step, where Langevin owns it;  *)
(* otherwise the POST_TREE_EXTRA_DRAWS.                                    *)
LeafDraws(c) == IF c.langevin THEN 1 + 2 * c.steps ELSE POST_TREE_EXTRA_DRAWS
NoiseDraws(c) == IF c.langevin THEN 1 ELSE 0

(* Where the sample of the tree that starts at p is read, and where that   *)
(* tree leaves the stream.                                                 *)
SampleAt(c, p) == IF HostDraws(c) THEN p + PRE_TREE_DRAWS ELSE p
TreeEnd(c, p) ==
  IF HostDraws(c)
    THEN GrowEnd(c, SampleAt(c, p) + BootstrapDraws(c) + NoiseDraws(c)) + LeafDraws(c)
    ELSE p
===============================================================================
