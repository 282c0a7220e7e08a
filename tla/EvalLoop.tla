------------------------------- MODULE EvalLoop -------------------------------
(***************************************************************************)
(* The evaluation side of train_inner_impl's loop (cb-train/src/           *)
(* boosting.rs): each grown tree advances the running approximant of every *)
(* eval set, the metric of every set is logged, and that of the primary    *)
(* set drives the best-model tracker and the overfitting detector.         *)
(*                                                                         *)
(* An eval set is one object and an approximant a number modulo Modulus,   *)
(* over which addition and shrinkage distribute as they do over f64 up to  *)
(* rounding; a tree is what it adds on each set.  Metric is the eval       *)
(* metric of a fit as a function of a set's approximant, MetricError where *)
(* it is refused.                                                          *)
(*                                                                         *)
(* The detector, the Wilcoxon test it rests on and the best-model tracker  *)
(* (overfit.rs) come first, as operators on their records.                 *)
(*                                                                         *)
(* Metric values are integers or NaN.  A p-value is only ever compared     *)
(* with the threshold, so the detector keeps that comparison.  A threshold *)
(* t < 1 is the ratio LimNum/LimDen = -0.5/ln(t) below which exp(-0.5/r)   *)
(* falls under t for IncToDec, and ZNum/ZDen, the square of the normal     *)
(* quantile above which the two-sided test does, for Wilcoxon.  The        *)
(* forgetting factor 0.99 is 1/Forget, which keeps expected_inc an integer *)
(* multiple of 1/Forget^n after n errors.                                  *)
(***************************************************************************)
EXTENDS Integers, Sequences, FiniteSets, FiniteSetsExt, SequencesExt

CONSTANTS NaN,
          Forget, ITERATION_FORGET,
          LimNum, LimDen, ZNum, ZDen,
          NeutralStops,  \* 0.5 < od_pval
          Saturation     \* exp(-0.5 / (expected_inc / EPS)) is 1.0 from here on

ASSUME DetectorAssumption ==
  /\ {Forget, ITERATION_FORGET, LimNum, LimDen, ZNum, ZDen, Saturation} \subseteq Nat \ {0}
  /\ NeutralStops \in BOOLEAN
  /\ NaN \notin Int

(* f64 comparison and negation: everything is false of NaN.                *)
Less(x, y) == x # NaN /\ y # NaN /\ x < y
Negated(x) == IF x = NaN THEN NaN ELSE -x

Abs(x) == IF x < 0 THEN -x ELSE x

-----------------------------------------------------------------------------
(* wilcoxon: twice the rank sum of the positive deltas, where the deltas   *)
(* of a block share the average of its ranks.                              *)

nonzero(deltas) == {i \in DOMAIN deltas : deltas[i] # 0}

(* The stable sort by absolute value. *)
byAbs(deltas) ==
  LET before(i, j) == \/ Abs(deltas[i]) < Abs(deltas[j])
                      \/ Abs(deltas[i]) = Abs(deltas[j]) /\ i < j
      order == SetToSortSeq(nonzero(deltas), before)
  IN  [k \in DOMAIN order |-> deltas[order[k]]]

(* What relative_equal compares: the signed deltas. *)
tieKeys(v) == v

(* The block of position p: the maximal run of neighbours of one key. *)
block(keys, p) ==
  {q \in DOMAIN keys : \A r \in DOMAIN keys :
     (p <= r /\ r <= q) \/ (q <= r /\ r <= p) => keys[r] = keys[p]}

doubledRankSum(v, keys) ==
  MapThenSumSet(LAMBDA p : Min(block(keys, p)) + Max(block(keys, p)),
                {p \in DOMAIN v : v[p] > 0})

(* A positive denominator, twice the code's before its division by 24. *)
doubledDenominator(keys) ==
  LET s == Len(keys)
  IN  2 * s * (s + 1) * (2 * s + 1)
      - MapThenSumSet(LAMBDA p : Cardinality(block(keys, p)) ^ 2 - 1, DOMAIN keys)

wilcoxonStops(deltas) ==
  LET v == byAbs(deltas)
      excess == 2 * doubledRankSum(v, tieKeys(v)) - Len(v) * (Len(v) + 1)
  IN  IF v = <<>> THEN NeutralStops
      ELSE 3 * excess ^ 2 * ZDen > ZNum * doubledDenominator(tieKeys(v))

-----------------------------------------------------------------------------
(* OverfittingDetector::new; "off" is a threshold <= 0. *)

DetectorTypes == {"None", "IncToDec", "Iter", "Wilcoxon"}

activeWith(type, threshold, has_test) ==
  \/ type = "Iter"
  \/ type # "None" /\ threshold # "off" /\ has_test

newRejected(type, threshold, has_test) ==
  type = "Wilcoxon" /\ ~has_test /\ threshold # "off"

newDetector(type, threshold, wait, has_test) ==
  [type |-> type, active |-> activeWith(type, threshold, has_test), wait |-> wait,
   is_empty |-> TRUE, below |-> FALSE, local_max |-> 0, last_error |-> 0,
   iterations_from_local_max |-> 0, errors |-> <<>>, seen |-> 0, expected_inc |-> 0,
   deltas |-> <<>>]

is_need_stop(d) == ~d.is_empty /\ d.below

(* Mutant: an equal error counts as a new maximum.                         *)
ImprovesOnTie(d, err) == d.is_empty \/ ~Less(err, d.local_max)

Improves(d, err) == d.is_empty \/ Less(d.local_max, err)

(* local_max - last_error, at least EPS; the max drops a NaN.              *)
plateau(local_max, err) == local_max = NaN \/ err = NaN \/ local_max = err

(* Forget^n: what a rise n errors old outweighs one of the first by.       *)
Forgets[n \in Nat] == IF n = 0 THEN 1 ELSE Forget * Forgets[n - 1]

(* p < threshold, from expected_inc as a multiple of 1/Forget^n. *)
incToDecStops(type, expected, n, local_max, err) ==
  IF plateau(local_max, err)
    THEN \/ expected = 0
         \/ type = "Iter" /\ expected < Saturation * Forgets[n]
    ELSE \/ type = "Iter"
         \/ expected * LimDen < LimNum * (local_max - err) * Forgets[n]

(* Mutant: the window is trimmed one error late.                           *)
window_one_longer(all) == IF Len(all) > ITERATION_FORGET + 1 THEN Tail(all) ELSE all

(* The last ITERATION_FORGET errors, oldest first. *)
window(all) == IF Len(all) > ITERATION_FORGET THEN Tail(all) ELSE all

(* Mutants: > where it should be >=, and the maximum counted as waited.    *)
waitedStrictly(d, since) == since > d.wait
waitedInclusive(d, since) == since + 1 >= d.wait

waited(d, since) == since >= d.wait

incToDecAdd(d, err) ==
  LET improves == Improves(d, err)
      local_max == IF improves THEN err ELSE d.local_max
      since == IF improves THEN 0 ELSE d.iterations_from_local_max + 1
      n == d.seen + 1
      errors == window(Append(d.errors, err))
      rises == {Forgets[n - (Len(errors) - k)] * (err - errors[k]) :
                  k \in {j \in DOMAIN errors : err # NaN /\ errors[j] # NaN}}
      expected == Max({IF d.is_empty THEN 0 ELSE d.expected_inc} \cup rises)
  IN  [d EXCEPT !.is_empty = FALSE, !.local_max = local_max, !.last_error = err,
                !.iterations_from_local_max = since, !.errors = errors, !.seen = n,
                !.expected_inc = expected,
                !.below = waited(d, since) /\ incToDecStops(d.type, expected, n, local_max, err)]

(* Mutant: a new maximum does not clear the deltas.                        *)
deltasNeverCleared(d, err) ==
  IF d.is_empty THEN <<>> ELSE Append(d.deltas, d.last_error - err)

(* The deltas are those of finite errors. *)
deltasSinceMax(d, err) ==
  IF Improves(d, err) THEN <<>> ELSE Append(d.deltas, d.last_error - err)

wilcoxonAdd(d, err) ==
  LET deltas == deltasSinceMax(d, err)
  IN  [d EXCEPT !.is_empty = FALSE, !.local_max = IF Improves(d, err) THEN err ELSE @,
                !.deltas = deltas, !.last_error = err,
                !.below = Len(deltas) >= d.wait /\ wilcoxonStops(deltas)]

(* A loss: max_is_optimal is false for every detector new builds. *)
add_error(d, value) ==
  IF ~d.active THEN d
  ELSE IF d.type = "Wilcoxon" THEN wilcoxonAdd(d, Negated(value))
  ELSE incToDecAdd(d, Negated(value))

-----------------------------------------------------------------------------
(* BestModelTracker; -1 is no iteration. *)

newTracker == [best_iteration |-> -1, best_error |-> NaN, next_index |-> 0]

(* Mutant: ties replace the best iteration.                                *)
track_last(b, value) ==
  IF b.best_iteration = -1 \/ ~Less(b.best_error, value)
    THEN [best_iteration |-> b.next_index, best_error |-> value,
          next_index |-> b.next_index + 1]
    ELSE [b EXCEPT !.next_index = @ + 1]

track(b, value) ==
  IF b.best_iteration = -1 \/ Less(value, b.best_error)
    THEN [best_iteration |-> b.next_index, best_error |-> value,
          next_index |-> b.next_index + 1]
    ELSE [b EXCEPT !.next_index = @ + 1]

-----------------------------------------------------------------------------
(* The loop. *)

CONSTANTS
  Fits,          \* the configurations (FitOK)
  Modulus, Bias, Multiplier,
  Steps,         \* what a tree may add to an approximant
  Metric(_, _, _), MetricError

VARIABLES
  pc, fit, iter,
  bias, trees, non_symmetric_trees, region_trees,
  eval_approx,   \* per eval set
  history,       \* per eval set, its metric curve
  detector, best_model,
  outcome        \* the result of the fit

model == <<bias, trees, non_symmetric_trees, region_trees>>
watch == <<history, detector, best_model>>
vars == <<pc, fit, iter, model, eval_approx, watch, outcome>>

FitOK(f) ==
  /\ DOMAIN f = {"sets", "policy", "iterations", "shrink", "use_best_model", "dimension",
                 "od_type", "od_pval", "od_wait"}
  /\ f.sets \in Nat /\ f.iterations \in Nat /\ f.od_wait \in Nat
  /\ f.dimension \in Nat \ {0}
  /\ f.shrink \in BOOLEAN /\ f.use_best_model \in BOOLEAN
  /\ f.policy \in {"SymmetricTree", "Lossguide", "Depthwise", "Region"}
  /\ f.od_type \in DetectorTypes /\ f.od_pval \in {"off", "on"}

ASSUME FitAssumption == \A f \in Fits : FitOK(f)

ASSUME MetricAssumption ==
  /\ Modulus \in Nat \ {0} /\ Multiplier \in Nat /\ Bias \in 0 .. Modulus - 1
  /\ Steps \subseteq Nat
  /\ \A f \in Fits : \A s \in 1 .. f.sets, a \in 0 .. Modulus - 1 :
       Metric(f, s, a) \in Int \cup {NaN, MetricError}

-----------------------------------------------------------------------------
has_test(f) == f.sets > 0
sets(f) == 1 .. f.sets

(* model_shrink_rate: the accumulated model and every running approximant  *)
(* before the tree of every iteration but the first.                       *)
Shrunk(x) == (x * Multiplier) % Modulus
ShrunkTrees(ts) == [k \in DOMAIN ts |-> [s \in DOMAIN ts[k] |-> Shrunk(ts[k][s])]]

shrinks == fit.shrink /\ iter > 0

(* A fit fills one ensemble only; the other two stay empty. *)
pushed(ts, tree, mine) ==
  LET kept == IF shrinks THEN ShrunkTrees(ts) ELSE ts
  IN  IF mine THEN Append(kept, tree) ELSE kept

(* Mutant: the contribution is read from the oblivious ensemble only.      *)
last_oblivious_contribution(s) == IF trees # <<>> THEN trees[Len(trees)][s] ELSE 0

last_tree_eval_contribution(s) ==
  IF region_trees # <<>> THEN region_trees[Len(region_trees)][s]
  ELSE IF non_symmetric_trees # <<>> THEN non_symmetric_trees[Len(non_symmetric_trees)][s]
  ELSE IF trees # <<>> THEN trees[Len(trees)][s]
  ELSE 0

advanced(s) == (eval_approx[s] + last_tree_eval_contribution(s)) % Modulus

metric(s, a) == Metric(fit, s, a)

(* Mutant: best trees are kept where it should be best + 1.                *)
truncated_short(ts, best) == SubSeq(ts, 1, IF best < Len(ts) THEN best ELSE Len(ts))

truncated(ts, best) == SubSeq(ts, 1, IF best + 1 < Len(ts) THEN best + 1 ELSE Len(ts))

-----------------------------------------------------------------------------
Running == [kind |-> "running"]
Done(result) == pc' = "done" /\ outcome' = result

Init ==
  /\ fit \in Fits
  /\ pc = "start" /\ iter = 0
  /\ bias = Bias /\ trees = <<>> /\ non_symmetric_trees = <<>> /\ region_trees = <<>>
  /\ eval_approx = [s \in sets(fit) |-> bias]
  /\ history = [s \in sets(fit) |-> <<>>]
  /\ detector = newDetector(fit.od_type, fit.od_pval, fit.od_wait, has_test(fit))
  /\ best_model = newTracker
  /\ outcome = Running

rejected == \/ /\ has_test(fit)
               /\ fit.dimension > 1
            \/ newRejected(fit.od_type, fit.od_pval, has_test(fit))

Reject ==
  /\ pc = "start" /\ rejected
  /\ Done([kind |-> "rejected"])
  /\ UNCHANGED <<fit, iter, model, eval_approx, watch>>

Start ==
  /\ pc = "start" /\ ~rejected
  /\ pc' = "loop"
  /\ UNCHANGED <<fit, iter, model, eval_approx, watch, outcome>>

Grow(tree) ==
  /\ pc = "loop" /\ iter < fit.iterations
  /\ bias' = IF shrinks THEN Shrunk(bias) ELSE bias
  /\ trees' = pushed(trees, tree, fit.policy = "SymmetricTree")
  /\ non_symmetric_trees' =
       pushed(non_symmetric_trees, tree, fit.policy \in {"Lossguide", "Depthwise"})
  /\ region_trees' = pushed(region_trees, tree, fit.policy = "Region")
  /\ eval_approx' = IF shrinks THEN [s \in sets(fit) |-> Shrunk(eval_approx[s])]
                    ELSE eval_approx
  /\ pc' = IF has_test(fit) THEN "eval" ELSE "loop"
  /\ iter' = IF has_test(fit) THEN iter ELSE iter + 1
  /\ UNCHANGED <<fit, watch, outcome>>

(* The metric of a set is refused: the fit ends with the error, the sets   *)
(* before it already logged.                                               *)
EvaluateFails ==
  /\ pc = "eval"
  /\ \E s \in sets(fit) :
       /\ metric(s, advanced(s)) = MetricError
       /\ \A t \in 1 .. s - 1 : metric(t, advanced(t)) # MetricError
       /\ history' = [t \in sets(fit) |-> IF t < s THEN Append(history[t], metric(t, advanced(t)))
                                          ELSE history[t]]
  /\ eval_approx' = [s \in sets(fit) |-> advanced(s)]
  /\ Done([kind |-> "error"])
  /\ UNCHANGED <<fit, iter, model, detector, best_model>>

(* Set 1, the code's index 0, is the primary one. *)
Evaluate ==
  /\ pc = "eval"
  /\ \A s \in sets(fit) : metric(s, advanced(s)) # MetricError
  /\ eval_approx' = [s \in sets(fit) |-> advanced(s)]
  /\ history' = [s \in sets(fit) |-> Append(history[s], metric(s, advanced(s)))]
  /\ best_model' = track(best_model, metric(1, advanced(1)))
  /\ detector' = add_error(detector, metric(1, advanced(1)))
  /\ iter' = iter + 1
  /\ pc' = IF is_need_stop(detector') THEN "stopped" ELSE "loop"
  /\ UNCHANGED <<fit, model, outcome>>

Finish ==
  /\ pc = "loop" => iter = fit.iterations
  /\ pc \in {"loop", "stopped"}
  /\ LET best == best_model.best_iteration
         kept(ts) == IF fit.use_best_model /\ best # -1 THEN truncated(ts, best) ELSE ts
     IN  Done([kind |-> "model", bias |-> bias,
               trees |-> kept(trees) \o kept(non_symmetric_trees) \o kept(region_trees),
               early |-> pc = "stopped"])
  /\ UNCHANGED <<fit, iter, model, eval_approx, watch>>

Next == \/ Start \/ Reject
        \/ \E tree \in [sets(fit) -> Steps] : Grow(tree)
        \/ Evaluate \/ EvaluateFails
        \/ Finish

Spec == Init /\ [][Next]_vars

-----------------------------------------------------------------------------
(* The types; the tracker is fed exactly once per completed iteration.     *)
TypeOK ==
  /\ fit \in Fits
  /\ pc \in {"start", "loop", "eval", "stopped", "done"}
  /\ iter \in 0 .. fit.iterations
  /\ bias \in Nat
  /\ eval_approx \in [sets(fit) -> Nat]
  /\ history \in [sets(fit) -> Seq(Int \cup {NaN})]
  /\ has_test(fit) => best_model.next_index = iter
  /\ best_model.best_iteration \in -1 .. best_model.next_index - 1

(* What a model adds up to on a set. *)
Applied(b, ts, s) ==
  LET sum[k \in 0 .. Len(ts)] == IF k = 0 THEN b ELSE (sum[k - 1] + ts[k][s]) % Modulus
  IN  sum[Len(ts)]

ensemble == trees \o non_symmetric_trees \o region_trees

(* The incrementally advanced approximant of every eval set is what the    *)
(* model built so far predicts there, through every shrinkage and whatever *)
(* ensemble the grow policy fills.                                         *)
EvalApproxIsModel ==
  pc \in {"loop", "stopped"} =>
    \A s \in sets(fit) : eval_approx[s] = Applied(bias, ensemble, s)

(* The primary metrics the tracker and the detector were fed. *)
primary == SubSeq(history[1], 1, best_model.next_index)

(* The detector and the tracker agree on when the primary metric was best. *)
SinceBest == best_model.next_index - 1 - best_model.best_iteration

DetectorFollowsBest ==
  detector.active /\ ~detector.is_empty =>
    IF detector.type = "Wilcoxon" THEN Len(detector.deltas) = SinceBest
    ELSE detector.iterations_from_local_max = SinceBest

(* use_best_model: ties keep the earliest, whatever the secondary sets do. *)
BestIsFirstMinimum ==
  best_model.best_iteration >= 0 =>
    LET b == best_model.best_iteration + 1 IN
      /\ \A k \in DOMAIN primary : ~Less(primary[k], primary[b])
      /\ \A k \in 1 .. b - 1 : primary[k] # NaN => Less(primary[b], primary[k])

(* An early stop is never sooner than od_wait iterations after the best.   *)
StopRespectsWait == pc = "stopped" => SinceBest >= fit.od_wait

(* No loss rises so far that the p-value of a plateau rounds to 1.         *)
LossesAreBounded ==
  \A f \in Fits : \A a, b \in 0 .. Modulus - 1 :
    Metric(f, 1, a) \in Int /\ Metric(f, 1, b) \in Int =>
      Metric(f, 1, a) - Metric(f, 1, b) < Saturation

(* Iter "stops od_wait iterations after the best".                         *)
IterStopsOnTime ==
  detector.type = "Iter" /\ pc = "loop" /\ best_model.best_iteration >= 0 =>
    SinceBest < fit.od_wait

(* expected_inc, kept incrementally, is the largest rise between two       *)
(* errors, forgotten from the earlier one on.                              *)
ExpectedIncIsForgottenRise ==
  LET e == [k \in DOMAIN primary |-> Negated(primary[k])]
      rise == {Forgets[p[1]] * (e[p[2]] - e[p[1]]) :
                 p \in {q \in (DOMAIN e) \X (DOMAIN e) :
                           /\ q[1] <= q[2] /\ q[2] - q[1] < ITERATION_FORGET
                           /\ e[q[1]] # NaN /\ e[q[2]] # NaN}}
  IN  has_test(fit) /\ detector.active /\ detector.type # "Wilcoxon" =>
        detector.expected_inc = Max({0} \cup rise)

(* The IncToDec detectors stop on the evidence they are documented to      *)
(* keep, although they keep it incrementally and forget most of the curve. *)
IncToDecKeepsItsBooks == IterStopsOnTime /\ ExpectedIncIsForgottenRise

(* use_best_model returns the model whose metric was best. (Shrinkage      *)
(* rescales the kept trees after the best iteration too.)                  *)
ReturnedModelIsBest ==
  (/\ outcome.kind = "model" /\ fit.use_best_model /\ ~fit.shrink
   /\ best_model.best_iteration >= 0) =>
    metric(1, Applied(outcome.bias, outcome.trees, 1)) = primary[best_model.best_iteration + 1]

(* What the loop measured is the model it returns: while it runs, by the   *)
(* incremental approximants, and at its end, by the model that is left     *)
(* after the trees beyond the best iteration are dropped.                  *)
MeasuredModelIsReturned == EvalApproxIsModel /\ ReturnedModelIsBest

=============================================================================
