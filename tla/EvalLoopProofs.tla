---------------------------- MODULE EvalLoopProofs ----------------------------
(***************************************************************************)
(* Theorems about EvalLoop, for every fit, metric and tree: the tracker    *)
(* and the detector keep two records of one best iteration, what the loop  *)
(* measures is the model it builds, and the model it returns is the one    *)
(* measured best.                                                          *)
(***************************************************************************)
EXTENDS EvalLoop, Induction, SequenceTheorems

Values == Int \cup {NaN}
Approx == 0 .. Modulus - 1

DetectorFields ==
  {"type", "active", "wait", "is_empty", "below", "local_max", "last_error",
   "iterations_from_local_max", "errors", "seen", "expected_inc", "deltas"}

(* What the argument needs of a detector: nothing of its p-value.          *)
IsDetector(d) ==
  /\ d = [f \in DetectorFields |-> d[f]]
  /\ d.type \in DetectorTypes
  /\ d.active \in BOOLEAN /\ d.is_empty \in BOOLEAN /\ d.below \in BOOLEAN
  /\ d.wait \in Nat
  /\ d.iterations_from_local_max \in Nat
  /\ d.local_max \in Values
  /\ Len(d.deltas) \in Nat
  /\ d.deltas = [i \in 1 .. Len(d.deltas) |-> d.deltas[i]]

(* A sequence by its shape alone: deltas of NaN errors have no type.       *)
LEMMA AppendToShape ==
  ASSUME NEW s, Len(s) \in Nat, s = [i \in 1 .. Len(s) |-> s[i]], NEW x
  PROVE  /\ Len(Append(s, x)) = Len(s) + 1
         /\ Append(s, x) = [i \in 1 .. Len(Append(s, x)) |-> Append(s, x)[i]]
<1> DEFINE S == {s[i] : i \in 1 .. Len(s)} \cup {x}
           t == Append(s, x)
<1>1. s \in Seq(S)
  <2>1. s \in [1 .. Len(s) -> S]
    OBVIOUS
  <2> HIDE DEF S
  <2> QED
    BY <2>1, IsASeq
<1>2. x \in S
  OBVIOUS
<1> HIDE DEF S
<1>3. t \in Seq(S) /\ Len(t) = Len(s) + 1
  BY <1>1, <1>2, AppendProperties
<1> HIDE DEF t
<1>4. t = [i \in 1 .. Len(t) |-> t[i]]
  BY <1>3, LenProperties
<1> QED
  BY <1>3, <1>4 DEF t

-----------------------------------------------------------------------------
(* What feeding a value to a detector does to the record of its best.      *)
LEMMA AddError ==
  ASSUME NEW d, IsDetector(d), NEW v \in Values
  PROVE  LET e == add_error(d, v)
             improves == Improves(d, Negated(v))
         IN  /\ IsDetector(e)
             /\ e.type = d.type /\ e.active = d.active /\ e.wait = d.wait
             /\ ~d.active => e = d
             /\ d.active =>
                  /\ ~e.is_empty
                  /\ e.local_max = IF improves THEN Negated(v) ELSE d.local_max
             /\ d.active /\ d.type = "Wilcoxon" =>
                  /\ Len(e.deltas) = IF improves THEN 0 ELSE Len(d.deltas) + 1
                  /\ e.below => Len(e.deltas) >= e.wait
             /\ d.active /\ d.type # "Wilcoxon" =>
                  /\ e.iterations_from_local_max =
                       IF improves THEN 0 ELSE d.iterations_from_local_max + 1
                  /\ e.below => e.iterations_from_local_max >= e.wait
<1> DEFINE e == add_error(d, v)
           err == Negated(v)
           improves == Improves(d, err)
<1>0. err \in Values /\ improves \in BOOLEAN
  BY DetectorAssumption DEF Negated, Values, Improves, Less, IsDetector
<1>1. CASE ~d.active
  BY <1>1 DEF add_error
<1>2. CASE d.active /\ d.type = "Wilcoxon"
  <2> DEFINE deltas == deltasSinceMax(d, err)
             below == Len(deltas) >= d.wait /\ wilcoxonStops(deltas)
  <2>1. /\ Len(deltas) = IF improves THEN 0 ELSE Len(d.deltas) + 1
        /\ Len(deltas) \in Nat
        /\ deltas = [i \in 1 .. Len(deltas) |-> deltas[i]]
    <3>1. CASE improves
      <4>1. deltas = <<>> /\ <<>> \in Seq({})
        BY <3>1 DEF deltasSinceMax
      <4> QED
        BY <3>1, <4>1, LenProperties
    <3>2. CASE ~improves
      <4>1. deltas = Append(d.deltas, d.last_error - err)
        BY <3>2 DEF deltasSinceMax
      <4>2. Len(d.deltas) \in Nat /\ d.deltas = [i \in 1 .. Len(d.deltas) |-> d.deltas[i]]
        BY DEF IsDetector
      <4> QED
        BY <3>2, <4>1, <4>2, AppendToShape
    <3> QED
      BY <3>1, <3>2
  <2>2. e = [d EXCEPT !.is_empty = FALSE, !.local_max = IF improves THEN err ELSE d.local_max,
                      !.deltas = deltas, !.last_error = err, !.below = below]
    BY <1>2 DEF add_error, wilcoxonAdd
  <2>3. below \in BOOLEAN /\ (below => Len(deltas) >= d.wait)
    OBVIOUS
  <2> HIDE DEF e, deltas, below
  <2>4. /\ e.type = d.type /\ e.active = d.active /\ e.wait = d.wait
        /\ e.is_empty = FALSE /\ e.below = below /\ e.deltas = deltas
        /\ e.local_max = IF improves THEN err ELSE d.local_max
        /\ e.iterations_from_local_max = d.iterations_from_local_max
        /\ e = [f \in DetectorFields |-> e[f]]
    BY <2>2 DEF IsDetector, DetectorFields
  <2>5. IsDetector(e)
    BY <1>0, <2>1, <2>3, <2>4 DEF IsDetector
  <2> QED
    BY <1>2, <2>1, <2>3, <2>4, <2>5 DEF e
<1>3. CASE d.active /\ d.type # "Wilcoxon"
  <2> DEFINE max == IF improves THEN err ELSE d.local_max
             since == IF improves THEN 0 ELSE d.iterations_from_local_max + 1
             n == d.seen + 1
             errors == window(Append(d.errors, err))
             rises == {Forgets[n - (Len(errors) - k)] * (err - errors[k]) :
                         k \in {j \in DOMAIN errors : err # NaN /\ errors[j] # NaN}}
             expected == Max({IF d.is_empty THEN 0 ELSE d.expected_inc} \cup rises)
             stops == incToDecStops(d.type, expected, n, max, err)
  <2>0. e = incToDecAdd(d, err)
    BY <1>3 DEF add_error
  <2>1. /\ max = IF improves THEN err ELSE d.local_max
        /\ e = [d EXCEPT !.is_empty = FALSE, !.local_max = max, !.last_error = err,
                         !.iterations_from_local_max = since, !.errors = errors,
                         !.seen = n, !.expected_inc = expected,
                         !.below = waited(d, since) /\ stops]
    <3> HIDE DEF e
    <3> QED
      BY <2>0, Zenon DEF incToDecAdd
  <2>2. since \in Nat
    BY DEF IsDetector
  <2> HIDE DEF e, since, max, n, errors, rises, expected, stops
  <2>3. /\ e.type = d.type /\ e.active = d.active /\ e.wait = d.wait
        /\ e.is_empty = FALSE /\ e.below = (waited(d, since) /\ stops) /\ e.deltas = d.deltas
        /\ e.local_max = max /\ e.iterations_from_local_max = since
        /\ e = [f \in DetectorFields |-> e[f]]
    BY <2>1 DEF IsDetector, DetectorFields
  <2>4. IsDetector(e)
    <3>1. /\ d.type \in DetectorTypes /\ d.active \in BOOLEAN /\ d.wait \in Nat
          /\ Len(d.deltas) \in Nat /\ d.deltas = [i \in 1 .. Len(d.deltas) |-> d.deltas[i]]
      BY DEF IsDetector
    <3>2. max \in Values
      BY <1>0, <2>1 DEF IsDetector
    <3>3. e.below \in BOOLEAN
      BY <2>3
    <3>4. Len(e.deltas) \in Nat /\ e.deltas = [i \in 1 .. Len(e.deltas) |-> e.deltas[i]]
      BY <2>3, <3>1
    <3> QED  BY <2>2, <2>3, <3>1, <3>2, <3>3, <3>4 DEF IsDetector
  <2>5. e.below => since >= e.wait
    BY <2>3 DEF waited
  <2> QED
    BY <1>3, <2>1, <2>3, <2>4, <2>5 DEF since, e
<1> QED
  BY <1>1, <1>2, <1>3 DEF IsDetector

-----------------------------------------------------------------------------
Ensemble == Seq([sets(fit) -> Nat])

Types ==
  /\ fit \in Fits
  /\ pc \in {"start", "loop", "eval", "stopped", "done"}
  /\ iter \in 0 .. fit.iterations
  /\ pc = "eval" => iter < fit.iterations /\ has_test(fit)
  /\ bias \in Approx
  /\ trees \in Ensemble /\ non_symmetric_trees \in Ensemble /\ region_trees \in Ensemble
  /\ eval_approx \in [sets(fit) -> Approx]
  /\ history \in [sets(fit) -> Seq(Values)]

LEMMA FitFields ==
  ASSUME NEW f \in Fits
  PROVE  /\ f.sets \in Nat /\ f.iterations \in Nat /\ f.od_wait \in Nat
         /\ f.od_type \in DetectorTypes
         /\ has_test(f) => 1 \in sets(f)
  BY FitAssumption DEF FitOK, has_test, sets

LEMMA ModuloType == ASSUME NEW x \in Nat PROVE x % Modulus \in Approx
  BY MetricAssumption DEF Approx

LEMMA ShrunkType == ASSUME NEW x \in Nat PROVE Shrunk(x) \in Approx /\ Shrunk(x) \in Nat
<1>1. x * Multiplier \in Nat
  BY MetricAssumption
<1>2. Shrunk(x) \in Approx
  BY <1>1, ModuloType DEF Shrunk
<1> QED
  BY <1>2 DEF Approx

LEMMA PushedType ==
  ASSUME fit \in Fits, NEW ts \in Ensemble, NEW tree \in [sets(fit) -> Steps], NEW mine
  PROVE  pushed(ts, tree, mine) \in Ensemble
<1> DEFINE Tree == [sets(fit) -> Nat]
           shrunk == ShrunkTrees(ts)
           kept == IF shrinks THEN shrunk ELSE ts
<1>1. tree \in Tree
  BY MetricAssumption
<1>2. shrunk \in Seq(Tree)
  <2>1. ts \in [1 .. Len(ts) -> Tree] /\ Len(ts) \in Nat
    BY LenProperties DEF Ensemble
  <2>2. ASSUME NEW k \in 1 .. Len(ts)
        PROVE  [s \in DOMAIN ts[k] |-> Shrunk(ts[k][s])] \in Tree
    <3>1. ts[k] \in [sets(fit) -> Nat]
      BY <2>1
    <3>2. ASSUME NEW s \in sets(fit) PROVE Shrunk(ts[k][s]) \in Nat
      <4>1. ts[k][s] \in Nat
        BY <3>1
      <4> QED
        BY <4>1, ShrunkType
    <3> QED
      BY <3>1, <3>2
  <2>3. shrunk \in [1 .. Len(ts) -> Tree]
    BY <2>1, <2>2 DEF ShrunkTrees
  <2> HIDE DEF Tree, shrunk
  <2> QED
    BY <2>1, <2>3, IsASeq
<1>3. kept \in Seq(Tree)
  BY <1>2 DEF Ensemble
<1> HIDE DEF Tree, kept
<1>4. (IF mine THEN Append(kept, tree) ELSE kept) \in Seq(Tree)
  BY <1>1, <1>3, AppendProperties
<1> QED
  BY <1>4 DEF pushed, Ensemble, kept, Tree

LEMMA AdvancedType ==
  ASSUME Types, NEW s \in sets(fit)
  PROVE  advanced(s) \in Approx
<1>1. ASSUME NEW ts \in Ensemble, ts # <<>> PROVE ts[Len(ts)][s] \in Nat
  <2>1. Len(ts) \in 1 .. Len(ts)
    BY <1>1, EmptySeq, LenProperties DEF Ensemble
  <2>2. ts[Len(ts)] \in [sets(fit) -> Nat]
    BY <2>1, ElementOfSeq DEF Ensemble
  <2> QED
    BY <2>2
<1>2. last_tree_eval_contribution(s) \in Nat
  BY <1>1 DEF last_tree_eval_contribution, Types
<1>3. eval_approx[s] \in Nat
  BY DEF Types, Approx
<1> QED
  BY <1>2, <1>3, ModuloType DEF advanced

LEMMA MetricType ==
  ASSUME Types, NEW s \in sets(fit), metric(s, advanced(s)) # MetricError
  PROVE  metric(s, advanced(s)) \in Values
  BY AdvancedType, MetricAssumption DEF metric, Values, sets, Approx, Types

LEMMA TypesInit == Init => Types
<1> SUFFICES ASSUME Init PROVE Types
  OBVIOUS
<1>1. <<>> \in Ensemble /\ <<>> \in Seq(Values)
  BY EmptySeq DEF Ensemble
<1> QED
  BY <1>1, FitFields, MetricAssumption DEF Init, Types, Approx

LEMMA TypesStep == Types /\ [Next]_vars => Types'
<1> SUFFICES ASSUME Types, [Next]_vars PROVE Types'
  OBVIOUS
<1> USE DEF model, watch
<1>1. CASE Start
  BY <1>1 DEF Start, Types, Ensemble
<1>2. CASE Reject
  BY <1>2 DEF Reject, Done, Types, Ensemble
<1>3. ASSUME NEW tree \in [sets(fit) -> Steps], Grow(tree) PROVE Types'
  <2>1. fit' = fit /\ Ensemble' = Ensemble /\ sets(fit)' = sets(fit)
    BY <1>3 DEF Grow, Ensemble, sets
  <2>2. bias' \in Approx
    BY <1>3, ShrunkType DEF Grow, Types, Approx
  <2>3. /\ trees' \in Ensemble /\ non_symmetric_trees' \in Ensemble
        /\ region_trees' \in Ensemble
    BY <1>3, PushedType DEF Grow, Types
  <2>4. eval_approx' \in [sets(fit) -> Approx]
    BY <1>3, ShrunkType DEF Grow, Types, Approx
  <2>5. /\ iter' \in 0 .. fit.iterations
        /\ pc' \in {"loop", "eval"}
        /\ pc' = "eval" => iter' < fit.iterations /\ has_test(fit)
    BY <1>3, FitFields DEF Grow, Types
  <2>6. history' = history
    BY <1>3 DEF Grow
  <2> QED
    BY <2>1, <2>2, <2>3, <2>4, <2>5, <2>6 DEF Types, has_test
<1>4. CASE Evaluate
  <2>1. eval_approx' \in [sets(fit) -> Approx]
    BY <1>4, AdvancedType DEF Evaluate
  <2>2. history' \in [sets(fit) -> Seq(Values)]
    <3>1. ASSUME NEW s \in sets(fit)
          PROVE  Append(history[s], metric(s, advanced(s))) \in Seq(Values)
      <4>1. metric(s, advanced(s)) \in Values /\ history[s] \in Seq(Values)
        BY <1>4, MetricType DEF Evaluate, Types
      <4> QED
        BY <4>1, AppendProperties
    <3> QED
      BY <1>4, <3>1 DEF Evaluate
  <2>3. iter' \in 0 .. fit.iterations /\ pc' \in {"stopped", "loop"}
    BY <1>4, FitFields DEF Evaluate, Types
  <2>4. UNCHANGED <<fit, bias, trees, non_symmetric_trees, region_trees>>
    BY <1>4 DEF Evaluate
  <2> QED
    BY <2>1, <2>2, <2>3, <2>4 DEF Types, Ensemble, sets
<1>5. CASE EvaluateFails
  <2>1. eval_approx' \in [sets(fit) -> Approx]
    BY <1>5, AdvancedType DEF EvaluateFails
  <2>2. history' \in [sets(fit) -> Seq(Values)]
    <3>1. PICK s \in sets(fit) :
            /\ \A t \in 1 .. s - 1 : metric(t, advanced(t)) # MetricError
            /\ history' = [t \in sets(fit) |->
                             IF t < s THEN Append(history[t], metric(t, advanced(t)))
                             ELSE history[t]]
      BY <1>5 DEF EvaluateFails
    <3>2. ASSUME NEW t \in sets(fit), t < s
          PROVE  Append(history[t], metric(t, advanced(t))) \in Seq(Values)
      <4>1. t \in 1 .. s - 1
        BY <3>2, FitFields DEF sets, Types
      <4>2. metric(t, advanced(t)) \in Values /\ history[t] \in Seq(Values)
        BY <3>1, <4>1, MetricType DEF Types
      <4> QED
        BY <4>2, AppendProperties
    <3> QED
      BY <3>1, <3>2 DEF Types
  <2>3. pc' = "done" /\ UNCHANGED <<fit, iter, bias, trees, non_symmetric_trees, region_trees>>
    BY <1>5 DEF EvaluateFails, Done
  <2> QED
    BY <2>1, <2>2, <2>3 DEF Types, Ensemble, sets
<1>6. CASE Finish
  BY <1>6 DEF Finish, Done, Types, Ensemble
<1>7. CASE UNCHANGED vars
  BY <1>7 DEF vars, Types, Ensemble
<1> QED
  BY <1>1, <1>2, <1>3, <1>4, <1>5, <1>6, <1>7 DEF Next

-----------------------------------------------------------------------------
(* The tracker: its best error is the curve's first minimum.               *)
Logged == IF pc = "done" THEN best_model.next_index <= Len(history[1])
          ELSE best_model.next_index = Len(history[1])

FirstMinimum ==
  LET b == best_model.best_iteration + 1 IN
    /\ b <= best_model.next_index
    /\ best_model.best_error = history[1][b]
    /\ \A k \in 1 .. best_model.next_index : ~Less(history[1][k], best_model.best_error)
    /\ \A k \in 1 .. b - 1 : history[1][k] # NaN => Less(best_model.best_error, history[1][k])

Best ==
  /\ best_model \in [best_iteration : Nat \cup {-1}, best_error : Values, next_index : Nat]
  /\ best_model.best_iteration = -1 <=> best_model.next_index = 0
  /\ has_test(fit) => best_model.next_index = iter /\ Logged
  /\ ~has_test(fit) => best_model.next_index = 0
  /\ best_model.best_iteration # -1 => FirstMinimum

(* The detector: its maximum is the same iteration's error, negated.       *)
Watching ==
  /\ IsDetector(detector)
  /\ detector.wait = fit.od_wait
  /\ ~detector.active => detector.is_empty
  /\ detector.active => (detector.is_empty <=> best_model.best_iteration = -1)
  /\ ~detector.is_empty => detector.local_max = Negated(best_model.best_error)
  /\ DetectorFollowsBest
  /\ is_need_stop(detector) => SinceBest >= detector.wait
  /\ pc = "stopped" => is_need_stop(detector)

IInv == Types /\ Best /\ Watching

LEMMA InitInductive == Init => IInv
<1> SUFFICES ASSUME Init PROVE IInv
  OBVIOUS
<1>1. Types
  BY TypesInit
<1>2. Best
  <2>1. best_model = newTracker /\ NaN \in Values
    BY DEF Init, Values
  <2>2. has_test(fit) => history[1] = <<>> /\ iter = 0 /\ pc = "start"
    BY FitFields DEF Init
  <2>3. Len(<<>>) = 0
    OBVIOUS
  <2> QED
    BY <2>1, <2>2, <2>3 DEF Best, newTracker, Logged
<1>3. Watching
  <2>1. /\ detector = newDetector(fit.od_type, fit.od_pval, fit.od_wait, has_test(fit))
        /\ best_model.best_iteration = -1 /\ pc = "start"
    BY DEF Init, newTracker
  <2>2. /\ detector.is_empty = TRUE /\ detector.wait = fit.od_wait /\ detector.below = FALSE
        /\ detector.type = fit.od_type /\ detector.local_max = 0
        /\ detector.iterations_from_local_max = 0 /\ detector.deltas = <<>>
        /\ detector.active = activeWith(fit.od_type, fit.od_pval, has_test(fit))
        /\ detector = [f \in DetectorFields |-> detector[f]]
    BY <2>1 DEF newDetector, DetectorFields
  <2>3. detector.active \in BOOLEAN
    BY <2>2 DEF activeWith
  <2>4. IsDetector(detector)
    <3>1. Len(<<>>) = 0 /\ <<>> = [i \in 1 .. 0 |-> <<>>[i]]
      OBVIOUS
    <3>2. fit.od_type \in DetectorTypes /\ fit.od_wait \in Nat
      BY <1>1, FitFields DEF Types
    <3>3. /\ Len(detector.deltas) \in Nat
          /\ detector.deltas = [i \in 1 .. Len(detector.deltas) |-> detector.deltas[i]]
      BY <2>2, <3>1
    <3>4. /\ detector.iterations_from_local_max \in Nat /\ detector.local_max \in Values
          /\ detector.wait \in Nat /\ detector.type \in DetectorTypes
      <4>1. 0 \in Nat /\ 0 \in Values
        BY DEF Values
      <4> QED
        BY <2>2, <3>2, <4>1, Zenon
    <3>5. detector.is_empty \in BOOLEAN /\ detector.below \in BOOLEAN
      BY <2>2, Zenon
    <3> QED
      BY <2>2, <2>3, <3>3, <3>4, <3>5 DEF IsDetector
  <2> QED
    BY <2>1, <2>2, <2>4 DEF Watching, DetectorFollowsBest, is_need_stop
<1> QED
  BY <1>1, <1>2, <1>3 DEF IInv

\* A value below the best is below every other value of the curve.
LEMMA BelowTheBest ==
  ASSUME NEW a \in Int \cup {NaN}, NEW b \in Int \cup {NaN}, NEW c \in Int \cup {NaN},
         ~Less(a, b), Less(c, b)
  PROVE  ~Less(a, c) /\ (a # NaN => Less(c, a))
  BY DetectorAssumption DEF Less

(* Feeding a value: the tracker's test is the detector's.                  *)
Better(v) == best_model.best_iteration = -1 \/ Less(v, best_model.best_error)

LEMMA TrackFields ==
  ASSUME Best, NEW v \in Values
  PROVE  LET b == track(best_model, v) IN
           /\ b \in [best_iteration : Nat \cup {-1}, best_error : Values, next_index : Nat]
           /\ b.next_index = best_model.next_index + 1
           /\ b.best_iteration = IF Better(v) THEN best_model.next_index
                                 ELSE best_model.best_iteration
           /\ b.best_error = IF Better(v) THEN v ELSE best_model.best_error
  BY DEF Best, track, Better

(* A step that logs nothing on the primary set keeps the tracker's facts.  *)
LEMMA BestKept ==
  ASSUME Best, UNCHANGED <<fit, best_model>>, has_test(fit) => iter' = iter,
         history[1]' = history[1], pc # "done", has_test(fit) => Len(history[1]) \in Nat
  PROVE  Best'
<1>1. Logged' <=> IF pc' = "done" THEN best_model.next_index <= Len(history[1])
                  ELSE best_model.next_index = Len(history[1])
  BY DEF Logged
<1>2. has_test(fit) => Logged'
  BY <1>1 DEF Best, Logged
<1>3. FirstMinimum' <=> FirstMinimum
  BY DEF FirstMinimum
<1> QED
  BY <1>2, <1>3 DEF Best

LEMMA PrimaryCurve ==
  ASSUME Types, has_test(fit)
  PROVE  /\ 1 \in sets(fit)
         /\ history[1] \in Seq(Values) /\ Len(history[1]) \in Nat
         /\ \A k \in 1 .. Len(history[1]) : history[1][k] \in Values
<1>1. 1 \in sets(fit)
  BY FitFields DEF Types
<1>2. history[1] \in Seq(Values)
  BY <1>1 DEF Types
<1> QED
  BY <1>1, <1>2, LenProperties, ElementOfSeq

LEMMA AppendElements ==
  ASSUME NEW S, NEW s \in Seq(S), NEW x \in S
  PROVE  /\ Len(Append(s, x)) = Len(s) + 1
         /\ Append(s, x)[Len(s) + 1] = x
         /\ \A k \in 1 .. Len(s) : Append(s, x)[k] = s[k]
  BY AppendProperties

LEMMA BestEvaluate == IInv /\ Evaluate => Best'
<1> SUFFICES ASSUME IInv, Evaluate PROVE Best'
  OBVIOUS
<1> DEFINE v == metric(1, advanced(1))
           h == history[1]
           n == best_model.next_index
<1>1. /\ has_test(fit) /\ 1 \in sets(fit) /\ h \in Seq(Values) /\ Len(h) \in Nat
      /\ n = Len(h) /\ n = iter /\ pc = "eval"
      /\ \A k \in 1 .. n : h[k] \in Values
  BY PrimaryCurve DEF Evaluate, IInv, Types, Best, Logged
<1>2. v \in Values
  BY <1>1, MetricType DEF Evaluate, IInv
<1>3. history[1]' = Append(h, v)
  BY <1>1 DEF Evaluate
<1>4. /\ best_model' = track(best_model, v) /\ iter' = iter + 1 /\ fit' = fit
      /\ pc' # "done"
  BY DEF Evaluate
<1> HIDE DEF v
<1>5. /\ Len(history[1]') = n + 1 /\ history[1]'[n + 1] = v
      /\ \A k \in 1 .. n : history[1]'[k] = h[k]
  <2>1. /\ Len(Append(h, v)) = Len(h) + 1 /\ Append(h, v)[Len(h) + 1] = v
        /\ \A k \in 1 .. Len(h) : Append(h, v)[k] = h[k]
    <3> HIDE DEF h
    <3>1. h \in Seq(Values) /\ v \in Values
      BY <1>1, <1>2
    <3> QED
      BY <3>1, AppendElements
  <2> QED
    BY <1>1, <1>3, <2>1
<1>6. /\ best_model' \in [best_iteration : Nat \cup {-1}, best_error : Values, next_index : Nat]
      /\ best_model'.next_index = n + 1
      /\ best_model'.best_iteration = IF Better(v) THEN n ELSE best_model.best_iteration
      /\ best_model'.best_error = IF Better(v) THEN v ELSE best_model.best_error
  BY <1>2, <1>4, TrackFields DEF IInv
<1>7. n \in Nat /\ best_model.best_error \in Values /\ best_model.best_iteration \in Nat \cup {-1}
  BY DEF IInv, Best
<1>8. FirstMinimum'
  <2>1. CASE Better(v)
    <3>1. \A k \in 1 .. n : ~Less(h[k], v) /\ (h[k] # NaN => Less(v, h[k]))
      <4>1. CASE best_model.best_iteration = -1
        BY <4>1, <1>7 DEF IInv, Best
      <4>2. CASE best_model.best_iteration # -1
        <5>1. \A k \in 1 .. n : ~Less(h[k], best_model.best_error)
          BY <4>2 DEF IInv, Best, FirstMinimum
        <5>2. Less(v, best_model.best_error)
          BY <2>1, <4>2 DEF Better
        <5> QED
          <6> TAKE k \in 1 .. n
          <6>1. /\ h[k] \in Int \cup {NaN} /\ v \in Int \cup {NaN}
                /\ best_model.best_error \in Int \cup {NaN}
            BY <1>1, <1>2, <1>7 DEF Values
          <6>2. ~Less(h[k], best_model.best_error)
            BY <5>1
          <6> HIDE DEF h, n
          <6> QED
            BY <6>1, <6>2, <5>2, BelowTheBest
      <4> QED
        BY <4>1, <4>2
    <3>2. ~Less(v, v)
      BY <1>2, DetectorAssumption DEF Less, Values
    <3>3. best_model'.best_iteration = n /\ best_model'.best_error = v
      BY <2>1, <1>6
    <3>4. \A k \in 1 .. n + 1 : k \in 1 .. n \/ k = n + 1
      BY <1>7
    <3>5. \A k \in 1 .. n + 1 : ~Less(history[1]'[k], v)
      BY <3>1, <3>2, <3>4, <1>5
    <3>6. \A k \in 1 .. n + 1 - 1 : history[1]'[k] # NaN => Less(v, history[1]'[k])
      BY <3>1, <1>5, <1>7
    <3> QED
      BY <3>3, <3>5, <3>6, <1>5, <1>6, <1>7 DEF FirstMinimum
  <2>2. CASE ~Better(v)
    <3> DEFINE b == best_model.best_iteration + 1
    <3>1. /\ b \in 1 .. n
          /\ best_model.best_error = h[b]
          /\ \A k \in 1 .. n : ~Less(h[k], best_model.best_error)
          /\ \A k \in 1 .. b - 1 : h[k] # NaN => Less(best_model.best_error, h[k])
          /\ ~Less(v, best_model.best_error)
      BY <2>2, <1>7 DEF IInv, Best, FirstMinimum, Better
    <3>2. /\ best_model'.best_iteration + 1 = b /\ best_model'.best_error = best_model.best_error
          /\ best_model'.next_index = n + 1
      BY <2>2, <1>6
    <3>3. \A k \in 1 .. n + 1 : k \in 1 .. n \/ k = n + 1
      BY <1>7
    <3>4. \A k \in 1 .. b - 1 : k \in 1 .. n
      BY <3>1, <1>7
    <3> HIDE DEF b
    <3>5. \A k \in 1 .. n + 1 : ~Less(history[1]'[k], best_model.best_error)
      BY <3>1, <3>3, <1>5
    <3>6. \A k \in 1 .. b - 1 : history[1]'[k] # NaN => Less(best_model.best_error, history[1]'[k])
      BY <3>1, <3>4, <1>5
    <3>7. b <= n + 1 /\ history[1]'[b] = best_model.best_error
      BY <3>1, <1>5, <1>7
    <3> QED
      BY <3>2, <3>5, <3>6, <3>7 DEF FirstMinimum
  <2> QED
    BY <2>1, <2>2
<1>9. has_test(fit)' /\ Logged' /\ best_model'.next_index = iter'
  BY <1>1, <1>4, <1>5, <1>6 DEF Logged, has_test
<1>10. best_model'.best_iteration # -1 /\ best_model'.next_index # 0
  BY <1>6, <1>7 DEF Better
<1> QED
  BY <1>6, <1>8, <1>9, <1>10 DEF Best

LEMMA BestStep == IInv /\ [Next]_vars => Best'
<1> SUFFICES ASSUME IInv, [Next]_vars PROVE Best'
  OBVIOUS
<1>0. has_test(fit) => Len(history[1]) \in Nat
  BY PrimaryCurve DEF IInv
<1>1. CASE Start
  BY <1>1, <1>0, BestKept DEF Start, IInv, watch
<1>2. CASE Reject
  BY <1>2, <1>0, BestKept DEF Reject, Done, IInv, watch
<1>3. ASSUME NEW tree \in [sets(fit) -> Steps], Grow(tree) PROVE Best'
  BY <1>3, <1>0, BestKept DEF Grow, IInv, watch
<1>4. CASE Evaluate
  BY <1>4, BestEvaluate
<1>5. CASE EvaluateFails
  <2>1. PICK s \in sets(fit) :
          /\ \A t \in 1 .. s - 1 : metric(t, advanced(t)) # MetricError
          /\ history' = [t \in sets(fit) |->
                           IF t < s THEN Append(history[t], metric(t, advanced(t)))
                           ELSE history[t]]
    BY <1>5 DEF EvaluateFails
  <2>2. /\ UNCHANGED <<fit, best_model, iter>> /\ pc' = "done" /\ pc = "eval" /\ has_test(fit)
    BY <1>5 DEF EvaluateFails, Done, IInv, Types
  <2>3. /\ 1 \in sets(fit) /\ history[1] \in Seq(Values) /\ Len(history[1]) \in Nat
        /\ best_model.next_index = Len(history[1]) /\ best_model.next_index = iter
    BY <2>2, PrimaryCurve DEF IInv, Best, Logged
  <2>4. CASE ~(1 < s)
    <3>1. history[1]' = history[1]
      BY <2>1, <2>3, <2>4
    <3> QED
      BY <3>1, <2>2, <1>0, BestKept DEF IInv
  <2>5. CASE 1 < s
    <3> DEFINE v == metric(1, advanced(1))
    <3>1. v \in Values
      <4>1. 1 \in 1 .. s - 1
        BY <2>5, FitFields DEF sets, IInv, Types
      <4> QED
        BY <2>1, <2>3, <4>1, MetricType DEF IInv
    <3>2. history[1]' = Append(history[1], v)
      BY <2>1, <2>3, <2>5
    <3> HIDE DEF v
    <3>3. /\ Len(history[1]') = Len(history[1]) + 1
          /\ \A k \in 1 .. Len(history[1]) : history[1]'[k] = history[1][k]
      <4> DEFINE h == history[1]
      <4>1. h \in Seq(Values) /\ history[1]' = Append(h, v)
        BY <2>3, <3>2
      <4> HIDE DEF h
      <4>2. /\ Len(Append(h, v)) = Len(h) + 1
            /\ \A k \in 1 .. Len(h) : Append(h, v)[k] = h[k]
        BY <3>1, <4>1, AppendElements
      <4> QED
        BY <4>1, <4>2 DEF h
    <3>4. best_model.best_iteration # -1 => FirstMinimum'
      <4> SUFFICES ASSUME best_model.best_iteration # -1 PROVE FirstMinimum'
        OBVIOUS
      <4> DEFINE b == best_model.best_iteration + 1
      <4>1. /\ FirstMinimum
            /\ b \in 1 .. Len(history[1]) /\ \A k \in 1 .. b - 1 : k \in 1 .. Len(history[1])
        BY <2>3 DEF FirstMinimum, IInv, Best
      <4> HIDE DEF b
      <4> QED
        BY <4>1, <2>2, <2>3, <3>3 DEF FirstMinimum, b
    <3>5. has_test(fit)' /\ best_model'.next_index = iter' /\ Logged'
      <4> DEFINE l == Len(history[1])
                 m == Len(history[1]')
      <4>1. m = l + 1 /\ l \in Nat /\ best_model.next_index = l
        BY <2>3, <3>3
      <4> HIDE DEF l
      <4>2. best_model'.next_index <= m
        BY <4>1, <2>2
      <4> QED
        BY <2>2, <2>3, <4>2 DEF Logged, has_test
    <3> QED
      BY <3>4, <3>5, <2>2 DEF IInv, Best
  <2> QED
    BY <2>4, <2>5
<1>6. CASE Finish
  BY <1>6, <1>0, BestKept DEF Finish, Done, IInv, watch
<1>7. CASE UNCHANGED vars
  BY <1>7 DEF vars, watch, IInv, Best, FirstMinimum, Logged
<1> QED
  BY <1>1, <1>2, <1>3, <1>4, <1>5, <1>6, <1>7 DEF Next

-----------------------------------------------------------------------------
LEMMA WatchingEvaluate == IInv /\ Evaluate => Watching'
<1> SUFFICES ASSUME IInv, Evaluate PROVE Watching'
  OBVIOUS
<1> DEFINE v == metric(1, advanced(1))
           d == detector
           e == add_error(detector, v)
           improves == Improves(detector, Negated(v))
<1>1. v \in Values
  BY PrimaryCurve, MetricType DEF Evaluate, IInv, Types
<1>2. /\ best_model' = track(best_model, v) /\ detector' = e /\ fit' = fit
      /\ pc' = IF is_need_stop(detector') THEN "stopped" ELSE "loop"
  BY DEF Evaluate
<1> HIDE DEF v
<1>3. /\ IsDetector(d) /\ d.wait = fit.od_wait
      /\ d.active \in BOOLEAN
  BY DEF IInv, Watching, IsDetector
<1>4. /\ IsDetector(e)
      /\ e.type = d.type /\ e.active = d.active /\ e.wait = d.wait
      /\ ~d.active => e = d
      /\ d.active =>
           /\ ~e.is_empty
           /\ e.local_max = IF improves THEN Negated(v) ELSE d.local_max
      /\ d.active /\ d.type = "Wilcoxon" =>
           /\ Len(e.deltas) = IF improves THEN 0 ELSE Len(d.deltas) + 1
           /\ e.below => Len(e.deltas) >= e.wait
      /\ d.active /\ d.type # "Wilcoxon" =>
           /\ e.iterations_from_local_max =
                IF improves THEN 0 ELSE d.iterations_from_local_max + 1
           /\ e.below => e.iterations_from_local_max >= e.wait
  BY <1>1, <1>3, AddError
<1>5. /\ best_model'.next_index = best_model.next_index + 1
      /\ best_model'.best_iteration = IF Better(v) THEN best_model.next_index
                                      ELSE best_model.best_iteration
      /\ best_model'.best_error = IF Better(v) THEN v ELSE best_model.best_error
      /\ best_model.next_index \in Nat /\ best_model.best_iteration \in Nat \cup {-1}
      /\ best_model.best_error \in Values
      /\ Better(v) \in BOOLEAN
  BY <1>1, <1>2, TrackFields DEF IInv, Best, Better, Less
<1> HIDE DEF e
<1>6. CASE ~d.active
  <2>1. d.is_empty /\ e = d
    BY <1>4, <1>6 DEF IInv, Watching
  <2> QED
    BY <1>2, <1>3, <1>6, <2>1 DEF Watching, DetectorFollowsBest, is_need_stop
<1>7. CASE d.active
  <2>1. improves <=> Better(v)
    <3>1. CASE d.is_empty
      BY <1>7, <3>1 DEF IInv, Watching, Improves, Better
    <3>2. CASE ~d.is_empty
      <4>1. d.local_max = Negated(best_model.best_error) /\ best_model.best_iteration # -1
        BY <1>7, <3>2 DEF IInv, Watching
      <4>2. Less(Negated(best_model.best_error), Negated(v)) <=> Less(v, best_model.best_error)
        BY <1>1, <1>5, DetectorAssumption DEF Less, Negated, Values
      <4> QED
        BY <3>2, <4>1, <4>2 DEF Improves, Better
    <3> QED
      BY <3>1, <3>2
  <2> HIDE DEF improves, d
  <2>2. best_model'.best_iteration # -1
    BY <1>5 DEF Better
  <2>3. ~Better(v) => ~d.is_empty
    BY <1>7 DEF IInv, Watching, Better, d
  <2>4. e.local_max = Negated(best_model'.best_error)
    BY <1>4, <1>5, <1>7, <2>1, <2>3 DEF IInv, Watching, d
  <2>5. SinceBest' = IF Better(v) THEN 0 ELSE SinceBest + 1
    BY <1>5 DEF SinceBest
  <2>6. IF d.type = "Wilcoxon" THEN Len(e.deltas) = SinceBest'
        ELSE e.iterations_from_local_max = SinceBest'
    <3>1. ~Better(v) => IF d.type = "Wilcoxon" THEN Len(d.deltas) = SinceBest
                        ELSE d.iterations_from_local_max = SinceBest
      BY <1>7, <2>3 DEF IInv, Watching, DetectorFollowsBest, d
    <3> QED
      BY <1>4, <1>7, <2>1, <2>5, <3>1
  <2>7. e.below => SinceBest' >= e.wait
    BY <1>4, <1>7, <2>6
  <2> QED
    BY <1>2, <1>3, <1>4, <1>7, <2>2, <2>4, <2>6, <2>7
      DEF Watching, DetectorFollowsBest, is_need_stop, d
<1> QED
  BY <1>3, <1>6, <1>7

LEMMA WatchingStep == IInv /\ [Next]_vars => Watching'
<1> SUFFICES ASSUME IInv, [Next]_vars PROVE Watching'
  OBVIOUS
<1>1. CASE Evaluate
  BY <1>1, WatchingEvaluate
<1>2. CASE ~Evaluate
  <2>1. UNCHANGED <<fit, detector, best_model>> /\ (pc' = "stopped" => pc = "stopped")
    BY <1>2 DEF Next, vars, watch, Start, Reject, Grow, EvaluateFails, Finish, Done
  <2> QED
    BY <2>1 DEF IInv, Watching, DetectorFollowsBest, SinceBest
<1> QED
  BY <1>1, <1>2

(* The tracker and the detector, together with the types, are inductive.   *)
THEOREM Inductive == Spec => []IInv
<1>1. IInv /\ [Next]_vars => IInv'
  BY TypesStep, BestStep, WatchingStep DEF IInv
<1> QED
  BY <1>1, InitInductive, PTL DEF Spec

(* The types of a fit, and one value fed per completed iteration           *)
(* (boosting.rs:8982).                                                     *)
THEOREM TypeCorrect == Spec => []TypeOK
<1>1. IInv => TypeOK
  <2> SUFFICES ASSUME IInv PROVE TypeOK
    OBVIOUS
  <2>1. bias \in Nat /\ eval_approx \in [sets(fit) -> Nat]
    BY DEF IInv, Types, Approx
  <2>2. best_model.best_iteration \in -1 .. best_model.next_index - 1
    BY DEF IInv, Best, FirstMinimum
  <2> QED
    BY <2>1, <2>2 DEF TypeOK, IInv, Types, Best, Values
<1> QED
  BY <1>1, Inductive, PTL

(* The best iteration is the first minimum of the primary curve, NaN and   *)
(* ties included (overfit.rs:318).                                         *)
THEOREM TrackerKeepsFirstMinimum == Spec => []BestIsFirstMinimum
<1>1. IInv => BestIsFirstMinimum
  <2> SUFFICES ASSUME IInv, best_model.best_iteration >= 0 PROVE BestIsFirstMinimum
    BY DEF BestIsFirstMinimum
  <2> DEFINE n == best_model.next_index
             b == best_model.best_iteration + 1
  <2>1. best_model.best_iteration # -1 /\ FirstMinimum /\ has_test(fit) /\ n \in Nat
    BY DEF IInv, Best
  <2>2. n <= Len(history[1]) /\ \A k \in 1 .. Len(history[1]) : history[1][k] \in Values
    BY <2>1, PrimaryCurve DEF IInv, Best, Logged
  <2>3. /\ primary \in Seq(Values) /\ Len(primary) = n
        /\ \A k \in 1 .. n : primary[k] = history[1][k]
    <3>1. \A k \in 1 .. n : history[1][k] \in Values
      BY <2>1, <2>2, PrimaryCurve DEF IInv
    <3> QED
      BY <2>1, <3>1, SubSeqProperties DEF primary
  <2>4. DOMAIN primary = 1 .. n
    BY <2>3, LenProperties
  <2>5. b \in 1 .. n /\ \A k \in 1 .. b - 1 : k \in 1 .. n
    BY <2>1 DEF FirstMinimum, IInv, Best
  <2> HIDE DEF n, b
  <2>6. primary[b] = best_model.best_error
    BY <2>1, <2>3, <2>5 DEF FirstMinimum, b
  <2>7. \A k \in DOMAIN primary : ~Less(primary[k], primary[b])
    BY <2>1, <2>3, <2>4, <2>6 DEF FirstMinimum, n
  <2>8. \A k \in 1 .. b - 1 : primary[k] # NaN => Less(primary[b], primary[k])
    BY <2>1, <2>3, <2>5, <2>6 DEF FirstMinimum, b
  <2> QED
    BY <2>7, <2>8 DEF BestIsFirstMinimum, b
<1> QED
  BY <1>1, Inductive, PTL

(* Detector and tracker count from the same iteration (overfit.rs:235,     *)
(* 280), whatever the metric and the detector's type.                      *)
THEOREM DetectorCountsFromBest == Spec => []DetectorFollowsBest
<1>1. IInv => DetectorFollowsBest
  BY DEF IInv, Watching
<1> QED
  BY <1>1, Inductive, PTL

(* No fit stops sooner than od_wait iterations after its best              *)
(* (boosting.rs:9030).                                                     *)
THEOREM NoEarlyStop == Spec => []StopRespectsWait
<1>1. IInv => StopRespectsWait
  BY DEF IInv, Watching, StopRespectsWait
<1> QED
  BY <1>1, Inductive, PTL

-----------------------------------------------------------------------------
(* A number is the remainder of only one below the modulus.                *)
LEMMA Remainder ==
  ASSUME NEW m \in Nat \ {0}, NEW q \in Int, NEW r \in 0 .. m - 1, NEW x \in Int, x = m * q + r
  PROVE  x % m = r
<1> DEFINE p == x \div m
           s == x % m
<1>1. p \in Int /\ s \in 0 .. m - 1 /\ x = m * p + s
  OBVIOUS
<1> HIDE DEF p, s
<1>2. m * (p - q) = r - s
  BY <1>1
<1>3. CASE p - q >= 1
  <2>1. m * (p - q) >= m
    BY <1>1, <1>3
  <2> QED  BY <1>1, <1>2, <2>1
<1>4. CASE p - q <= -1
  <2>1. m * (p - q) <= -m
    BY <1>1, <1>4
  <2> QED  BY <1>1, <1>2, <2>1
<1>5. CASE p - q = 0
  BY <1>1, <1>2, <1>5 DEF s
<1> QED  BY <1>1, <1>3, <1>4, <1>5

(* Dividing gives a quotient and a remainder.                              *)
LEMMA RemainderOf ==
  ASSUME NEW m \in Nat \ {0}, NEW x \in Nat
  PROVE  \E q \in Nat : \E r \in 0 .. m - 1 : x = m * q + r /\ x % m = r
<1> DEFINE p == x \div m
           s == x % m
<1>1. p \in Int /\ s \in 0 .. m - 1 /\ x = m * p + s
  OBVIOUS
<1> HIDE DEF p, s
<1>2. p >= 0
  <2> SUFFICES ASSUME p <= -1 PROVE FALSE
    BY <1>1
  <2>1. m * p <= -m
    BY <1>1
  <2> QED  BY <1>1, <2>1
<1>3. p \in Nat /\ s = x % m
  BY <1>1, <1>2 DEF s
<1> QED  BY <1>1, <1>3, Zenon

(* Remainders may be taken before a sum.                                   *)
LEMMA RemainderOfSum ==
  ASSUME NEW m \in Nat \ {0}, NEW a \in Nat, NEW b \in Nat
  PROVE  ((a % m) + b) % m = (a + b) % m
<1>1. PICK q \in Nat, r \in 0 .. m - 1 : a = m * q + r /\ a % m = r
  BY RemainderOf
<1>2. PICK p \in Nat, s \in 0 .. m - 1 : r + b = m * p + s /\ (r + b) % m = s
  <2>1. r + b \in Nat
    OBVIOUS
  <2> QED  BY <2>1, RemainderOf
<1>3. a + b = m * (q + p) + s /\ q + p \in Int /\ a + b \in Int
  BY <1>1, <1>2
<1>4. (a + b) % m = s
  BY <1>3, Remainder
<1> QED  BY <1>1, <1>2, <1>4

(* Remainders may be taken before a product.                               *)
LEMMA RemainderOfProduct ==
  ASSUME NEW m \in Nat \ {0}, NEW a \in Nat, NEW k \in Nat
  PROVE  ((a % m) * k) % m = (a * k) % m
<1>1. PICK q \in Nat, r \in 0 .. m - 1 : a = m * q + r /\ a % m = r
  BY RemainderOf
<1>2. PICK p \in Nat, s \in 0 .. m - 1 : r * k = m * p + s /\ (r * k) % m = s
  <2>1. r * k \in Nat
    OBVIOUS
  <2> QED  BY <2>1, RemainderOf
<1>3. q * k \in Nat
  OBVIOUS
<1>4. a * k = m * (q * k) + r * k
  BY <1>1
<1>5. a * k = m * (q * k + p) + s /\ q * k + p \in Int /\ a * k \in Int
  BY <1>2, <1>3, <1>4
<1>6. (a * k) % m = s
  BY <1>5, Remainder
<1> QED  BY <1>1, <1>2, <1>6

(* Shrinkage distributes over what a tree adds.                            *)
LEMMA ShrunkSum ==
  ASSUME NEW x \in Nat, NEW y \in Nat
  PROVE  Shrunk((x + y) % Modulus) = (Shrunk(x) + Shrunk(y)) % Modulus
<1> DEFINE m == Modulus
           k == Multiplier
<1>1. m \in Nat \ {0} /\ k \in Nat
  BY MetricAssumption
<1> HIDE DEF m, k
<1> DEFINE X == x * k
           Y == y * k
<1>2. X \in Nat /\ Y \in Nat /\ x + y \in Nat /\ (x + y) * k = Y + X
  BY <1>1
<1>3. (((x + y) % m) * k) % m = ((x + y) * k) % m
  <2> DEFINE Z == x + y
  <2>1. Z \in Nat
    BY <1>2
  <2> HIDE DEF Z
  <2>2. ((Z % m) * k) % m = (Z * k) % m
    BY <1>1, <2>1, RemainderOfProduct
  <2> QED  BY <2>2 DEF Z
<1> HIDE DEF X, Y
<1>4. Y % m \in Nat /\ X % m \in Nat
  BY <1>1, <1>2
<1>5. ((X % m) + (Y % m)) % m = (X + (Y % m)) % m
  BY <1>1, <1>2, <1>4, RemainderOfSum
<1>6. ((Y % m) + X) % m = (Y + X) % m
  BY <1>1, <1>2, RemainderOfSum
<1>7. X + (Y % m) = (Y % m) + X
  BY <1>1, <1>2, <1>4
<1>8. ((X % m) + (Y % m)) % m = (Y + X) % m
  BY <1>5, <1>6, <1>7
<1>9. Shrunk((x + y) % m) = (Y + X) % m
  BY <1>2, <1>3 DEF Shrunk, m, k
<1>10. Shrunk(x) = X % m /\ Shrunk(y) = Y % m
  BY DEF Shrunk, X, Y, m, k
<1> QED  BY <1>8, <1>9, <1>10 DEF m

-----------------------------------------------------------------------------
(* The partial sums of a model on a set.                                   *)
Sums(f, b, ts, s, n) ==
  /\ f \in [0 .. n -> Nat] /\ f[0] = b
  /\ \A k \in 1 .. n : f[k] = (f[k - 1] + ts[k][s]) % Modulus

(* A model adds up: the recursion of Applied has a solution.               *)
LEMMA SumsExist ==
  ASSUME NEW S, NEW s \in S, NEW b \in Nat, NEW ts \in Seq([S -> Nat])
  PROVE  \E f : Sums(f, b, ts, s, Len(ts))
<1> DEFINE n == Len(ts)
           Summed == {k \in Nat : k <= n => \E f : Sums(f, b, ts, s, k)}
<1>1. n \in Nat /\ \A k \in 1 .. n : ts[k][s] \in Nat
  BY LenProperties, ElementOfSeq
<1> HIDE DEF n
<1>2. 0 \in Summed
  <2>1. Sums([i \in 0 .. 0 |-> b], b, ts, s, 0)
    BY DEF Sums
  <2> QED  BY <2>1
<1>3. ASSUME NEW k \in Nat, k \in Summed PROVE k + 1 \in Summed
  <2> SUFFICES ASSUME k + 1 <= n PROVE \E f : Sums(f, b, ts, s, k + 1)
    OBVIOUS
  <2>1. PICK f : Sums(f, b, ts, s, k)
    BY <1>1, <1>3
  <2> DEFINE v == (f[k] + ts[k + 1][s]) % Modulus
             g == [i \in 0 .. k + 1 |-> IF i = k + 1 THEN v ELSE f[i]]
  <2>2. v \in Nat
    <3>1. f[k] + ts[k + 1][s] \in Nat
      <4>1. f[k] \in Nat
        BY <2>1 DEF Sums
      <4>2. ts[k + 1][s] \in Nat
        BY <1>1
      <4> QED  BY <4>1, <4>2
    <3> QED  BY <3>1, ModuloType DEF Approx
  <2>3. g \in [0 .. k + 1 -> Nat] /\ g[0] = b
    <3> HIDE DEF v
    <3> QED  BY <2>1, <2>2 DEF Sums
  <2>4. ASSUME NEW i \in 1 .. k + 1 PROVE g[i] = (g[i - 1] + ts[i][s]) % Modulus
    <3>1. g[i - 1] = f[i - 1]
      OBVIOUS
    <3>2. CASE i = k + 1
      <4>1. g[i] = v
        BY <3>2
      <4>2. i - 1 = k
        BY <3>2
      <4> HIDE DEF g
      <4> QED  BY <3>1, <3>2, <4>1, <4>2
    <3>3. CASE i # k + 1
      <4>1. i \in 1 .. k /\ g[i] = f[i]
        BY <3>3
      <4> HIDE DEF g, v
      <4> QED  BY <2>1, <3>1, <4>1 DEF Sums
    <3> QED  BY <3>2, <3>3
  <2> HIDE DEF g
  <2> QED  BY <2>3, <2>4 DEF Sums
<1>4. Nat \subseteq Summed
  <2> HIDE DEF Summed
  <2> QED  BY <1>2, <1>3, SetInduction
<1> QED  BY <1>1, <1>4 DEF n

(* Applied is where such a recursion ends.                                 *)
LEMMA AppliedIsSum ==
  ASSUME NEW S, NEW s \in S, NEW b \in Nat, NEW ts \in Seq([S -> Nat])
  PROVE  \E f : Sums(f, b, ts, s, Len(ts)) /\ Applied(b, ts, s) = f[Len(ts)]
<1> DEFINE n == Len(ts)
           Rec(g) == g = [k \in 0 .. n |-> IF k = 0 THEN b
                                            ELSE (g[k - 1] + ts[k][s]) % Modulus]
           sum == CHOOSE g : Rec(g)
<1>1. n \in Nat
  BY LenProperties
<1>2. PICK f : Sums(f, b, ts, s, n)
  BY SumsExist
<1> HIDE DEF n
<1>3. Rec(f)
  BY <1>2 DEF Sums
<1>4. Rec(sum)
  <2> HIDE DEF Rec
  <2> QED  BY <1>3
<1>5. Applied(b, ts, s) = sum[n]
  BY DEF Applied, n
<1> HIDE DEF sum
<1>6. \A k \in 0 .. n : sum[k] = IF k = 0 THEN b ELSE (sum[k - 1] + ts[k][s]) % Modulus
  BY <1>4
<1> DEFINE Same == {k \in Nat : k <= n => sum[k] = f[k]}
<1>7. 0 \in Same
  BY <1>1, <1>2, <1>6 DEF Sums
<1>8. ASSUME NEW k \in Nat, k \in Same PROVE k + 1 \in Same
  <2> SUFFICES ASSUME k + 1 <= n PROVE sum[k + 1] = f[k + 1]
    OBVIOUS
  <2>1. k + 1 \in 0 .. n /\ k + 1 \in 1 .. n /\ k + 1 # 0 /\ (k + 1) - 1 = k /\ sum[k] = f[k]
    BY <1>1, <1>8
  <2>2. sum[k + 1] = (sum[k] + ts[k + 1][s]) % Modulus
    BY <1>6, <2>1
  <2>3. f[k + 1] = (f[k] + ts[k + 1][s]) % Modulus
    BY <1>2, <2>1 DEF Sums
  <2> QED  BY <2>1, <2>2, <2>3
<1>9. Nat \subseteq Same
  <2> HIDE DEF Same
  <2> QED  BY <1>7, <1>8, SetInduction
<1> QED  BY <1>1, <1>2, <1>5, <1>9 DEF n

(* Two models that begin alike add up alike as far as they do.             *)
LEMMA SumsAgree ==
  ASSUME NEW S, NEW s \in S, NEW b, NEW n \in Nat, NEW m \in Nat, n <= m,
         NEW ts, NEW us, \A k \in 1 .. n : ts[k] = us[k],
         NEW f, Sums(f, b, ts, s, n), NEW h, Sums(h, b, us, s, m)
  PROVE  f[n] = h[n]
<1> DEFINE Same == {k \in Nat : k <= n => f[k] = h[k]}
<1>1. 0 \in Same
  BY DEF Sums
<1>2. ASSUME NEW k \in Nat, k \in Same PROVE k + 1 \in Same
  <2> SUFFICES ASSUME k + 1 <= n PROVE f[k + 1] = h[k + 1]
    OBVIOUS
  <2>1. k + 1 \in 1 .. n /\ k + 1 \in 1 .. m /\ (k + 1) - 1 = k /\ f[k] = h[k]
    BY <1>2
  <2>2. f[k + 1] = (f[k] + ts[k + 1][s]) % Modulus
    BY <2>1 DEF Sums
  <2>3. h[k + 1] = (h[k] + us[k + 1][s]) % Modulus
    BY <2>1 DEF Sums
  <2> QED  BY <2>1, <2>2, <2>3
<1>3. Nat \subseteq Same
  <2> HIDE DEF Same
  <2> QED  BY <1>1, <1>2, SetInduction
<1> QED  BY <1>3

(* What a model predicts is a number.                                      *)
LEMMA AppliedType ==
  ASSUME NEW S, NEW s \in S, NEW b \in Nat, NEW ts \in Seq([S -> Nat])
  PROVE  Applied(b, ts, s) \in Nat
<1>1. PICK f : Sums(f, b, ts, s, Len(ts)) /\ Applied(b, ts, s) = f[Len(ts)]
  BY AppliedIsSum
<1> QED  BY <1>1, LenProperties DEF Sums

(* A model without trees predicts the starting bias.                       *)
LEMMA AppliedEmpty == ASSUME NEW s, NEW b \in Nat PROVE Applied(b, <<>>, s) = b
<1>1. <<>> \in Seq([{s} -> Nat]) /\ Len(<<>>) = 0
  BY EmptySeq
<1>2. PICK f : Sums(f, b, <<>>, s, Len(<<>>)) /\ Applied(b, <<>>, s) = f[Len(<<>>)]
  BY <1>1, AppliedIsSum
<1> QED  BY <1>1, <1>2 DEF Sums

(* One tree more adds that tree's value.                                   *)
LEMMA AppliedAppend ==
  ASSUME NEW S, NEW s \in S, NEW b \in Nat, NEW ts \in Seq([S -> Nat]), NEW t \in [S -> Nat]
  PROVE  Applied(b, Append(ts, t), s) = (Applied(b, ts, s) + t[s]) % Modulus
<1> DEFINE us == Append(ts, t)
           n == Len(ts)
<1>1. us \in Seq([S -> Nat]) /\ Len(us) = n + 1 /\ n \in Nat /\ us[n + 1] = t
      /\ \A k \in 1 .. n : us[k] = ts[k]
  BY LenProperties, AppendProperties
<1> HIDE DEF us
<1>2. PICK f : Sums(f, b, ts, s, n) /\ Applied(b, ts, s) = f[n]
  BY AppliedIsSum
<1>3. PICK h : Sums(h, b, us, s, n + 1) /\ Applied(b, us, s) = h[n + 1]
  <2>1. \E h : Sums(h, b, us, s, Len(us)) /\ Applied(b, us, s) = h[Len(us)]
    BY <1>1, AppliedIsSum
  <2> QED  BY <1>1, <2>1
<1> HIDE DEF n
<1>4. f[n] = h[n]
  <2>1. n + 1 \in Nat /\ n <= n + 1
    BY <1>1
  <2> QED  BY <1>1, <1>2, <1>3, <2>1, SumsAgree
<1>5. n + 1 \in 1 .. n + 1 /\ (n + 1) - 1 = n
  BY <1>1
<1>6. h[n + 1] = (h[n] + us[n + 1][s]) % Modulus
  BY <1>3, <1>5 DEF Sums
<1> QED  BY <1>1, <1>2, <1>3, <1>4, <1>6 DEF us

(* A shrunk model adds up to the shrunk sum.                               *)
LEMMA AppliedShrunk ==
  ASSUME NEW S, NEW s \in S, NEW b \in Nat, NEW ts \in Seq([S -> Nat]),
         ShrunkTrees(ts) \in Seq([S -> Nat])
  PROVE  Applied(Shrunk(b), ShrunkTrees(ts), s) = Shrunk(Applied(b, ts, s))
<1> DEFINE us == ShrunkTrees(ts)
           n == Len(ts)
<1>1. n \in Nat /\ \A k \in 1 .. n : ts[k] \in [S -> Nat]
  BY LenProperties, ElementOfSeq
<1>2. DOMAIN ts = 1 .. n /\ DOMAIN us = 1 .. n
  BY LenProperties DEF ShrunkTrees
<1>3. Len(us) = n
  BY <1>1, <1>2, LenProperties
<1>4. \A k \in 1 .. n : us[k][s] = Shrunk(ts[k][s]) /\ ts[k][s] \in Nat
  BY <1>1, <1>2 DEF ShrunkTrees
<1>5. Shrunk(b) \in Nat
  BY ShrunkType
<1> HIDE DEF us
<1>6. PICK f : Sums(f, b, ts, s, n) /\ Applied(b, ts, s) = f[n]
  BY AppliedIsSum
<1>7. PICK h : Sums(h, Shrunk(b), us, s, n) /\ Applied(Shrunk(b), us, s) = h[n]
  BY <1>3, <1>5, AppliedIsSum DEF us
<1> HIDE DEF n
<1> DEFINE Same == {k \in Nat : k <= n => h[k] = Shrunk(f[k])}
<1>8. 0 \in Same
  BY <1>6, <1>7 DEF Sums
<1>9. ASSUME NEW k \in Nat, k \in Same PROVE k + 1 \in Same
  <2> SUFFICES ASSUME k + 1 <= n PROVE h[k + 1] = Shrunk(f[k + 1])
    OBVIOUS
  <2>0. n \in Nat /\ k <= n /\ k + 1 \in 1 .. n /\ k \in 0 .. n /\ (k + 1) - 1 = k
    <3>1. n \in Nat
      BY <1>1
    <3> QED  BY <3>1
  <2>1. k + 1 \in 1 .. n /\ k \in 0 .. n /\ (k + 1) - 1 = k /\ h[k] = Shrunk(f[k])
    BY <1>9, <2>0
  <2>2. f[k + 1] = (f[k] + ts[k + 1][s]) % Modulus
    BY <1>6, <2>1 DEF Sums
  <2>3. h[k + 1] = (h[k] + us[k + 1][s]) % Modulus
    BY <1>7, <2>1 DEF Sums
  <2>4. f[k] \in Nat
    BY <1>6, <2>1 DEF Sums
  <2>5. us[k + 1][s] = Shrunk(ts[k + 1][s]) /\ ts[k + 1][s] \in Nat
    BY <1>4, <2>1
  <2>6. Shrunk((f[k] + ts[k + 1][s]) % Modulus) = (Shrunk(f[k]) + Shrunk(ts[k + 1][s])) % Modulus
    BY <2>4, <2>5, ShrunkSum
  <2> QED  BY <2>1, <2>2, <2>3, <2>5, <2>6
<1>10. Nat \subseteq Same
  <2> HIDE DEF Same
  <2> QED  BY <1>8, <1>9, SetInduction
<1> QED  BY <1>1, <1>6, <1>7, <1>10 DEF us

-----------------------------------------------------------------------------
(* The trees of a fit: the ensemble its policy fills, the others empty.    *)
own == CASE fit.policy = "SymmetricTree" -> trees
         [] fit.policy = "Region" -> region_trees
         [] OTHER -> non_symmetric_trees

(* A policy fills its own ensemble and leaves the others empty.            *)
OneEnsemble ==
  /\ fit.policy # "SymmetricTree" => trees = <<>>
  /\ fit.policy \notin {"Lossguide", "Depthwise"} => non_symmetric_trees = <<>>
  /\ fit.policy # "Region" => region_trees = <<>>

(* The grow policies a fit can have.                                       *)
LEMMA Policies ==
  ASSUME fit \in Fits
  PROVE  fit.policy \in {"SymmetricTree", "Lossguide", "Depthwise", "Region"}
  BY FitAssumption DEF FitOK

(* The three ensembles in a row are the one that is filled.                *)
LEMMA OwnIsEnsemble ==
  ASSUME Types, OneEnsemble
  PROVE  ensemble = own /\ own \in Ensemble
<1>1. own \in Ensemble
  BY DEF Types, own
<1>2. \A ts \in Ensemble : ts \o <<>> = ts /\ <<>> \o ts = ts
  BY ConcatEmptySeq DEF Ensemble
<1>3. trees \in Ensemble /\ region_trees \in Ensemble /\ non_symmetric_trees \in Ensemble
  BY DEF Types
<1>4. fit.policy \in {"SymmetricTree", "Lossguide", "Depthwise", "Region"}
  BY Policies DEF Types
<1>5. CASE fit.policy = "SymmetricTree"
  <2>1. ensemble = trees
    BY <1>2, <1>3, <1>5 DEF OneEnsemble, ensemble
  <2> QED  BY <1>1, <1>5, <2>1 DEF own
<1>6. CASE fit.policy = "Region"
  <2>1. ensemble = region_trees
    BY <1>2, <1>3, <1>6 DEF OneEnsemble, ensemble
  <2> QED  BY <1>1, <1>6, <2>1 DEF own
<1>7. CASE fit.policy \in {"Lossguide", "Depthwise"}
  <2>1. ensemble = non_symmetric_trees
    BY <1>2, <1>3, <1>7 DEF OneEnsemble, ensemble
  <2> QED  BY <1>1, <1>7, <2>1 DEF own
<1> QED  BY <1>4, <1>5, <1>6, <1>7

(* What one iteration makes of it.                                         *)
Grown(tree) == Append(IF shrinks THEN ShrunkTrees(own) ELSE own, tree)

(* An iteration extends the ensemble of the policy alone.                  *)
LEMMA GrowPushes ==
  ASSUME Types, OneEnsemble, NEW tree \in [sets(fit) -> Steps], Grow(tree)
  PROVE  OneEnsemble' /\ own' = Grown(tree)
<1>1. fit.policy \in {"SymmetricTree", "Lossguide", "Depthwise", "Region"}
  BY Policies DEF Types
<1>2. ShrunkTrees(<<>>) = <<>>
  BY DEF ShrunkTrees
<1>3. pushed(<<>>, tree, FALSE) = <<>>
  BY <1>2 DEF pushed
<1>4. fit' = fit
  BY DEF Grow
<1>5. fit.policy # "SymmetricTree" => trees' = <<>>
  BY <1>3 DEF Grow, OneEnsemble
<1>6. fit.policy \notin {"Lossguide", "Depthwise"} => non_symmetric_trees' = <<>>
  <2> SUFFICES ASSUME fit.policy \notin {"Lossguide", "Depthwise"}
               PROVE  non_symmetric_trees' = <<>>
    OBVIOUS
  <2>1. non_symmetric_trees = <<>> /\ (fit.policy \in {"Lossguide", "Depthwise"}) = FALSE
    BY DEF OneEnsemble
  <2>2. non_symmetric_trees' = pushed(<<>>, tree, FALSE)
    BY <2>1 DEF Grow
  <2> QED  BY <1>3, <2>2
<1>7. fit.policy # "Region" => region_trees' = <<>>
  BY <1>3 DEF Grow, OneEnsemble
<1>8. own' = pushed(own, tree, TRUE)
  <2>1. CASE fit.policy = "SymmetricTree"
    BY <1>4, <2>1 DEF own, Grow
  <2>2. CASE fit.policy = "Region"
    BY <1>4, <2>2 DEF own, Grow
  <2>3. CASE fit.policy \in {"Lossguide", "Depthwise"}
    BY <1>4, <2>3 DEF own, Grow
  <2> QED  BY <1>1, <2>1, <2>2, <2>3
<1>9. own' = Grown(tree)
  BY <1>8 DEF pushed, Grown
<1> QED  BY <1>4, <1>5, <1>6, <1>7, <1>9 DEF OneEnsemble

-----------------------------------------------------------------------------
(* What the loop has measured, in terms of the model built so far.         *)
Measuring ==
  /\ OneEnsemble
  /\ pc \in {"start", "loop", "stopped"} =>
       \A s \in sets(fit) : eval_approx[s] = Applied(bias, own, s)
  /\ pc = "eval" => own # <<>> /\ \A s \in sets(fit) : advanced(s) = Applied(bias, own, s)
  /\ pc = "start" => own = <<>> /\ iter = 0

(* Without shrinkage each logged metric is that of the model of its time.  *)
CurveIsModels ==
  ~fit.shrink /\ has_test(fit) =>
    /\ pc # "done" => Len(own) = iter + (IF pc = "eval" THEN 1 ELSE 0)
    /\ pc # "done" => \A k \in 1 .. best_model.next_index :
                        history[1][k] = metric(1, Applied(bias, SubSeq(own, 1, k), 1))

(* A finished fit returned the model measured best.                        *)
Returning ==
  /\ pc # "done" => outcome = Running
  /\ ReturnedModelIsBest

(* Before the first tree there is nothing to measure.                      *)
LEMMA InitMeasuring == Init => Measuring /\ CurveIsModels /\ Returning
<1> SUFFICES ASSUME Init PROVE Measuring /\ CurveIsModels /\ Returning
  OBVIOUS
<1>1. own = <<>> /\ OneEnsemble /\ pc = "start" /\ iter = 0 /\ best_model.next_index = 0
  BY DEF Init, own, OneEnsemble, newTracker
<1>2. bias \in Nat
  BY MetricAssumption DEF Init
<1>3. \A s \in sets(fit) : eval_approx[s] = Applied(bias, own, s)
  BY <1>1, <1>2, AppliedEmpty DEF Init
<1>4. Len(<<>>) = 0
  OBVIOUS
<1> QED  BY <1>1, <1>3, <1>4 DEF Measuring, CurveIsModels, Returning, ReturnedModelIsBest, Init, Running

(* The new tree is the one the eval approximants have still to add, and    *)
(* shrinkage rescales them with the model.                                 *)
LEMMA GrowMeasures ==
  ASSUME Types, Types', Measuring, NEW tree \in [sets(fit) -> Steps], Grow(tree)
  PROVE  Measuring'
<1>1. /\ OneEnsemble /\ OneEnsemble' /\ own' = Grown(tree) /\ own \in Ensemble /\ fit' = fit
      /\ pc = "loop" /\ bias \in Nat
      /\ \A s \in sets(fit) : eval_approx[s] \in Nat /\ eval_approx[s] = Applied(bias, own, s)
  BY GrowPushes, OwnIsEnsemble DEF Measuring, Grow, Types, Approx
<1>2. tree \in [sets(fit) -> Nat]
  BY MetricAssumption
<1> DEFINE kept == IF shrinks THEN ShrunkTrees(own) ELSE own
<1>3. kept \in Seq([sets(fit) -> Nat])
  <2>1. pushed(own, tree, FALSE) \in Ensemble
    BY <1>1, PushedType DEF Types
  <2> QED  BY <2>1 DEF pushed, Ensemble
<1>4. ASSUME NEW s \in sets(fit)
      PROVE  Applied(bias', kept, s) = eval_approx'[s]
  <2>1. CASE shrinks
    <3>1. bias' = Shrunk(bias) /\ eval_approx'[s] = Shrunk(eval_approx[s]) /\ kept = ShrunkTrees(own)
      BY <2>1 DEF Grow
    <3>2. ShrunkTrees(own) \in Seq([sets(fit) -> Nat]) /\ own \in Seq([sets(fit) -> Nat])
      BY <1>1, <1>3, <3>1 DEF Ensemble
    <3>3. Applied(Shrunk(bias), ShrunkTrees(own), s) = Shrunk(Applied(bias, own, s))
      BY <1>1, <3>2, AppliedShrunk
    <3> QED  BY <1>1, <3>1, <3>3
  <2>2. CASE ~shrinks
    <3>1. bias' = bias /\ eval_approx' = eval_approx /\ kept = own
      BY <2>2 DEF Grow
    <3> QED  BY <1>1, <3>1
  <2> QED  BY <2>1, <2>2
<1>5. bias' \in Nat
  BY DEF Types, Approx
<1> HIDE DEF kept
<1>6. own' = Append(kept, tree)
  BY <1>1 DEF Grown, kept
<1>7. own' # <<>> /\ own'[Len(own')] = tree
  BY <1>2, <1>3, <1>6, AppendProperties
<1>8. ASSUME NEW s \in sets(fit)
      PROVE  Applied(bias', own', s) = advanced(s)'
  <2>1. Applied(bias', Append(kept, tree), s) = (Applied(bias', kept, s) + tree[s]) % Modulus
    BY <1>2, <1>3, <1>5, AppliedAppend
  <2>2. last_tree_eval_contribution(s)' = tree[s]
    <3>1. fit'.policy \in {"SymmetricTree", "Lossguide", "Depthwise", "Region"}
      BY <1>1, Policies DEF Types
    <3> QED  BY <1>1, <1>7, <3>1 DEF OneEnsemble, own, last_tree_eval_contribution
  <2> QED  BY <1>4, <1>6, <2>1, <2>2 DEF advanced
<1>9. CASE has_test(fit)
  <2>1. pc' = "eval" /\ sets(fit') = sets(fit)
    BY <1>1, <1>9 DEF Grow
  <2> QED  BY <1>1, <1>7, <1>8, <2>1 DEF Measuring
<1>10. CASE ~has_test(fit)
  <2>1. pc' = "loop" /\ sets(fit') = {}
    BY <1>1, <1>10, FitFields DEF Grow, has_test, sets, Types
  <2> QED  BY <1>1, <2>1 DEF Measuring
<1> QED  BY <1>9, <1>10

(* Each step keeps the approximants the model's predictions.               *)
LEMMA MeasuringStep == ASSUME IInv, IInv', Measuring, [Next]_vars PROVE Measuring'
<1> USE DEF model, watch
<1>1. ASSUME NEW tree \in [sets(fit) -> Steps], Grow(tree) PROVE Measuring'
  BY <1>1, GrowMeasures DEF IInv
<1>2. CASE Evaluate
  <2>1. /\ pc = "eval" /\ pc' \in {"stopped", "loop"}
        /\ eval_approx' = [s \in sets(fit) |-> advanced(s)] /\ fit' = fit
        /\ own' = own /\ bias' = bias /\ (OneEnsemble' <=> OneEnsemble)
    BY <1>2 DEF Evaluate, own, OneEnsemble
  <2> QED  BY <2>1 DEF Measuring
<1>3. CASE EvaluateFails \/ Finish \/ Reject
  <2>1. pc' = "done" /\ (OneEnsemble' <=> OneEnsemble)
    BY <1>3 DEF EvaluateFails, Finish, Reject, Done, OneEnsemble
  <2> QED  BY <2>1 DEF Measuring
<1>4. CASE Start \/ UNCHANGED vars
  <2>1. /\ UNCHANGED <<fit, iter, eval_approx, bias, trees, non_symmetric_trees, region_trees>>
        /\ (pc = "start" /\ pc' = "loop") \/ pc' = pc
    BY <1>4 DEF Start, vars
  <2>2. /\ own' = own /\ (OneEnsemble' <=> OneEnsemble)
        /\ \A s : advanced(s)' = advanced(s)
    BY <2>1 DEF own, OneEnsemble, advanced, last_tree_eval_contribution
  <2> QED  BY <2>1, <2>2 DEF Measuring
<1> QED  BY <1>1, <1>2, <1>3, <1>4 DEF Next

(* A longer sequence has the same prefixes.                                *)
LEMMA PrefixOfAppend ==
  ASSUME NEW S, NEW s \in Seq(S), NEW x \in S, NEW k \in 0 .. Len(s)
  PROVE  SubSeq(Append(s, x), 1, k) = SubSeq(s, 1, k)
<1> DEFINE t == Append(s, x)
           p == SubSeq(t, 1, k)
           q == SubSeq(s, 1, k)
<1>1. /\ t \in Seq(S) /\ Len(t) = Len(s) + 1 /\ Len(s) \in Nat
      /\ \A i \in 1 .. Len(s) : t[i] = s[i] /\ s[i] \in S
  BY AppendProperties, LenProperties, ElementOfSeq
<1> HIDE DEF t
<1>2. 1 \in Int /\ k \in Int /\ \A i \in 1 .. k : t[i] \in S /\ s[i] \in S /\ t[i] = s[i]
  BY <1>1
<1>3. /\ p \in Seq(S) /\ Len(p) = (IF 1 <= k THEN k - 1 + 1 ELSE 0)
      /\ \A i \in 1 .. k - 1 + 1 : p[i] = t[1 + i - 1]
  BY <1>2, SubSeqProperties
<1>4. /\ q \in Seq(S) /\ Len(q) = (IF 1 <= k THEN k - 1 + 1 ELSE 0)
      /\ \A i \in 1 .. k - 1 + 1 : q[i] = s[1 + i - 1]
  BY <1>2, SubSeqProperties
<1> HIDE DEF p, q
<1>5. \A i \in 1 .. Len(p) : p[i] = q[i]
  BY <1>2, <1>3, <1>4
<1>6. p = q
  BY <1>3, <1>4, <1>5, SeqEqual
<1> QED  BY <1>6 DEF p, q, t

(* Without shrinkage a tree more leaves the earlier models as they were    *)
(* measured.                                                               *)
LEMMA GrowKeepsCurve ==
  ASSUME IInv, Measuring, CurveIsModels, NEW tree \in [sets(fit) -> Steps], Grow(tree)
  PROVE  CurveIsModels'
<1> SUFFICES ASSUME ~fit'.shrink, has_test(fit') PROVE CurveIsModels'
  BY DEF CurveIsModels
<1>1. /\ fit' = fit /\ ~shrinks /\ has_test(fit) /\ pc = "loop" /\ pc' = "eval" /\ iter' = iter
      /\ bias' = bias /\ history' = history /\ best_model' = best_model
  BY DEF Grow, shrinks, watch
<1>2. own' = Append(own, tree) /\ own \in Seq([sets(fit) -> Nat])
  <2>1. own' = Grown(tree) /\ own \in Ensemble
    BY GrowPushes, OwnIsEnsemble DEF IInv, Measuring
  <2> QED  BY <1>1, <2>1 DEF Grown, Ensemble
<1>3. tree \in [sets(fit) -> Nat]
  BY MetricAssumption
<1>4. /\ Len(own) = iter /\ iter \in Nat /\ best_model.next_index = iter
      /\ \A k \in 1 .. best_model.next_index :
           history[1][k] = metric(1, Applied(bias, SubSeq(own, 1, k), 1))
  BY <1>1, <1>2, LenProperties DEF CurveIsModels, IInv, Best
<1>5. Len(own') = iter + 1
  BY <1>2, <1>3, <1>4, AppendProperties
<1>6. ASSUME NEW k \in 1 .. best_model.next_index
      PROVE  SubSeq(own', 1, k) = SubSeq(own, 1, k)
  <2>1. k \in 0 .. Len(own)
    BY <1>4
  <2> QED  BY <1>2, <1>3, <2>1, PrefixOfAppend
<1>7. \A s, a : metric(s, a)' = Metric(fit, s, a) /\ metric(s, a) = Metric(fit, s, a)
  BY <1>1 DEF metric
<1>8. \A k \in 1 .. best_model'.next_index :
        history'[1][k] = Metric(fit', 1, Applied(bias', SubSeq(own', 1, k), 1))
  BY <1>1, <1>4, <1>6, <1>7
<1> QED  BY <1>1, <1>5, <1>8 DEF CurveIsModels, metric

(* The next value logged is of the model with that tree.                   *)
LEMMA EvaluateKeepsCurve ==
  ASSUME IInv, Measuring, CurveIsModels, Evaluate
  PROVE  CurveIsModels'
<1> SUFFICES ASSUME ~fit'.shrink, has_test(fit') PROVE CurveIsModels'
  BY DEF CurveIsModels
<1> DEFINE v == metric(1, advanced(1))
           n == best_model.next_index
<1>1. /\ fit' = fit /\ has_test(fit) /\ pc = "eval" /\ pc' \in {"loop", "stopped"}
      /\ iter' = iter + 1 /\ bias' = bias /\ own' = own
      /\ best_model' = track(best_model, v)
  BY DEF Evaluate, model, own
<1>2. /\ 1 \in sets(fit) /\ history[1] \in Seq(Values) /\ v \in Values
      /\ n \in Nat /\ n = iter /\ n = Len(history[1])
  BY <1>1, PrimaryCurve, MetricType DEF Evaluate, IInv, Best, Logged
<1>3. history'[1] = Append(history[1], v) /\ best_model'.next_index = n + 1
  BY <1>1, <1>2, TrackFields DEF Evaluate, IInv
<1>4. /\ own \in Seq([sets(fit) -> Nat]) /\ Len(own) = n + 1
      /\ v = metric(1, Applied(bias, own, 1))
      /\ \A k \in 1 .. n : history[1][k] = metric(1, Applied(bias, SubSeq(own, 1, k), 1))
  BY <1>1, <1>2, OwnIsEnsemble DEF CurveIsModels, IInv, Measuring, Ensemble
<1>5. SubSeq(own, 1, n + 1) = own
  BY <1>4, SubSeqFull
<1> HIDE DEF v, n
<1>6. /\ \A k \in 1 .. n : history'[1][k] = history[1][k]
      /\ history'[1][n + 1] = v
  BY <1>2, <1>3, AppendProperties
<1>7. \A k \in 1 .. n + 1 : k \in 1 .. n \/ k = n + 1
  BY <1>2
<1>8. \A k \in 1 .. n + 1 : history'[1][k] = metric(1, Applied(bias, SubSeq(own, 1, k), 1))
  BY <1>4, <1>5, <1>6, <1>7
<1>9. \A k \in 1 .. best_model'.next_index :
        history'[1][k] = Metric(fit', 1, Applied(bias', SubSeq(own', 1, k), 1))
  BY <1>1, <1>3, <1>8 DEF metric
<1>10. Len(own') = iter' + (IF pc' = "eval" THEN 1 ELSE 0)
  <2>1. Len(own') = n + 1 /\ iter' = n + 1 /\ pc' # "eval"
    BY <1>1, <1>2, <1>4
  <2>2. n + 1 \in Int
    BY <1>2
  <2> QED  BY <2>1, <2>2
<1> QED  BY <1>9, <1>10 DEF CurveIsModels, metric

(* Each step keeps the curve the metric of the prefixes of the model.      *)
LEMMA CurveStep == ASSUME IInv, Measuring, CurveIsModels, [Next]_vars PROVE CurveIsModels'
<1> USE DEF model, watch
<1>1. ASSUME NEW tree \in [sets(fit) -> Steps], Grow(tree) PROVE CurveIsModels'
  BY <1>1, GrowKeepsCurve
<1>2. CASE Evaluate
  BY <1>2, EvaluateKeepsCurve
<1>3. CASE EvaluateFails \/ Finish \/ Reject
  <2>1. pc' = "done"
    BY <1>3 DEF EvaluateFails, Finish, Reject, Done
  <2> QED  BY <2>1 DEF CurveIsModels
<1>4. CASE Start \/ UNCHANGED vars
  <2>1. /\ UNCHANGED <<fit, iter, bias, own, history, best_model>>
        /\ (pc = "start" /\ pc' = "loop") \/ pc' = pc
    BY <1>4 DEF Start, vars, own
  <2> QED  BY <2>1 DEF CurveIsModels, metric
<1> QED  BY <1>1, <1>2, <1>3, <1>4 DEF Next

(* What use_best_model keeps of an ensemble.                               *)
LEMMA Truncating ==
  ASSUME NEW S, NEW ts \in Seq(S), NEW best \in Nat
  PROVE  /\ ts = <<>> => truncated(ts, best) = <<>>
         /\ best + 1 <= Len(ts) => truncated(ts, best) = SubSeq(ts, 1, best + 1)
<1>1. Len(ts) \in Nat
  BY LenProperties
<1>2. ASSUME ts = <<>> PROVE truncated(ts, best) = <<>>
  <2>1. truncated(ts, best) = SubSeq(<<>>, 1, 0)
    BY <1>1, <1>2 DEF truncated
  <2> QED  BY <2>1, SubSeqEmpty
<1>3. ASSUME best + 1 <= Len(ts) PROVE truncated(ts, best) = SubSeq(ts, 1, best + 1)
  BY <1>1, <1>3 DEF truncated
<1> QED  BY <1>2, <1>3

(* The best iteration is one of the curve that was logged for the first    *)
(* eval set.                                                               *)
LEMMA PrimaryIsCurve ==
  ASSUME IInv, best_model.best_iteration >= 0
  PROVE  /\ has_test(fit) /\ best_model.best_iteration \in Nat
         /\ best_model.best_iteration + 1 \in 1 .. best_model.next_index
         /\ \A k \in 1 .. best_model.next_index : primary[k] = history[1][k]
<1> DEFINE n == best_model.next_index
<1>1. best_model.best_iteration # -1 /\ FirstMinimum /\ has_test(fit) /\ n \in Nat
      /\ best_model.best_iteration \in Nat
  BY DEF IInv, Best
<1>2. n <= Len(history[1]) /\ \A k \in 1 .. Len(history[1]) : history[1][k] \in Values
  BY <1>1, PrimaryCurve DEF IInv, Best, Logged
<1>3. \A k \in 1 .. n : history[1][k] \in Values
  BY <1>1, <1>2, PrimaryCurve DEF IInv
<1>4. \A k \in 1 .. n : primary[k] = history[1][k]
  BY <1>1, <1>3, SubSeqProperties DEF primary
<1> QED  BY <1>1, <1>4 DEF FirstMinimum

(* The model a fit returns is the one its best iteration measured.         *)
LEMMA FinishReturnsBest ==
  ASSUME IInv, IInv', Measuring, CurveIsModels, Finish
  PROVE  ReturnedModelIsBest'
<1> DEFINE best == best_model.best_iteration
           kept(ts) == IF fit.use_best_model /\ best # -1 THEN truncated(ts, best) ELSE ts
<1> USE DEF model, watch
<1>1. UNCHANGED <<fit, iter, bias, history, best_model>> /\ pc \in {"loop", "stopped"}
  BY DEF Finish
<1>2. outcome' = [kind |-> "model", bias |-> bias,
                  trees |-> kept(trees) \o kept(non_symmetric_trees) \o kept(region_trees),
                  early |-> pc = "stopped"]
  BY DEF Finish, Done
<1>3. primary' = primary
  BY <1>1 DEF primary
<1> SUFFICES ASSUME fit.use_best_model, ~fit.shrink, best >= 0
             PROVE  metric(1, Applied(bias, outcome'.trees, 1)) = primary[best + 1]
  BY <1>1, <1>2, <1>3 DEF ReturnedModelIsBest, metric
<1>4. /\ has_test(fit) /\ best \in Nat /\ best # -1 /\ best + 1 \in 1 .. best_model.next_index
      /\ \A k \in 1 .. best_model.next_index : primary[k] = history[1][k]
  BY PrimaryIsCurve
<1>5. /\ own \in Ensemble /\ Len(own) = best_model.next_index
      /\ \A k \in 1 .. best_model.next_index :
           history[1][k] = metric(1, Applied(bias, SubSeq(own, 1, k), 1))
  BY <1>1, <1>4, OwnIsEnsemble DEF IInv, Best, Measuring, CurveIsModels
<1>6. best + 1 <= Len(own)
  BY <1>4, <1>5
<1>7. truncated(own, best) = SubSeq(own, 1, best + 1)
  BY <1>4, <1>5, <1>6, Truncating DEF Ensemble
<1>8. outcome'.trees = truncated(own, best)
  <2>1. outcome'.trees = truncated(trees, best) \o truncated(non_symmetric_trees, best)
                          \o truncated(region_trees, best)
    BY <1>2, <1>4
  <2>2. fit.policy \in {"SymmetricTree", "Lossguide", "Depthwise", "Region"}
    BY Policies DEF IInv, Types
  <2>3. /\ trees = <<>> => truncated(trees, best) = <<>>
        /\ non_symmetric_trees = <<>> => truncated(non_symmetric_trees, best) = <<>>
        /\ region_trees = <<>> => truncated(region_trees, best) = <<>>
    BY <1>4, Truncating DEF IInv, Types, Ensemble
  <2>4. truncated(own, best) \in Ensemble
    <3>1. \A k \in 1 .. best + 1 : own[k] \in [sets(fit) -> Nat]
      BY <1>4, <1>5, <1>6, ElementOfSeq DEF Ensemble
    <3>2. 1 \in Int /\ best + 1 \in Int
      BY <1>4
    <3> QED  BY <1>7, <3>1, <3>2, SubSeqProperties DEF Ensemble
  <2>5. truncated(own, best) \o <<>> = truncated(own, best)
        /\ <<>> \o truncated(own, best) = truncated(own, best)
    BY <2>4, ConcatEmptySeq DEF Ensemble
  <2>6. OneEnsemble
    BY DEF Measuring
  <2>7. <<>> \o <<>> = <<>>
    BY EmptySeq, ConcatEmptySeq
  <2> HIDE DEF best
  <2> QED  BY <2>1, <2>2, <2>3, <2>5, <2>6, <2>7 DEF OneEnsemble, own
<1> QED  BY <1>4, <1>5, <1>7, <1>8

(* Each step returns the best model or none yet.                           *)
LEMMA ReturningStep ==
  ASSUME IInv, IInv', Measuring, CurveIsModels, Returning, [Next]_vars
  PROVE  Returning'
<1> USE DEF model, watch
<1>1. CASE Finish
  BY <1>1, FinishReturnsBest DEF Returning, Finish, Done
<1>2. CASE Reject \/ EvaluateFails
  <2>1. pc' = "done" /\ outcome'.kind # "model"
    BY <1>2 DEF Reject, EvaluateFails, Done
  <2> QED  BY <2>1 DEF Returning, ReturnedModelIsBest
<1>3. ASSUME Start \/ Evaluate \/ \E tree \in [sets(fit) -> Steps] : Grow(tree)
      PROVE  Returning'
  <2>1. pc # "done" /\ outcome' = outcome
    BY <1>3 DEF Start, Evaluate, Grow
  <2>2. outcome'.kind # "model"
    BY <2>1 DEF Returning, Running
  <2> QED  BY <2>1, <2>2 DEF Returning, ReturnedModelIsBest
<1>4. CASE UNCHANGED vars
  <2>1. primary' = primary
    BY <1>4 DEF vars, primary
  <2> QED  BY <1>4, <2>1 DEF vars, Returning, ReturnedModelIsBest, metric
<1> QED  BY <1>1, <1>2, <1>3, <1>4 DEF Next

(* The loop measures the model it builds, and returns the one it measured  *)
(* best: the incremental approximant of every eval set is what the model   *)
(* predicts there, through every shrinkage and whichever ensemble is       *)
(* filled, and what use_best_model keeps has the best logged metric        *)
(* (boosting.rs:8794, 9075).                                               *)
THEOREM MeasuredAndReturned == Spec => []MeasuredModelIsReturned
<1> DEFINE Inv == Measuring /\ CurveIsModels /\ Returning
<1>1. IInv /\ IInv' /\ Inv /\ [Next]_vars => Inv'
  BY MeasuringStep, CurveStep, ReturningStep
<1>2. IInv /\ Inv => MeasuredModelIsReturned
  <2> SUFFICES ASSUME IInv, Inv PROVE MeasuredModelIsReturned
    OBVIOUS
  <2>1. ensemble = own
    BY OwnIsEnsemble DEF IInv, Measuring
  <2> QED  BY <2>1 DEF MeasuredModelIsReturned, EvalApproxIsModel, Measuring, Returning
<1> QED
  BY Inductive, InitMeasuring, <1>1, <1>2, PTL DEF Spec
-----------------------------------------------------------------------------
(* What IncToDec remembers. *)

LEMMA ForgetsSteps ==
  /\ Forgets[0] = 1
  /\ \A k \in Nat : Forgets[k] \in Nat \ {0} /\ Forgets[k + 1] = Forget * Forgets[k]
<1> DEFINE Rec(p) == p = [k \in Nat |-> IF k = 0 THEN 1 ELSE Forget * p[k - 1]]
           X == Nat
           F == [x \in X |-> Forget * x]
<1>0. Forget \in Nat \ {0}
  BY DetectorAssumption
<1>1. PICK g : Recursion(X, 1, F, g)
  <2>1. F \in [X -> X] /\ 1 \in X
    BY <1>0
  <2> HIDE DEF X, F
  <2> QED  BY <2>1, RecursionExists
<1>2. g \in [Nat -> Nat] /\ \A k \in Nat : g[k] = IF k = 0 THEN 1 ELSE F[g[k - 1]]
  <2>1. g \in [Nat -> Nat] /\ g = [k \in Nat |-> IF k = 0 THEN 1 ELSE F[g[k - 1]]]
    BY <1>1 DEF Recursion
  <2> HIDE DEF F
  <2> QED  BY <2>1
<1>3. ASSUME NEW k \in Nat PROVE g[k] = IF k = 0 THEN 1 ELSE Forget * g[k - 1]
  <2>1. CASE k = 0
    BY <1>2, <2>1
  <2>2. CASE k # 0
    <3>1. k - 1 \in Nat /\ g[k - 1] \in Nat
      BY <1>2, <2>2
    <3> QED  BY <1>2, <2>2, <3>1
  <2> QED  BY <2>1, <2>2
<1>4. Rec(g)
  BY <1>2, <1>3
<1>5. Rec(Forgets)
  <2>1. Forgets = CHOOSE p : Rec(p)
    BY DEF Forgets
  <2> HIDE DEF Rec
  <2> QED  BY <1>4, <2>1
<1>6. \A k \in Nat : Forgets[k] = IF k = 0 THEN 1 ELSE Forget * Forgets[k - 1]
  BY <1>5
<1>7. ASSUME NEW k \in Nat PROVE Forgets[k + 1] = Forget * Forgets[k]
  <2>1. k + 1 \in Nat /\ k + 1 # 0 /\ (k + 1) - 1 = k
    OBVIOUS
  <2> QED  BY <1>6, <2>1
<1> DEFINE In == {k \in Nat : Forgets[k] \in Nat \ {0}}
<1>8. 0 \in In
  BY <1>6
<1>9. ASSUME NEW k \in Nat, k \in In PROVE k + 1 \in In
  <2>1. Forgets[k] \in Nat \ {0}
    BY <1>9
  <2>2. \A a, b \in Nat \ {0} : a * b \in Nat \ {0}
    OBVIOUS
  <2> QED  BY <1>0, <1>7, <2>1, <2>2
<1>10. Nat \subseteq In
  <2> HIDE DEF In
  <2> QED  BY <1>8, <1>9, SetInduction
<1> QED  BY <1>6, <1>7, <1>10

LEMMA ForgetsRises ==
  ASSUME NEW j \in Nat, NEW k \in Nat, j <= k
  PROVE  Forgets[j] <= Forgets[k]
<1> DEFINE In == {d \in Nat : Forgets[j] <= Forgets[j + d]}
<1>1. 0 \in In
  BY ForgetsSteps
<1>2. ASSUME NEW d \in Nat, d \in In PROVE d + 1 \in In
  <2>1. j + (d + 1) = (j + d) + 1 /\ j + d \in Nat
    OBVIOUS
  <2>2. /\ Forgets[j + (d + 1)] = Forget * Forgets[j + d]
        /\ Forgets[j + d] \in Nat /\ Forgets[j] \in Nat /\ Forgets[j] <= Forgets[j + d]
    BY <1>2, <2>1, ForgetsSteps
  <2>3. \A a \in Nat \ {0} : \A b \in Nat : a * b \in Nat /\ b <= a * b
    OBVIOUS
  <2>4. Forgets[j + d] <= Forgets[j + (d + 1)] /\ Forgets[j + (d + 1)] \in Nat
    BY <2>2, <2>3, DetectorAssumption
  <2> QED  BY <2>2, <2>4
<1>3. Nat \subseteq In
  <2> HIDE DEF In
  <2> QED  BY <1>1, <1>2, SetInduction
<1>4. k - j \in In /\ j + (k - j) = k
  BY <1>3
<1> QED  BY <1>4

(* The rises of the first n errors: from which, to which.                  *)
Spans(errs, n) ==
  {p \in (1 .. n) \X (1 .. n) : /\ p[1] <= p[2] /\ p[2] - p[1] < ITERATION_FORGET
                                /\ errs[p[1]] # NaN /\ errs[p[2]] # NaN}

Rises(errs, n) == {Forgets[p[1]] * (errs[p[2]] - errs[p[1]]) : p \in Spans(errs, n)}

IsGreatest(x, S) == x \in S /\ x \in Int /\ \A y \in S : x >= y

LEMMA GreatestIsMax ==
  ASSUME NEW S, NEW x, IsGreatest(x, S), S \subseteq Int
  PROVE  x = Max(S)
<1>1. Max(S) \in S /\ \A y \in S : Max(S) >= y
  BY DEF Max, IsGreatest
<1>2. x \in Int /\ Max(S) \in Int /\ x >= Max(S) /\ Max(S) >= x
  BY <1>1 DEF IsGreatest
<1> QED  BY <1>2

(* The window after n errors: the last of them, oldest first.              *)
Remembers(w, errs, n) ==
  /\ w \in Seq(Values)
  /\ Len(w) = IF n < ITERATION_FORGET THEN n ELSE ITERATION_FORGET
  /\ \A k \in 1 .. Len(w) : w[k] = errs[n - Len(w) + k]

LEMMA WindowMoves ==
  ASSUME NEW n \in Nat, NEW c, NEW d, \A k \in 1 .. n : d[k] = c[k],
         NEW w, Remembers(w, c, n), d[n + 1] \in Values
  PROVE  Remembers(window(Append(w, d[n + 1])), d, n + 1)
<1> DEFINE all == Append(w, d[n + 1])
           m == Len(w)
<1>0. ITERATION_FORGET \in Nat \ {0}
  BY DetectorAssumption
<1>1. /\ m \in Nat /\ m <= n /\ w \in Seq(Values)
      /\ m = IF n < ITERATION_FORGET THEN n ELSE ITERATION_FORGET
      /\ \A k \in 1 .. m : w[k] = c[n - m + k]
  BY <1>0 DEF Remembers
<1>2. all \in Seq(Values) /\ Len(all) = m + 1 /\ all[m + 1] = d[n + 1]
      /\ \A k \in 1 .. m : all[k] = w[k]
  BY <1>1, AppendProperties
<1>3. \A k \in 1 .. m + 1 : all[k] = d[n - m + k]
  <2> TAKE k \in 1 .. m + 1
  <2>1. CASE k = m + 1
    <3>1. n - m + k = n + 1
      BY <1>1, <2>1
    <3> QED  BY <1>2, <2>1, <3>1
  <2>2. CASE k # m + 1
    <3>1. k \in 1 .. m /\ n - m + k \in 1 .. n
      BY <1>1, <2>2
    <3> QED  BY <1>1, <1>2, <3>1
  <2> QED  BY <2>1, <2>2
<1> HIDE DEF all, m
<1>4. CASE m + 1 > ITERATION_FORGET
  <2>1. window(all) = Tail(all) /\ all # <<>> /\ m = ITERATION_FORGET /\ ~(n + 1 < ITERATION_FORGET)
    <3>1. m = ITERATION_FORGET /\ Len(all) > ITERATION_FORGET /\ Len(all) # 0
      BY <1>0, <1>1, <1>2, <1>4
    <3>2. all # <<>>
      BY <3>1
    <3> QED  BY <1>0, <1>1, <3>1, <3>2 DEF window
  <2>2. /\ Tail(all) \in Seq(Values) /\ Len(Tail(all)) = m
        /\ \A k \in 1 .. m : Tail(all)[k] = all[k + 1]
    BY <1>1, <1>2, <2>1, HeadTailProperties
  <2>3. \A k \in 1 .. m : Tail(all)[k] = d[(n + 1) - m + k]
    <3> TAKE k \in 1 .. m
    <3>1. k + 1 \in 1 .. m + 1 /\ n - m + (k + 1) = (n + 1) - m + k
      BY <1>1
    <3> QED  BY <1>3, <2>2, <3>1
  <2> QED  BY <2>1, <2>2, <2>3 DEF Remembers, all
<1>5. CASE ~(m + 1 > ITERATION_FORGET)
  <2>1. window(all) = all /\ m = n
    BY <1>0, <1>1, <1>2, <1>5 DEF window
  <2>2. m + 1 = IF n + 1 < ITERATION_FORGET THEN n + 1 ELSE ITERATION_FORGET
    BY <1>0, <1>1, <1>5, <2>1
  <2>3. \A k \in 1 .. m + 1 : all[k] = d[(n + 1) - (m + 1) + k]
    <3> TAKE k \in 1 .. m + 1
    <3>1. n - m + k = (n + 1) - (m + 1) + k
      BY <1>1
    <3> QED  BY <1>3, <3>1
  <2> QED  BY <1>2, <2>1, <2>2, <2>3 DEF Remembers, all
<1> QED  BY <1>4, <1>5, <1>1

(* The rises to the last of n errors that a window finds.                  *)
Latest(errs, n, w) ==
  {Forgets[n - (Len(w) - k)] * (errs[n] - w[k]) :
     k \in {j \in DOMAIN w : errs[n] # NaN /\ w[j] # NaN}}

(* They are all the rises the last error adds.                             *)
LEMMA NewRises ==
  ASSUME NEW n \in Nat, NEW c, NEW d, \A k \in 1 .. n : d[k] = c[k] /\ c[k] \in Values,
         d[n + 1] \in Values, NEW w, Remembers(w, d, n + 1)
  PROVE  Rises(d, n + 1) = Rises(c, n) \cup Latest(d, n + 1, w)
<1> DEFINE m == Len(w)
           Known == {j \in DOMAIN w : d[n + 1] # NaN /\ w[j] # NaN}
           At(k) == Forgets[(n + 1) - (m - k)] * (d[n + 1] - w[k])
           new == {At(k) : k \in Known}
<1>0. ITERATION_FORGET \in Nat \ {0}
  BY DetectorAssumption
<1>1. /\ m \in Nat /\ m <= n + 1 /\ DOMAIN w = 1 .. m
      /\ m = IF n + 1 < ITERATION_FORGET THEN n + 1 ELSE ITERATION_FORGET
      /\ \A k \in 1 .. m : w[k] = d[(n + 1) - (m - k)]
  <2>1. /\ m \in Nat /\ m <= n + 1 /\ DOMAIN w = 1 .. m
        /\ m = IF n + 1 < ITERATION_FORGET THEN n + 1 ELSE ITERATION_FORGET
        /\ \A k \in 1 .. m : w[k] = d[(n + 1) - m + k]
    BY <1>0, LenProperties DEF Remembers
  <2>2. \A k \in 1 .. m : (n + 1) - m + k = (n + 1) - (m - k)
    BY <2>1
  <2> QED  BY <2>1, <2>2
<1> HIDE DEF m
<1>2. ASSUME NEW k \in Known PROVE At(k) \in Rises(d, n + 1)
  <2> DEFINE j == (n + 1) - (m - k)
  <2>1. /\ k \in 1 .. m /\ w[k] = d[j] /\ j \in 1 .. n + 1 /\ n + 1 \in 1 .. n + 1
        /\ (n + 1) - j < ITERATION_FORGET /\ j <= n + 1
    BY <1>0, <1>1
  <2>2. d[n + 1] # NaN /\ d[j] # NaN
    BY <2>1
  <2>3. <<j, n + 1>> \in Spans(d, n + 1)
    BY <2>1, <2>2 DEF Spans
  <2>4. At(k) = Forgets[j] * (d[n + 1] - d[j])
    BY <2>1
  <2> HIDE DEF j, At
  <2> DEFINE p == <<j, n + 1>>
  <2>5. At(k) = Forgets[p[1]] * (d[p[2]] - d[p[1]])
    BY <2>4
  <2> HIDE DEF p
  <2>6. p \in Spans(d, n + 1)
    BY <2>3 DEF p
  <2> QED  BY <2>5, <2>6 DEF Rises
<1>3. ASSUME NEW p \in Spans(c, n) PROVE /\ p \in Spans(d, n + 1)
                                         /\ d[p[1]] = c[p[1]] /\ d[p[2]] = c[p[2]]
  <2>1. /\ p \in (1 .. n) \X (1 .. n) /\ p[1] <= p[2] /\ p[2] - p[1] < ITERATION_FORGET
        /\ c[p[1]] # NaN /\ c[p[2]] # NaN
    BY DEF Spans
  <2>2. p \in (1 .. n + 1) \X (1 .. n + 1) /\ p[1] \in 1 .. n /\ p[2] \in 1 .. n
    BY <2>1
  <2> QED  BY <2>1, <2>2 DEF Spans
<1>4. ASSUME NEW p \in Spans(d, n + 1)
      PROVE  Forgets[p[1]] * (d[p[2]] - d[p[1]]) \in Rises(c, n) \cup new
  <2>1. /\ p \in (1 .. n + 1) \X (1 .. n + 1) /\ p[1] <= p[2] /\ p[2] - p[1] < ITERATION_FORGET
        /\ d[p[1]] # NaN /\ d[p[2]] # NaN /\ p[1] \in 1 .. n + 1 /\ p[2] \in 1 .. n + 1
    BY DEF Spans
  <2>2. CASE p[2] = n + 1
    <3> DEFINE k == m - ((n + 1) - p[1])
    <3>1. k \in 1 .. m /\ (n + 1) - (m - k) = p[1]
      BY <1>0, <1>1, <2>1, <2>2
    <3>2. w[k] = d[p[1]]
      BY <1>1, <3>1
    <3>3. k \in Known /\ At(k) = Forgets[p[1]] * (d[p[2]] - d[p[1]])
      BY <1>1, <2>1, <2>2, <3>1, <3>2
    <3> HIDE DEF k, At, Known
    <3> QED  BY <3>3
  <2>3. CASE p[2] # n + 1
    <3>1. p \in (1 .. n) \X (1 .. n) /\ p[1] \in 1 .. n /\ p[2] \in 1 .. n
      BY <2>1, <2>3
    <3>2. p \in Spans(c, n) /\ d[p[1]] = c[p[1]] /\ d[p[2]] = c[p[2]]
      BY <2>1, <3>1 DEF Spans
    <3> QED  BY <3>2 DEF Rises
  <2> QED  BY <2>2, <2>3
<1>5. Rises(c, n) \subseteq Rises(d, n + 1)
  <2>1. ASSUME NEW p \in Spans(c, n)
        PROVE  Forgets[p[1]] * (c[p[2]] - c[p[1]]) \in Rises(d, n + 1)
    <3>1. Forgets[p[1]] * (c[p[2]] - c[p[1]]) = Forgets[p[1]] * (d[p[2]] - d[p[1]])
      BY <1>3
    <3> QED  BY <1>3, <3>1 DEF Rises
  <2> QED  BY <2>1 DEF Rises
<1>6. Rises(d, n + 1) \subseteq Rises(c, n) \cup new
  <2> HIDE DEF new
  <2> QED  BY <1>4 DEF Rises
<1>7. new \subseteq Rises(d, n + 1)
  <2> HIDE DEF At, Known
  <2> QED  BY <1>2
<1>8. Latest(d, n + 1, w) = new
  BY DEF Latest, m
<1> HIDE DEF new
<1> QED  BY <1>5, <1>6, <1>7, <1>8

(* Keeping the greatest rise incrementally keeps it.                       *)
LEMMA GreatestGrows ==
  ASSUME NEW m \in Nat, NEW v, NEW Known \in SUBSET (1 .. m), \A k \in Known : v[k] \in Int,
         NEW S \in SUBSET Int, NEW x, IsGreatest(x, S)
  PROVE  LET new == {v[k] : k \in Known}
         IN  IsGreatest(Max({x} \cup new), S \cup new)
<1> DEFINE new == {v[k] : k \in Known}
           g == [k \in 1 .. m + 1 |-> IF k \in Known THEN v[k] ELSE x]
<1>1. x \in S /\ x \in Int /\ \A y \in S : x >= y
  BY DEF IsGreatest
<1>2. g \in [1 .. m + 1 -> Int] /\ m + 1 \in Nat \ {0}
  BY <1>1
<1>3. {g[k] : k \in 1 .. m + 1} = {x} \cup new
  <2>1. \A k \in Known : k \in 1 .. m + 1 /\ g[k] = v[k]
    OBVIOUS
  <2>2. m + 1 \in 1 .. m + 1 /\ g[m + 1] = x
    OBVIOUS
  <2>3. \A k \in 1 .. m + 1 : g[k] \in {x} \cup new
    OBVIOUS
  <2> HIDE DEF g
  <2> QED  BY <2>1, <2>2, <2>3
<1> HIDE DEF g
<1>4. \E y \in {g[k] : k \in 1 .. m + 1} : \A z \in {g[k] : k \in 1 .. m + 1} : y >= z
  BY <1>2, GreatestOfList
<1> DEFINE all == {x} \cup new
<1>5. \E y \in all : \A z \in all : y >= z
  BY <1>3, <1>4
<1>6. new \subseteq Int
  OBVIOUS
<1>7. all \subseteq Int /\ x \in all /\ new \subseteq all
  BY <1>1, <1>6
<1> DEFINE y == Max(all)
<1>8. y \in all /\ \A z \in all : y >= z
  <2> HIDE DEF all
  <2> QED  BY <1>5 DEF Max
<1> HIDE DEF y
<1>9. y \in S \cup new /\ y \in Int
  BY <1>1, <1>7, <1>8
<1>10. ASSUME NEW z \in S \cup new PROVE y >= z
  <2>1. CASE z \in new
    BY <1>7, <1>8, <2>1
  <2>2. CASE z \in S
    <3>1. y >= x /\ x >= z
      BY <1>1, <1>7, <1>8, <2>2
    <3>2. z \in Int
      BY <2>2
    <3> QED  BY <1>1, <1>9, <3>1, <3>2
  <2> QED  BY <2>1, <2>2
<1> QED  BY <1>9, <1>10 DEF IsGreatest, y, all

(* The errors the detector was fed.                                        *)
Errs == [k \in 1 .. best_model.next_index |-> Negated(history[1][k])]

Losses == {Metric(fit, 1, a) : a \in Approx}

Booked == has_test(fit) /\ detector.active /\ detector.type # "Wilcoxon"

Booking ==
  /\ has_test(fit) => \A k \in 1 .. best_model.next_index : history[1][k] \in Losses
  /\ Booked =>
       /\ detector.seen = best_model.next_index
       /\ Remembers(detector.errors, Errs, best_model.next_index)
       /\ IsGreatest(detector.expected_inc, {0} \cup Rises(Errs, best_model.next_index))
       /\ detector.is_empty => detector.expected_inc = 0

(* What a value does to the window and the greatest rise.                  *)
LEMMA IncToDecFields ==
  ASSUME NEW d, IsDetector(d), d.active, d.type # "Wilcoxon", NEW v
  PROVE  LET e == add_error(d, v)
             err == Negated(v)
             errors == window(Append(d.errors, err))
             rises == {Forgets[(d.seen + 1) - (Len(errors) - k)] * (err - errors[k]) :
                         k \in {j \in DOMAIN errors : err # NaN /\ errors[j] # NaN}}
         IN  /\ e.seen = d.seen + 1 /\ e.errors = errors
             /\ e.expected_inc = Max({IF d.is_empty THEN 0 ELSE d.expected_inc} \cup rises)
             /\ e.below <=> /\ waited(d, e.iterations_from_local_max)
                            /\ incToDecStops(d.type, e.expected_inc, e.seen, e.local_max, err)
<1> DEFINE e == add_error(d, v)
           err == Negated(v)
           improves == Improves(d, err)
           max == IF improves THEN err ELSE d.local_max
           since == IF improves THEN 0 ELSE d.iterations_from_local_max + 1
           n == d.seen + 1
           errors == window(Append(d.errors, err))
           rises == {Forgets[n - (Len(errors) - k)] * (err - errors[k]) :
                       k \in {j \in DOMAIN errors : err # NaN /\ errors[j] # NaN}}
           expected == Max({IF d.is_empty THEN 0 ELSE d.expected_inc} \cup rises)
           below == waited(d, since) /\ incToDecStops(d.type, expected, n, max, err)
<1>0. e = incToDecAdd(d, err)
  BY DEF add_error
<1>1. e = [d EXCEPT !.is_empty = FALSE, !.local_max = max, !.last_error = err,
                    !.iterations_from_local_max = since, !.errors = errors,
                    !.seen = n, !.expected_inc = expected, !.below = below]
  <2> HIDE DEF e
  <2> QED
    BY <1>0, Zenon DEF incToDecAdd
<1> HIDE DEF e, max, since, n, errors, rises, expected, below
<1>2. /\ e.seen = n /\ e.errors = errors /\ e.expected_inc = expected
      /\ e.below = below /\ e.local_max = max /\ e.iterations_from_local_max = since
  BY <1>1 DEF IsDetector, DetectorFields
<1> QED
  BY <1>2, Zenon DEF e, n, errors, rises, expected, below

LEMMA RisesAreInts ==
  ASSUME NEW n \in Nat, NEW errs, \A k \in 1 .. n : errs[k] \in Values
  PROVE  Rises(errs, n) \subseteq Int
<1> SUFFICES ASSUME NEW p \in Spans(errs, n)
             PROVE  Forgets[p[1]] * (errs[p[2]] - errs[p[1]]) \in Int
  BY DEF Rises
<1>1. /\ p[1] \in 1 .. n /\ p[2] \in 1 .. n /\ errs[p[1]] # NaN /\ errs[p[2]] # NaN
  BY DEF Spans
<1>2. errs[p[1]] \in Int /\ errs[p[2]] \in Int /\ Forgets[p[1]] \in Int
  BY <1>1, ForgetsSteps DEF Values
<1>3. errs[p[2]] - errs[p[1]] \in Int
  BY <1>2
<1> QED  BY <1>2, <1>3

(* What an evaluated iteration does to the primary curve.                  *)
LEMMA CurveGrows ==
  ASSUME IInv, Evaluate
  PROVE  LET v == metric(1, advanced(1))
             n == best_model.next_index
         IN  /\ has_test(fit) /\ n \in Nat /\ v \in Values /\ v \in Losses
             /\ best_model'.next_index = n + 1 /\ history[1]'[n + 1] = v
             /\ \A k \in 1 .. n : history[1]'[k] = history[1][k] /\ history[1][k] \in Values
<1> DEFINE v == metric(1, advanced(1))
           h == history[1]
           n == best_model.next_index
<1>1. /\ has_test(fit) /\ 1 \in sets(fit) /\ h \in Seq(Values) /\ Len(h) \in Nat
      /\ n = Len(h) /\ n \in Nat /\ pc = "eval"
      /\ \A k \in 1 .. n : h[k] \in Values
  BY PrimaryCurve DEF Evaluate, IInv, Types, Best, Logged
<1>2. v \in Values
  BY <1>1, MetricType DEF Evaluate, IInv
<1>3. v \in Losses
  BY <1>1, AdvancedType DEF IInv, Losses, metric
<1>4. history[1]' = Append(h, v) /\ best_model' = track(best_model, v)
  BY <1>1 DEF Evaluate
<1> HIDE DEF v, h
<1>5. /\ Append(h, v)[n + 1] = v /\ \A k \in 1 .. n : Append(h, v)[k] = h[k]
  BY <1>1, <1>2, AppendElements
<1>6. best_model'.next_index = n + 1
  BY <1>2, <1>4, TrackFields DEF IInv
<1> QED  BY <1>1, <1>2, <1>3, <1>4, <1>5, <1>6 DEF v, h

LEMMA NegatedValue == ASSUME NEW v \in Values PROVE Negated(v) \in Values
  BY DetectorAssumption DEF Negated, Values

LEMMA BookingEvaluate == ASSUME IInv, Booking, Evaluate PROVE Booking'
<1> DEFINE v == metric(1, advanced(1))
           err == Negated(v)
           n == best_model.next_index
           d == detector
           c == Errs
           b == [k \in 1 .. n + 1 |-> Negated(history[1]'[k])]
<1>1. /\ has_test(fit) /\ n \in Nat /\ v \in Values /\ v \in Losses
      /\ best_model'.next_index = n + 1 /\ history[1]'[n + 1] = v
      /\ \A k \in 1 .. n : history[1]'[k] = history[1][k] /\ history[1][k] \in Values
  BY CurveGrows
<1>2. detector' = add_error(d, v) /\ fit' = fit
  BY DEF Evaluate
<1> HIDE DEF v
<1>3. Errs' = b /\ Losses' = Losses
  BY <1>1, <1>2 DEF Errs, Losses
<1>4. /\ b[n + 1] = err /\ err \in Values
      /\ \A k \in 1 .. n : b[k] = c[k] /\ c[k] \in Values
  BY <1>1, NegatedValue DEF Errs
<1>5. \A k \in 1 .. best_model'.next_index : history[1]'[k] \in Losses'
  <2>1. \A k \in 1 .. n + 1 : k \in 1 .. n \/ k = n + 1
    BY <1>1
  <2> QED  BY <1>1, <1>3, <2>1 DEF Booking
<1> HIDE DEF b, c, n, err
<1>6. SUFFICES ASSUME Booked'
               PROVE  /\ detector'.seen = n + 1
                      /\ Remembers(detector'.errors, b, n + 1)
                      /\ IsGreatest(detector'.expected_inc, {0} \cup Rises(b, n + 1))
                      /\ ~detector'.is_empty
  BY <1>1, <1>3, <1>5 DEF Booking
<1>7. IsDetector(d)
  BY DEF IInv, Watching
<1>8. /\ d.active /\ d.type # "Wilcoxon"
      /\ ~detector'.is_empty
  <2>1. d.active \in BOOLEAN
    BY <1>7 DEF IsDetector
  <2>2. /\ detector'.type = d.type /\ detector'.active = d.active
        /\ d.active => ~detector'.is_empty
    BY <1>1, <1>2, <1>7, AddError
  <2> QED  BY <1>6, <2>1, <2>2 DEF Booked
<1>9. /\ d.seen = n /\ Remembers(d.errors, c, n)
      /\ IsGreatest(d.expected_inc, {0} \cup Rises(c, n))
      /\ (IF d.is_empty THEN 0 ELSE d.expected_inc) = d.expected_inc
  BY <1>1, <1>8 DEF Booking, Booked, n, c
<1> DEFINE w == window(Append(d.errors, err))
           Known == {j \in DOMAIN w : err # NaN /\ w[j] # NaN}
           At == [k \in Known |-> Forgets[(n + 1) - (Len(w) - k)] * (err - w[k])]
           new == {At[k] : k \in Known}
           written == {Forgets[(n + 1) - (Len(w) - k)] * (err - w[k]) : k \in Known}
<1>10. Remembers(w, b, n + 1)
  BY <1>1, <1>4, <1>9, WindowMoves
<1>11. new = written
  OBVIOUS
<1>12. /\ detector'.seen = n + 1 /\ detector'.errors = w
       /\ detector'.expected_inc = Max({d.expected_inc} \cup written)
  <2> DEFINE e == add_error(d, v)
             fed == {Forgets[(d.seen + 1) - (Len(w) - k)] * (err - w[k]) : k \in Known}
  <2>1. /\ e.seen = d.seen + 1 /\ e.errors = w
        /\ e.expected_inc = Max({IF d.is_empty THEN 0 ELSE d.expected_inc} \cup fed)
    <3> HIDE DEF d
    <3> QED  BY <1>7, <1>8, IncToDecFields DEF err
  <2>2. fed = written
    BY <1>9
  <2> HIDE DEF w, Known, written, fed, e, d
  <2> QED  BY <1>2, <1>9, <2>1, <2>2 DEF e, d
<1>13. Rises(b, n + 1) = Rises(c, n) \cup written
  <2> HIDE DEF w
  <2> DEFINE seen == Latest(b, n + 1, w)
  <2>1. b[n + 1] \in Values /\ \A k \in 1 .. n : b[k] = c[k] /\ c[k] \in Values
    BY <1>4
  <2>2. Rises(b, n + 1) = Rises(c, n) \cup seen
    <3>1. n \in Nat
      BY <1>1
    <3> HIDE DEF seen, written, new, At, Known, d
    <3> QED  BY <1>10, <2>1, <3>1, NewRises DEF seen
  <2>3. seen = written
    BY <1>4 DEF Latest
  <2> HIDE DEF seen, written
  <2> QED  BY <2>2, <2>3
<1>14. Len(w) \in Nat /\ Known \subseteq 1 .. Len(w) /\ w \in Seq(Values)
       /\ DOMAIN w = 1 .. Len(w) /\ Len(w) <= n + 1
  <2> HIDE DEF w
  <2>1. w \in Seq(Values) /\ Len(w) = IF n + 1 < ITERATION_FORGET THEN n + 1 ELSE ITERATION_FORGET
    BY <1>10 DEF Remembers
  <2>2. Len(w) \in Nat /\ DOMAIN w = 1 .. Len(w)
    BY <2>1, LenProperties
  <2>3. ITERATION_FORGET \in Nat
    BY DetectorAssumption
  <2>4. Len(w) <= n + 1
    BY <1>1, <2>1, <2>3
  <2> QED  BY <2>1, <2>2, <2>4
<1>15. \A k \in Known : At[k] \in Int
  <2> TAKE k \in Known
  <2>1. k \in 1 .. Len(w) /\ w[k] \in Values /\ err # NaN /\ w[k] # NaN
    <3> HIDE DEF w
    <3> QED  BY <1>14, ElementOfSeq
  <2>2. (n + 1) - (Len(w) - k) \in Nat
    <3> HIDE DEF w
    <3> QED  BY <1>1, <1>14, <2>1
  <2>3. err - w[k] \in Int /\ Forgets[(n + 1) - (Len(w) - k)] \in Int
    <3> HIDE DEF w
    <3>1. err \in Int /\ w[k] \in Int
      BY <1>4, <2>1 DEF Values
    <3> DEFINE j == (n + 1) - (Len(w) - k)
    <3>2. j \in Nat
      BY <2>2
    <3> HIDE DEF j
    <3>3. Forgets[j] \in Int
      BY <3>2, ForgetsSteps
    <3> QED  BY <3>1, <3>3 DEF j
  <2> HIDE DEF w
  <2> QED  BY <2>3
<1>16. Rises(c, n) \subseteq Int
  BY <1>1, <1>4, RisesAreInts
<1>17. IsGreatest(Max({d.expected_inc} \cup new), ({0} \cup Rises(c, n)) \cup new)
  <2> HIDE DEF w, Known, At, new
  <2>1. {0} \cup Rises(c, n) \in SUBSET Int
    BY <1>16
  <2> QED  BY <1>9, <1>14, <1>15, <2>1, GreatestGrows DEF new
<1>18. ({0} \cup Rises(c, n)) \cup new = {0} \cup Rises(b, n + 1)
  <2> HIDE DEF new, written
  <2> QED  BY <1>11, <1>13
<1>19. IsGreatest(detector'.expected_inc, {0} \cup Rises(b, n + 1))
  <2> HIDE DEF new, written
  <2> QED  BY <1>11, <1>12, <1>17, <1>18
<1> QED  BY <1>8, <1>10, <1>12, <1>19

LEMMA InitBooking == Init => Booking
<1> SUFFICES ASSUME Init PROVE Booking
  OBVIOUS
<1>1. /\ best_model.next_index = 0
      /\ detector = newDetector(fit.od_type, fit.od_pval, fit.od_wait, has_test(fit))
  BY DEF Init, newTracker
<1>2. detector.seen = 0 /\ detector.errors = <<>> /\ detector.expected_inc = 0
  BY <1>1 DEF newDetector
<1>3. Remembers(detector.errors, Errs, 0)
  <2>1. <<>> \in Seq(Values) /\ Len(<<>>) = 0
    OBVIOUS
  <2> QED  BY <1>2, <2>1, DetectorAssumption DEF Remembers
<1>4. IsGreatest(detector.expected_inc, {0} \cup Rises(Errs, 0))
  <2>1. Spans(Errs, 0) = {}
    BY DEF Spans
  <2>2. Rises(Errs, 0) = {}
    BY <2>1 DEF Rises
  <2> QED  BY <1>2, <2>2 DEF IsGreatest
<1> QED  BY <1>1, <1>2, <1>3, <1>4 DEF Booking

LEMMA BookingStep == ASSUME IInv, Booking, [Next]_vars PROVE Booking'
<1>1. CASE Evaluate
  BY <1>1, BookingEvaluate
<1>2. CASE ~Evaluate
  <2>1. UNCHANGED <<fit, detector, best_model>>
    BY <1>2 DEF Next, vars, watch, Start, Reject, Grow, EvaluateFails, Finish, Done
  <2>2. has_test(fit) => \A k \in 1 .. best_model.next_index : history[1]'[k] = history[1][k]
    <3> SUFFICES ASSUME has_test(fit), NEW k \in 1 .. best_model.next_index
                 PROVE  history[1]'[k] = history[1][k]
      OBVIOUS
    <3>1. CASE EvaluateFails
      <4>1. PICK s \in sets(fit) :
              /\ \A t \in 1 .. s - 1 : metric(t, advanced(t)) # MetricError
              /\ history' = [t \in sets(fit) |->
                               IF t < s THEN Append(history[t], metric(t, advanced(t)))
                               ELSE history[t]]
        BY <3>1 DEF EvaluateFails
      <4>2. 1 \in sets(fit) /\ history[1] \in Seq(Values) /\ Len(history[1]) \in Nat
        BY PrimaryCurve DEF IInv
      <4>3. CASE ~(1 < s)
        BY <4>1, <4>2, <4>3
      <4>4. CASE 1 < s
        <5> DEFINE v == metric(1, advanced(1))
                   h == history[1]
        <5>1. v \in Values
          <6>1. 1 \in 1 .. s - 1
            BY <4>4, FitFields DEF sets, IInv, Types
          <6> QED  BY <4>1, <4>2, <6>1, MetricType DEF IInv
        <5>2. history[1]' = Append(h, v)
          BY <4>1, <4>2, <4>4
        <5>3. k \in 1 .. Len(h)
          <6>1. best_model.next_index = Len(h)
            BY <3>1 DEF IInv, Best, Logged, EvaluateFails
          <6> QED  BY <6>1
        <5> HIDE DEF v
        <5>4. h \in Seq(Values)
          BY <4>2
        <5> HIDE DEF h
        <5>5. Append(h, v)[k] = h[k]
          BY <5>1, <5>3, <5>4, AppendElements
        <5> QED  BY <5>2, <5>5 DEF h
      <4> QED  BY <4>3, <4>4
    <3>2. CASE ~EvaluateFails
      BY <1>2, <3>2 DEF Next, vars, watch, Start, Reject, Grow, Finish, Done
    <3> QED  BY <3>1, <3>2
  <2>3. has_test(fit) => Errs' = Errs
    BY <2>1, <2>2 DEF Errs
  <2>4. Losses' = Losses /\ (Booked' <=> Booked)
    BY <2>1 DEF Losses, Booked
  <2> QED  BY <2>1, <2>2, <2>3, <2>4 DEF Booking, Booked
<1> QED  BY <1>1, <1>2

(* The books of IncToDec are inductive with those of the tracker.          *)
THEOREM IncToDecIsBooked == Spec => [](IInv /\ Booking)
<1>1. IInv /\ Booking /\ [Next]_vars => (IInv /\ Booking)'
  <2>1. IInv /\ [Next]_vars => IInv'
    BY TypesStep, BestStep, WatchingStep DEF IInv
  <2> QED  BY <2>1, BookingStep
<1> QED
  BY <1>1, InitInductive, InitBooking, PTL DEF Spec

(* The logged prefix of the primary curve is what the tracker was fed.     *)
LEMMA PrimaryIsLogged ==
  ASSUME IInv, has_test(fit)
  PROVE  /\ DOMAIN primary = 1 .. best_model.next_index
         /\ best_model.next_index \in Nat
         /\ \A k \in 1 .. best_model.next_index :
              primary[k] = history[1][k] /\ history[1][k] \in Values
<1> DEFINE n == best_model.next_index
<1>1. n \in Nat /\ n <= Len(history[1]) /\ \A k \in 1 .. Len(history[1]) : history[1][k] \in Values
  BY PrimaryCurve DEF IInv, Best, Logged
<1>2. \A k \in 1 .. n : history[1][k] \in Values
  BY <1>1, PrimaryCurve DEF IInv
<1>3. /\ primary \in Seq(Values) /\ Len(primary) = n
      /\ \A k \in 1 .. n : primary[k] = history[1][k]
  BY <1>1, <1>2, SubSeqProperties DEF primary
<1>4. DOMAIN primary = 1 .. n
  BY <1>3, LenProperties
<1> QED  BY <1>1, <1>2, <1>3, <1>4

LEMMA ExpectedIncIsGreatest == ASSUME IInv, Booking PROVE ExpectedIncIsForgottenRise
<1> DEFINE e == [k \in DOMAIN primary |-> Negated(primary[k])]
           spans == {q \in (DOMAIN e) \X (DOMAIN e) :
                       /\ q[1] <= q[2] /\ q[2] - q[1] < ITERATION_FORGET
                       /\ e[q[1]] # NaN /\ e[q[2]] # NaN}
           rise == {Forgets[p[1]] * (e[p[2]] - e[p[1]]) : p \in spans}
           n == best_model.next_index
<1>1. SUFFICES ASSUME has_test(fit), detector.active, detector.type # "Wilcoxon"
               PROVE  detector.expected_inc = Max({0} \cup rise)
  BY DEF ExpectedIncIsForgottenRise
<1>2. /\ DOMAIN primary = 1 .. n /\ n \in Nat
      /\ \A k \in 1 .. n : primary[k] = history[1][k] /\ history[1][k] \in Values
  BY <1>1, PrimaryIsLogged
<1>3. e = Errs
  BY <1>2 DEF Errs
<1>4. DOMAIN e = 1 .. n
  BY <1>2
<1>5. spans = Spans(Errs, n)
  <2> HIDE DEF e, n
  <2> QED  BY <1>3, <1>4 DEF Spans
<1>6. rise = Rises(Errs, n)
  <2> HIDE DEF e, n, spans
  <2> QED  BY <1>3, <1>5 DEF Rises
<1>7. \A k \in 1 .. n : Errs[k] \in Values
  BY <1>2, NegatedValue DEF Errs
<1> HIDE DEF e, spans, rise
<1>8. {0} \cup Rises(Errs, n) \subseteq Int
  BY <1>2, <1>7, RisesAreInts
<1>9. IsGreatest(detector.expected_inc, {0} \cup Rises(Errs, n))
  BY <1>1 DEF Booking, Booked
<1> QED  BY <1>6, <1>8, <1>9, GreatestIsMax

(* expected_inc is the greatest forgotten rise of the whole curve, though  *)
(* only a window of it is kept (overfit.rs:247).                           *)
THEOREM ExpectedIncIsKept == Spec => []ExpectedIncIsForgottenRise
  BY IncToDecIsBooked, ExpectedIncIsGreatest, PTL

-----------------------------------------------------------------------------
(* Iter. *)

LEMMA ScaledBelow ==
  ASSUME NEW a \in Nat \ {0}, NEW b \in Nat, a <= b, NEW x \in Int, NEW s \in Nat, x < s
  PROVE  a * x < s * b
<1>1. \A i, j, k \in Nat : i <= j => i * k <= j * k
  OBVIOUS
<1>2. \A i \in Nat \ {0} : \A j, k \in Nat : j < k => j * i < k * i
  OBVIOUS
<1>3. CASE x \in Nat
  <2>1. a * x <= b * x
    BY <1>1, <1>3
  <2>2. x * b < s * b /\ x * b = b * x
    BY <1>2, <1>3
  <2>3. a * x \in Int /\ b * x \in Int /\ s * b \in Int
    OBVIOUS
  <2> QED  BY <2>1, <2>2, <2>3
<1>4. CASE x \notin Nat
  <2>1. -x \in Nat \ {0} /\ s * b \in Nat
    BY <1>4
  <2>2. \A i, j \in Nat \ {0} : i * j > 0
    OBVIOUS
  <2>3. a * (-x) > 0
    BY <2>1, <2>2
  <2>4. a * x < 0
    BY <2>3
  <2> QED  BY <2>1, <2>4
<1> QED  BY <1>3, <1>4

(* What IncToDec expects is then below saturation.                         *)
LEMMA ExpectedIsBelow ==
  ASSUME LossesAreBounded, NEW f \in Fits, NEW n \in Nat, NEW h, NEW errs,
         \A k \in 1 .. n : /\ h[k] \in {Metric(f, 1, a) : a \in Approx} /\ h[k] \in Values
                          /\ errs[k] = Negated(h[k]),
         NEW y \in {0} \cup Rises(errs, n)
  PROVE  y < Saturation * Forgets[n]
<1>0. /\ Saturation \in Nat \ {0} /\ NaN \notin Int
      /\ Forgets[n] \in Nat \ {0}
  BY DetectorAssumption, ForgetsSteps
<1>1. CASE y = 0
  <2>1. \A i, j \in Nat \ {0} : i * j > 0
    OBVIOUS
  <2>2. Saturation * Forgets[n] > 0
    BY <1>0, <2>1
  <2> QED  BY <1>0, <1>1, <2>2
<1>2. CASE y \in Rises(errs, n)
  <2>1. PICK p \in Spans(errs, n) : y = Forgets[p[1]] * (errs[p[2]] - errs[p[1]])
    BY <1>2 DEF Rises
  <2>2. /\ p[1] \in 1 .. n /\ p[2] \in 1 .. n
        /\ errs[p[1]] # NaN /\ errs[p[2]] # NaN
    BY DEF Spans
  <2> DEFINE l == h[p[1]]
             r == h[p[2]]
  <2>3. errs[p[1]] = Negated(l) /\ errs[p[2]] = Negated(r)
    BY <2>2
  <2>4. l \in Int /\ r \in Int /\ l \in {Metric(f, 1, a) : a \in Approx} /\ r \in {Metric(f, 1, a) : a \in Approx}
    BY <2>2, <2>3 DEF Negated, Values
  <2> HIDE DEF l, r
  <2>5. errs[p[2]] - errs[p[1]] = l - r
    BY <1>0, <2>3, <2>4 DEF Negated
  <2>6. l - r < Saturation
    BY <2>4 DEF LossesAreBounded, Approx
  <2>7. Forgets[p[1]] \in Nat \ {0} /\ Forgets[p[1]] <= Forgets[n]
    <3>1. p[1] \in Nat /\ p[1] <= n
      BY <2>2
    <3> QED  BY <3>1, ForgetsSteps, ForgetsRises
  <2>8. Forgets[p[1]] * (l - r) < Saturation * Forgets[n]
    BY <1>0, <2>4, <2>6, <2>7, ScaledBelow
  <2> QED  BY <2>1, <2>5, <2>8
<1> QED  BY <1>1, <1>2

(* A detector of Iter is active, and a fit that waited long enough leaves  *)
(* the loop.                                                               *)
Waiting ==
  /\ detector.type = "Iter" => detector.active
  /\ pc = "start" => best_model.best_iteration = -1
  /\ IterStopsOnTime

LEMMA InitWaiting == Init => Waiting
<1> SUFFICES ASSUME Init PROVE Waiting
  OBVIOUS
<1>1. /\ detector = newDetector(fit.od_type, fit.od_pval, fit.od_wait, has_test(fit))
      /\ pc = "start" /\ best_model.best_iteration = -1
  BY DEF Init, newTracker
<1>2. detector.type = "Iter" => detector.active
  BY <1>1 DEF newDetector, activeWith
<1> QED  BY <1>1, <1>2 DEF Waiting, IterStopsOnTime

LEMMA WaitingStep ==
  ASSUME LossesAreBounded, IInv, Booking, Waiting, [Next]_vars, IInv', Booking'
  PROVE  Waiting'
<1>1. CASE Evaluate
  <2> DEFINE v == metric(1, advanced(1))
             err == Negated(v)
             d == detector
             e == add_error(d, v)
             n == best_model.next_index + 1
  <2>1. /\ has_test(fit) /\ v \in Values /\ best_model'.next_index = n /\ n \in Nat
    BY <1>1, CurveGrows
  <2>2. /\ detector' = e /\ fit' = fit
        /\ pc' = IF is_need_stop(detector') THEN "stopped" ELSE "loop"
    BY <1>1 DEF Evaluate
  <2>3. IsDetector(d) /\ d.active \in BOOLEAN
    BY DEF IInv, Watching, IsDetector
  <2> HIDE DEF v, e, d
  <2>4. /\ e.type = d.type /\ e.active = d.active /\ e.wait = d.wait
        /\ d.active => ~e.is_empty
    BY <2>1, <2>3, AddError DEF e
  <2>5. detector'.type = "Iter" => detector'.active
    BY <2>2, <2>4 DEF Waiting, d
  <2>6. ASSUME detector'.type = "Iter", pc' = "loop", best_model'.best_iteration >= 0
        PROVE  SinceBest' < fit'.od_wait
    <3>1. d.type = "Iter" /\ d.active /\ ~e.is_empty /\ d.type # "Wilcoxon" /\ e.active
      BY <2>2, <2>4, <2>5, <2>6
    <3>2. ~e.below
      BY <2>2, <2>6, <3>1 DEF is_need_stop
    <3>3. /\ e.seen = d.seen + 1
          /\ e.below <=> /\ waited(d, e.iterations_from_local_max)
                         /\ incToDecStops(d.type, e.expected_inc, e.seen, e.local_max, err)
      BY <2>3, <3>1, IncToDecFields DEF e
    <3>4. has_test(fit)' /\ Booked'
      BY <2>1, <2>2, <2>4, <3>1 DEF has_test, Booked
    <3>5. /\ e.seen = n
          /\ e.expected_inc \in {0} \cup Rises(Errs', n)
          /\ \A k \in 1 .. n : history[1]'[k] \in Losses'
      BY <2>1, <2>2, <3>4 DEF Booking, IsGreatest
    <3>6. \A k \in 1 .. n : history[1]'[k] \in Values
      <4>1. Types' /\ Best'
        BY DEF IInv
      <4>2. \A k \in 1 .. n : k \in 1 .. n - 1 \/ k = n
        BY <2>1
      <4> QED  BY <1>1, <2>1, <4>2, CurveGrows
    <3>7. fit' \in Fits /\ Losses' = {Metric(fit', 1, a) : a \in Approx}
      BY <2>2 DEF Losses, IInv, Types
    <3>8. e.expected_inc < Saturation * Forgets[n]
      <4> DEFINE h == history[1]'
                 errs == Errs'
      <4>1. \A k \in 1 .. n : errs[k] = Negated(h[k])
        BY <2>1 DEF Errs
      <4>2. \A k \in 1 .. n : /\ h[k] \in {Metric(fit', 1, a) : a \in Approx} /\ h[k] \in Values
                              /\ errs[k] = Negated(h[k])
        BY <3>5, <3>6, <3>7, <4>1
      <4>3. e.expected_inc \in {0} \cup Rises(errs, n)
        BY <3>5
      <4> HIDE DEF h, errs
      <4> QED  BY <2>1, <3>7, <4>2, <4>3, ExpectedIsBelow
    <3>9. incToDecStops(d.type, e.expected_inc, e.seen, e.local_max, err)
      BY <3>1, <3>5, <3>8 DEF incToDecStops
    <3>10. ~waited(d, e.iterations_from_local_max)
      BY <3>2, <3>3, <3>9
    <3>11. e.iterations_from_local_max = SinceBest' /\ e.wait = fit'.od_wait
      BY <2>2, <2>4, <3>1 DEF IInv, Watching, DetectorFollowsBest
    <3>12. IsDetector(e)
      BY <2>2 DEF IInv, Watching
    <3> QED  BY <2>4, <3>10, <3>11, <3>12 DEF waited, IsDetector
  <2>7. pc' # "start"
    BY <2>2
  <2> QED  BY <2>5, <2>6, <2>7 DEF Waiting, IterStopsOnTime
<1>2. CASE ~Evaluate
  <2>1. UNCHANGED <<fit, detector, best_model>>
    BY <1>2 DEF Next, vars, watch, Start, Reject, Grow, EvaluateFails, Finish, Done
  <2>2. pc' = "loop" => pc = "loop" \/ best_model.best_iteration = -1
    <3>1. CASE Start
      BY <3>1 DEF Start, Waiting
    <3>2. ASSUME NEW tree \in [sets(fit) -> Steps], Grow(tree)
          PROVE  pc' = "loop" => pc = "loop"
      BY <3>2 DEF Grow
    <3> QED
      BY <1>2, <3>1, <3>2 DEF Next, vars, Reject, EvaluateFails, Finish, Done
  <2>3. pc' = "start" => pc = "start"
    BY <1>2 DEF Next, vars, Start, Reject, Grow, EvaluateFails, Finish, Done
  <2> QED  BY <2>1, <2>2, <2>3 DEF Waiting, IterStopsOnTime, SinceBest
<1> QED  BY <1>1, <1>2

(* IncToDec's books are kept and Iter stops on time (overfit.rs:45), of a  *)
(* metric that cannot reach the saturation of the p-value.                 *)
THEOREM IncToDecStopsOnEvidence ==
  ASSUME LossesAreBounded
  PROVE  Spec => []IncToDecKeepsItsBooks
<1> DEFINE Inv == IInv /\ Booking /\ Waiting
<1>1. Init => Inv
  BY InitInductive, InitBooking, InitWaiting
<1>2. Inv /\ [Next]_vars => Inv'
  <2>1. IInv /\ [Next]_vars => IInv'
    BY TypesStep, BestStep, WatchingStep DEF IInv
  <2> QED  BY <2>1, BookingStep, WaitingStep
<1>3. Inv => IncToDecKeepsItsBooks
  BY ExpectedIncIsGreatest DEF IncToDecKeepsItsBooks, Waiting
<1> HIDE DEF Inv
<1> QED
  BY <1>1, <1>2, <1>3, PTL DEF Spec

===============================================================================
