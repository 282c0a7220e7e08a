---------------------------- MODULE ModelSearch ----------------------------
(***************************************************************************)
(* The folds of catboost-rs (cv.rs) and what one fold and all of them      *)
(* return. Rows and positions count from one. A fold holds two lists of    *)
(* rows; a list of rows keeps its order, because a ranking metric wants    *)
(* every group in one run.                                                 *)
(*                                                                         *)
(* Hyperparameter search: the Python entry points (search.rs of            *)
(* catboost-rs-py) over grid_search and randomized_search of catboost-rs.  *)
(* A candidate is a point of the parameter grid. On the CPU build every    *)
(* candidate's folds are fitted by a pool of threads, in any order; a fold *)
(* that fails lets the others of its candidate go unfinished.              *)
(*                                                                         *)
(* What fitting a point on a fold yields is given (Learns): a curve of     *)
(* metric values, or Failed.                                               *)
(***************************************************************************)
EXTENDS Integers, Sequences, FiniteSets, SequencesExt

CONSTANTS
  NotFinite, \* a metric that is not a finite number
  Failed     \* a typed error in place of a result

Rows(n) == [i \in 1 .. n |-> i]
Ascending(S) ==
  [i \in 1 .. Cardinality(S) |-> CHOOSE x \in S : Cardinality({y \in S : y < x}) = i - 1]
Least(a, b) == IF a < b THEN a ELSE b

(* Mutant: the remainder goes to the last block only.                      *)
BlockTailHeavy(len, count, k) ==
  [from |-> (k - 1) * (len \div count) + 1,
   upto |-> IF k = count THEN len ELSE k * (len \div count)]
(* The first len % count blocks are one larger than the rest.              *)
Block(len, count, k) ==
  LET start(b) == (b - 1) * (len \div count) + Least(b - 1, len % count)
  IN [from |-> start(k) + 1, upto |-> start(k + 1)]

(* Groups are the runs of equal ids.                                       *)
RunStarts(ids) == Ascending({i \in DOMAIN ids : i = 1 \/ ids[i - 1] # ids[i]})
Contiguous(ids) ==
  LET starts == RunStarts(ids)
  IN \A i, j \in DOMAIN starts : ids[starts[i]] = ids[starts[j]] => i = j
Span(ids, g) ==
  LET starts == RunStarts(ids)
  IN starts[g] .. IF g = Len(starts) THEN Len(ids) ELSE starts[g + 1] - 1

orient(train, test, inverted) ==
  IF inverted THEN [train |-> test, test |-> train] ELSE [train |-> train, test |-> test]

plain_fold(order, block, inverted) ==
  orient(SubSeq(order, 1, block.from - 1) \o SubSeq(order, block.upto + 1, Len(order)),
         SubSeq(order, block.from, block.upto), inverted)

(* Mutant: the block is cut from the rows, not from the groups.            *)
grouped_fold_of_rows(ids, order, block, inverted) ==
  LET test == {r \in DOMAIN ids : block.from <= r /\ r <= block.upto}
  IN orient(Ascending(DOMAIN ids \ test), Ascending(test), inverted)
(* Rows keep their own order whatever the order of the groups.             *)
grouped_fold(ids, order, block, inverted) ==
  LET test == UNION {Span(ids, order[p]) : p \in block.from .. block.upto}
  IN orient(Ascending(DOMAIN ids \ test), Ascending(test), inverted)

(* Rows, or groups when there are any; order is their shuffle.             *)
Items(pool) == IF pool.groups = <<>> THEN pool.rows ELSE Len(RunStarts(pool.groups))
make_cv_folds(pool, count, order, inverted) ==
  LET FoldOf(block) == IF pool.groups = <<>> THEN plain_fold(order, block, inverted)
                       ELSE grouped_fold(pool.groups, order, block, inverted)
  IN IF pool.rows = 0 \/ count < 2 \/ count > Items(pool) \/ ~Contiguous(pool.groups) THEN Failed
     ELSE [k \in 1 .. count |-> FoldOf(Block(Items(pool), count, k))]

folds_from_explicit(list, n) ==
  IF list = <<>> \/ \E k \in DOMAIN list : \E r \in ToSet(list[k]) : r > n THEN Failed
  ELSE [k \in DOMAIN list |->
          [train |-> Ascending(1 .. n \ ToSet(list[k])), test |-> list[k]]]

select_rows(groups, rows) == IF groups = <<>> THEN <<>> ELSE [i \in DOMAIN rows |-> groups[rows[i]]]

(* A fold fits on its train rows and evaluates both lists. Nothing can be  *)
(* fitted or evaluated on no rows, and a ranking metric needs whole runs.  *)
run_fold(pool, fold, ranking, curve) ==
  IF \/ fold.train = <<>> \/ fold.test = <<>> \/ curve = Failed
     \/ /\ ranking
        /\ \E rows \in {fold.train, fold.test} : ~Contiguous(select_rows(pool.groups, rows))
  THEN Failed ELSE curve

Added(values) ==
  LET sum[k \in 0 .. Len(values)] == IF k = 0 THEN 0 ELSE sum[k - 1] + values[k]
  IN sum[Len(values)]
(* The means over the folds, scaled by their number.                       *)
aggregate_folds(curves) ==
  LET iterations == Len(curves[1])
      At(i) == [k \in DOMAIN curves |-> curves[k][i]]
  IN IF Len(curves) < 2 \/ \E k \in DOMAIN curves : Len(curves[k]) # iterations THEN Failed
     ELSE [i \in 1 .. iterations |->
             IF NotFinite \in ToSet(At(i)) THEN NotFinite ELSE Added(At(i))]

-----------------------------------------------------------------------------

CONSTANTS
  Requests,           \* what a caller may ask for
  Learns(_, _),       \* Learns(point, k): the curve on fold k, or Failed
  Refits(_),          \* whether the estimator can be fitted with a point
  Base,               \* the estimator's own parameters
  Open                \* nothing returned yet

VARIABLES
  call,        \* the request being served, or Idle
  folds,       \* the folds of cv, the same for every candidate, or Failed
  points,      \* the point of every candidate, in the order they are served
  fitted,      \* fitted[c][k]: what fold k of candidate c returned, or Open
  crossed,     \* crossed[c]: the aggregated curve of candidate c, Failed, or Open
  result,      \* what the caller gets
  estimator    \* the caller's estimator: [params, fitted]

svars == <<call, folds, points, fitted, crossed, result, estimator>>

Idle == [kind |-> "idle"]
Pending == [kind |-> "pending"]
Raised == [kind |-> "raised"]

-----------------------------------------------------------------------------
(* Candidates. *)

(* The combinations of the keys after key d.                               *)
CombinationsAfter(grid, d) ==
  LET product[k \in 0 .. Len(grid) - d] == IF k = 0 THEN 1 ELSE product[k - 1] * Len(grid[d + k])
  IN product[Len(grid) - d]
(* The product of the grid's sorted keys, the last one varying fastest.    *)
expand_param_grid(grid) ==
  [c \in 1 .. CombinationsAfter(grid, 0) |->
     [d \in DOMAIN grid |->
        grid[d][1 + (((c - 1) \div CombinationsAfter(grid, d)) % Len(grid[d]))]]]

(* The first n_iter of a shuffle of the candidates.                        *)
sample_indices(order, n_iter) == SubSeq(order, 1, Least(n_iter, Len(order)))

(* The candidates in the order they are served, as positions of the grid.  *)
Served(r) == IF r.kind # "randomized" THEN Rows(Len(expand_param_grid(r.grid)))
             ELSE sample_indices(r.sample, r.n_iter)
Point(r, c) == expand_param_grid(r.grid)[Served(r)[c]]
Candidates == DOMAIN points

CvFolds(r) ==
  IF r.pool.pairs THEN Failed
  ELSE IF r.explicit THEN folds_from_explicit(r.list, r.pool.rows)
  ELSE make_cv_folds(r.pool, r.fold_count, r.order, r.inverted)

(* Requests as the entry points build them: a group id for every row or    *)
(* none, shuffles of all items and of all candidates, one candidate for a  *)
(* plain cross-validation. A fit fails or yields its curve.                *)
Curves == Seq(Int \union {NotFinite})
ASSUME RequestsAssumption ==
  /\ NotFinite \notin Int /\ Open # Failed
  /\ \A r \in Requests :
       LET grid == expand_param_grid(r.grid)
           items == Items(r.pool)
       IN /\ r.kind \in {"grid", "randomized", "cv"}
          /\ r.kind = "cv" => Len(grid) = 1
          /\ Len(r.grid) \in Nat /\ \A d \in 1 .. Len(r.grid) : Len(r.grid[d]) \in Nat
          /\ r.n_iter \in Nat /\ r.fold_count \in Nat
          /\ r.error_score \in Int \union {NotFinite}
          /\ r.kind = "randomized" => r.sample \in Bijection(1 .. Len(grid), 1 .. Len(grid))
          /\ r.pool.rows \in Nat
          /\ r.pool.groups = <<>> \/ r.pool.groups \in [1 .. r.pool.rows -> Nat]
          /\ r.explicit => r.list \in Seq(Seq(Nat \ {0}))
          /\ ~r.explicit => r.order \in Bijection(1 .. items, 1 .. items)
          /\ \A c \in 1 .. Len(grid),
                k \in 1 .. (IF r.explicit THEN Len(r.list) ELSE r.fold_count) :
               Learns(grid[c], k) \in Curves \union {Failed}

-----------------------------------------------------------------------------
(* Scores. *)

(* Larger is better for the metrics of rankings, smaller for the others.   *)
metric_is_max_optimal(r) == r.ranking

best_over_iters(column, max) ==
  LET finite == {column[i] : i \in DOMAIN column} \ {NotFinite}
  IN IF finite = {} THEN NotFinite
     ELSE CHOOSE v \in finite : \A w \in finite : IF max THEN v >= w ELSE v <= w

score_candidate(r, curve) ==
  IF curve = Failed THEN NotFinite ELSE best_over_iters(curve, metric_is_max_optimal(r))
FailedToScore(r, curve) == score_candidate(r, curve) = NotFinite
(* The candidate's own best, or the caller's error_score.                  *)
Score(r, curve) == IF FailedToScore(r, curve) THEN r.error_score ELSE score_candidate(r, curve)

(* Mutant: a later candidate wins a tie.                                   *)
select_index_last(scores, max) ==
  LET finite == {i \in DOMAIN scores : scores[i] # NotFinite}
      best == {i \in finite : \A j \in finite :
                 IF max THEN scores[i] >= scores[j] ELSE scores[i] <= scores[j]}
  IN IF best = {} THEN 0 ELSE CHOOSE i \in best : \A j \in best : j <= i
(* A strict comparison from the left keeps the first of equal scores; zero *)
(* when no score is finite.                                                *)
select_index(scores, max) ==
  LET Better(s, t) == IF max THEN s > t ELSE s < t
      best[k \in 0 .. Len(scores)] ==
        IF k = 0 THEN 0
        ELSE LET b == best[k - 1]
             IN IF scores[k] # NotFinite /\ (b = 0 \/ Better(scores[k], scores[b])) THEN k ELSE b
  IN best[Len(scores)]

-----------------------------------------------------------------------------
SearchInit ==
  /\ call = Idle
  /\ folds = Failed /\ points = <<>>
  /\ fitted = <<>> /\ crossed = <<>>
  /\ result = Pending
  /\ estimator = [params |-> Base, fitted |-> FALSE]

(* The guards before the first fit: an empty grid dimension, no iteration  *)
(* to sample, a categorical pool.                                          *)
Rejected(r) ==
  \/ expand_param_grid(r.grid) = <<>>
  \/ r.kind = "randomized" /\ r.n_iter = 0
  \/ r.pool.cats

Search(r) ==
  /\ call = Idle
  /\ call' = r
  /\ IF Rejected(r)
     THEN result' = Raised /\ UNCHANGED <<folds, points, fitted, crossed>>
     ELSE /\ folds' = CvFolds(r)
          /\ points' = [c \in DOMAIN Served(r) |-> Point(r, c)]
          /\ fitted' = [c \in DOMAIN points' |->
                          IF folds' = Failed THEN <<>> ELSE [k \in DOMAIN folds' |-> Open]]
          /\ crossed' = [c \in DOMAIN points' |-> IF folds' = Failed THEN Failed ELSE Open]
          /\ UNCHANGED result
  /\ UNCHANGED estimator

(* A thread finishes one fold of one candidate.                            *)
FitFold(c, k) ==
  /\ crossed[c] = Open
  /\ fitted[c][k] = Open
  /\ fitted' = [fitted EXCEPT ![c][k] =
                  run_fold(call.pool, folds[k], call.ranking, Learns(points[c], k))]
  /\ UNCHANGED <<call, folds, points, crossed, result, estimator>>

(* One fold's error is the candidate's, whatever the others would return.  *)
CvFails(c) ==
  /\ crossed[c] = Open
  /\ \E k \in DOMAIN fitted[c] : fitted[c][k] = Failed
  /\ crossed' = [crossed EXCEPT ![c] = Failed]
  /\ UNCHANGED <<call, folds, points, fitted, result, estimator>>
CvReturns(c) ==
  /\ crossed[c] = Open
  /\ \A k \in DOMAIN fitted[c] : fitted[c][k] \notin {Open, Failed}
  /\ crossed' = [crossed EXCEPT ![c] = aggregate_folds(fitted[c])]
  /\ UNCHANGED <<call, folds, points, fitted, result, estimator>>

(* Mutant: the winner's place among the sampled is taken for its place in  *)
(* the grid.                                                               *)
BestIndexUnmapped(best) == best
BestIndex(best) == Served(call)[best]

(* With error_score = "raise" the first failure is the answer; a winner    *)
(* that only its error_score chose has no columns to return.               *)
Select ==
  /\ call # Idle /\ result = Pending /\ call.kind # "cv"
  /\ \A c \in DOMAIN crossed : crossed[c] # Open
  /\ LET scores == [c \in DOMAIN crossed |-> Score(call, crossed[c])]
         best == select_index(scores, metric_is_max_optimal(call))
         failures == {c \in DOMAIN crossed : FailedToScore(call, crossed[c])}
     IN result' =
          IF (call.raise /\ failures # {}) \/ best = 0 THEN Raised
          ELSE IF crossed[best] = Failed THEN Raised
          ELSE [kind |-> "found", best_index |-> BestIndex(best), columns |-> crossed[best],
                failures |-> {Served(call)[c] : c \in failures}]
  /\ UNCHANGED <<call, folds, points, fitted, crossed, estimator>>

(* A plain cross-validation returns its columns, finite or not.            *)
CvAnswers ==
  /\ call.kind = "cv" /\ result = Pending
  /\ crossed[1] # Open
  /\ result' = IF crossed[1] = Failed THEN Raised
               ELSE [kind |-> "found", best_index |-> 1, columns |-> crossed[1], failures |-> {}]
  /\ UNCHANGED <<call, folds, points, fitted, crossed, estimator>>

(* The estimator is given the point before it is fitted with it.           *)
refit_estimator ==
  /\ result.kind = "found" /\ call.refit
  /\ estimator.params = Base
  /\ LET point == expand_param_grid(call.grid)[result.best_index]
     IN /\ estimator' = [params |-> point, fitted |-> Refits(point)]
        /\ result' = IF Refits(point) THEN result ELSE Raised
  /\ UNCHANGED <<call, folds, points, fitted, crossed>>

SearchNext ==
  \/ call = Idle /\ \E r \in Requests : Search(r)
  \/ \E c \in DOMAIN crossed : (\E k \in DOMAIN fitted[c] : FitFold(c, k)) \/ CvFails(c) \/ CvReturns(c)
  \/ Select
  \/ CvAnswers
  \/ refit_estimator
-----------------------------------------------------------------------------
(* Properties. *)

(* The folds a search is served with test every row exactly once (train on *)
(* it exactly once when inverted), never split a group, are never empty    *)
(* and differ by at most one row, or group, in size.                       *)
Groups(ids, rows) == {ids[r] : r \in ToSet(rows)}
FoldsPartitionThePool ==
  (call # Idle /\ ~call.explicit /\ folds # Failed) =>
    LET held(k) == IF call.inverted THEN folds[k].train ELSE folds[k].test
        kept(k) == IF call.inverted THEN folds[k].test ELSE folds[k].train
        ids == call.pool.groups
        size(k) == IF ids = <<>> THEN Len(held(k)) ELSE Cardinality(Groups(ids, held(k)))
    IN /\ \A row \in 1 .. call.pool.rows :
            Cardinality({at \in (DOMAIN folds) \X (1 .. call.pool.rows) :
                           at[2] \in DOMAIN held(at[1]) /\ held(at[1])[at[2]] = row}) = 1
       /\ \A k \in DOMAIN folds :
            /\ ToSet(kept(k)) = 1 .. call.pool.rows \ ToSet(held(k))
            /\ size(k) > 0
            /\ ids # <<>> => Groups(ids, held(k)) \intersect Groups(ids, kept(k)) = {}
            /\ \A other \in DOMAIN folds : size(k) <= size(other) + 1

(* Whatever the order in which the folds of all candidates finish, the     *)
(* search returns the point a serial reading of the request would choose:  *)
(* no candidate that was served scores better, none served earlier scores  *)
(* as well, exactly those that could not be scored are reported, and a     *)
(* refitted estimator carries the point that won.                          *)
TrueCurve(r, c) ==
  IF folds = Failed THEN Failed
  ELSE LET curves == [k \in DOMAIN folds |->
                        run_fold(r.pool, folds[k], r.ranking, Learns(points[c], k))]
       IN IF Failed \in ToSet(curves) THEN Failed ELSE aggregate_folds(curves)
SearchFindsTheFirstBest ==
  result.kind = "found" =>
    LET score(c) == Score(call, TrueCurve(call, c))
        winner == CHOOSE c \in Candidates : Served(call)[c] = result.best_index
        NoBetter(c) == score(c) # NotFinite =>
          IF metric_is_max_optimal(call) THEN score(c) <= score(winner) ELSE score(winner) <= score(c)
    IN /\ result.best_index \in ToSet(Served(call))
       /\ result.columns = TrueCurve(call, winner)
       /\ call.kind # "cv" => score(winner) # NotFinite
       /\ \A c \in Candidates : NoBetter(c) /\ (c < winner => score(c) # score(winner))
       /\ estimator.fitted => estimator.params = points[winner]
       /\ call.kind # "cv" => result.failures =
            {Served(call)[c] : c \in {d \in Candidates : FailedToScore(call, TrueCurve(call, d))}}
=============================================================================
