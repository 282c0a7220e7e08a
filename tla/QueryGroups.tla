----------------------------- MODULE QueryGroups -----------------------------
(***************************************************************************)
(* The queries of a ranking fit (cb-train/src/query_info.rs): contiguous   *)
(* runs of equal group ids, the mean weight of each, and the explicit      *)
(* pairs turned into per-winner lists of competitors, which hold the       *)
(* loser's place inside the group.  Objects are numbered from 1; a group   *)
(* is the objects begin + 1 .. end, so that begin is the code's offset.    *)
(*                                                                         *)
(* A group's weight is kept times WeightUnit, so that it is an integer.    *)
(***************************************************************************)
EXTENDS Integers, Sequences, FiniteSets, SequencesExt

CONSTANT WeightUnit      \* a multiple of every group size

GroupedLosses ==
    {"QueryRMSE", "QuerySoftMax", "PairLogit", "PairLogitPairwise",
     "LambdaMart", "YetiRank", "YetiRankPairwise", "StochasticRank"}
PairWeightLosses == {"PairLogit", "PairLogitPairwise", "YetiRank", "YetiRankPairwise"}
PairwiseScoringLosses == {"PairLogitPairwise", "YetiRankPairwise"}
YetiLosses == {"YetiRank", "YetiRankPairwise"}

is_grouped_loss(loss) == loss \in GroupedLosses
uses_pairwise_weights(loss) == loss \in PairWeightLosses

Size(g) == g.end - g.begin
Members(g) == (g.begin + 1)..g.end
Slice(s, g) == SubSeq(s, g.begin + 1, g.end)

(* The sum of f over the indices of a sequence. *)
Total(s) == FoldLeft(LAMBDA a, b : a + b, 0, s)

(***************************************************************************)
(* build_query_info.  An empty id list is one group; an id that comes back *)
(* after another one is refused, as is a pair that leaves its group.       *)
(***************************************************************************)
RunStarts(ids) == {i \in DOMAIN ids : i = 1 \/ ids[i] # ids[i - 1]}

Runs(ids, n) ==
    IF ids = <<>> THEN IF n = 0 THEN <<>> ELSE <<[begin |-> 0, end |-> n]>>
    ELSE LET starts == SetToSortSeq(RunStarts(ids), <)
         IN  [r \in DOMAIN starts |->
                [begin |-> starts[r] - 1,
                 end   |-> IF r = Len(starts) THEN n ELSE starts[r + 1] - 1]]

IdsContiguous(ids) ==
    \A i, j \in RunStarts(ids) : ids[i] = ids[j] => i = j

GroupWeight(g, weights) ==
    IF weights = <<>> THEN WeightUnit
    ELSE (WeightUnit * Total(Slice(weights, g))) \div Size(g)

GroupOf(groups, object) ==
    {g \in DOMAIN groups : object \in Members(groups[g])}

PairInsideAGroup(groups, pair) ==
    \E g \in DOMAIN groups : {pair.winner, pair.loser} \subseteq Members(groups[g])

(* The pairs each member won, in the order the pairs were given.           *)
Competitors(g, pairs) ==
    [place \in 1..Size(g) |->
        LET mine == SelectSeq(pairs, LAMBDA p : p.winner = g.begin + place)
        IN  [k \in DOMAIN mine |-> [id |-> mine[k].loser - g.begin, weight |-> WeightUnit]]]

QueryInfoError(n, ids, subgroups, pairs, weights) ==
    \/ \E column \in {ids, subgroups, weights} : column # <<>> /\ Len(column) # n
    \/ ~IdsContiguous(ids)
    \/ \E p \in ToSet(pairs) : ~PairInsideAGroup(Runs(ids, n), p)

build_query_info(n, ids, pairs, weights) ==
    LET runs == Runs(ids, n)
    IN  [r \in DOMAIN runs |->
            [begin |-> runs[r].begin, end |-> runs[r].end,
             weight |-> GroupWeight(runs[r], weights),
             competitors |-> Competitors(runs[r], pairs)]]

(***************************************************************************)
(* What the pairs become: the list of global pairs the search counts, and  *)
(* the weight of an object, the pairs it takes part in.                    *)
(***************************************************************************)
flatten_global_pairs(groups) ==
    LET OfWinner(g, place) ==
            [k \in DOMAIN g.competitors[place] |->
                [winner |-> g.begin + place,
                 loser  |-> g.begin + g.competitors[place][k].id,
                 weight |-> g.competitors[place][k].weight]]
        OfGroup(g) == FlattenSeq([place \in 1..Size(g) |-> OfWinner(g, place)])
    IN  FlattenSeq([g \in DOMAIN groups |-> OfGroup(groups[g])])

(* A pair counts at both of its ends, twice when they are one object.      *)
calc_pairwise_weights(groups, n) ==
    LET pairs == flatten_global_pairs(groups)
        Share(p, object) == (IF p.winner = object THEN p.weight ELSE 0)
                              + (IF p.loser = object THEN p.weight ELSE 0)
    IN  [object \in 1..n |-> Total([k \in DOMAIN pairs |-> Share(pairs[k], object)])]

-------------------------------------------------------------------------------
(***************************************************************************)
(* The metrics of one query (cb-train/src/ranking_metrics.rs).  A metric's *)
(* value is a fraction [num, den].  Targets are integers; the metrics that *)
(* read a target as a probability read it in units of 1/TargetUnit.        *)
(***************************************************************************)
CONSTANTS
    TargetUnit,
    Decay(_)        \* dcg_decay of a place, from 0

Fraction(num, den) == [num |-> num, den |-> den]
Same(a, b) == a.num * b.den = b.num * a.den
AtMost(a, b) == a.num * b.den <= b.num * a.den

(***************************************************************************)
(* The order every metric reads: falling approximant, and among equal ones *)
(* the worse document first, so that a tie is never flattering.            *)
(***************************************************************************)
\* Mutant: a tie shows the better document first.
FlatteringDocs(al, tl, ar, tr) == IF al # ar THEN al > ar ELSE tl > tr

compare_docs(al, tl, ar, tr) == IF al # ar THEN al > ar ELSE tl < tr

sorted_indices(approx, target) ==
    SortSeq([i \in DOMAIN approx |-> i],
            LAMBDA l, r :
                \/ compare_docs(approx[l], target[l], approx[r], target[r])
                \/ ~compare_docs(approx[r], target[r], approx[l], target[l]) /\ l < r)

clamp_top(top, size) == IF top < 0 \/ size < top THEN size ELSE top

Gain(exponential, relevance) == IF exponential THEN 2 ^ relevance - 1 ELSE relevance

DcgOf(targets, exponential) ==
    Total([p \in DOMAIN targets |-> Gain(exponential, targets[p]) * Decay(p - 1)])

TopByApprox(approx, target, k) ==
    LET order == sorted_indices(approx, target) IN [p \in 1..k |-> target[order[p]]]
TopIdeal(target, k) ==
    LET order == sorted_indices(target, target) IN [p \in 1..k |-> target[order[p]]]

dcg_group(approx, target, top, exponential) ==
    DcgOf(TopByApprox(approx, target, clamp_top(top, Len(approx))), exponential)

ndcg_group(approx, target, top, exponential) ==
    LET ideal == DcgOf(TopIdeal(target, clamp_top(top, Len(approx))), exponential)
    IN  IF ideal > 0 THEN Fraction(dcg_group(approx, target, top, exponential), ideal)
        ELSE Fraction(1, 1)

(***************************************************************************)
(* A reader going down the list: pfound stops with probability 1 - decay   *)
(* (a fraction of DecayDen), err only when satisfied.  For pfound any      *)
(* negative top is the whole group; for err and mrr only -1 is.            *)
(***************************************************************************)
Depth(top, size) ==
    IF top = -1 \/ size < top THEN size ELSE IF top < 0 THEN 0 ELSE top

(* The chance of looking at place p, in units of 1 / (TargetUnit * den) ^  *)
(* (p - 1).                                                                *)
Look(relevances, num, den) ==
    LET at[p \in 1..(Len(relevances) + 1)] ==
            IF p = 1 THEN 1 ELSE at[p - 1] * (TargetUnit - relevances[p - 1]) * num
    IN  at

pfound_group(approx, target, top, num, den) ==
    LET order == sorted_indices(approx, target)
        rel == [p \in DOMAIN approx |-> target[order[p]]]
        depth == clamp_top(top, Len(approx))
        look == Look(rel, num, den)
    IN  Fraction(Total([p \in 1..depth |-> rel[p] * look[p] * (TargetUnit * den) ^ (depth - p)]),
                 TargetUnit * (TargetUnit * den) ^ (IF depth = 0 THEN 0 ELSE depth - 1))

err_group(approx, target, top) ==
    LET order == sorted_indices(approx, target)
        rel == [p \in DOMAIN approx |-> target[order[p]]]
        depth == Depth(top, Len(approx))
        look == Look(rel, 1, 1)
        common == IF depth <= 1 THEN 1 ELSE IF depth = 2 THEN 2 ELSE IF depth = 3 THEN 6 ELSE 12
    IN  Fraction(Total([p \in 1..depth |->
                     (common \div p) * rel[p] * look[p] * TargetUnit ^ (depth - p)]),
                 common * TargetUnit ^ depth)

(***************************************************************************)
(* Relevance above a border.                                               *)
(***************************************************************************)
Relevant(target, border) == {i \in DOMAIN target : target[i] > border}

(* mrr_group counts the documents before the first relevant one without    *)
(* sorting.                                                                *)
mrr_group(approx, target, top, border) ==
    LET relevant == Relevant(target, border)
        best == CHOOSE a \in {approx[i] : i \in relevant} : \A i \in relevant : approx[i] <= a
        ahead == {i \in DOMAIN approx :
                    approx[i] > best \/ (approx[i] = best /\ target[i] <= border)}
        pos == 1 + Cardinality(ahead)
    IN  IF relevant = {} \/ pos > Depth(top, Len(approx)) THEN Fraction(0, 1)
        ELSE Fraction(1, pos)

HitsIn(order, target, border, k) ==
    Cardinality({p \in 1..k : target[order[p]] > border})

precision_at_group(approx, target, top, border) ==
    LET k == clamp_top(top, Len(approx))
    IN  IF k = 0 THEN Fraction(0, 1)
        ELSE Fraction(HitsIn(sorted_indices(approx, target), target, border, k), k)

recall_at_group(approx, target, top, border) ==
    LET k == clamp_top(top, Len(approx))
        all == Cardinality(Relevant(target, border))
    IN  IF all = 0 THEN Fraction(1, 1)
        ELSE Fraction(HitsIn(sorted_indices(approx, target), target, border, k), all)

(* With no place to look at and a relevant document it is 0 / 0.           *)
map_at_group(approx, target, top, border) ==
    LET k == clamp_top(top, Len(approx))
        order == sorted_indices(approx, target)
        hits == Cardinality(Relevant(target, border))
        common == 12
        score == Total([p \in 1..k |->
                    IF target[order[p]] > border
                    THEN (common \div p) * HitsIn(order, target, border, p) ELSE 0])
        counted == IF hits < k THEN hits ELSE k
    IN  IF hits = 0 THEN Fraction(0, 1) ELSE Fraction(score, common * counted)

(***************************************************************************)
(* AUC over the ordered pairs, and over positives and negatives, where a   *)
(* target is the share of the object that is positive.                     *)
(***************************************************************************)
Halves(a, b) == IF a > b THEN 2 ELSE IF a = b THEN 1 ELSE 0

ranking_auc_group(approx, target) ==
    LET cells == [i \in DOMAIN approx |-> [j \in DOMAIN approx |->
                    IF target[i] > target[j] THEN <<Halves(approx[i], approx[j]), 2>> ELSE <<0, 0>>]]
        part(k) == Total([i \in DOMAIN approx |-> Total([j \in DOMAIN approx |-> cells[i][j][k]])])
    IN  IF part(2) = 0 THEN Fraction(0, 1) ELSE Fraction(part(1), part(2))

classic_auc_group(approx, target) ==
    LET positive == [i \in DOMAIN approx |-> target[i]]
        negative == [i \in DOMAIN approx |-> IF target[i] < TargetUnit THEN TargetUnit - target[i] ELSE 0]
        won == Total([i \in DOMAIN approx |-> Total([j \in DOMAIN approx |->
                    positive[i] * negative[j] * Halves(approx[i], approx[j])])])
    IN  IF Total(positive) = 0 \/ Total(negative) = 0 THEN Fraction(0, 1)
        ELSE Fraction(won, 2 * Total(positive) * Total(negative))

(***************************************************************************)
(* eval_grouped (cb-train/src/metrics.rs): the mean of a metric over the   *)
(* queries, weighed by the queries' weights or evenly.                     *)
(***************************************************************************)
WeighedByQuery == {"NDCG", "DCG", "PFound", "ERR", "MRR", "QueryAUC"}
DefaultOf(metric) == IF metric \in {"Precision", "Recall"} THEN Fraction(1, 1) ELSE Fraction(0, 1)

Plus(a, b) == Fraction(a.num * b.den + b.num * a.den, a.den * b.den)

eval_grouped(metric, values, queryWeights) ==
    LET weight(q) == IF metric \in WeighedByQuery THEN queryWeights[q] ELSE 1
        whole == Total([q \in DOMAIN values |-> weight(q)])
        sum == FoldLeft(Plus, Fraction(0, 1),
                        [q \in DOMAIN values |-> Fraction(weight(q) * values[q].num, values[q].den)])
    IN  IF whole <= 0 THEN DefaultOf(metric) ELSE Fraction(sum.num, sum.den * whole)
===============================================================================
