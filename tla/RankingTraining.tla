---------------------------- MODULE RankingTraining ----------------------------
(***************************************************************************)
(* A fit with a loss over queries (the ranking arm of train_inner_impl,    *)
(* cb-train/src/boosting.rs).  Each tree takes the derivatives of its      *)
(* groups, grows its levels, estimates its leaves and advances the         *)
(* approximants.                                                           *)
(*                                                                         *)
(* YetiRank has no pairs of its own: it samples them three times a tree,   *)
(* each time from another approximant and other seeds, and keeps them in   *)
(* the one list `groups[g].competitors` that everything else reads:        *)
(*   for the derivatives the search is given, from the learning fold's     *)
(*     approximant learnApprox;                                            *)
(*   for the leaf values of the model, from the averaging fold's approx;   *)
(*   for the learning fold's own step, from learnApprox again.             *)
(*                                                                         *)
(* Learning rate and rounding are the given function Shrink.  A loss scored*)
(* without pairs is searched by the given LeafScore.                       *)
(***************************************************************************)
EXTENDS PairwiseSplits, RankingDers

CONSTANTS
    Pools,          \* [ids, subgroups, weights, target, features, pairs]
    Losses,         \* [kind, ...the parameters of the kind]
    Iterations, MaxDepth, RandomSeed, PermutationCount,
    L2Leaf,
    Shrink(_),      \* a leaf value at the learning rate
    LeafScore(_, _), LeafAverage(_, _)

VARIABLES pool, loss, stage, iter, made, seeds, groups, approx, learnApprox,
          ders, effWeights, chosen, leafOf, leafDers, leafValues

vars == <<pool, loss, stage, iter, made, seeds, groups, approx, learnApprox,
          ders, effWeights, chosen, leafOf, leafDers, leafValues>>
fit == <<pool, loss>>
tree == <<chosen, leafOf>>

Rows == Len(pool.target)
IsYeti == loss.kind \in YetiLosses
IsStochastic == loss.kind = "StochasticRank"
Pairwise == loss.kind \in PairwiseScoringLosses
Leaves(levels) == 2 ^ Len(levels)
Ones == [o \in 1..Rows |-> 1]
Weights == IF pool.weights = <<>> THEN Ones ELSE pool.weights
NoDers == [der1 |-> <<>>, der2 |-> <<>>]

Init ==
    /\ pool \in Pools /\ loss \in Losses
    /\ stage = "build" /\ iter = 0 /\ made = 0
    /\ seeds = <<>> /\ groups = <<>>
    /\ approx = [o \in 1..Rows |-> 0] /\ learnApprox = [o \in 1..Rows |-> 0]
    /\ ders = NoDers /\ leafDers = NoDers /\ effWeights = <<>>
    /\ chosen = <<>> /\ leafOf = <<>> /\ leafValues = <<>>

(***************************************************************************)
(* The groups, once.                                                       *)
(***************************************************************************)
BuildGroups ==
    /\ stage = "build"
    /\ IF QueryInfoError(Rows, pool.ids, pool.subgroups, pool.pairs, pool.weights)
       THEN stage' = "refused" /\ groups' = groups
       ELSE /\ stage' = "derivatives"
            /\ groups' = build_query_info(Rows, pool.ids, pool.pairs, pool.weights)
    /\ UNCHANGED <<fit, iter, made, seeds, approx, learnApprox, ders, effWeights, tree, leafDers, leafValues>>

(***************************************************************************)
(* Sampling: the pairs of every group, replaced.                           *)
(***************************************************************************)
Resampled(from, groupSeeds) ==
    [g \in DOMAIN groups |->
        [groups[g] EXCEPT !.competitors =
            sample_pairs(Slice(from, groups[g]), Slice(pool.target, groups[g]),
                         groups[g].weight, PermutationCount, groupSeeds[g])]]

compute_gradients_grouped(from, spans, seed) ==
    calc_ders_for_queries(loss, spans, from, pool.target, pool.weights, seed)

EffectiveWeights(spans) ==
    IF uses_pairwise_weights(loss.kind) THEN calc_pairwise_weights(spans, Rows)
    ELSE [o \in 1..Rows |-> Weights[o] * WeightUnit]

Derivatives ==
    /\ stage = "derivatives"
    /\ LET next == next_tree(RandomSeed, made, Len(groups), Len(pool.features), MaxDepth)
       IN  /\ seeds' = IF IsYeti \/ IsStochastic THEN next ELSE <<>>
           /\ made' = IF IsYeti \/ IsStochastic THEN next.made ELSE made
    /\ groups' = IF IsYeti THEN Resampled(learnApprox, seeds'.deriv) ELSE groups
    /\ ders' = compute_gradients_grouped(IF IsYeti THEN learnApprox ELSE approx, groups',
                                         IF IsStochastic THEN seeds'.recalc[1] ELSE RandomSeed)
    /\ effWeights' = EffectiveWeights(groups')
    /\ chosen' = <<>> /\ leafOf' = [o \in 1..Rows |-> 0]
    /\ stage' = "grow"
    /\ UNCHANGED <<fit, iter, approx, learnApprox, leafDers, leafValues>>

(***************************************************************************)
(* The search.  A pairwise loss counts the pairs of the derivatives; the   *)
(* others sum derivatives and weights by leaf.                             *)
(***************************************************************************)
SumIn(values, inLeaf(_)) == Total([o \in 1..Rows |-> IF inLeaf(o) THEN values[o] ELSE 0])

PointScore(feature, border) ==
    LET score(leaf, right) ==
            LET inLeaf(o) == leafOf[o] = leaf
                               /\ (pool.features[feature].value[o] > border) = right
            IN  LeafScore(SumIn(ders.der1, inLeaf), SumIn(effWeights, inLeaf))
    IN  Total([leaf \in 1..Leaves(chosen) |-> score(leaf - 1, TRUE) + score(leaf - 1, FALSE)])

PointCandidates ==
    FlattenSeq([f \in DOMAIN pool.features |->
        [b \in 1..pool.features[f].borders |->
            [feature |-> f, border |-> b - 1, score |-> PointScore(f, b - 1)]]])

Candidates ==
    IF Pairwise
    THEN PairwiseCandidates(pool.features, leafOf, Leaves(chosen), ders.der1, flatten_global_pairs(groups))
    ELSE PointCandidates

GrowLevel ==
    /\ stage = "grow"
    /\ IF Candidates = <<>>
       THEN stage' = "refused" /\ UNCHANGED tree
       ELSE /\ chosen' = Append(chosen, select_best_candidate(Candidates))
            /\ leafOf' = assign_leaves(pool.features, chosen', Rows)
            /\ stage' = IF Len(chosen') = MaxDepth THEN "values" ELSE "grow"
    /\ UNCHANGED <<fit, iter, made, seeds, groups, approx, learnApprox, ders, effWeights, leafDers, leafValues>>

(***************************************************************************)
(* Leaf values.                                                            *)
(***************************************************************************)
PointDeltas(of, weights) ==
    [leaf \in 0..(Leaves(chosen) - 1) |->
        LET inLeaf(o) == leafOf[o] = leaf
        IN  LeafAverage(SumIn(of.der1, inLeaf), SumIn(weights, inLeaf) + L2Leaf)]

LeafWeights == [leaf \in 0..(Leaves(chosen) - 1) |->
                   LET inLeaf(o) == leafOf[o] = leaf IN SumIn(Weights, inLeaf)]

(* The values of a loss with pair weights are centred over the objects; a  *)
(* leaf without objects gets 0.                                            *)
normalize_leaf_values(values) ==
    LET whole == Total([l \in 1..Leaves(chosen) |-> LeafWeights[l - 1]])
        mean == Total([l \in 1..Leaves(chosen) |-> values[l - 1] * LeafWeights[l - 1]])
    IN  IF ~uses_pairwise_weights(loss.kind) \/ whole = 0 THEN values
        ELSE [l \in DOMAIN values |->
                IF LeafWeights[l] = 0 THEN 0 ELSE values[l] - (mean \div whole)]

LeafDeltas(spans, of, weights) ==
    IF Pairwise THEN compute_pairwise_leaf_deltas(spans, leafOf, of.der1, Leaves(chosen))
    ELSE PointDeltas(of, weights)

\* Mutant: the leaf values reuse the derivatives of the search.
StaleLeafValues ==
    /\ stage = "values"
    /\ groups' = IF IsYeti THEN Resampled(approx, seeds.leafval) ELSE groups
    /\ leafDers' = ders
    /\ leafValues' = normalize_leaf_values(LeafDeltas(groups', leafDers', EffectiveWeights(groups')))
    /\ stage' = "advance"
    /\ UNCHANGED <<fit, iter, made, seeds, approx, learnApprox, ders, effWeights, tree>>

LeafValues ==
    /\ stage = "values"
    /\ groups' = IF IsYeti THEN Resampled(approx, seeds.leafval) ELSE groups
    /\ leafDers' = CASE IsYeti -> compute_gradients_grouped(approx, groups', RandomSeed)
                     [] IsStochastic -> compute_gradients_grouped(approx, groups', seeds.recalc[3])
                     [] OTHER -> ders
    /\ leafValues' = normalize_leaf_values(
                         LeafDeltas(groups', leafDers',
                                    IF uses_pairwise_weights(loss.kind) THEN EffectiveWeights(groups')
                                                                        ELSE Ones))
    /\ stage' = "advance"
    /\ UNCHANGED <<fit, iter, made, seeds, approx, learnApprox, ders, effWeights, tree>>

NextStage(i) == IF i = Iterations THEN "done" ELSE "derivatives"

Advance ==
    /\ stage = "advance"
    /\ approx' = [o \in 1..Rows |-> approx[o] + Shrink(leafValues[leafOf[o]])]
    /\ IF IsYeti THEN stage' = "learnfold" /\ iter' = iter
       ELSE iter' = iter + 1 /\ stage' = NextStage(iter')
    /\ UNCHANGED <<fit, made, seeds, groups, learnApprox, ders, effWeights, tree, leafDers, leafValues>>

(* The learning fold's values are not centred; without a pairwise system   *)
(* every object weighs one here.                                           *)
LearnFold ==
    /\ stage = "learnfold"
    /\ groups' = Resampled(learnApprox, seeds.learnfold)
    /\ LET foldDers == compute_gradients_grouped(learnApprox, groups', RandomSeed)
           values == LeafDeltas(groups', foldDers, Ones)
       IN  /\ leafDers' = foldDers
           /\ learnApprox' = [o \in 1..Rows |-> learnApprox[o] + Shrink(values[leafOf[o]])]
    /\ iter' = iter + 1
    /\ stage' = NextStage(iter')
    /\ UNCHANGED <<fit, made, seeds, approx, ders, effWeights, tree, leafValues>>

Terminating == stage \in {"done", "refused"} /\ UNCHANGED vars

Next == BuildGroups \/ Derivatives \/ GrowLevel \/ LeafValues \/ Advance \/ LearnFold \/ Terminating

Spec == Init /\ [][Next]_vars

(***************************************************************************)
(* Properties.                                                             *)
(***************************************************************************)
(* The pairs cut by a split, and the system of the leaves a split makes,   *)
(* counted afresh: leaf l of the tree so far becomes l on the left and     *)
(* l + Leaves on the right, which the search numbers 2l and 2l + 1.        *)
SideOf(f, border, o) == IF pool.features[f].value[o] > border THEN 1 ELSE 0
CutBy(f, border, p) == SideOf(f, border, p.winner) # SideOf(f, border, p.loser)
FreshSystem(f, border) ==
    LeafSystem(groups, [o \in 1..Rows |-> leafOf[o] + Leaves(chosen) * SideOf(f, border, o)],
               ders.der1, 2 * Leaves(chosen))
Renumber(u) == (u \div 2) + Leaves(chosen) * (u % 2)

SweepIsFresh(f) ==
    LET swept == FeatureSystems(pool.features[f].value, pool.features[f].borders + 1, leafOf,
                                Leaves(chosen), ders.der1, flatten_global_pairs(groups))
    IN  \A border \in DOMAIN swept :
            LET fresh == FreshSystem(f, border)
                sys == swept[border]
            IN  /\ \A u \in Unknowns(sys) : sys.d[u] = fresh.d[Renumber(u)]
                /\ \A u, v \in Unknowns(sys) : sys.w[u][v] = fresh.w[Renumber(u)][Renumber(v)]

Columns == [f \in DOMAIN pool.features |-> pool.features[f].value]
Identity == [o \in 1..Rows |-> o]

(* The device's first level: its running sums count every cut pair twice,  *)
(* whatever the layout; by one-hot bin, twice the pairs with one end in    *)
(* it; and its systems, split and candidates are the CPU's.                *)
HistogramsCountCuts(f, layout, launch) ==
    LET pairs == flatten_global_pairs(groups)
        weightOf(P(_)) == Total([k \in DOMAIN pairs |-> IF P(pairs[k]) THEN pairs[k].weight ELSE 0])
        scan(bin, c) == ScanUpdate(layout, FALSE, pairs, Columns[f], bin, c)
        oneHot(bin, c) == PairHist(layout, TRUE, pairs, Columns[f], bin, c)
    IN  launch = "launched" =>
            \A bin \in 0..pool.features[f].borders :
                LET cut(p) == CutBy(f, bin, p)
                    oneIn(p) == (Columns[f][p.winner] = bin) # (Columns[f][p.loser] = bin)
                IN  /\ scan(bin, 0) - scan(bin, 1) + scan(bin, 3) - scan(bin, 2) = 2 * weightOf(cut)
                    /\ oneHot(bin, 2) + oneHot(bin, 3) = 2 * weightOf(oneIn)

SameBuckets == \A f, g \in DOMAIN pool.features : pool.features[f].borders = pool.features[g].borders

DeviceAgrees ==
    LET buckets == pool.features[1].borders + 1
        pairs == flatten_global_pairs(groups)
    IN  (Pairwise /\ SameBuckets /\ GrowLaunch(Rows, Columns, buckets, 1) = "grown") =>
            DeviceStump(Columns, buckets, ders.der1, Weights, Identity, pairs).split
                = select_best_candidate(Candidates)

(* The systems the search moves from border to border (CPU, any level) and *)
(* the ones the device scans (first level) are those of the leaves the     *)
(* split would make, counted from the pairs of the current sampling.       *)
(* Moving a bucket is right only because every statistic is filed by the   *)
(* end in the smaller bucket, pairs inside a leaf included.                *)
SplitSystemsAreThePairs ==
    stage = "grow" =>
        /\ \A f \in DOMAIN pool.features : SweepIsFresh(f)
        /\ chosen = <<>> =>
              /\ LET pairs == flatten_global_pairs(groups)
                 IN  \A f \in DOMAIN pool.features :
                    /\ HistogramsCountCuts(f, pairwise_hist_nonbinary,
                           launch_pairwise_hist_into(pairs, Columns, Rows, 32, TRUE))
                    /\ HistogramsCountCuts(f, pairwise_hist_8bit,
                           launch_pairwise_hist_8bit_into(pairs, Columns, Rows, 256, TRUE))
                    /\ HistogramsCountCuts(f, pairwise_hist_half_byte,
                           launch_pairwise_hist_half_byte_into(pairs, Columns, Rows, 16, TRUE))
                    /\ HistogramsCountCuts(f, pairwise_hist_binary,
                           launch_pairwise_hist_binary_into(pairs, Columns, Rows, 2, TRUE))
              /\ DeviceAgrees

(* In every phase of a tree the derivatives in use come from the pairs in  *)
(* use: inside a query they cancel (but for rounding), and in every leaf   *)
(* the derivatives do not exceed the weight of the pairs that leave it.    *)
(* YetiRank replaces the pairs three times a tree, so that derivatives     *)
(* kept from another sampling, or the pairs of another, break this.        *)
Cancels(of, g) ==
    LET sum == Total(Slice(of.der1, g))
    IN  CASE loss.kind = "QuerySoftMax" -> sum \in 0..(Size(g) * Total(Slice(Weights, g)) * 3)
          [] loss.kind = "LambdaMart" /\ loss.norm -> Abs(sum) <= Size(g)
          [] OTHER -> sum = 0

FitPairs(of) ==
    /\ \A g \in DOMAIN groups : Cancels(of, groups[g])
    /\ uses_pairwise_weights(loss.kind) =>
          LET sys == LeafSystem(groups, leafOf, of.der1, Leaves(chosen))
          IN  \A leaf \in Unknowns(sys) : Abs(sys.d[leaf]) <= DerUnit * sys.w[leaf][leaf]

DersFitTheirPairs ==
    /\ stage \in {"grow", "values"} => FitPairs(ders)
    /\ stage \in {"advance", "learnfold"} => FitPairs(leafDers)

(* The model's leaf values have no mean over the objects (below one unit   *)
(* each), and a leaf no object reached says nothing.                       *)
LeafValuesCentred ==
    stage \in {"advance", "learnfold"} /\ uses_pairwise_weights(loss.kind) =>
        /\ \A leaf \in DOMAIN leafValues : LeafWeights[leaf] = 0 => leafValues[leaf] = 0
        /\ LET whole == Total(Weights)
               mean == Total([o \in 1..Rows |-> Weights[o] * leafValues[leafOf[o]]])
           IN  whole = 0 \/ mean \in 0..(whole - 1)

(* Search, derivatives and leaf values of a tree all rest on the same      *)
(* pairs: every system is counted from the sampling it is solved for.      *)
TreesFitTheirPairs == SplitSystemsAreThePairs /\ DersFitTheirPairs /\ LeafValuesCentred

(***************************************************************************)
(* The metrics on the approximants of the fit.                             *)
(***************************************************************************)
Tops == {-2, -1, 0, 1, 2, 7}

(* The change StochasticRank computes from its running sums is its metric  *)
(* after the move less its metric before.                                  *)
MoveTo(s, old, new) == InsertAt(RemoveAt(s, old), new, s[old])
WeightedGain(gains, weights) == Total([p \in DOMAIN gains |-> gains[p] * weights[p]])
MovesAreDifferences(a, t) ==
    LET order == stable_sort_desc_by_key(a)
        gains == [p \in DOMAIN a |-> t[order[p]]]
    IN  \A metric \in {"DCG", "NDCG"} :
            LET weights == compute_dcg_pos_weights(t, metric)
            IN  \A old, new \in DOMAIN a : old # new =>
                    calc_dcg_metric_diff(old, new, gains, weights)
                        = WeightedGain(MoveTo(gains, old, new), weights) - WeightedGain(gains, weights)

(* Exchanging two objects of one approximant never lowers the DCG, the     *)
(* reciprocal rank is read at the first relevant place of the order DCG    *)
(* reads, and the measures that are shares stay between 0 and 1.           *)
Swapped(s, p, q) == [s EXCEPT ![p] = s[q], ![q] = s[p]]
InUnit(f) == f.den > 0 => AtMost(Fraction(0, 1), f) /\ AtMost(f, Fraction(1, 1))
GroupMetricsAgree(a, t) ==
    LET n == Len(a)
        order == sorted_indices(a, t)
        shown == [p \in 1..n |-> t[order[p]]]
        firstRelevant(border) == {p \in 1..n : t[order[p]] > border
                                     /\ \A q \in 1..(p - 1) : t[order[q]] <= border}
    IN  /\ \A top \in Tops, exponential \in BOOLEAN :
              /\ \A p, q \in 1..n :
                    a[order[p]] = a[order[q]] =>
                        dcg_group(a, t, top, exponential)
                            <= DcgOf(SubSeq(Swapped(shown, p, q), 1, clamp_top(top, n)), exponential)
              /\ InUnit(ndcg_group(a, t, top, exponential))
        /\ \A top \in Tops, border \in 0..1 :
              /\ mrr_group(a, t, top, border)
                    = (IF \E p \in firstRelevant(border) : p <= Depth(top, n)
                       THEN Fraction(1, CHOOSE p \in firstRelevant(border) : TRUE) ELSE Fraction(0, 1))
              /\ InUnit(map_at_group(a, t, top, border))
              /\ clamp_top(top, n) * precision_at_group(a, t, top, border).num
                    <= n * precision_at_group(a, t, top, border).den
              /\ InUnit(recall_at_group(a, t, top, border))
        /\ \A top \in Tops :
              /\ InUnit(pfound_group(a, t, top, 1, 2))
              /\ InUnit(err_group(a, t, top))
        /\ LET binary == [i \in 1..n |-> IF t[i] > 0 THEN TargetUnit ELSE 0]
           IN  Same(ranking_auc_group(a, binary), classic_auc_group(a, binary))

(* The value over the queries lies among the queries' values.              *)
PoolMetricsAgree ==
    \A metric \in {"NDCG", "Recall"} :
        LET of(g) == IF metric = "NDCG"
                     THEN ndcg_group(Slice(approx, g), Slice(pool.target, g), 2, FALSE)
                     ELSE recall_at_group(Slice(approx, g), Slice(pool.target, g), 2, 0)
            values == [g \in DOMAIN groups |-> of(groups[g])]
            whole == eval_grouped(metric, values, [g \in DOMAIN groups |-> groups[g].weight])
        IN  (\E g \in DOMAIN groups : groups[g].weight > 0) =>
                /\ \E g \in DOMAIN groups : AtMost(values[g], whole)
                /\ \E g \in DOMAIN groups : AtMost(whole, values[g])

MetricsReadOneOrder ==
    /\ stage \in {"derivatives", "done"} =>
        \A g \in DOMAIN groups :
            LET a == Slice(approx, groups[g])
                t == Slice(pool.target, groups[g])
            IN  /\ GroupMetricsAgree(a, t)
                /\ MovesAreDifferences(a, t)
    /\ stage \in {"derivatives", "done"} => PoolMetricsAgree
================================================================================
