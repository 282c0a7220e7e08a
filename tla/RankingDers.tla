----------------------------- MODULE RankingDers -----------------------------
(***************************************************************************)
(* The derivatives of the losses over queries                              *)
(* (cb-compute/src/ranking_der.rs): each group is worked on alone, from    *)
(* its slices of the approximants, targets and weights.  And the pairs     *)
(* YetiRank samples for them, with their seeds (cb-train/src/yetirank.rs): *)
(* an approximant's key exp(approx) * u / (1 - u) is kept as the logarithm *)
(* approx + Noise, a pair's weight times the number of permutations, and a *)
(* generator is its seed and the number of its draws.                      *)
(*                                                                         *)
(* Derivatives are integers in units of 1/DerUnit; the exponentials, the   *)
(* logarithms and the normal density are given functions.                  *)
(***************************************************************************)
EXTENDS QueryGroups

CONSTANTS
    Gen(_, _),           \* the k-th number drawn from a seed
    NormalTakes(_, _),   \* draws a normal takes when k were made before it
    Noise(_, _),         \* log of u / (1.000001 - u) of the k-th draw of a seed
    PairMagic(_),        \* MAGIC_CONST * decay ^ (place - 1)
    DerUnit,             \* a multiple of every group's size and total weight
    PairProb(_),         \* DerUnit * sigmoid of loser minus winner
    ExpOf(_),            \* exp(beta * a) for a <= 0
    Discount(_),         \* 1 / log2(2 + pos), pos from 0
    PairGrad(_, _),      \* lambdamart_pair_grad: <<antigrad, hessian>>
    NormDelta(_, _),     \* delta / (0.01 + |diff|)
    NormDer(_, _),       \* d * log2(1 + sum) / sum
    NormalDraw(_, _),    \* the k-th normal of a seed
    Density(_)           \* the normal density at a distance from its mean

(* Indices by falling key; equal keys keep their order.                    *)
stable_sort_desc_by_key(keys) ==
    SortSeq([i \in DOMAIN keys |-> i],
            LAMBDA i, j : keys[i] > keys[j] \/ (keys[i] = keys[j] /\ i < j))

(***************************************************************************)
(* sample_pairs.  Neighbours of each noisy order meet; the one of higher   *)
(* relevance wins the pair's weight.                                       *)
(***************************************************************************)
NoisyOrder(raw, seed, perm) ==
    stable_sort_desc_by_key(
        [i \in DOMAIN raw |-> raw[i] + Noise(seed, (perm - 1) * Len(raw) + i)])

(* What the neighbours of one order add to the pair (winner, loser).       *)
calc_weights_classic(order, relevs, winner, loser) ==
    Total([k \in 1..(Len(order) - 1) |->
        IF relevs[winner] > relevs[loser] /\ {order[k], order[k + 1]} = {winner, loser}
        THEN PairMagic(k) * (relevs[winner] - relevs[loser]) ELSE 0])

sample_pairs(raw, relevs, queryWeight, permutations, seed) ==
    LET orders == [perm \in 1..permutations |-> NoisyOrder(raw, seed, perm)]
        weight(winner, loser) ==
            queryWeight * Total([perm \in 1..permutations |->
                              calc_weights_classic(orders[perm], relevs, winner, loser)])
        row(winner) == [loser \in DOMAIN raw |-> [id |-> loser, weight |-> weight(winner, loser)]]
    IN  [winner \in DOMAIN raw |-> SelectSeq(row(winner), LAMBDA c : c.weight # 0)]

(***************************************************************************)
(* The seeds of a tree.  One generator serves the whole fit: next_tree     *)
(* replays every draw the tree makes, so that the three sampling seeds     *)
(* come at their places.  All three are drawn before the tree is grown.    *)
(***************************************************************************)
derive_per_tree_query_seeds(recalc, groups) == [g \in 1..groups |-> Gen(Gen(recalc, g), 1)]

(* Draws made after one level: one per feature, the score's, the normals.  *)
AfterLevel(root, made, features) ==
    LET after[f \in 0..features] ==
            IF f = 0 THEN made + features + 1
            ELSE after[f - 1] + NormalTakes(root, after[f - 1])
    IN  after[features]

AfterSearch(root, made, features, depth) ==
    LET after[level \in 0..depth] ==
            IF level = 0 THEN made + 2 ELSE AfterLevel(root, after[level - 1], features)
    IN  after[depth]

next_tree(root, made, groups, features, depth) ==
    LET searched == AfterSearch(root, made, features, depth)
        derivRecalc == Gen(Gen(root, made + 2), 1)
        foldRecalc  == Gen(Gen(Gen(root, searched + 1), 1), 1)
        leafBase    == Gen(root, searched + 2)
    IN  [deriv     |-> derive_per_tree_query_seeds(derivRecalc, groups),
         learnfold |-> derive_per_tree_query_seeds(foldRecalc, groups),
         leafval   |-> derive_per_tree_query_seeds(leafBase, groups),
         recalc    |-> <<derivRecalc, foldRecalc, leafBase>>,
         made      |-> searched + 2]

Zeros(n) == [i \in 1..n |-> 0]
ZeroDers(n) == [der1 |-> Zeros(n), der2 |-> Zeros(n)]
Abs(x) == IF x < 0 THEN -x ELSE x

(***************************************************************************)
(* QueryRMSE: residuals around their weighted mean in the query.           *)
(***************************************************************************)
QueryRmseDers(approx, target, weight) ==
    LET resid == [i \in DOMAIN approx |-> target[i] - approx[i]]
        whole == Total(weight)
        moment == Total([i \in DOMAIN approx |-> resid[i] * weight[i]])
        average == IF whole > 0 THEN (DerUnit \div whole) * moment ELSE 0
    IN  [der1 |-> [i \in DOMAIN approx |-> (DerUnit * resid[i] - average) * weight[i]],
         der2 |-> [i \in DOMAIN approx |-> -DerUnit * weight[i]]]

(***************************************************************************)
(* QuerySoftMax: the shares of the members against their targets.          *)
(***************************************************************************)
QuerySoftMaxDers(approx, target, weight) ==
    LET n == Len(approx)
        counted == {i \in 1..n : weight[i] > 0}
        top == CHOOSE a \in {approx[i] : i \in counted} : \A i \in counted : approx[i] <= a
        wanted == Total([i \in 1..n |->
                      IF i \in counted /\ target[i] > 0 THEN weight[i] * target[i] ELSE 0])
        share(i) == weight[i] * ExpOf(approx[i] - top)
        whole == Total([i \in 1..n |-> IF i \in counted THEN share(i) ELSE 0])
        p(i) == (DerUnit * share(i)) \div whole
    IN  IF wanted <= 0 THEN ZeroDers(n)
        ELSE [der1 |-> [i \in 1..n |-> IF i \in counted
                            THEN DerUnit * weight[i] * target[i] - wanted * p(i) ELSE 0],
              der2 |-> [i \in 1..n |-> IF i \in counted
                            THEN (wanted * p(i) * (p(i) - DerUnit)) \div DerUnit ELSE 0]]

(***************************************************************************)
(* PairLogit and YetiRank: every pair pulls its two ends apart.            *)
(***************************************************************************)
pairlogit_group_der(approx, competitors) ==
    LET n == Len(approx)
        p(i, c) == PairProb(approx[c.id] - approx[i])
        curve(i, c) == (c.weight * p(i, c) * (p(i, c) - DerUnit)) \div DerUnit
        Won(i, F(_, _)) == Total([k \in DOMAIN competitors[i] |-> F(i, competitors[i][k])])
        Lost(i, F(_, _)) == Total([w \in 1..n |->
                                Total([k \in DOMAIN competitors[w] |->
                                    IF competitors[w][k].id = i THEN F(w, competitors[w][k]) ELSE 0])])
        pull(i, c) == c.weight * p(i, c)
    IN  [der1 |-> [i \in 1..n |-> Won(i, pull) - Lost(i, pull)],
         der2 |-> [i \in 1..n |-> Won(i, curve) + Lost(i, curve)]]

(***************************************************************************)
(* LambdaMART for DCG and NDCG; the other target metrics add nothing.      *)
(***************************************************************************)
lambda_query_top_size(top, n) ==
    IF top = -1 \/ top > n THEN n ELSE IF top < 0 THEN n ELSE top

IdealDcg(target, top) ==
    LET sorted == stable_sort_desc_by_key(target)
    IN  Total([pos \in 1..top |-> target[sorted[pos]] * Discount(pos - 1)])

SecondPlaces(first, top, n) == IF first <= top THEN n ELSE top

LambdaPairs(approx, target, top) ==
    LET n == Len(approx)
        order == stable_sort_desc_by_key(approx)
    IN  {pair \in (1..n) \X (1..n) :
            /\ pair[2] <= SecondPlaces(pair[1], top, n)
            /\ target[order[pair[1]]] > target[order[pair[2]]]}

(* The share of the ideal DCG a pair's exchange is worth.                  *)
PairDelta(pair, approx, target, order, ideal, norm) ==
    LET high == order[pair[1]]
        low == order[pair[2]]
        gain == (target[high] - target[low]) * Abs(Discount(pair[1] - 1) - Discount(pair[2] - 1))
        alike == approx[order[1]] = approx[order[Len(order)]]
        share == (DerUnit * gain) \div ideal
    IN  IF ideal = 0 THEN 0
        ELSE IF norm /\ ~alike THEN NormDelta(share, Abs(approx[high] - approx[low])) ELSE share

(* What the pairs of places add up to, normalised by their sum.            *)
SumOfGrads(n, order, pairs, grads, norm) ==
    LET sum == -2 * Total([k \in DOMAIN pairs |-> grads[k][1]])
        scaled(d) == IF norm /\ sum > 0 THEN NormDer(d, sum) ELSE d
        at(i, k, place) == order[pairs[k][place]] = i
    IN  [der1 |-> [i \in 1..n |-> scaled(Total([k \in DOMAIN pairs |->
                      IF at(i, k, 1) THEN grads[k][1] ELSE IF at(i, k, 2) THEN -grads[k][1] ELSE 0]))],
         der2 |-> [i \in 1..n |-> scaled(Total([k \in DOMAIN pairs |->
                      IF at(i, k, 1) \/ at(i, k, 2) THEN grads[k][2] ELSE 0]))]]

LambdaGrads(pairs, approx, target, order, ideal, norm) ==
    [k \in DOMAIN pairs |->
        PairGrad(approx[order[pairs[k][1]]] - approx[order[pairs[k][2]]],
                 PairDelta(pairs[k], approx, target, order, ideal, norm))]

OrderedLambda(approx, target, order, pairs, ideal, norm) ==
    SumOfGrads(Len(approx), order, pairs, LambdaGrads(pairs, approx, target, order, ideal, norm), norm)

lambdamart_group_der(approx, target, metric, topParam, norm) ==
    LET n == Len(approx)
        top == lambda_query_top_size(topParam, n)
    IN  IF n <= 1 \/ metric \in {"MRR", "ERR", "MAP"} THEN ZeroDers(n)
        ELSE OrderedLambda(approx, target, stable_sort_desc_by_key(approx),
                           SetToSeq(LambdaPairs(approx, target, top)), IdealDcg(target, top), norm)

(***************************************************************************)
(* StochasticRank: how the metric changes when one document moves to       *)
(* another place, weighed by the chance of the move.                       *)
(*                                                                         *)
(* The running sums hold, before place p + 1, the gain of the documents    *)
(* where they are, one place up and one place down.  NDCG divides the      *)
(* places' weights by the ideal DCG, in units of Discount(0), which is 1.  *)
(***************************************************************************)
compute_dcg_pos_weights(target, metric) ==
    LET ideal == IdealDcg(target, Len(target))
    IN  [pos \in DOMAIN target |->
            IF metric = "NDCG" /\ ideal > 0 THEN (Discount(0) * Discount(pos - 1)) \div ideal
                                            ELSE Discount(pos - 1)]

CumSum(gains, weights) ==
    LET n == Len(gains)
        at[p \in 0..n] == IF p = 0 THEN 0 ELSE at[p - 1] + gains[p] * weights[p]
    IN  at
CumSumLow(gains, weights) ==
    LET n == Len(gains)
        at[p \in 0..n] == IF p = 0 THEN 0
                          ELSE at[p - 1] + (IF p < n THEN gains[p] * weights[p + 1] ELSE 0)
    IN  at
CumSumUp(gains, weights) ==
    LET n == Len(gains)
        at[p \in 0..n] == IF p <= 1 THEN 0 ELSE at[p - 1] + gains[p] * weights[p - 1]
    IN  at

\* Mutant: a document moving up pushes the others the wrong way.
DiffOfLow(old, new, gains, weights) ==
    LET cum == CumSum(gains, weights)
        up == CumSumUp(gains, weights)
        middle == IF new < old
                  THEN (up[old - 1] - up[new - 1]) - (cum[old - 1] - cum[new - 1])
                  ELSE (up[new] - up[old]) - (cum[new] - cum[old])
    IN  gains[old] * (weights[new] - weights[old]) + middle

(* Places from 1; gains by place.                                          *)
calc_dcg_metric_diff(old, new, gains, weights) ==
    LET cum == CumSum(gains, weights)
        up == CumSumUp(gains, weights)
        low == CumSumLow(gains, weights)
        middle == IF new < old
                  THEN (low[old - 1] - low[new - 1]) - (cum[old - 1] - cum[new - 1])
                  ELSE (up[new] - up[old]) - (cum[new] - cum[old])
    IN  gains[old] * (weights[new] - weights[old]) + middle

(* The chance of a place: the density, around the mean, between the scores *)
(* next to it.                                                             *)
PlaceChance(place, old, ordered, mean) ==
    LET n == Len(ordered)
        density(p) == Density(ordered[p] - mean)
    IN  CASE place = 1 -> density(1)
          [] place = n /\ n > 1 -> -density(n)
          [] place \in 2..(n - 1) /\ place < old -> density(place) - density(place - 1)
          [] OTHER -> density(place + 1) - density(place)

(* The derivative of the document at a place, over the places it may go to *)
PlaceDer(p, ordered, gains, weights, mean) ==
    Total([q \in DOMAIN ordered |->
        IF q = p THEN 0
        ELSE calc_dcg_metric_diff(p, q, gains, weights) * PlaceChance(q, p, ordered, mean)])

SampleDers(centred, target, metric, noise, scores, order) ==
    LET n == Len(scores)
        ordered == [p \in 1..n |-> scores[order[p]]]
        gains == [p \in 1..n |-> target[order[p]]]
        mean(i) == centred[i] + (Total(noise) - (scores[i] - centred[i])) \div (n - 1)
    IN  [i \in 1..n |-> PlaceDer(CHOOSE p \in 1..n : order[p] = i, ordered, gains,
                                 compute_dcg_pos_weights(target, metric), mean(i))]

Centred(values) == [i \in DOMAIN values |-> Len(values) * values[i] - Total(values)]
NoisyScores(moved, sigma, noise) ==
    [i \in DOMAIN moved |-> moved[i] - (Total(moved) \div Len(moved)) + sigma * noise[i]]

OrderedSample(centred, target, metric, noise, scores) ==
    SampleDers(centred, target, metric, noise, scores, stable_sort_desc_by_key(scores))

MovedSample(centred, target, metric, sigma, mu, noise) ==
    OrderedSample(centred, target, metric, noise,
        NoisyScores([i \in DOMAIN target |-> centred[i] - Len(target) * sigma * mu * target[i]],
                    sigma, noise))

(* One sample's derivative of every document.  The scores, the noise and   *)
(* the centred approximants are in n-ths.                                  *)
StochasticSample(approx, target, metric, sigma, mu, seed, sample) ==
    MovedSample(Centred(approx), target, metric, sigma, mu,
                [i \in DOMAIN approx |-> NormalDraw(seed, (sample - 1) * Len(approx) + i)])

(* The mean is taken away, and above two documents the part of the         *)
(* derivative along the approximants.                                      *)
Orthogonal(der, z) ==
    LET dot == Total([i \in DOMAIN z |-> der[i] * z[i]])
        norm == 1 + Total([i \in DOMAIN z |-> z[i] * z[i]])
    IN  IF Len(z) > 2 THEN [i \in DOMAIN z |-> der[i] - (dot \div norm) * z[i]] ELSE der

SumOfSamples(samples, n) ==
    [i \in 1..n |-> (DerUnit \div n) * Total([s \in DOMAIN samples |-> samples[s][i]])]

stochastic_rank_group_der(approx, target, metric, sigma, mu, estimations, seed) ==
    LET n == Len(approx)
        est == IF estimations < 1 THEN 1 ELSE estimations
        samples == [s \in 1..est |-> StochasticSample(approx, target, metric, sigma, mu, seed, s)]
    IN  IF n <= 1 THEN ZeroDers(n)
        ELSE [der1 |-> Orthogonal(Centred(SumOfSamples(samples, n)), Centred(approx)), der2 |-> Zeros(n)]

(***************************************************************************)
(* calc_ders_for_queries: the groups one after another, laid end to end.   *)
(***************************************************************************)
GroupDers(loss, g, approx, target, weights, seed) ==
    LET a == Slice(approx, g)
        t == Slice(target, g)
        w == IF weights = <<>> THEN [i \in 1..Size(g) |-> 1] ELSE Slice(weights, g)
    IN  CASE loss.kind = "QueryRMSE" -> QueryRmseDers(a, t, w)
          [] loss.kind = "QuerySoftMax" -> QuerySoftMaxDers(a, t, w)
          [] loss.kind = "LambdaMart" -> lambdamart_group_der(a, t, loss.metric, loss.top, loss.norm)
          [] loss.kind = "StochasticRank" ->
                 stochastic_rank_group_der(a, t, loss.metric, loss.sigma, loss.mu, loss.estimations, seed)
          [] OTHER -> pairlogit_group_der(a, g.competitors)

calc_ders_for_queries(loss, groups, approx, target, weights, seed) ==
    LET of == [g \in DOMAIN groups |->
                  GroupDers(loss, groups[g], approx, target, weights, seed + g - 1)]
    IN  [der1 |-> FlattenSeq([g \in DOMAIN groups |-> of[g].der1]),
         der2 |-> FlattenSeq([g \in DOMAIN groups |-> of[g].der2])]
==============================================================================
