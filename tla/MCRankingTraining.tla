--------------------------- MODULE MCRankingTraining ---------------------------
(***************************************************************************)
(* RankingTraining on pools of four and five objects with one to three     *)
(* queries; the given functions are small integer ones that keep the order *)
(* of what they stand for.                                                 *)
(***************************************************************************)
EXTENDS RankingTraining

MCGen(seed, k) == (7 * seed + 3 * k + 1) % 11
MCNormalTakes(seed, k) == 2 + 2 * ((seed + k) % 2)
MCNoise(seed, k) == ((5 * seed + 3 * k) % 7) - 3
MCPairMagic(place) == IF place = 1 THEN 2 ELSE 1

(* A falling function of winner minus loser, between 0 and DerUnit.        *)
MCPairProb(diff) == CASE diff < -2 -> 10 [] diff > 2 -> 50 [] OTHER -> 30 + 8 * diff
MCExpOf(a) == CASE a >= 0 -> 4 [] a = -1 -> 2 [] OTHER -> 1
MCDiscount(pos) == CASE pos = 0 -> 12 [] pos = 1 -> 8 [] pos = 2 -> 6 [] OTHER -> 5
MCPairGrad(diff, delta) ==
    LET steep == IF diff > 0 THEN 1 ELSE 2 IN <<-(steep * delta) \div 2, steep * delta>>
MCNormDelta(delta, diff) == delta \div (1 + diff)
MCNormDer(d, sum) == (2 * d) \div 3
MCNormalDraw(seed, k) == ((3 * seed + 5 * k) % 5) - 2
MCDensity(x) == IF x \in -2..2 THEN 6 - 2 * Abs(x) ELSE 1

(* Solved by the diagonal alone.                                           *)
MCSolve(m, b) == [i \in DOMAIN b |-> IF m[i][i] <= 0 THEN 0 ELSE b[i] \div m[i][i]]
MCScoreOf(values, d, w) ==
    Total([i \in 1..Cardinality(DOMAIN values) |->
        values[i - 1] * d[i - 1]
          - (values[i - 1] * Total([j \in 1..Cardinality(DOMAIN values) |->
                                values[j - 1] * w[i - 1][j - 1]])) \div 8])
MCShrink(v) == IF v > 3 THEN 3 ELSE IF v < -3 THEN -3 ELSE v
MCLeafScore(der, weight) == IF weight = 0 THEN 0 ELSE ((der \div 10) * (der \div 10)) \div weight
MCLeafAverage(der, weight) == IF weight = 0 THEN 0 ELSE der \div weight

Feature(borders, value) == [borders |-> borders, value |-> value]
Features4 == << Feature(2, <<0, 2, 1, 1>>), Feature(2, <<1, 0, 0, 2>>) >>
Features5 == << Feature(2, <<0, 2, 1, 1, 2>>), Feature(2, <<1, 0, 0, 2, 0>>) >>
Features6 == << Feature(1, <<0, 1, 0, 0, 1>>), Feature(2, <<1, 0, 0, 2, 1>>) >>
Beats(w, l) == [winner |-> w, loser |-> l]

MCPools ==
    { [ids |-> <<1, 1, 2, 2>>, subgroups |-> <<1, 2, 2, 2>>, weights |-> <<>>, target |-> <<2, 0, 1, 2>>, features |-> Features4,
       pairs |-> << Beats(1, 2), Beats(4, 3), Beats(3, 3) >>],
      [ids |-> <<7, 7, 7, 5, 5>>, subgroups |-> <<>>, weights |-> <<1, 1, 1, 2, 2>>, target |-> <<0, 1, 2, 2, 0>>, features |-> Features5,
       pairs |-> << Beats(3, 1), Beats(2, 1), Beats(4, 5), Beats(3, 2), Beats(3, 1) >>],
      [ids |-> <<>>, subgroups |-> <<>>, weights |-> <<>>, target |-> <<1, 0, 2, 0>>, features |-> Features4,
       pairs |-> << Beats(3, 2), Beats(1, 2), Beats(3, 1), Beats(2, 4) >>],
      [ids |-> <<1, 2, 2, 2, 2>>, subgroups |-> <<>>, weights |-> <<0, 1, 2, 1, 0>>, target |-> <<1, 1, 0, 2, 0>>, features |-> Features6,
       pairs |-> << Beats(2, 3), Beats(4, 5), Beats(4, 3) >>],
      [ids |-> <<1, 1, 2, 1>>, subgroups |-> <<>>, weights |-> <<>>, target |-> <<1, 0, 2, 0>>, features |-> Features4,
       pairs |-> <<>>],
      [ids |-> <<1, 1, 2, 2>>, subgroups |-> <<>>, weights |-> <<>>, target |-> <<1, 0, 2, 0>>, features |-> Features4,
       pairs |-> << Beats(1, 3) >>],
      [ids |-> <<1, 1, 2, 2>>, subgroups |-> <<>>, weights |-> <<>>, target |-> <<1, 0, 0, 0>>, features |-> << >>,
       pairs |-> << Beats(1, 2) >>],
      [ids |-> <<1, 1, 2, 2>>, subgroups |-> <<1, 1, 2>>, weights |-> <<>>, target |-> <<1, 0, 2, 0>>, features |-> Features4,
       pairs |-> << Beats(1, 2) >>] }

MCLosses ==
    { [kind |-> "QueryRMSE"], [kind |-> "QuerySoftMax"], [kind |-> "PairLogit"], [kind |-> "PairLogitPairwise"],
      [kind |-> "YetiRank"], [kind |-> "YetiRankPairwise"],
      [kind |-> "LambdaMart", metric |-> "NDCG", top |-> -1, norm |-> TRUE],
      [kind |-> "LambdaMart", metric |-> "DCG", top |-> 2, norm |-> FALSE],
      [kind |-> "LambdaMart", metric |-> "MRR", top |-> -1, norm |-> FALSE],
      [kind |-> "StochasticRank", metric |-> "DCG", sigma |-> 1, mu |-> 1, estimations |-> 2],
      [kind |-> "StochasticRank", metric |-> "NDCG", sigma |-> 1, mu |-> 1, estimations |-> 2] }
================================================================================
