----------------------------- MODULE ModelExplanation -----------------------------
(***************************************************************************)
(* What cb-model says about a model: Shapley values and their interactions *)
(* (shap.rs), feature importances (fstr.rs), partial dependence            *)
(* (partial_dependence.rs), and the weighted sum of models (model_sum.rs). *)
(*                                                                         *)
(* Every value is an exact fraction <<numerator, denominator>>, in lowest  *)
(* terms; `fuzzy_equals(1 + x, 1)` is x = 0.  A vector over the features   *)
(* is a tuple, features are counted from 1 and 0 is the path's root.       *)
(***************************************************************************)
EXTENDS ModelApply

CONSTANT
  ProjectionOf(_)     \* the categorical columns a CTR identity combines, as a sequence

gcd[a \in Nat, b \in Nat] == IF b = 0 THEN a ELSE gcd[b, a % b]
Abs(n) == IF n < 0 THEN -n ELSE n
DividedBy(n, d, g) == <<n \div g, d \div g>>
Ratio(n, d) == DividedBy(n, d, gcd[Abs(n), d])
Zero == <<0, 1>>
One == <<1, 1>>
PlusOver(a, b, g) == Ratio(a[1] * (b[2] \div g) + b[1] * (a[2] \div g), (a[2] \div g) * b[2])
Plus(a, b) == PlusOver(a, b, gcd[a[2], b[2]])
Minus(a, b) == Plus(a, <<-b[1], b[2]>>)
Product2(p, q) == <<p[1] * q[1], p[2] * q[2]>>
Times(a, b) == Product2(Ratio(a[1], b[2]), Ratio(b[1], a[2]))
Over(a, b) == Ratio(a[1] * b[2], a[2] * b[1])      \* of b > 0
Scaled(a, n, d) == Ratio(a[1] * n, a[2] * d)
Total(values) == FoldLeft(Plus, Zero, values)
AddAt(vector, i, x) == [vector EXCEPT ![i] = Plus(@, x)]
LessThan(a, b) == a[1] * b[2] < b[1] * a[2]
Size(a) == <<Abs(a[1]), a[2]>>

-----------------------------------------------------------------------------
(* A path: the features the walk has conditioned on, with the share of the *)
(* training weight that goes the same way (zero), whether the document     *)
(* does (one), and the weight of the subsets of each size.                 *)
extend_feature_path(old, zero, one, feature) ==
  LET n == Len(old)
      weight(k) ==
        IF n = 0 THEN One
        ELSE Plus(IF k <= n THEN Times(zero, Scaled(old[k].weight, n - k + 1, n + 1)) ELSE Zero,
                  IF k > 1 THEN Times(one, Scaled(old[k - 1].weight, k - 1, n + 1)) ELSE Zero)
  IN  [k \in 1 .. n + 1 |->
         IF k <= n THEN [old[k] EXCEPT !.weight = weight(k)]
         ELSE [feature |-> feature, zero |-> zero, one |-> one, weight |-> weight(k)]] \o <<>>

(* The weights without the element: from the longest subset down, by the   *)
(* share of the element that is not zero.                                  *)
UnwoundByOne(old, erased) ==
  LET n == Len(old)
      step(acc, k) ==
        LET w == Over(Scaled(acc.rest, n, k), erased.one)
        IN  [rest |-> Minus(old[k].weight, Times(w, Scaled(erased.zero, n - k, n))),
             weights |-> <<w>> \o acc.weights]
  IN  FoldLeft(step, [rest |-> old[n].weight, weights |-> <<>>],
               [j \in 1 .. n - 1 |-> n - j]).weights

UnwoundByZero(old, erased) ==
  LET n == Len(old)
  IN  [k \in 1 .. n - 1 |-> Over(Scaled(old[k].weight, n, n - k), erased.zero)]

UnwoundWeights(old, at) ==
  IF old[at].one # Zero THEN UnwoundByOne(old, old[at]) ELSE UnwoundByZero(old, old[at])

(* Mutant: the element goes, the weights stay. *)
unwind_keeping_weights(old, at) ==
  [k \in 1 .. Len(old) - 1 |-> IF k < at THEN old[k] ELSE [old[k + 1] EXCEPT !.weight = old[k].weight]] \o <<>>

unwind_feature_path(old, at) ==
  LET weights == UnwoundWeights(old, at)
  IN  [k \in 1 .. Len(old) - 1 |->
         [(IF k < at THEN old[k] ELSE old[k + 1]) EXCEPT !.weight = weights[k]]] \o <<>>

update_shap_by_feature_path(path, value, mean, fraction, shap) ==
  LET share(k) == Times(fraction, Times(Total(UnwoundWeights(path, k)),
                                        Minus(path[k].one, path[k].zero)))
      step(acc, k) == AddAt(acc, path[k].feature, Times(share(k), Minus(value, mean)))
  IN  FoldLeft(step, shap, [k \in 1 .. Len(path) - 1 |-> k + 1])

-----------------------------------------------------------------------------
(* The weight under every node.  A node of an oblivious tree is its depth  *)
(* and its number at that depth, whose bits are the outcomes of the last   *)
(* splits; a node of a leaf-wise tree is its place in step_nodes.          *)
WeightAt(tree, leaf) == ValueAt(tree.leaf_weights, leaf)

calc_subtree_weights(tree) ==
  LET depth == Len(tree.splits)
      under[d \in 0 .. depth, n \in 0 .. 2 ^ depth - 1] ==
        IF d = depth THEN WeightAt(tree, n) ELSE under[d + 1, 2 * n] + under[d + 1, 2 * n + 1]
  IN  under

TerminalLeaf(tree, n) == tree.node_id_to_leaf_id[n]
Child(tree, n, right) == n + tree.step_nodes[n][IF right THEN 2 ELSE 1]

reversed_tree(tree) ==
  [n \in DOMAIN tree.step_nodes |->
     IF \E p \in 1 .. n - 1 : n \in {Child(tree, p, FALSE), Child(tree, p, TRUE)}
     THEN Max({p \in 1 .. n - 1 : n \in {Child(tree, p, FALSE), Child(tree, p, TRUE)}})
     ELSE 1]

(* The root's own leaf counts only when it is the whole tree.              *)
calc_subtree_weights_non_symmetric(tree) ==
  LET parent == reversed_tree(tree)
      last == Len(tree.step_nodes)
      own(n) == IF TerminalLeaf(tree, n) = NoLeaf \/ (n = 1 /\ last > 1) THEN 0
                ELSE WeightAt(tree, TerminalLeaf(tree, n))
      under[n \in DOMAIN tree.step_nodes] ==
        own(n) + FoldLeft(+, 0, [c \in 1 .. last - n |->
                                   IF parent[n + c] = n THEN under[n + c] ELSE 0])
  IN  under

Mean(weighted, total) == IF total = 0 THEN Zero ELSE Ratio(weighted, total)

calc_mean_value(tree) ==
  Mean(FoldLeft(+, 0, [l \in DOMAIN tree.leaf_values |->
                         tree.leaf_values[l] * WeightAt(tree, l - 1)]),
       FoldLeft(+, 0, tree.leaf_weights))

calc_mean_value_non_symmetric(tree, total) ==
  Mean(FoldLeft(+, 0, [n \in DOMAIN tree.step_nodes |->
                         IF TerminalLeaf(tree, n) = NoLeaf THEN 0
                         ELSE ValueAt(tree.leaf_values, TerminalLeaf(tree, n)) * WeightAt(tree, TerminalLeaf(tree, n))]),
       total)

(* document_leaf_index and map_node_id_to_is_go_right: raw comparisons.    *)
GoesRight(s, row) ==
  s.feature \in DOMAIN row.float /\ row.float[s.feature] # NaN /\ row.float[s.feature] > s.border

(* What the walk sees at a node: the value it ends with, if it may end     *)
(* here, and the child the document takes and the other one, with their    *)
(* weights; a missing side has none.                                       *)
ObliviousFork(t, at, row) ==
  LET depth == at[1]
      node == at[2]
      split == t.tree.splits[Len(t.tree.splits) - depth]
      right == IF GoesRight(split, row) THEN 1 ELSE 0
      child(bit) == <<depth + 1, 2 * node + bit>>
      weight(bit) == t.under[depth + 1, 2 * node + bit]
  IN  IF depth = Len(t.tree.splits)
      THEN [value |-> <<<<ValueAt(t.tree.leaf_values, node), 1>>>>, feature |-> 0, weight |-> 0,
            go |-> at, go_weight |-> 0, skip |-> at, skip_weight |-> 0]
      ELSE [value |-> <<>>, feature |-> split.feature, weight |-> t.under[depth, node],
            go |-> child(right), go_weight |-> weight(right),
            skip |-> child(1 - right), skip_weight |-> weight(1 - right)]

NonSymmetricFork(t, at, row) ==
  LET right == GoesRight(t.tree.splits[at], row)
      go == Child(t.tree, at, right)
      skip == Child(t.tree, at, ~right)
      leaf == TerminalLeaf(t.tree, at)
      ends == go = at \/ skip = at
  IN  [value |-> IF ~ends THEN <<>>
                 ELSE <<<<IF leaf = NoLeaf THEN 0 ELSE ValueAt(t.tree.leaf_values, leaf), 1>>>>,
       feature |-> t.tree.splits[at].feature, weight |-> t.under[at],
       go |-> go, go_weight |-> IF go = at THEN 0 ELSE t.under[go],
       skip |-> skip, skip_weight |-> IF skip = at THEN 0 ELSE t.under[skip]]

Fork(t, at, row) ==
  IF t.oblivious THEN ObliviousFork(t, at, row) ELSE NonSymmetricFork(t, at, row)

Root(t) == IF t.oblivious THEN <<0, 0>> ELSE 1

PreparedOblivious(tree) ==
  [oblivious |-> TRUE, tree |-> tree, under |-> calc_subtree_weights(tree), mean |-> calc_mean_value(tree)]

PreparedNonSymmetric(tree) ==
  LET under == calc_subtree_weights_non_symmetric(tree)
  IN  [oblivious |-> FALSE, tree |-> tree, under |-> under,
       mean |-> calc_mean_value_non_symmetric(tree, under[1])]

Prepared(model) ==
  [t \in DOMAIN model.oblivious_trees |-> PreparedOblivious(model.oblivious_trees[t])]
  \o [t \in DOMAIN model.non_symmetric_trees |-> PreparedNonSymmetric(model.non_symmetric_trees[t])]

-----------------------------------------------------------------------------
(* A feature may be held: On counts only the document's side of its        *)
(* splits, Off weighs both.                                                *)
NotFixed == [feature |-> 0, mode |-> "none"]

ConditionFraction(fixed, feature, fraction, coefficient, hot) ==
  IF fixed.feature # feature \/ fixed.mode = "none" THEN fraction
  ELSE IF fixed.mode = "off" THEN Times(fraction, coefficient)
  ELSE IF hot THEN fraction ELSE Zero

extend_feature_path_if_not_fixed(fixed, old, zero, one, feature) ==
  IF fixed.mode # "none" /\ fixed.feature = feature THEN old
  ELSE extend_feature_path(old, zero, one, feature)

(* Where the path holds the feature, 0 if it does not. *)
PlaceOf(path, feature) ==
  SelectInSeq(path, LAMBDA e : e.feature = feature)

RECURSIVE shap_recurse(_, _, _, _, _, _, _, _, _, _)

(* One child of a node: the path without the node's feature, if it was     *)
(* there, goes on with the feature's shares so far times this child's.     *)
DescendFrom(t, row, k, child, hot, path, at, share, fixed, fraction, shap) ==
  shap_recurse(t, row, child,
    IF at = 0 THEN path ELSE unwind_feature_path(path, at),
    IF at = 0 THEN share ELSE Times(path[at].zero, share),
    IF ~hot THEN Zero ELSE IF at = 0 THEN One ELSE path[at].one,
    k.feature, fixed, ConditionFraction(fixed, k.feature, fraction, share, hot), shap)

Descend(t, row, k, child, weight, hot, path, fixed, fraction, shap) ==
  IF weight = 0 THEN shap
  ELSE DescendFrom(t, row, k, child, hot, path, PlaceOf(path, k.feature),
                   Ratio(weight, k.weight), fixed, fraction, shap)

AtNode(t, row, k, path, fixed, fraction, shap) ==
  Descend(t, row, k, k.skip, k.skip_weight, FALSE, path, fixed, fraction,
    Descend(t, row, k, k.go, k.go_weight, TRUE, path, fixed, fraction,
      IF k.value = <<>> THEN shap
      ELSE update_shap_by_feature_path(path, k.value[1], t.mean, fraction, shap)))

shap_recurse(t, row, at, path, zero, one, feature, fixed, fraction, shap) ==
  IF fraction = Zero THEN shap
  ELSE AtNode(t, row, Fork(t, at, row),
              extend_feature_path_if_not_fixed(fixed, path, zero, one, feature),
              fixed, fraction, shap)

(* Only models of float splits are explained; region trees are not looked  *)
(* at, and of several dimensions only the first leaves are.                *)
ShapSupported(model) ==
  \A trees \in {model.oblivious_trees, model.non_symmetric_trees} : \A t \in DOMAIN trees :
    \A i \in DOMAIN trees[t].splits : trees[t].splits[i].kind = "float"

NFeatures(model) == Len(model.float_feature_borders)
NoEffects(n) == [f \in 1 .. n |-> Zero]

(* One tree's row, and a model's.                                          *)
TreeShap(t, row, n, fixed) ==
  shap_recurse(t, row, Root(t), <<>>, One, One, 0, fixed, One, NoEffects(n))

AddVectors(a, b) == [f \in DOMAIN a |-> Plus(a[f], b[f])]

shap_values_fixed(prepared, row, n, fixed) ==
  FoldLeft(LAMBDA acc, t : AddVectors(acc, TreeShap(t, row, n, fixed)), NoEffects(n), prepared)

expected_value(prepared, bias) == Plus(<<bias, 1>>, Total([t \in DOMAIN prepared |-> prepared[t].mean]))

(* shap_interaction_values without the bias slot: half of what holding the *)
(* one feature on rather than off changes in the other's value; what is    *)
(* left of a feature's value is its own.                                   *)
Held(feature, mode) == [feature |-> feature, mode |-> mode]

PairEffects(prepared, row, n, i) ==
  LET on == shap_values_fixed(prepared, row, n, Held(i, "on"))
      off == shap_values_fixed(prepared, row, n, Held(i, "off"))
  IN  [j \in 1 .. n |-> IF j = i THEN Zero ELSE Scaled(Minus(on[j], off[j]), 1, 2)] \o <<>>

shap_interaction_values(prepared, row, n) ==
  LET shap == shap_values_fixed(prepared, row, n, NotFixed)
      rest(effects, i) == [effects EXCEPT ![i] = Minus(shap[i], Total(effects))]
  IN  [i \in 1 .. n |-> rest(PairEffects(prepared, row, n, i), i)] \o <<>>

(* sage_values: a surrogate, the mean size of each feature's value.        *)
sage_values(prepared, rows, n) ==
  LET shap == [r \in DOMAIN rows |-> shap_values_fixed(prepared, rows[r], n, NotFixed)]
  IN  [f \in 1 .. n |-> Scaled(Total([r \in DOMAIN rows |-> Size(shap[r][f])]), 1, Max({1, Len(rows)}))]

-----------------------------------------------------------------------------
(* The effect of a feature and of pairs of features on the predictions, in *)
(* percent, the importance by the loss, the difference of two predictions, *)
(* partial dependence and the weighted sum of models.                      *)
ModelSplits(model) ==
  FlattenSeq([t \in DOMAIN model.oblivious_trees |-> model.oblivious_trees[t].splits]
             \o [t \in DOMAIN model.non_symmetric_trees |-> model.non_symmetric_trees[t].splits])

Highest(S) == IF S = {} THEN 0 ELSE Max(S)

(* The feature a split is one of, whatever its border or tested value.     *)
Internal(s) == CASE s.kind = "float" -> <<"float", s.feature>>
                 [] s.kind = "onehot" -> <<"onehot", s.cat_feature>>
                 [] s.kind = "ctr" -> <<"ctr", s.identity>>

CatsOf(s) == CASE s.kind = "float" -> {}
               [] s.kind = "onehot" -> {s.cat_feature}
               [] s.kind = "ctr" -> Range(ProjectionOf(s.identity))

(* Floats come first, then the categorical columns; a leaf of a leaf-wise  *)
(* tree carries a split of the first feature that is never read.           *)
feature_count(model) ==
  Highest({s.feature : s \in {r \in Range(ModelSplits(model)) : r.kind = "float"}})

cat_feature_count(model) == Highest(UNION {CatsOf(s) : s \in Range(ModelSplits(model))})

Slots(internal, n_float) ==
  CASE internal[1] = "float" -> <<internal[2]>>
    [] internal[1] = "onehot" -> <<n_float + internal[2]>>
    [] internal[1] = "ctr" -> [i \in DOMAIN ProjectionOf(internal[2]) |-> n_float + ProjectionOf(internal[2])[i]]

split_flat_indices(s, n_float) == Slots(Internal(s), n_float)

(* Of fractions; a vector without any effect stays as it is.               *)
convert_to_percents(effects) ==
  IF Total(effects) = Zero THEN effects
  ELSE [f \in DOMAIN effects |-> Over(Scaled(effects[f], 100, 1), Total(effects))]

-----------------------------------------------------------------------------
(* The weighted variance of two values, and their average.                 *)
NodeOf(value, count) == [value |-> value, count |-> count]

Merged(a, b) ==
  IF a.count + b.count = 0 THEN NodeOf(Zero, 0)
  ELSE NodeOf(Scaled(Plus(Scaled(a.value, a.count, 1), Scaled(b.value, b.count, 1)), 1, a.count + b.count),
            a.count + b.count)

SpreadOf(a, b) ==
  IF a.count = 0 \/ b.count = 0 THEN Zero
  ELSE LET d == Minus(a.value, b.value) IN Scaled(Times(d, d), a.count * b.count, a.count + b.count)

Shared(effects, slots, x) ==
  FoldLeft(LAMBDA acc, slot : AddAt(acc, slot, Scaled(x, 1, Len(slots))), effects, slots)

(* A split of an oblivious tree: every pair of leaves it tells apart, from *)
(* the shared slots' equal parts.                                          *)
LeafNode(tree, weights, l) == NodeOf(<<tree.leaf_values[l + 1], 1>>, ValueAt(weights, l))

LevelEffect(tree, weights, i) ==
  Total([l \in 1 .. Len(tree.leaf_values) |->
           IF ((l - 1) \div 2 ^ (i - 1)) % 2 = 1 THEN Zero
           ELSE SpreadOf(LeafNode(tree, weights, l - 1), LeafNode(tree, weights, l - 1 + 2 ^ (i - 1)))])

pvc_accumulate_oblivious(tree, weights, effects, n_float) ==
  FoldLeft(LAMBDA acc, i : Shared(acc, split_flat_indices(tree.splits[i], n_float),
                                  LevelEffect(tree, weights, i)),
           effects, [i \in DOMAIN tree.splits |-> i])

(* A leaf-wise tree, bottom up: a node has what its two sides merge to; a  *)
(* side that is missing is the node's own leaf.                            *)
OwnNode(tree, weights, n) ==
  IF TerminalLeaf(tree, n) = NoLeaf THEN NodeOf(Zero, 0)
  ELSE NodeOf(<<ValueAt(tree.leaf_values, TerminalLeaf(tree, n)), 1>>, ValueAt(weights, TerminalLeaf(tree, n)))

NeverSplits(tree, n) == tree.step_nodes[n] = <<0, 0>>

NodeInfo(tree, weights) ==
  LET info[n \in DOMAIN tree.step_nodes] ==
        LET side(right) == IF Child(tree, n, right) = n THEN OwnNode(tree, weights, n)
                           ELSE info[Child(tree, n, right)]
        IN  IF NeverSplits(tree, n) THEN OwnNode(tree, weights, n) ELSE Merged(side(FALSE), side(TRUE))
  IN  info

NodeEffect(tree, weights, n) ==
  LET info == NodeInfo(tree, weights)
      side(right) == IF Child(tree, n, right) = n THEN OwnNode(tree, weights, n)
                     ELSE info[Child(tree, n, right)]
  IN  SpreadOf(side(FALSE), side(TRUE))

pvc_accumulate_non_symmetric(tree, weights, effects, n_float) ==
  FoldLeft(LAMBDA acc, n : Shared(acc, split_flat_indices(tree.splits[n], n_float),
                                  NodeEffect(tree, weights, n)),
           effects, SelectSeq([n \in DOMAIN tree.step_nodes |-> n], LAMBDA n : ~NeverSplits(tree, n)))

(* The effects before they become percentages; weights are per tree, the   *)
(* oblivious ones first.                                                   *)
pvc_effects(model, weights) ==
  LET n_float == feature_count(model)
      none == NoEffects(n_float + cat_feature_count(model)) \o <<>>
      oblivious == Len(model.oblivious_trees)
      of_levels == FoldLeft(LAMBDA acc, t : pvc_accumulate_oblivious(model.oblivious_trees[t], weights[t], acc, n_float),
                            none, [t \in DOMAIN model.oblivious_trees |-> t])
  IN  FoldLeft(LAMBDA acc, t : pvc_accumulate_non_symmetric(model.non_symmetric_trees[t],
                                                           weights[oblivious + t], acc, n_float),
               of_levels, [t \in DOMAIN model.non_symmetric_trees |-> t])

StoredWeights(model) ==
  LET trees == model.oblivious_trees \o model.non_symmetric_trees
  IN  [t \in DOMAIN trees |-> trees[t].leaf_weights]

prediction_values_change(model) == convert_to_percents(pvc_effects(model, StoredWeights(model)))

(* collect_leaves_statistics: how many of the rows each leaf has.          *)
collect_leaves_statistics(model, rows) ==
  LET leaf(t, row) == IF t <= Len(model.oblivious_trees)
                      THEN leaf_index(Outcomes(model, model.oblivious_trees[t], row))
                      ELSE leaf_index_nonsym(model.non_symmetric_trees[t - Len(model.oblivious_trees)],
                             Outcomes(model, model.non_symmetric_trees[t - Len(model.oblivious_trees)], row))
  IN  [t \in DOMAIN StoredWeights(model) |-> [l \in DOMAIN StoredWeights(model)[t] |->
        Cardinality({r \in DOMAIN rows : leaf(t, rows[r]) = l - 1})]]

prediction_values_change_with_data(model, rows) ==
  convert_to_percents(pvc_effects(model, collect_leaves_statistics(model, rows)))

-----------------------------------------------------------------------------
(* Interaction.  A pair of internal features scores what the leaves'       *)
(* signed sum is away from zero, in each tree: for every two levels of an  *)
(* oblivious tree, for all paths together of a leaf-wise one.              *)
Bit(l, i) == (l \div 2 ^ (i - 1)) % 2

PairDelta(tree, i, j) ==
  FoldLeft(+, 0, [l \in DOMAIN tree.leaf_values |->
    IF Bit(l - 1, i) # Bit(l - 1, j) THEN tree.leaf_values[l] ELSE -tree.leaf_values[l]])

ObliviousPairs(t, tree) ==
  {[at |-> <<t, i, j>>, pair |-> {Internal(tree.splits[i]), Internal(tree.splits[j])},
    score |-> Abs(PairDelta(tree, i, j))] :
     <<i, j>> \in {l \in (DOMAIN tree.splits) \X (DOMAIN tree.splits) :
                    l[1] < l[2] /\ Internal(tree.splits[l[1]]) # Internal(tree.splits[l[2]])}}

(* The splits on the way to a node, each with the side taken.              *)
PathTo(tree) ==
  LET parent == reversed_tree(tree)
      path[n \in DOMAIN tree.step_nodes] ==
        IF n = 1 THEN <<>>
        ELSE Append(path[parent[n]],
                    [internal |-> Internal(tree.splits[parent[n]]),
                     sign |-> IF Child(tree, parent[n], TRUE) = n THEN 1 ELSE -1])
  IN  path

Terminals(tree) == {n \in DOMAIN tree.step_nodes : 0 \in Range(tree.step_nodes[n])}

TerminalDelta(tree, n) ==
  IF TerminalLeaf(tree, n) = NoLeaf THEN 0 ELSE ValueAt(tree.leaf_values, TerminalLeaf(tree, n))

PairsOn(path) ==
  {l \in (DOMAIN path) \X (DOMAIN path) :
     l[1] < l[2] /\ path[l[1]].internal # path[l[2]].internal}

PairOf(path, l) == {path[l[1]].internal, path[l[2]].internal}

interaction_dfs(tree, path, pair) ==
  MapThenSumSet(LAMBDA n : TerminalDelta(tree, n) *
                  MapThenSumSet(LAMBDA l : path[n][l[1]].sign * path[n][l[2]].sign,
                                {l \in PairsOn(path[n]) : PairOf(path[n], l) = pair}),
                Terminals(tree))

NonSymmetricPairs(t, tree) ==
  LET path == PathTo(tree)
      pairs == UNION {{PairOf(path[n], l) : l \in PairsOn(path[n])} : n \in Terminals(tree)}
  IN  {[at |-> <<t>>, pair |-> p, score |-> Abs(interaction_dfs(tree, path, p))] : p \in pairs}

InternalScores(model) ==
  UNION ({ObliviousPairs(t, model.oblivious_trees[t]) : t \in DOMAIN model.oblivious_trees}
         \cup {NonSymmetricPairs(t, model.non_symmetric_trees[t]) : t \in DOMAIN model.non_symmetric_trees})

(* A score is spread over the columns of the two features; what falls on   *)
(* one column twice is left out of the result and stays in the total.      *)
CellsOf(pair, n_float) ==
  LET a == CHOOSE x \in pair : TRUE
      b == CHOOSE x \in pair \ {a} : TRUE
  IN  [x \in Range(Slots(a, n_float)) \X Range(Slots(b, n_float)) |-> {x[1], x[2]}]

interaction(model) ==
  LET scores == InternalScores(model)
      n_float == feature_count(model)
      cells(r) == CellsOf(r.pair, n_float)
      total == MapThenSumSet(LAMBDA r : r.score, scores)
      on(r, cell) == Cardinality({x \in DOMAIN cells(r) : cells(r)[x] = cell})
      share(r, cell) == Ratio(r.score * on(r, cell), Cardinality(DOMAIN cells(r)))
      kept == {c \in UNION {Range(cells(r)) : r \in scores} : Cardinality(c) = 2}
      percent(cell) ==
        IF total = 0 THEN Zero
        ELSE Scaled(FoldSet(LAMBDA r, acc : Plus(acc, share(r, cell)), Zero, scores), 100, total)
  IN  [c \in kept |-> percent(c)]

-----------------------------------------------------------------------------
(* A prediction as a number, of the first dimension.                       *)
RawValue(model, row) == FoldLeft(+, model.bias, Contributions(model, row, 0))

(* loss_function_change, for a mean squared error: by how much the loss    *)
(* grows when a feature's values are taken out of the predictions.         *)
final_error(approx, labels) ==
  Scaled(Total([r \in DOMAIN approx |-> Times(Minus(approx[r], labels[r]), Minus(approx[r], labels[r]))]),
         1, Max({1, Len(approx)}))

loss_function_change(model, prepared, rows, labels, n) ==
  LET approx == [r \in DOMAIN rows |-> <<RawValue(model, rows[r]), 1>>]
      shap == [r \in DOMAIN rows |-> shap_values_fixed(prepared, rows[r], n, NotFixed)]
      without(f) == [r \in DOMAIN rows |-> Minus(approx[r], shap[r][f])]
  IN  [f \in 1 .. n |-> Minus(final_error(without(f), labels), final_error(approx, labels))]

-----------------------------------------------------------------------------
(* prediction_diff.  What flipping one bit of the document's leaf changes  *)
(* is booked at the bucket the feature would move to across that border;   *)
(* a feature's part is the largest sum on the way to any other bucket.     *)
BorderPlace(model, s) ==
  LET borders == model.float_feature_borders[s.feature]
      at == {k \in DOMAIN borders : borders[k] = s.border}
  IN  IF at = {} THEN 0 ELSE Min(at) - 1

DocBucket(model, row, f) ==
  Cardinality({k \in DOMAIN model.float_feature_borders[f] :
                 GoesRight([feature |-> f, border |-> model.float_feature_borders[f][k]], row)})

document_leaf_index(tree, row) ==
  leaf_index([i \in DOMAIN tree.splits |-> GoesRight(tree.splits[i], row)])

FlipDiff(tree, leaf, i) ==
  ValueAt(tree.leaf_values, IF Bit(leaf, i) = 1 THEN leaf - 2 ^ (i - 1) ELSE leaf + 2 ^ (i - 1))
  - ValueAt(tree.leaf_values, leaf)

(* Mutant: the bucket of the border, whichever side the document is on. *)
oblivious_indicator_unsided(model, tree, leaf, f, slot) ==
  FoldLeft(+, 0, [i \in DOMAIN tree.splits |->
    IF tree.splits[i].feature = f /\ slot = BorderPlace(model, tree.splits[i])
    THEN FlipDiff(tree, leaf, i) ELSE 0])

oblivious_indicator_coefficients(model, tree, leaf, f, slot) ==
  FoldLeft(+, 0, [i \in DOMAIN tree.splits |->
    IF tree.splits[i].feature = f /\ slot = BorderPlace(model, tree.splits[i]) + 1 - Bit(leaf, i)
    THEN FlipDiff(tree, leaf, i) ELSE 0])

Impact(model, row, f) ==
  [slot \in 0 .. Len(model.float_feature_borders[f]) |->
     FoldLeft(+, 0, [t \in DOMAIN model.oblivious_trees |->
       oblivious_indicator_coefficients(model, model.oblivious_trees[t],
         document_leaf_index(model.oblivious_trees[t], row), f, slot)])]

prediction_diff_single(model, row, increase, f) ==
  LET impact == Impact(model, row, f)
      bucket == DocBucket(model, row, f)
      between(a, b) == FoldLeft(+, 0, [k \in 1 .. b - a + 1 |-> impact[a + k - 1]])
      moves == {between(b, bucket - 1) : b \in 0 .. bucket - 1}
               \cup {between(bucket + 1, b) : b \in bucket + 1 .. Len(model.float_feature_borders[f])}
  IN  Max({0} \cup {Abs(m) : m \in {x \in moves : IF increase THEN x > 0 ELSE x < 0}})

prediction_diff(model, a, b) ==
  LET towards(x, y, f) == prediction_diff_single(model, x, RawValue(model, x) < RawValue(model, y), f)
  IN  [f \in 1 .. NFeatures(model) |-> towards(a, b, f) + towards(b, a, f)]

-----------------------------------------------------------------------------
(* partial_dependence: the mean prediction with the columns of the         *)
(* features overwritten, one grid point per bin.  f32::MAX plus one is     *)
(* f32::MAX; midpoints are rounded down.                                   *)
PdpRefuses(model, n_columns, n_rows, features) ==
  \/ \E s \in Range(ModelSplits(model)) : s.kind = "onehot"
  \/ Len(features) \notin {1, 2}
  \/ n_columns # NFeatures(model) \/ n_rows = 0
  \/ \E f \in Range(features) : f \notin 1 .. NFeatures(model)
  \/ Cardinality(Range(features)) # Len(features)

AboveBorder(b) == IF b = MaxF32 THEN b ELSE b + 1

grid_for_feature(model, f) ==
  LET borders == model.float_feature_borders[f]
      n == Len(borders)
  IN  IF n = 0 THEN <<0>>
      ELSE <<borders[1] - 1>> \o [k \in 1 .. n - 1 |-> (borders[k] + borders[k + 1]) \div 2]
           \o <<AboveBorder(borders[n])>>

pdp_averaged_prediction(model, rows, features, values) ==
  LET pinned(row) == [row EXCEPT !.float = [f \in DOMAIN @ |->
                        IF f \in Range(features) THEN values[CHOOSE i \in DOMAIN features : features[i] = f]
                        ELSE @[f]]]
  IN  Ratio(FoldLeft(+, 0, [r \in DOMAIN rows |-> RawValue(model, pinned(rows[r]))]), Len(rows))

pdp_curve_single(model, rows, f) ==
  LET grid == grid_for_feature(model, f)
  IN  [k \in DOMAIN grid |-> pdp_averaged_prediction(model, rows, <<f>>, <<grid[k]>>)]

(* Row by row: the second feature runs faster. *)
pdp_curve_pair(model, rows, f, g) ==
  LET outer == grid_for_feature(model, f)
      inner == grid_for_feature(model, g)
      n == Len(inner)
  IN  [k \in 1 .. Len(outer) * n |->
         pdp_averaged_prediction(model, rows, <<f, g>>, <<outer[1 + ((k - 1) \div n)], inner[1 + ((k - 1) % n)]>>)]

-----------------------------------------------------------------------------
(* sum_models *)
MergeRefuses(models) ==
  \/ models = <<>>
  \/ \E i \in DOMAIN models :
       \/ models[i].non_symmetric_trees # <<>> \/ models[i].region_trees # <<>>
       \/ models[i].ctr_data # {} \/ ~ShapSupported(models[i])
       \/ models[i].float_feature_borders # models[1].float_feature_borders
       \/ models[i].approx_dimension # models[1].approx_dimension

scaled_tree(tree, w) ==
  [tree EXCEPT !.leaf_values = [l \in DOMAIN @ |-> w * @[l]]]

sum_models(models, weights) ==
  [models[1] EXCEPT
     !.oblivious_trees = FlattenSeq([i \in DOMAIN models |->
        [t \in DOMAIN models[i].oblivious_trees |-> scaled_tree(models[i].oblivious_trees[t], weights[i])]]),
     !.bias = FoldLeft(+, 0, [i \in DOMAIN models |-> weights[i] * models[i].bias])]
=================================================================================
