------------------------------- MODULE ModelApply -------------------------------
(***************************************************************************)
(* The canonical Model of cb-model and what its apply path computes: the   *)
(* split tests, the leaf of each tree and the leaf values a prediction     *)
(* sums (cb-model/src/model.rs, apply.rs, gpu_apply.rs).                   *)
(*                                                                         *)
(* A row is [float, cat, ctr]: the float values and categorical hashes by  *)
(* column, possibly fewer columns than the model knows, and the value each *)
(* CTR identity's baked table has for the row's categories.  Floats and    *)
(* borders are small numbers; MaxF32 is the sentinel border of nan_mode    *)
(* Max, NaN a missing value.  A prediction is the sequence of leaf values  *)
(* it adds up, so that no two predictions are equal by cancellation.       *)
(*                                                                         *)
(* The model as the trainer holds it, its lift into the canonical Model    *)
(* (Model::from_trained of cb-model/src/model.rs) and what the trainer     *)
(* adds to the approximant of an evaluation set for a tree it just grew    *)
(* (last_tree_eval_contribution of cb-train/src/boosting.rs).              *)
(*                                                                         *)
(* An oblivious tree keeps one list of splits per kind, and the order of   *)
(* its levels in level_kinds.  A one-hot split of the trainer names a      *)
(* position among the one-hot columns and a bin; `levels` is the order in  *)
(* which the splits were chosen, which no list of the code holds.          *)
(***************************************************************************)
EXTENDS TreeApply, SequencesExt

CONSTANTS
  MaxF32,         \* the border f32::MAX
  TableOf(_)      \* the baked table a CTR identity reads

NaN == -1
Missing == 0      \* what a leaf that is not there contributes
EmptyCtr == 0     \* the CTR value of a bucket without a table

nan_is_above_all_borders(model, f) ==
  LET borders == model.float_feature_borders[f]
  IN  borders # <<>> /\ borders[Len(borders)] = MaxF32

passes_float_split(model, s, row) ==
  /\ s.feature \in DOMAIN row.float
  /\ IF row.float[s.feature] = NaN THEN nan_is_above_all_borders(model, s.feature)
     ELSE row.float[s.feature] > s.border

passes_one_hot_split(s, row) ==
  s.cat_feature \in DOMAIN row.cat /\ row.cat[s.cat_feature] = s.value_hash

passes_ctr_split(model, s, row) ==
  (IF TableOf(s.identity) \in model.ctr_data THEN row.ctr[s.identity] ELSE EmptyCtr) > s.border

passes_split(model, s, row) ==
  CASE s.kind = "float"  -> passes_float_split(model, s, row)
    [] s.kind = "onehot" -> passes_one_hot_split(s, row)
    [] s.kind = "ctr"    -> passes_ctr_split(model, s, row)

-----------------------------------------------------------------------------
(* Leaf values are dimension-major: dimension d starts at d * n_leaves.    *)
ValueAt(values, i) == IF i + 1 \in DOMAIN values THEN values[i + 1] ELSE Missing

DimValue(values, d, dim, leaf) == ValueAt(values, d * (Len(values) \div dim) + leaf)

Outcomes(model, tree, row) ==
  [i \in DOMAIN tree.splits |-> passes_split(model, tree.splits[i], row)]

ObliviousValue(model, tree, row, d) ==
  DimValue(tree.leaf_values, d, model.approx_dimension,
           leaf_index(Outcomes(model, tree, row)))

(* A ragged buffer, or a walk that finds no leaf, contributes nothing.     *)
NonSymmetricValue(model, tree, row, d) ==
  LET leaf == leaf_index_nonsym(tree, Outcomes(model, tree, row))
      stride == IF Len(tree.leaf_values) % model.approx_dimension # 0 THEN 0
                ELSE Len(tree.leaf_values) \div model.approx_dimension
  IN  IF leaf = NoLeaf THEN Missing ELSE ValueAt(tree.leaf_values, d * stride + leaf)

RegionValue(model, tree, row) ==
  ValueAt(tree.leaf_values, region_leaf(tree, Outcomes(model, tree, row)))

(* predict_raw_cat, one object and one dimension.  The multi-dimensional   *)
(* accumulator has no arm for region trees.                                *)
Contributions(model, row, d) ==
  [t \in DOMAIN model.oblivious_trees |-> ObliviousValue(model, model.oblivious_trees[t], row, d)]
  \o [t \in DOMAIN model.non_symmetric_trees |->
        NonSymmetricValue(model, model.non_symmetric_trees[t], row, d)]
  \o IF model.approx_dimension > 1 THEN <<>>
     ELSE [t \in DOMAIN model.region_trees |-> RegionValue(model, model.region_trees[t], row)]

Predict(model, row) ==
  [bias |-> model.bias,
   sums |-> [d \in 0 .. model.approx_dimension - 1 |-> Contributions(model, row, d)]]

-----------------------------------------------------------------------------
(* Mutant: only the multiples of the step. *)
stage_counts_without_end(start, end, step) == {c \in start + step .. end : (c - start) % step = 0}

(* The tree counts at which a staged prediction is taken.                  *)
stage_counts(start, end, step) ==
  {c \in start + step .. end - 1 : (c - start) % step = 0} \cup {end}

WithoutCats(row) == [row EXCEPT !.cat = <<>>, !.ctr = [i \in DOMAIN row.ctr |-> EmptyCtr]]

(* predict_raw_staged: one walk over the trees, a snapshot at each count.  *)
(* As a function from the count to the bias taken and the values summed.   *)
predict_raw_staged(model, row, ntree_start, ntree_end, eval_period) ==
  LET n_trees == Len(model.oblivious_trees)
      end == IF ntree_end = 0 THEN n_trees ELSE Min({ntree_end, n_trees})
      counts == IF ntree_start >= end THEN {}
                ELSE stage_counts(ntree_start, end, Max({eval_period, 1}))
      running[t \in ntree_start .. end] ==
        IF t = ntree_start THEN <<>>
        ELSE Append(running[t - 1],
                    ValueAt(model.oblivious_trees[t].leaf_values,
                            leaf_index(Outcomes(model, model.oblivious_trees[t], WithoutCats(row)))))
  IN  [c \in counts |-> [based |-> ntree_start = 0, values |-> running[c]]]

-----------------------------------------------------------------------------
(* check_gpu_apply_supported *)
GpuApplySupported(model) ==
  /\ model.non_symmetric_trees = <<>> /\ model.region_trees = <<>>
  /\ \A t \in DOMAIN model.oblivious_trees : \A i \in DOMAIN model.oblivious_trees[t].splits :
       model.oblivious_trees[t].splits[i].kind = "float"
  /\ model.ctr_data = {} /\ model.approx_dimension <= 1

LaidEndToEnd(parts) ==
  LET upto[t \in 0 .. Len(parts)] == IF t = 0 THEN <<>> ELSE upto[t - 1] \o parts[t] IN upto

(* flatten_oblivious_f64: the trees laid end to end, with running offsets. *)
flatten_oblivious(model) ==
  LET trees == model.oblivious_trees
      splits == LaidEndToEnd([t \in DOMAIN trees |-> trees[t].splits])
      leaves == LaidEndToEnd([t \in DOMAIN trees |-> trees[t].leaf_values])
  IN  [splits |-> splits[Len(trees)], leaf_values |-> leaves[Len(trees)],
       tree_split_offsets |-> [i \in 1 .. Len(trees) + 1 |-> Len(splits[i - 1])],
       tree_leaf_offsets |-> [i \in 1 .. Len(trees) + 1 |-> Len(leaves[i - 1])],
       bias |-> model.bias]

(* apply_oblivious_float_kernel, one object: the walk over those arrays.   *)
DevicePasses(s, row) ==
  s.feature \in DOMAIN row.float /\ row.float[s.feature] # NaN /\ row.float[s.feature] > s.border

(* Mutant: every tree reads the leaves of the first. *)
DeviceValueOfFirstTree(flat, row, t) ==
  LET bits == SubSeq(flat.splits, flat.tree_split_offsets[t] + 1, flat.tree_split_offsets[t + 1])
  IN  flat.leaf_values[leaf_index([i \in DOMAIN bits |-> DevicePasses(bits[i], row)]) + 1]

DeviceValue(flat, row, t) ==
  LET first == flat.tree_split_offsets[t]
      bits == SubSeq(flat.splits, first + 1, flat.tree_split_offsets[t + 1])
      li == flat.tree_leaf_offsets[t] + leaf_index([i \in DOMAIN bits |-> DevicePasses(bits[i], row)])
  IN  IF li < flat.tree_leaf_offsets[t + 1] THEN flat.leaf_values[li + 1] ELSE Missing

apply_oblivious_float_kernel(flat, row) ==
  [t \in 1 .. Len(flat.tree_split_offsets) - 1 |-> DeviceValue(flat, row, t)]

-----------------------------------------------------------------------------
(* apply_virtual_ensembles: ensemble e sums the trees before the last      *)
(* period * count ones and e more periods; an error unless more than twice *)
(* as many trees as ensembles exist.  As the trees each ensemble sums.     *)
TooFewTrees == <<>>

(* Mutant: the ensembles start one period late. *)
apply_virtual_ensembles_late(n_trees, count) ==
  LET eval_period == IF count = 0 THEN 0 ELSE n_trees \div (2 * count)
      begin == n_trees - eval_period * (count - 1)
  IN  IF eval_period = 0 \/ eval_period * count >= n_trees THEN TooFewTrees
      ELSE [e \in 1 .. count |-> 1 .. Min({begin + e * eval_period, n_trees})]

apply_virtual_ensembles(n_trees, count) ==
  LET eval_period == IF count = 0 THEN 0 ELSE n_trees \div (2 * count)
      begin == n_trees - eval_period * count
      running[e \in 0 .. count] ==
        IF e = 0 THEN 1 .. begin
        ELSE running[e - 1] \cup
             (begin + (e - 1) * eval_period + 1 .. Min({begin + e * eval_period, n_trees}))
  IN  IF eval_period = 0 \/ eval_period * count >= n_trees THEN TooFewTrees
      ELSE [e \in 1 .. count |-> running[e]]

-----------------------------------------------------------------------------

(* lift_one_hot: position and bin become the column and the hash; nothing  *)
(* when a table has no such entry.                                         *)
lift_one_hot(trained, s) ==
  IF s.feature \in DOMAIN trained.one_hot_absolute
     /\ s.at \in DOMAIN trained.one_hot_bin_to_hash[s.feature]
  THEN <<[kind |-> "onehot", cat_feature |-> trained.one_hot_absolute[s.feature],
          value_hash |-> trained.one_hot_bin_to_hash[s.feature][s.at]]>>
  ELSE <<>>

lift_level(trained, tree, kind) ==
  CASE kind[1] = "float"  -> <<tree.splits[kind[2]]>>
    [] kind[1] = "onehot" -> lift_one_hot(trained, tree.one_hot_splits[kind[2]])
    [] kind[1] = "ctr"    -> <<tree.ctr_splits[kind[2]]>>

(* Mutant: the kinds one after the other. *)
lift_grouped(trained, tree) ==
  [splits |-> tree.splits \o tree.ctr_splits
              \o FlattenSeq([i \in DOMAIN tree.one_hot_splits |->
                               lift_one_hot(trained, tree.one_hot_splits[i])]),
   leaf_values |-> tree.leaf_values, leaf_weights |-> tree.leaf_weights]

lift_oblivious(trained, tree) ==
  [splits |-> IF tree.level_kinds = <<>> THEN tree.splits \o tree.ctr_splits
              ELSE FlattenSeq([i \in DOMAIN tree.level_kinds |->
                                 lift_level(trained, tree, tree.level_kinds[i])]),
   leaf_values |-> tree.leaf_values, leaf_weights |-> tree.leaf_weights]

from_trained(trained) ==
  [oblivious_trees |-> [t \in DOMAIN trained.oblivious_trees |->
                          lift_oblivious(trained, trained.oblivious_trees[t])],
   non_symmetric_trees |-> trained.non_symmetric_trees,
   region_trees |-> trained.region_trees,
   bias |-> trained.bias, float_feature_borders |-> trained.borders,
   ctr_data |-> trained.ctr_tables, approx_dimension |-> trained.approx_dimension]

-----------------------------------------------------------------------------
(* What training itself makes of a row: the bin of a category is its       *)
(* place in the column's hash table.                                       *)
TrainerPasses(trained, s, row) ==
  IF s.kind = "onehot"
  THEN LET column == trained.one_hot_absolute[s.feature]
       IN  /\ column \in DOMAIN row.cat
           /\ row.cat[column] = trained.one_hot_bin_to_hash[s.feature][s.at]
  ELSE passes_split(from_trained(trained), s, row)

TrainedLeaf(trained, tree, row) ==
  leaf_index([i \in DOMAIN tree.levels |-> TrainerPasses(trained, tree.levels[i], row)])

-----------------------------------------------------------------------------
(* tree_eval_contribution and its two siblings: raw comparisons of the     *)
(* float columns, over the float splits alone.                             *)
(* Mutant: the test of an oblivious level is not strict. *)
raw_above_or_equal(s, row) ==
  row.float[s.feature] # NaN /\ row.float[s.feature] >= s.border

raw_above(s, row) ==
  row.float[s.feature] # NaN /\ row.float[s.feature] > s.border

RawOutcomes(tree, row) == [i \in DOMAIN tree.splits |-> raw_above(tree.splits[i], row)]

tree_eval_contribution(tree, row) ==
  ValueAt(tree.leaf_values, leaf_index(RawOutcomes(tree, row)))

nonsym_eval_contribution(tree, row) ==
  LET leaf == leaf_index_nonsym(tree, RawOutcomes(tree, row))
  IN  IF leaf = NoLeaf THEN Missing ELSE ValueAt(tree.leaf_values, leaf)

region_eval_contribution(tree, row) ==
  ValueAt(tree.leaf_values, region_leaf(tree, RawOutcomes(tree, row)))

last_tree_eval_contribution(trained, row) ==
  IF trained.region_trees # <<>> THEN region_eval_contribution(Last(trained.region_trees), row)
  ELSE IF trained.non_symmetric_trees # <<>>
  THEN nonsym_eval_contribution(Last(trained.non_symmetric_trees), row)
  ELSE IF trained.oblivious_trees # <<>>
  THEN tree_eval_contribution(Last(trained.oblivious_trees), row)
  ELSE Missing
===============================================================================
