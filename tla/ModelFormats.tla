------------------------------ MODULE ModelFormats ------------------------------
(***************************************************************************)
(* The two files a model is written to and read back from.                 *)
(*                                                                         *)
(* The native file (build_core_blob and reconstruct_model of               *)
(* cb-model/src/cbm.rs) refers to splits by their number in one list of    *)
(* binary features (floats, one-hots, CTRs), lays the leaves of all trees  *)
(* end to end, leaf-major, and locates each tree by cursors.  A border is  *)
(* an f32, so writing it as one loses nothing.                             *)
(*                                                                         *)
(* The readable file (to_doc and from_doc of cb-model/src/json.rs) holds   *)
(* float splits only.  A leaf-wise tree is written as nested nodes and     *)
(* read back in preorder, so its numbering changes; a node that ends the   *)
(* walk on one side becomes two.                                           *)
(***************************************************************************)
EXTENDS ModelApply

NumbersBefore(counts) ==
  LET sum[i \in 1 .. Len(counts) + 1] == IF i = 1 THEN 0 ELSE sum[i - 1] + counts[i - 1] IN sum

Below(s, x) == Cardinality({y \in s : y < x})
Ascending(s) == SetToSortSeq(s, LAMBDA x, y : x < y)
Position(seq, x) == Min({i \in DOMAIN seq : seq[i] = x}) - 1

-----------------------------------------------------------------------------
(* The binary features: floats feature by feature, then one-hot columns    *)
(* and hashes ascending, then CTR identities with their borders ascending. *)
build_bin_features(borders) ==
  FlattenSeq([f \in DOMAIN borders |->
    [i \in DOMAIN borders[f] |-> [kind |-> "float", feature |-> f, border |-> borders[f][i]]]])

SplitsOf(model, kind) ==
  {s \in UNION {Range(model.oblivious_trees[t].splits) : t \in DOMAIN model.oblivious_trees} :
     s.kind = kind}

build_one_hot_features(model) ==
  LET used == SplitsOf(model, "onehot")
      columns == Ascending({s.cat_feature : s \in used})
  IN  [i \in DOMAIN columns |->
        [cat_feature |-> columns[i],
         values |-> Ascending({s.value_hash : s \in {u \in used : u.cat_feature = columns[i]}})]]

build_ctr_features(model) ==
  LET used == SplitsOf(model, "ctr")
      identities == Ascending({s.identity : s \in used})
  IN  [i \in DOMAIN identities |->
        [identity |-> identities[i],
         borders |-> Ascending({s.border : s \in {u \in used : u.identity = identities[i]}})]]

(* The writer computes an index; the reader looks one up in this list.     *)
build_combined_bins(borders, one_hots, ctrs) ==
  build_bin_features(borders)
  \o FlattenSeq([i \in DOMAIN one_hots |-> [k \in DOMAIN one_hots[i].values |->
       [kind |-> "onehot", cat_feature |-> one_hots[i].cat_feature,
        value_hash |-> one_hots[i].values[k]]]])
  \o FlattenSeq([i \in DOMAIN ctrs |-> [k \in DOMAIN ctrs[i].borders |->
       [kind |-> "ctr", identity |-> ctrs[i].identity, border |-> ctrs[i].borders[k]]]])

one_hot_split_to_global_index(s, n_float_bins, plan) ==
  LET entry == CHOOSE i \in DOMAIN plan : plan[i].cat_feature = s.cat_feature
  IN  n_float_bins + NumbersBefore([i \in DOMAIN plan |-> Len(plan[i].values)])[entry]
      + Below(Range(plan[entry].values), s.value_hash)

ctr_split_to_global_index(s, ctr_bin_base, plan) ==
  LET entry == CHOOSE i \in DOMAIN plan : plan[i].identity = s.identity
  IN  ctr_bin_base + NumbersBefore([i \in DOMAIN plan |-> Len(plan[i].borders)])[entry]
      + Below(Range(plan[entry].borders), s.border)

OneHotBins(plan) == NumbersBefore([i \in DOMAIN plan |-> Len(plan[i].values)])[Len(plan) + 1]

(* Mutant: the CTR range begins where the floats end. *)
global_index_without_one_hots(model, s) ==
  LET bins == build_bin_features(model.float_feature_borders)
  IN  CASE s.kind = "float"  -> Position(bins, s)
        [] s.kind = "onehot" -> one_hot_split_to_global_index(s, Len(bins), build_one_hot_features(model))
        [] s.kind = "ctr"    -> ctr_split_to_global_index(s, Len(bins), build_ctr_features(model))

global_index(model, s) ==
  LET bins == build_bin_features(model.float_feature_borders)
      one_hots == build_one_hot_features(model)
  IN  CASE s.kind = "float"  -> Position(bins, s)
        [] s.kind = "onehot" -> one_hot_split_to_global_index(s, Len(bins), one_hots)
        [] s.kind = "ctr"    -> ctr_split_to_global_index(s, Len(bins) + OneHotBins(one_hots),
                                                          build_ctr_features(model))

-----------------------------------------------------------------------------
LeafMajor(values, n, dim) ==
  [k \in 1 .. n * dim |-> values[((k - 1) % dim) * n + ((k - 1) \div dim) + 1]]

HasLeaf(id) == id # NoLeaf

distinct_leaves(ids) == Cardinality({n \in DOMAIN ids : HasLeaf(ids[n])})

(* Mutant: only the nodes without children are counted. *)
PureLeavesOf(tree, dim) ==
  IF "step_nodes" \in DOMAIN tree
  THEN Cardinality({n \in DOMAIN tree.step_nodes : tree.step_nodes[n] = <<0, 0>>})
  ELSE Len(tree.leaf_values) \div dim

LeavesOf(tree, dim) ==
  IF "step_nodes" \in DOMAIN tree THEN distinct_leaves(tree.node_id_to_leaf_id)
  ELSE Len(tree.leaf_values) \div dim

IsPureLeaf(step) == step = <<0, 0>>

NodeIndices(model, tree) ==
  [n \in DOMAIN tree.splits |->
     IF IsPureLeaf(tree.step_nodes[n]) THEN 0 ELSE global_index(model, tree.splits[n])]

(* Region trees are not written at all. *)
SavedTrees(model) == model.non_symmetric_trees \o model.oblivious_trees

(* save_cbm returns an error: a CTR without its table, or leaf ids that do *)
(* not match the leaf values.                                              *)
SaveCbmFails(model) ==
  \/ \E s \in SplitsOf(model, "ctr") : TableOf(s.identity) \notin model.ctr_data
  \/ \E t \in DOMAIN SavedTrees(model) :
       LET tree == SavedTrees(model)[t]
       IN  LeavesOf(tree, model.approx_dimension) * model.approx_dimension > Len(tree.leaf_values)

build_core_blob(model) ==
  LET dim == model.approx_dimension
      trees == SavedTrees(model)
      nonsym == model.non_symmetric_trees
      value_base == NumbersBefore([t \in DOMAIN nonsym |-> LeavesOf(nonsym[t], dim) * dim])
      Ids(t) == [n \in DOMAIN nonsym[t].node_id_to_leaf_id |->
                   LET id == nonsym[t].node_id_to_leaf_id[n]
                   IN  IF HasLeaf(id) THEN value_base[t] + id * dim ELSE NoLeaf]
      Indices(t) ==
        IF t <= Len(nonsym) THEN NodeIndices(model, nonsym[t])
        ELSE [i \in DOMAIN trees[t].splits |-> global_index(model, trees[t].splits[i])]
  IN  [format |-> "cbm",
       tree_splits |-> FlattenSeq([t \in DOMAIN trees |-> Indices(t)]),
       tree_sizes |-> [t \in DOMAIN trees |-> Len(trees[t].splits)],
       step_nodes |-> FlattenSeq([t \in DOMAIN nonsym |-> nonsym[t].step_nodes]),
       node_ids |-> FlattenSeq([t \in DOMAIN nonsym |-> Ids(t)]),
       leaf_values |-> FlattenSeq([t \in DOMAIN trees |->
                         LeafMajor(trees[t].leaf_values, LeavesOf(trees[t], dim), dim)]),
       leaf_weights |-> FlattenSeq([t \in DOMAIN trees |-> trees[t].leaf_weights]),
       borders |-> model.float_feature_borders,
       one_hots |-> build_one_hot_features(model), ctrs |-> build_ctr_features(model),
       tables |-> model.ctr_data, dim |-> dim, bias |-> model.bias]

-----------------------------------------------------------------------------
(* Mutant: weights are located like values. *)
read_weights_at_values(doc, weight_cursor, n) ==
  [l \in 1 .. n |-> IF weight_cursor * doc.dim + l \in DOMAIN doc.leaf_weights
                    THEN doc.leaf_weights[weight_cursor * doc.dim + l] ELSE 0]

(* read_tree_leaves: n leaves from the cursors, back to dimension-major;   *)
(* a missing weight is 0.                                                  *)
read_leaves(doc, value_cursor, n) ==
  [k \in 1 .. n * doc.dim |->
     doc.leaf_values[value_cursor + ((k - 1) % n) * doc.dim + ((k - 1) \div n) + 1]]

read_weights(doc, weight_cursor, n) ==
  [l \in 1 .. n |-> IF weight_cursor + l \in DOMAIN doc.leaf_weights
                    THEN doc.leaf_weights[weight_cursor + l] ELSE 0]

NodesBefore(doc) == NumbersBefore(doc.tree_sizes)

(* The nodes, or the splits, of tree t in an array of the file. *)
Part(doc, array, t) == SubSeq(array, NodesBefore(doc)[t] + 1, NodesBefore(doc)[t + 1])

IsNonSymmetric(doc) == doc.step_nodes # <<>>

TreeLeaves(doc, t) ==
  IF IsNonSymmetric(doc) THEN distinct_leaves(Part(doc, doc.node_ids, t))
  ELSE 2 ^ doc.tree_sizes[t]

weight_cursor(doc) == NumbersBefore([t \in DOMAIN doc.tree_sizes |-> TreeLeaves(doc, t)])

(* A pure leaf gets a split that nothing reads.                            *)
Placeholder == [kind |-> "float", feature |-> 1, border |-> -100]

reconstruct_tree(doc, t) ==
  LET bins == build_combined_bins(doc.borders, doc.one_hots, doc.ctrs)
      indices == Part(doc, doc.tree_splits, t)
      n == TreeLeaves(doc, t)
      value_cursor == weight_cursor(doc)[t] * doc.dim
      leaves == [leaf_values |-> read_leaves(doc, value_cursor, n),
                 leaf_weights |-> read_weights(doc, weight_cursor(doc)[t], n)]
      steps == Part(doc, doc.step_nodes, t)
      ids == Part(doc, doc.node_ids, t)
  IN  IF IsNonSymmetric(doc)
      THEN leaves @@
           [splits |-> [k \in DOMAIN indices |->
                          IF IsPureLeaf(steps[k]) THEN Placeholder ELSE bins[indices[k] + 1]],
            step_nodes |-> steps,
            node_id_to_leaf_id |-> [k \in DOMAIN ids |->
               IF HasLeaf(ids[k]) THEN (ids[k] - value_cursor) \div doc.dim ELSE NoLeaf]]
      ELSE leaves @@ [splits |-> [k \in DOMAIN indices |-> bins[indices[k] + 1]]]

(* decode_cbm returns an error: leaves past the end of the file's, or a    *)
(* leaf-wise tree whose first leaf is not where the cursor is.             *)
LoadCbmFails(doc) ==
  \/ weight_cursor(doc)[Len(doc.tree_sizes) + 1] * doc.dim > Len(doc.leaf_values)
  \/ /\ IsNonSymmetric(doc)
     /\ \E t \in DOMAIN doc.tree_sizes :
          LET ids == {i \in Range(Part(doc, doc.node_ids, t)) : HasLeaf(i)}
          IN  ids # {} /\ Min(ids) # weight_cursor(doc)[t] * doc.dim

(* Mutant: the tables are left behind. *)
reconstruct_without_tables(doc) ==
  [oblivious_trees |-> IF IsNonSymmetric(doc) THEN <<>>
                       ELSE [t \in DOMAIN doc.tree_sizes |-> reconstruct_tree(doc, t)],
   non_symmetric_trees |-> IF IsNonSymmetric(doc)
                           THEN [t \in DOMAIN doc.tree_sizes |-> reconstruct_tree(doc, t)] ELSE <<>>,
   region_trees |-> <<>>, bias |-> doc.bias, float_feature_borders |-> doc.borders,
   ctr_data |-> {}, approx_dimension |-> doc.dim]

reconstruct_model(doc) ==
  LET trees == [t \in DOMAIN doc.tree_sizes |-> reconstruct_tree(doc, t)]
  IN  [oblivious_trees |-> IF IsNonSymmetric(doc) THEN <<>> ELSE trees,
       non_symmetric_trees |-> IF IsNonSymmetric(doc) THEN trees ELSE <<>>,
       region_trees |-> <<>>,
       bias |-> doc.bias, float_feature_borders |-> doc.borders,
       ctr_data |-> IF doc.ctrs = <<>> THEN {} ELSE doc.tables,
       approx_dimension |-> doc.dim]

-----------------------------------------------------------------------------
(* The readable file.                                                      *)
AllSplits(model) ==
  UNION ({Range(model.oblivious_trees[t].splits) : t \in DOMAIN model.oblivious_trees}
         \cup {Range(model.non_symmetric_trees[t].splits) : t \in DOMAIN model.non_symmetric_trees}
         \cup {Range(model.region_trees[t].splits) : t \in DOMAIN model.region_trees})

to_leaf_major(values, dim) ==
  LET n == Len(values) \div dim
  IN  [k \in DOMAIN values |-> values[((k - 1) % dim) * n + ((k - 1) \div dim) + 1]]

to_dim_major(values, dim) ==
  LET n == Len(values) \div dim
  IN  [k \in DOMAIN values |-> values[((k - 1) % n) * dim + ((k - 1) \div n) + 1]]

-----------------------------------------------------------------------------
(* unflatten_non_symmetric: a side with offset 0 ends at this node's leaf. *)
(* One value per leaf is written, whatever the dimension.                  *)
leaf_at(tree, n) ==
  LET id == tree.node_id_to_leaf_id[n]
  IN  [leaf |-> TRUE,
       value |-> IF id = NoLeaf THEN Missing ELSE ValueAt(tree.leaf_values, id),
       weight |-> IF id = NoLeaf THEN 0 ELSE ValueAt(tree.leaf_weights, id)]

unflatten_non_symmetric(tree) ==
  LET build[n \in DOMAIN tree.splits] ==
        LET side(i) == IF tree.step_nodes[n][i] = 0 THEN leaf_at(tree, n)
                       ELSE build[n + tree.step_nodes[n][i]]
        IN  IF tree.step_nodes[n] = <<0, 0>> THEN leaf_at(tree, n)
            ELSE [leaf |-> FALSE, split |-> tree.splits[n], left |-> side(1), right |-> side(2)]
  IN  build[1]

(* flatten_non_symmetric: nodes in preorder, leaves numbered as met; the   *)
(* leaf id of an inner node stays 0.                                       *)
RECURSIVE collect_preorder(_)
collect_preorder(node) ==
  IF node.leaf THEN <<[leaf |-> TRUE, diff |-> <<0, 0>>, of |-> node]>>
  ELSE LET left == collect_preorder(node.left)
       IN  <<[leaf |-> FALSE, diff |-> <<1, 1 + Len(left)>>, of |-> node]>>
           \o left \o collect_preorder(node.right)

flatten_non_symmetric(root) ==
  LET order == collect_preorder(root)
      leaves == SelectSeq(order, LAMBDA n : n.leaf)
      LeavesBefore(n) == Cardinality({k \in 1 .. n - 1 : order[k].leaf})
  IN  [splits |-> [n \in DOMAIN order |->
                     IF order[n].leaf THEN [kind |-> "float", feature |-> 1, border |-> -100]
                     ELSE order[n].of.split],
       step_nodes |-> [n \in DOMAIN order |-> order[n].diff],
       node_id_to_leaf_id |-> [n \in DOMAIN order |-> IF order[n].leaf THEN LeavesBefore(n) ELSE 0],
       leaf_values |-> [l \in DOMAIN leaves |-> leaves[l].of.value],
       leaf_weights |-> [l \in DOMAIN leaves |-> leaves[l].of.weight]]

-----------------------------------------------------------------------------
(* to_doc returns an error.                                                *)
SaveJsonFails(model) ==
  \/ \E s \in AllSplits(model) : s.kind # "float"
  \/ \E t \in DOMAIN model.region_trees :
       Len(model.region_trees[t].leaf_values) \div model.approx_dimension
         # Len(model.region_trees[t].splits) + 1

to_doc(model) ==
  LET dim == model.approx_dimension
      Written(tree) == [tree EXCEPT !.leaf_values = to_leaf_major(tree.leaf_values, dim)]
  IN  [format |-> "json",
       oblivious_trees |-> [t \in DOMAIN model.oblivious_trees |-> Written(model.oblivious_trees[t])],
       trees |-> [t \in DOMAIN model.non_symmetric_trees |->
                    unflatten_non_symmetric(model.non_symmetric_trees[t])],
       region_trees |-> [t \in DOMAIN model.region_trees |-> Written(model.region_trees[t])],
       biases |-> [d \in 1 .. dim |-> model.bias],
       borders |-> model.float_feature_borders]

(* from_doc returns an error: the weights of a region tree are not one per *)
(* leaf.                                                                   *)
LoadJsonFails(doc) ==
  \E t \in DOMAIN doc.region_trees :
    Len(doc.region_trees[t].leaf_weights)
      \notin {0, Len(doc.region_trees[t].leaf_values) \div Len(doc.biases)}

from_doc(doc) ==
  LET dim == Len(doc.biases)
      Read(tree) ==
        LET n == Len(tree.leaf_values) \div dim
        IN  [tree EXCEPT !.leaf_values = to_dim_major(tree.leaf_values, dim),
                         !.leaf_weights = IF Len(tree.leaf_weights) = n THEN tree.leaf_weights
                                          ELSE [l \in 1 .. n |-> 0]]
  IN  [oblivious_trees |-> [t \in DOMAIN doc.oblivious_trees |-> Read(doc.oblivious_trees[t])],
       non_symmetric_trees |-> [t \in DOMAIN doc.trees |-> flatten_non_symmetric(doc.trees[t])],
       region_trees |-> [t \in DOMAIN doc.region_trees |-> Read(doc.region_trees[t])],
       bias |-> doc.biases[1], float_feature_borders |-> doc.borders,
       ctr_data |-> {}, approx_dimension |-> dim]

=============================================================================
