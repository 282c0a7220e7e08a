------------------------------- MODULE TreeApply -------------------------------
(***************************************************************************)
(* The leaf of an object in a tree of each of the three shapes, as         *)
(* cb-model/src/apply.rs and the training walks of cb-train/src/boosting.rs*)
(* find it, from the outcome passes[i] of each of its splits.               *)
(***************************************************************************)
EXTENDS Integers, Sequences, FiniteSets, FiniteSetsExt

CONSTANT NoLeaf     \* u32::MAX, and None

(* 1 << k *)
Pow2(k) == LET p[i \in Nat] == IF i = 0 THEN 1 ELSE 2 * p[i - 1] IN p[k]

(* The sum of the first n values, in their order. *)
SumTo(n, value) ==
  LET sum[k \in 0 .. n] == IF k = 0 THEN 0 ELSE sum[k - 1] + value[k - 1] IN sum[n]

(* leaf_index: split i is bit i of the leaf. *)
leaf_index(passes) ==
  SumTo(Len(passes), [i \in 0 .. Len(passes) - 1 |-> IF passes[i + 1] THEN Pow2(i) ELSE 0])

(* leaf_index_nonsym, device_leaf_of_nonsym: follow the offsets until one  *)
(* is 0; the leaf is that of the node it stops at.  None on a missing      *)
(* leaf, or after more steps than there are nodes.                         *)
leaf_index_nonsym(tree, passes) ==
  LET ids == DOMAIN tree.splits
      Step(n) == tree.step_nodes[n][IF passes[n] THEN 2 ELSE 1]
      walk[fuel \in 0 .. Len(tree.splits)] ==
        [n \in Nat |->
           IF n \notin ids THEN NoLeaf
           ELSE IF Step(n) = 0 THEN tree.node_id_to_leaf_id[n]
           ELSE IF fuel = 0 THEN NoLeaf ELSE walk[fuel - 1][n + Step(n)]]
  IN  walk[Len(tree.splits)][1]

(* region_leaf: the levels followed before the first that goes elsewhere.  *)
region_leaf(tree, passes) ==
  Cardinality({i \in DOMAIN tree.splits :
                 \A j \in 1 .. i : passes[j] = tree.region_directions[j]})

(* The splits in the order the leaf is found by.  from_trained puts those  *)
(* of an oblivious tree, grouped by kind, back in the order of the levels; *)
(* empty level_kinds stand for floats only.                                *)
LevelOrder(tree) ==
  IF tree.shape # "oblivious" \/ tree.level_kinds = <<>> THEN tree.splits
  ELSE [i \in DOMAIN tree.level_kinds |->
          LET kind == tree.level_kinds[i]
          IN  CASE kind[1] = "float"  -> tree.splits[kind[2]]
                [] kind[1] = "onehot" -> tree.one_hot_splits[kind[2]]
                [] kind[1] = "ctr"    -> tree.ctr_splits[kind[2]]]

LeafOf(tree, passes) ==
  CASE tree.shape = "oblivious" -> leaf_index(passes)
    [] tree.shape = "leafwise"  -> leaf_index_nonsym(tree, passes)
    [] tree.shape = "region"    -> region_leaf(tree, passes)
===============================================================================
