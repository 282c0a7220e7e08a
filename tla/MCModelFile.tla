------------------------------ MODULE MCModelFile ------------------------------
(***************************************************************************)
(* A small instance of ModelFile: two float features, the second with the  *)
(* nan_mode=Max sentinel, three categorical columns, two of them one-hot,  *)
(* and three CTR identities over two tables.  Every leaf of every tree and *)
(* dimension has a value of its own.                                       *)
(***************************************************************************)
EXTENDS ModelFile

Sentinel == 99
Table(identity) == identity % 2

OneHot(pos, bin) == [kind |-> "onehot", feature |-> pos, at |-> bin, border |-> 0]
Ctr(id, b) == [kind |-> "ctr", identity |-> id, border |-> b]
Float(f, b) == [kind |-> "float", feature |-> f, border |-> b]

Borders == <<<<10, 20>>, <<10, Sentinel>>, <<5>>>>
Splits == {Float(1, 10), Float(1, 20), Float(2, 10), Float(2, Sentinel),
           OneHot(1, 1), OneHot(1, 2), OneHot(2, 1), Ctr(1, 5), Ctr(1, 3), Ctr(3, 5), Ctr(2, 4)}

AllRows ==
  {[float |-> <<a, b, 9>>, cat |-> c, ctr |-> k] :
     a \in {10, 15, 25, NaN}, b \in {10, 15, NaN}, c \in {<<7, 7, 5>>, <<7, 8, 6>>, <<>>},
     k \in {<<4, 3, 6>>, <<6, 5, 4>>}}

Leaves(t, n, dim) == [k \in 1 .. n * dim |-> t + k * k]
LeafWeights(t, n) == [l \in 1 .. n |-> (IF t = 1 THEN <<4, 2, 1, 1>> ELSE <<2, 1, 0, 1>>)[1 + ((l - 1) % 4)]]

Projection(identity) == <<<<1>>, <<2>>, <<1, 2>>>>[identity]

Objects == [k \in 1 .. 6 |-> [float |-> <<<<10, 15, 25, 25, 15, NaN>>[k], <<15, 10, 15, 10, NaN, 10>>[k],
                                          <<5, 9, 9, 5, 9, 5>>[k]>>,
                              cat |-> <<7, 8, 5>>, ctr |-> <<4, 6, 4>>]]

(* The grower's lists of a tree, from the splits in the order chosen.      *)
OfKind(levels, kind) == SelectSeq(levels, LAMBDA s : s.kind = kind)
Kinds(levels) ==
  IF \A i \in DOMAIN levels : levels[i].kind = "float" THEN <<>>
  ELSE [i \in DOMAIN levels |->
          <<levels[i].kind, Cardinality({j \in 1 .. i : levels[j].kind = levels[i].kind})>>]

Grown(levels, t, dim) ==
  [levels |-> levels, splits |-> OfKind(levels, "float"),
   one_hot_splits |-> OfKind(levels, "onehot"), ctr_splits |-> OfKind(levels, "ctr"),
   level_kinds |-> Kinds(levels),
   leaf_values |-> Leaves(t, 2 ^ Len(levels), dim), leaf_weights |-> LeafWeights(t, 2 ^ Len(levels))]

TrainedOf(oblivious, nonsym, region, dim) ==
  LET ctrs == UNION {{s.identity : s \in Range(oblivious[t].ctr_splits)} : t \in DOMAIN oblivious}
  IN  [oblivious_trees |-> oblivious, non_symmetric_trees |-> nonsym, region_trees |-> region,
       bias |-> 1, borders |-> Borders, approx_dimension |-> dim,
       ctr_tables |-> {Table(i) : i \in ctrs},
       one_hot_absolute |-> <<2, 3>>, one_hot_bin_to_hash |-> <<<<8, 7>>, <<5>>>>]

Levels == {<<s>> : s \in Splits} \cup {<<s, r>> : s, r \in Splits}
SecondLevels == {<<>>, <<Float(1, 20), OneHot(2, 1)>>, <<Ctr(1, 5), Float(2, 10)>>,
                 <<OneHot(1, 2), Ctr(2, 4), Float(1, 10)>>}

ObliviousModels ==
  {TrainedOf(<<Grown(a, 1, 1), Grown(b, 2, 1)>>, <<>>, <<>>, 1) : a \in Levels, b \in SecondLevels}
  \cup {TrainedOf(<<Grown(a, 1, 2), Grown(<<Float(1, 20)>>, 2, 2)>>, <<>>, <<>>, 2) :
          a \in {l \in Levels : l[1].kind = "float"}}
  \cup {TrainedOf(<<Grown(<<Float(1, 10), Float(3, 5), s>>, 1, 1), Grown(<<r, Float(3, 5)>>, 2, 1)>>, <<>>, <<>>, 1) :
          s, r \in {Float(1, 20), Float(2, 10), Float(2, Sentinel)}}
  \cup {TrainedOf([t \in 1 .. n |-> Grown(<<Float(1 + (t % 2), 10)>>, t, 1)], <<>>, <<>>, 1) :
          n \in {3, 5, 7}}

(* Leaf-wise trees by which nodes were split, in the growers' numbering.   *)
Shapes == {<<<<1, 2>>, <<0, 0>>, <<0, 0>>>>,
           <<<<1, 2>>, <<2, 3>>, <<0, 0>>, <<0, 0>>, <<0, 0>>>>,
           <<<<1, 2>>, <<0, 0>>, <<1, 2>>, <<0, 0>>, <<0, 0>>>>,
           <<<<1, 2>>, <<2, 3>>, <<3, 4>>, <<0, 0>>, <<0, 0>>, <<0, 0>>, <<0, 0>>>>}

LeafWise(steps, s, r, t, dim) ==
  LET inner(n) == steps[n] # <<0, 0>>
      before(n) == Cardinality({k \in 1 .. n - 1 : ~inner(k)})
      n_leaves == Cardinality({n \in DOMAIN steps : ~inner(n)})
  IN  [splits |-> [n \in DOMAIN steps |-> IF ~inner(n) THEN Float(1, 0) ELSE IF n = 1 THEN s ELSE IF n = 2 THEN r ELSE Float(3, 5)],
       step_nodes |-> steps,
       node_id_to_leaf_id |-> [n \in DOMAIN steps |-> IF inner(n) THEN NoLeaf ELSE before(n)],
       leaf_values |-> Leaves(t, n_leaves, dim), leaf_weights |-> LeafWeights(t, n_leaves)]

LeafWiseModels ==
  {TrainedOf(<<>>, <<LeafWise(a, Float(1, 10), Float(2, 10), 1, dim),
                     LeafWise(b, Float(2, Sentinel), Float(1, 20), 2, dim)>>, <<>>, dim) :
     a \in Shapes, b \in Shapes, dim \in 1 .. 2}

Region(splits, directions, t) ==
  [splits |-> splits, region_directions |-> directions,
   leaf_values |-> Leaves(t, Len(splits) + 1, 1), leaf_weights |-> LeafWeights(t, Len(splits) + 1)]

RegionModels ==
  {TrainedOf(<<>>, <<>>, <<Region(<<Float(1, 10)>>, <<d>>, 1),
                          Region(<<Float(2, 10), Float(1, 20)>>, <<e, d>>, 2)>>, 1) : d, e \in BOOLEAN}

(* Of several dimensions, where apply has no arm for region trees. *)
DeepRegionModels ==
  {TrainedOf(<<>>, <<>>, <<[Region(<<Float(1, 10)>>, <<TRUE>>, 1) EXCEPT !.leaf_values = Leaves(1, 2, 2)]>>, 2)}

(* Written by catboost: a node that ends the walk on one side only.        *)
CatboostFiles ==
  {[format |-> "cbm", tree_splits |-> <<i, 0, 0, 2, 1, 0>>, tree_sizes |-> <<2, 4>>,
    step_nodes |-> <<<<1, 0>>, <<0, 0>>, <<0, 1>>, <<1, 2>>, <<0, 0>>, <<0, 0>>>>,
    node_ids |-> <<0, 1, 2, NoLeaf, 3, 4>>, leaf_values |-> <<101, 102, 201, 202, 203>>,
    leaf_weights |-> w, borders |-> Borders, one_hots |-> <<>>, ctrs |-> <<>>, tables |-> {},
    dim |-> 1, bias |-> 1] : i \in {0, 3}, w \in {<<>>, <<1, 2, 3, 4, 5>>}}

AllOrigins == ObliviousModels \cup LeafWiseModels \cup RegionModels \cup CatboostFiles
WithDeepRegions == RegionModels \cup DeepRegionModels
===============================================================================
