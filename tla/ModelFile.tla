------------------------------- MODULE ModelFile -------------------------------
(***************************************************************************)
(* A model between the trainer and its predictions: lifted from the        *)
(* trained form, saved to a file in either format, lost with its process,  *)
(* loaded, saved again (from_trained, save_cbm, load_cbm, save_json and    *)
(* load_json of cb-model).  Neither writer is atomic: a process that dies  *)
(* in one leaves a torn file.                                              *)
(***************************************************************************)
EXTENDS ModelExplanation, ModelFormats

CONSTANTS
  Origins,     \* what a model may come from: trained here, or read from a catboost file
  Rows,        \* the objects predictions are compared on
  Explained,   \* a sequence of objects whose predictions are explained
  NoModel, NoFile, Torn

VARIABLES
  origin,
  model,       \* the model in memory
  via,         \* the formats it has been through
  file,        \* the file
  file_via     \* the formats the file's model has been through

vars == <<origin, model, via, file, file_via>>

IsTrained(o) == "oblivious_trees" \in DOMAIN o
Formats == {"cbm", "json"}

Init ==
  /\ origin \in Origins
  /\ model = NoModel /\ via = {}
  /\ file = IF IsTrained(origin) THEN NoFile ELSE origin
  /\ file_via = {}

Lift ==
  /\ IsTrained(origin) /\ file = NoFile /\ model = NoModel
  /\ model' = from_trained(origin)
  /\ UNCHANGED <<origin, via, file, file_via>>

SaveFails(format) == IF format = "cbm" THEN SaveCbmFails(model) ELSE SaveJsonFails(model)

(* The document is built before the file is touched. *)
Save(format) ==
  /\ model # NoModel /\ ~SaveFails(format)
  /\ file' = IF format = "cbm" THEN build_core_blob(model) ELSE to_doc(model)
  /\ file_via' = via \cup {format}
  /\ UNCHANGED <<origin, model, via>>

CrashWhileSaving(format) ==
  /\ model # NoModel /\ ~SaveFails(format)
  /\ file' = Torn /\ model' = NoModel
  /\ via' = {} /\ file_via' = {}
  /\ UNCHANGED origin

(* The process ends and another one will load the file. *)
Exit ==
  /\ model # NoModel /\ file # NoFile
  /\ model' = NoModel /\ via' = {}
  /\ UNCHANGED <<origin, file, file_via>>

(* A torn file is refused: the declared size exceeds the bytes there are,  *)
(* or the document does not parse.                                         *)
LoadCbm ==
  /\ model = NoModel /\ file \notin {NoFile, Torn} /\ file.format = "cbm"
  /\ ~LoadCbmFails(file)
  /\ model' = reconstruct_model(file) /\ via' = file_via
  /\ UNCHANGED <<origin, file, file_via>>

LoadJson ==
  /\ model = NoModel /\ file \notin {NoFile, Torn} /\ file.format = "json"
  /\ ~LoadJsonFails(file)
  /\ model' = from_doc(file) /\ via' = file_via
  /\ UNCHANGED <<origin, file, file_via>>

Next ==
  \/ Lift \/ LoadCbm \/ LoadJson \/ Exit
  \/ \E format \in Formats : Save(format) \/ CrashWhileSaving(format)

Spec == Init /\ [][Next]_vars

-----------------------------------------------------------------------------
(* The predictions of what was trained, tree by tree: the level order the  *)
(* splits were chosen in and the bins they were chosen by.                 *)
OriginPredict(row) ==
  IF ~IsTrained(origin) THEN Predict(reconstruct_model(origin), row)
  ELSE IF origin.oblivious_trees = <<>> THEN Predict(from_trained(origin), row)
  ELSE [bias |-> origin.bias,
        sums |-> [d \in 0 .. origin.approx_dimension - 1 |->
          [t \in DOMAIN origin.oblivious_trees |->
             DimValue(origin.oblivious_trees[t].leaf_values, d, origin.approx_dimension,
                      TrainedLeaf(origin, origin.oblivious_trees[t], row))]]]

(* What the formats lose without an error: a region model saved as .cbm    *)
(* keeps no tree, a leaf-wise model of several dimensions saved as JSON    *)
(* keeps one value per leaf.                                               *)
IsLeafWise(o) == IF IsTrained(o) THEN o.non_symmetric_trees # <<>> ELSE IsNonSymmetric(o)
IsRegion(o) == IsTrained(o) /\ o.region_trees # <<>>
Dimension(o) == IF IsTrained(o) THEN o.approx_dimension ELSE o.dim

Lossy ==
  \/ IsRegion(origin) /\ "cbm" \in via
  \/ IsLeafWise(origin) /\ Dimension(origin) > 1 /\ "json" \in via

(* Through every chain of conversions a model predicts for every row what  *)
(* was trained, leaf by leaf, unless the format is one that loses trees.   *)
PredictsAsTrained ==
  model # NoModel /\ ~Lossy => \A row \in Rows : Predict(model, row) = OriginPredict(row)

(* The weight of a leaf stays with its leaf: each tree still has one per   *)
(* leaf, and the same ones.                                                *)
Weights(m) ==
  LET trees == m.oblivious_trees \o m.non_symmetric_trees \o m.region_trees
  IN  [t \in DOMAIN trees |-> [l \in DOMAIN trees[t].leaf_weights |->
        <<trees[t].leaf_weights[l], ValueAt(trees[t].leaf_values, l - 1)>>]]

WeightsFollowLeaves ==
  model # NoModel /\ ~Lossy =>
    LET before == Weights(IF IsTrained(origin) THEN from_trained(origin) ELSE reconstruct_model(origin))
    IN  /\ DOMAIN Weights(model) = DOMAIN before
        /\ \A t \in DOMAIN before : Range(Weights(model)[t]) = Range(before[t])

(* A writer never writes what its reader refuses.                          *)
SavedIsLoadable ==
  file \notin {NoFile, Torn} =>
    IF file.format = "cbm" THEN ~LoadCbmFails(file) ELSE ~LoadJsonFails(file)

(* Only a leaf-wise model that was read from JSON cannot be written as     *)
(* .cbm, for the leaf ids of its inner nodes; and only splits on           *)
(* categories keep a model from JSON.                                      *)
SaveRefusesOnlyKnown ==
  model # NoModel =>
    /\ SaveCbmFails(model) <=> IsLeafWise(origin) /\ "json" \in via
    /\ SaveJsonFails(model) <=> \E s \in AllSplits(model) : s.kind # "float"

(* Saving either refuses or leaves a file the next process can read.       *)
FilesStayUsable == SavedIsLoadable /\ SaveRefusesOnlyKnown

(* No chain of saves and loads ends in a file that cannot be read, or in a *)
(* model whose leaves have lost their weights.                             *)
FilesKeepTheModel == FilesStayUsable /\ WeightsFollowLeaves

-----------------------------------------------------------------------------
(* Staged predictions of an oblivious model: the stage at count c sums     *)
(* exactly the trees from the start up to c, and the last stage is always  *)
(* the whole range asked for.                                              *)
Counts == 0 .. 4

StagedIsPrefix ==
  model # NoModel /\ AllSplits(model) # {} /\ (\A s \in AllSplits(model) : s.kind = "float")
    /\ model.approx_dimension = 1 /\ model.oblivious_trees # <<>> =>
  \A row \in Rows, start \in Counts, end \in Counts, period \in Counts :
    LET stages == predict_raw_staged(model, row, start, end, period)
        all == Contributions(model, row, 0)
        last == IF end = 0 THEN Len(all) ELSE Min({end, Len(all)})
    IN  /\ \A c \in DOMAIN stages : /\ stages[c].values = SubSeq(all, start + 1, c)
                                    /\ stages[c].based <=> start = 0
        /\ DOMAIN stages # {} <=> start < last
        /\ DOMAIN stages # {} => Max(DOMAIN stages) = last

(* The last virtual ensemble is the whole model, each one has the same     *)
(* number of trees more than the one before, and the first has as many     *)
(* again at least.                                                         *)
VirtualEnsemblesEndAtModel ==
  model # NoModel =>
    \A count \in 1 .. 3 :
      LET n == Len(model.oblivious_trees)
          ensembles == apply_virtual_ensembles(n, count)
      IN  /\ ensembles # TooFewTrees <=> n >= 2 * count
          /\ ensembles # TooFewTrees =>
               /\ ensembles[count] = 1 .. n
               /\ \A e \in 1 .. count - 1 : Cardinality(ensembles[e + 1] \ ensembles[e]) = n \div (2 * count)

(* The device walk over the flattened trees finds what the host walk does, *)
(* for rows without a missing value that nan_mode=Max puts on top.         *)
OnTop(m, row) ==
  \E f \in DOMAIN row.float : row.float[f] = NaN /\ nan_is_above_all_borders(m, f)

DeviceApplyIsApply ==
  model # NoModel /\ GpuApplySupported(model) =>
    \A row \in Rows : ~OnTop(model, row) =>
      apply_oblivious_float_kernel(flatten_oblivious(model), row) = Contributions(model, row, 0)

(* What the trainer adds to an evaluation approximant for its last tree is *)
(* what the model will predict for it: always, or at least for float-only  *)
(* trees and rows without a missing value on top.                          *)
EvalAddsWhatModelPredicts(row) ==
  last_tree_eval_contribution(origin, row) = Last(Contributions(from_trained(origin), row, 0))

FloatOnly(o) == \A t \in DOMAIN o.oblivious_trees : \A i \in DOMAIN o.oblivious_trees[t].levels :
                  o.oblivious_trees[t].levels[i].kind = "float"

EvalContributionOfFloats ==
  IsTrained(origin) /\ origin.approx_dimension = 1 /\ FloatOnly(origin) =>
    \A row \in Rows : ~OnTop(from_trained(origin), row) => EvalAddsWhatModelPredicts(row)

(* The walks implemented apart from the host's apply agree with it: the    *)
(* device kernel's, the trainer's over its evaluation sets, and those over *)
(* part of the trees, stages and virtual ensembles.                        *)
OtherWalksAgree ==
  /\ DeviceApplyIsApply /\ EvalContributionOfFloats
  /\ StagedIsPrefix /\ VirtualEnsemblesEndAtModel

(* What is predicted is what was trained, by whichever walk, after         *)
(* whatever conversions.                                                   *)
EveryWalkPredictsAsTrained == PredictsAsTrained /\ OtherWalksAgree

(* The same for every tree the trainer grows and every row ("update the    *)
(* eval approx with the just-grown tree").                                 *)
EvalContributionIsModel ==
  IsTrained(origin) /\ origin.approx_dimension = 1 =>
    \A row \in Rows : EvalAddsWhatModelPredicts(row)

-----------------------------------------------------------------------------
(* What is said about a model, at the moment it is lifted: of one          *)
(* dimension, with trees of one kind.                                      *)
JustLifted == model # NoModel /\ via = {} /\ file = NoFile /\ model.approx_dimension = 1
              /\ model.region_trees = <<>>
Explainable == JustLifted /\ ShapSupported(model)
Row(r) == Explained[r]
N == NFeatures(model)

(* What a walk that does not know the features outside S expects: the      *)
(* training weights decide for it.  A side without weight is the mean.     *)
RECURSIVE Expectation(_, _, _, _)
Expectation(t, at, row, S) ==
  LET k == Fork(t, at, row)
      of(child, weight) == IF weight = 0 THEN t.mean ELSE Expectation(t, child, row, S)
  IN  IF k.value # <<>> THEN k.value[1]
      ELSE IF k.feature \in S THEN of(k.go, k.go_weight)
      ELSE IF k.weight = 0 THEN t.mean
      ELSE Scaled(Plus(Scaled(of(k.go, k.go_weight), k.go_weight, 1),
                       Scaled(of(k.skip, k.skip_weight), k.skip_weight, 1)), 1, k.weight)

Factorial[n \in Nat] == IF n = 0 THEN 1 ELSE n * Factorial[n - 1]

(* The Shapley value of a feature, over every subset of the others.        *)
ShapleyOf(t, row, f) ==
  LET gain(S) == Minus(Expectation(t, Root(t), row, S \cup {f}), Expectation(t, Root(t), row, S))
  IN  FoldSet(LAMBDA S, acc : Plus(acc, Scaled(gain(S), Factorial[Cardinality(S)] * Factorial[N - 1 - Cardinality(S)],
                                               Factorial[N])),
              Zero, SUBSET ((1 .. N) \ {f}))

(* The interaction of two: what the one adds to the other's gain.          *)
ShapleyPair(t, row, f, g) ==
  LET v(S) == Expectation(t, Root(t), row, S)
      gain(S) == Minus(Plus(v(S \cup {f, g}), v(S)), Plus(v(S \cup {f}), v(S \cup {g})))
  IN  FoldSet(LAMBDA S, acc : Plus(acc, Scaled(gain(S), Factorial[Cardinality(S)] * Factorial[N - 2 - Cardinality(S)],
                                               2 * Factorial[N - 1])),
              Zero, SUBSET ((1 .. N) \ {f, g}))

(* The values of the recursion over the paths are the Shapley values by    *)
(* their definition, of one feature and of two, and those of a document    *)
(* add up to its prediction, up to the leaves no training object reached,  *)
(* which count as the tree's mean.                                         *)
Reached(t, row) == Expectation(t, Root(t), row, 1 .. N)

RowIsShapley(prepared, row, shap, pairs) ==
  /\ \A f \in 1 .. N : shap[f] = Total([t \in DOMAIN prepared |-> ShapleyOf(prepared[t], row, f)])
  /\ \A f, g \in 1 .. N : f # g =>
       pairs[f][g] = Total([t \in DOMAIN prepared |-> ShapleyPair(prepared[t], row, f, g)])
  /\ \A f \in 1 .. N : Total(pairs[f]) = shap[f]
  /\ Plus(Total(shap), expected_value(prepared, model.bias)) =
       Plus(<<model.bias, 1>>, Total([t \in DOMAIN prepared |-> Reached(prepared[t], row)]))

ValuesAreShapley(prepared) ==
  \A r \in DOMAIN Explained :
    RowIsShapley(prepared, Row(r), shap_values_fixed(prepared, Row(r), N, NotFixed),
                 shap_interaction_values(prepared, Row(r), N))

NoEmptyLeaf == \A weights \in Range(StoredWeights(model)) : 0 \notin Range(weights)

ValuesAddUp(prepared) ==
  NoEmptyLeaf => \A r \in DOMAIN Explained : ~OnTop(model, Row(r)) =>
    Plus(Total(shap_values_fixed(prepared, Row(r), N, NotFixed)), expected_value(prepared, model.bias))
      = <<RawValue(model, Row(r)), 1>>

(* An oblivious tree written as a leaf-wise one, its last split on top.    *)
AsLeafWise(tree) ==
  LET depth == Len(tree.splits)
      n == 2 ^ (depth + 1) - 1
      level(i) == CHOOSE d \in 0 .. depth : 2 ^ d <= i /\ i < 2 ^ (d + 1)
  IN  [splits |-> [i \in 1 .. n |-> IF level(i) = depth THEN [kind |-> "float", feature |-> 1, border |-> 0]
                                    ELSE tree.splits[depth - level(i)]],
       step_nodes |-> [i \in 1 .. n |-> IF level(i) = depth THEN <<0, 0>> ELSE <<i, i + 1>>],
       node_id_to_leaf_id |-> [i \in 1 .. n |-> IF level(i) = depth THEN i - 2 ^ depth ELSE NoLeaf],
       leaf_values |-> tree.leaf_values, leaf_weights |-> tree.leaf_weights]

TestsOnce(tree) ==
  \A i, j \in DOMAIN tree.splits : i # j => Internal(tree.splits[i]) # Internal(tree.splits[j])

(* The two walks agree on a tree that can be written both ways: its        *)
(* Shapley values, and its interactions when no feature is tested twice.   *)
WalksExplainAlike ==
  \A t \in DOMAIN model.oblivious_trees :
    LET tree == model.oblivious_trees[t]
        other == AsLeafWise(tree)
    IN  /\ \A r \in DOMAIN Explained :
             TreeShap(PreparedOblivious(tree), Row(r), N, NotFixed)
               = TreeShap(PreparedNonSymmetric(other), Row(r), N, NotFixed)
        /\ TestsOnce(tree) =>
             {<<s.pair, s.score>> : s \in ObliviousPairs(t, tree)}
               = {<<s.pair, s.score>> : s \in NonSymmetricPairs(t, other)}

(* Importances are percentages of the whole; what the splits of a          *)
(* leaf-wise tree do adds up to the variance of its leaves; each object    *)
(* is counted in one leaf of each tree.                                    *)
Variance(tree) ==
  LET leaves == [l \in DOMAIN tree.leaf_values |-> LeafNode(tree, tree.leaf_weights, l - 1)]
      all == FoldLeft(Merged, NodeOf(Zero, 0), leaves)
      off(l) == Minus(leaves[l].value, all.value)
  IN  Total([l \in DOMAIN leaves |-> Scaled(Times(off(l), off(l)), leaves[l].count, 1)])

IsWhole(percents) == Total(percents) \in {<<100, 1>>, Zero}

EffectsAreShares ==
  /\ IsWhole(prediction_values_change(model))
  /\ IsWhole(prediction_values_change_with_data(model, Explained))
  /\ \A counts \in Range(collect_leaves_statistics(model, Explained)) :
       FoldLeft(+, 0, counts) = Len(Explained)
  /\ model.oblivious_trees = <<>> =>
       Total(pvc_effects(model, StoredWeights(model)))
         = Total([t \in DOMAIN model.non_symmetric_trees |-> Variance(model.non_symmetric_trees[t])])

InteractionsAreShares ==
  LET shares == interaction(model)
      total == FoldSet(LAMBDA c, acc : Plus(acc, shares[c]), Zero, DOMAIN shares)
  IN  /\ ~LessThan(<<100, 1>>, total)
      /\ ShapSupported(model) => total \in {<<100, 1>>, Zero}

(* The squared error grows by the mean square of a feature's values when   *)
(* the labels are the model's own predictions.                             *)
LossSeesTheValues(prepared) ==
  LET labels == [r \in DOMAIN Explained |-> <<RawValue(model, Row(r)), 1>>]
      shap == [r \in DOMAIN Explained |-> shap_values_fixed(prepared, Row(r), N, NotFixed)]
      loss == loss_function_change(model, prepared, Explained, labels, N)
  IN  \A f \in 1 .. N :
        loss[f] = Scaled(Total([r \in DOMAIN Explained |-> Times(shap[r][f], shap[r][f])]), 1, Len(Explained))

(* A feature's part in the difference of two predictions is the most it    *)
(* can bring the one towards the other when it alone moves to some bucket. *)
MovedTo(row, f, b) ==
  LET borders == model.float_feature_borders[f]
  IN  [row EXCEPT !.float[f] = IF b = 0 THEN borders[1] - 1 ELSE borders[b] + 1]

BestMove(row, other, f) ==
  LET now == RawValue(model, row)
      moves == {RawValue(model, MovedTo(row, f, b)) - now : b \in 0 .. Len(model.float_feature_borders[f])}
  IN  Max({0} \cup {Abs(m) : m \in {x \in moves : IF now < RawValue(model, other) THEN x > 0 ELSE x < 0}})

DifferenceIsBestMove ==
  (\A t \in DOMAIN model.oblivious_trees : TestsOnce(model.oblivious_trees[t]))
  /\ model.oblivious_trees # <<>> =>
    \A r \in DOMAIN Explained, o \in DOMAIN Explained :
      ~OnTop(model, Row(r)) /\ ~OnTop(model, Row(o)) =>
        \A f \in 1 .. N : prediction_diff(model, Row(r), Row(o))[f]
                            = BestMove(Row(r), Row(o), f) + BestMove(Row(o), Row(r), f)

(* The partial dependence curve at a value's bin is the mean prediction    *)
(* with the feature at that value; no finite value is in the last bin of a *)
(* feature whose missing values are on top.                                *)
CurvesReadEveryBin ==
  ~PdpRefuses(model, N, Len(Explained), <<1, 2>>) =>
    \A r \in DOMAIN Explained, f \in 1 .. N :
      LET x == Row(r).float[f]
          bin(y, h) == 1 + Cardinality({k \in DOMAIN model.float_feature_borders[h] :
                                          y > model.float_feature_borders[h][k]})
          g == IF f = 1 THEN 2 ELSE 1
          z == Row(r).float[g]
          width == Len(model.float_feature_borders[g]) + 1
      IN  x # NaN =>
            /\ pdp_curve_single(model, Explained, f)[bin(x, f)]
                 = pdp_averaged_prediction(model, Explained, <<f>>, <<x>>)
            /\ z # NaN =>
                 pdp_curve_pair(model, Explained, f, g)[(bin(x, f) - 1) * width + bin(z, g)]
                   = pdp_averaged_prediction(model, Explained, <<f, g>>, <<x, z>>)

(* The weighted sum of models predicts the weighted sum of predictions.    *)
FirstTree == [model EXCEPT !.oblivious_trees = <<@[1]>>]

SumsAddUp ==
  ~MergeRefuses(<<model, FirstTree>>) =>
    \A r \in DOMAIN Explained, w \in {<<1, 1>>, <<2, -1>>} :
      RawValue(sum_models(<<model, FirstTree>>, w), Row(r))
        = w[1] * RawValue(model, Row(r)) + w[2] * RawValue(FirstTree, Row(r))

(* What the library says of a model agrees with the definitions of those   *)
(* quantities and with the model's own predictions.                        *)
ExplanationsAddUp ==
  /\ JustLifted => EffectsAreShares /\ InteractionsAreShares
  /\ Explainable =>
       /\ \A prepared \in {Prepared(model)} :
            ValuesAreShapley(prepared) /\ ValuesAddUp(prepared) /\ LossSeesTheValues(prepared)
       /\ WalksExplainAlike /\ DifferenceIsBestMove /\ CurvesReadEveryBin
       /\ model.oblivious_trees # <<>> => SumsAddUp
===============================================================================
