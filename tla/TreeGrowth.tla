------------------------------- MODULE TreeGrowth -------------------------------
(***************************************************************************)
(* The growers of one tree behind the dispatch on grow_policy in           *)
(* train_inner_impl (cb-train/src/boosting.rs), and what they owe the rest *)
(* of the iteration: a tree whose recorded leaf of each object is the leaf *)
(* that applying the tree finds.  A symmetric tree is searched in one of   *)
(* five ways: over floats and one-hots, with noise, over CTR columns, over *)
(* the segments of an ordered fit, or on the device.                       *)
(***************************************************************************)
EXTENDS DeviceGrowth, LeafWiseGrowth

vars == <<fit, growth, grown, oblivious, leafwise, region, search>>

Init ==
  /\ fit \in Fits /\ growth = "search" /\ grown = NoTree
  /\ ObliviousInit /\ DeviceInit /\ LeafWiseInit /\ RegionInit

GrowOblivious ==
  /\ ObliviousNext \/ SelectLevelCtrAware \/ SelectLevelOrdered
  /\ UNCHANGED <<leafwise, region, search>>

GrowOnDevice == DeviceNext /\ UNCHANGED <<leafwise, region>>

GrowLeafWise == LeafWiseNext /\ UNCHANGED <<oblivious, search>>

Outcomes == {"grown", "degenerate", "out_of_range", "unsupported_width"}

(* The call has returned; a search that stops anywhere else is a deadlock. *)
Returned == growth \in Outcomes /\ UNCHANGED vars

Next == GrowOblivious \/ GrowOnDevice \/ GrowLeafWise \/ Returned

Spec == Init /\ [][Next]_vars

-----------------------------------------------------------------------------

(* The ranges of the search state of all growers. *)
TypeOK ==
  /\ growth \in {"search", "finish"} \cup Outcomes
  /\ width \in 1 .. Pow2(MaxDepth) /\ leaf_of \in [Objects -> 0 .. width - 1]
  /\ Len(chosen) <= MaxDepth
  /\ LET cands == IF fit.device THEN DeviceCandidates ELSE Candidates(Floats \cup OneHots \cup Ctrs)
     IN  \A i \in DOMAIN chosen : chosen[i] \in cands
  /\ search.float_split_count <= Len(chosen)
  /\ leaf_owner \in [Objects -> 1 .. Len(nodes)]
  /\ \A n \in DOMAIN nodes : nodes[n].docs \subseteq Objects /\ nodes[n].depth <= MaxDepth
  /\ leaf_count \in 0 .. N
  /\ frontier \subseteq Objects /\ Len(path) <= MaxDepth /\ Len(terminal_docs) = Len(path)

(* A tree of the device is folded over a walk that compares raw values,    *)
(* and routes a missing one below a border that is to its left; only the   *)
(* symmetric tree of a fit without weights keeps the leaves of the device, *)
(* and one with a CTR split is routed over the CPU's columns.              *)
FoldsRawMissing ==
  /\ fit.device
  /\ fit.policy = "SymmetricTree" => ~UnitWeights /\ \A i \in DOMAIN chosen : chosen[i].kind # "ctr"
  /\ \E f \in 1 .. Len(fit.floats) : fit.floats[f].top /\ NaN \in {fit.floats[f].value[o] : o \in Objects}

(* The leaf an object's derivatives were counted in. *)
EstimatedIn(o) ==
  CASE fit.policy = "SymmetricTree" -> grown.leaf_of[o]
    [] fit.policy = "Region" -> RegionBin(o)
    [] OTHER -> LeafId(leaf_owner[o])

(* The leaf an object trained in is the leaf it is later scored in: the    *)
(* leaf each grower records for every object is the one its value was      *)
(* estimated from, and the one that walking the finished tree (its bits in *)
(* level order, its offsets, its path) finds.                              *)
GrownLeafIsApplied ==
  growth = "grown" /\ ~FoldsRawMissing =>
    \A o \in Objects :
      /\ grown.leaf_of[o] = LeafOf(grown, [i \in DOMAIN LevelOrder(grown) |-> Passes(LevelOrder(grown)[i], o)])
      /\ grown.leaf_of[o] = EstimatedIn(o)

(* The growers keep their partitions by several books each (bits and       *)
(* splits; owners, documents and nodes), and they never part; no leaf of a *)
(* leaf-wise tree is empty; the histograms of a level, carried over or     *)
(* subtracted, are the ones a count over that partition gives; and the     *)
(* book of leaves that a grower closes agrees with the finished tree.  Only  *)
(* of a tree with a split of the device past the last border of a column,  *)
(* which FinishDevice refuses, are the leaves not those of its splits.     *)
GrowersKeepTheirBooks ==
  /\ TypeOK /\ OwnersAreDocs /\ NoLeafIsEmpty /\ HistsAreFresh
  /\ (\A i \in DOMAIN chosen : NamesABorder(chosen[i])) => LeafOfIsSplits
  /\ GrownLeafIsApplied

(* Whichever search chose it, by histograms or by a sweep of the device,   *)
(* each split is the one a fresh scan of all rows chooses.                 *)
SplitsAreReferences == ChosenIsReference /\ DeviceChoosesAsCpu /\ DeviceLeafWiseIsCpu

(* A fit the device has taken is not lost there: it never ends in an error *)
(* over bins, neither at a width nor at a split, as no CPU fit does.       *)
DeviceLosesNoFit == fit.device => growth \notin {"unsupported_width", "out_of_range"}
===============================================================================
