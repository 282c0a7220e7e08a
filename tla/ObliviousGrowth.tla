---------------------------- MODULE ObliviousGrowth ----------------------------
(***************************************************************************)
(* The searches of cb-train/src/tree.rs for an oblivious tree: one split   *)
(* per level for the whole tree, and one step a level.                     *)
(* greedy_tensor_search_oblivious_perturbed chooses from histograms of     *)
(* which only the smaller half is built at each level and the rest is      *)
(* derived from the parent's.  The other two start each level from the     *)
(* splits chosen so far: greedy_tensor_search_oblivious_with_ctr, whose    *)
(* candidates are float borders and CTR columns, and                       *)
(* greedy_tensor_search_oblivious_ordered, which scores a candidate over   *)
(* the body/tail segments of the learning permutation.                     *)
(***************************************************************************)
EXTENDS FeatureMatrix

CONSTANTS
  CatWeight(_, _),            \* cat_feature_weight: of a count and the largest count
  Whole,                      \* the weight 1.0, in the units of CatWeight
  OrderedLeafScore(_, _, _)   \* of the body's derivatives and weights, and the tail's derivatives

ASSUME CtrAssumption ==
  /\ Whole \in Nat \ {0}
  /\ \A f \in Fits : \A i \in DOMAIN f.ctrs :
       \A largest \in {f.ctrs[j].count : j \in DOMAIN f.ctrs} \cup 1 .. N :
         CatWeight(f.ctrs[i].count, largest) \in 1 .. Whole

VARIABLES
  chosen,    \* the splits of the levels so far
  leaf_of,   \* GrowScratch: the partition the next level starts from
  width,     \* 1 << scratch.level, the leaves of that partition
  hists      \* feature_hists and cat_hists, by column

scratch == <<leaf_of, width, hists>>
oblivious == <<chosen, scratch>>

ObliviousInit ==
  /\ chosen = <<>> /\ leaf_of = [o \in Objects |-> 0] /\ width = 1
  /\ hists = [col \in {} |-> {}]

-----------------------------------------------------------------------------
(* BucketHistogram of cb-compute/src/histogram.rs: for every leaf and bin  *)
(* the sums of derivatives and of weights over the objects in it.  The     *)
(* sums are linear, so a cell is kept as the number of times each object   *)
(* is in it: a build gives 0 or 1, a wrong subtraction a negative or a     *)
(* doubled object.  Floating-point rounding is not modelled.               *)
Leaves(n) == 0 .. n - 1

(* build_bucket_histogram: an object whose leaf is out of range is skipped *)
(* (the builder's sentinel leaf).                                          *)
Build(bins, leaf, n_leaves, n_bins) ==
  [l \in Leaves(n_leaves) |-> [b \in 0 .. n_bins - 1 |-> [o \in Objects |->
     IF leaf[o] = l /\ bins[o] = b THEN 1 ELSE 0]]]

(* h.relocate_sub(n, shift, minus): h moved up by shift leaves, less minus. *)
relocate_sub(h, n, shift, minus) ==
  [l \in Leaves(n) |-> [b \in DOMAIN minus[l] |-> [o \in Objects |->
     (IF l - shift \in DOMAIN h THEN h[l - shift][b][o] ELSE 0) - minus[l][b][o]]]]

(* h.add_relocated(other, shift): other moved up by shift leaves, onto h.  *)
add_relocated(h, other, shift) ==
  [l \in DOMAIN h |-> [b \in DOMAIN h[l] |-> [o \in Objects |->
     h[l][b][o] + IF l - shift \in DOMAIN other THEN other[l - shift][b][o] ELSE 0]]]

-----------------------------------------------------------------------------
(* The padded bin counts: the widest column of either kind, and of both    *)
(* beside CTR columns.                                                     *)
n_bins(col) ==
  IF fit.ctrs # <<>> THEN Max({n_bins_of(fit), CtrBorders + 1})
  ELSE IF col[1] = "float" THEN Max({fit.floats[f].borders + 1 : f \in Bordered})
  ELSE 1 + Max({fit.cats[c][o] : c \in 1 .. Len(fit.cats), o \in Objects})

Skip == -1

(* Mutant: the larger half is taken for the smaller one once it is derived. *)
DeriveFromWrongHalf(col) ==
  LET n_parent == width \div 2
      pass == {o \in Objects : leaf_of[o] >= n_parent}
      low == [o \in Objects |-> IF o \in pass THEN leaf_of[o] - n_parent ELSE leaf_of[o]]
      built == Build(BinsOf(col), [o \in Objects |-> IF o \in pass THEN low[o] ELSE Skip],
                     width, n_bins(col))
      rest == relocate_sub(hists[col], width, 0, built)
  IN  IF Cardinality(pass) <= Cardinality(Objects \ pass)
      THEN add_relocated(rest, built, n_parent)
      ELSE add_relocated(built, rest, n_parent)

(* derive_feature_level_hist: build the half with fewer objects in the low *)
(* leaves, subtract it from the parent's histogram, and put both halves in *)
(* place.                                                                  *)
derive_feature_level_hist(col) ==
  LET n_parent == width \div 2
      pass == {o \in Objects : leaf_of[o] >= n_parent}
      low == [o \in Objects |-> IF o \in pass THEN leaf_of[o] - n_parent ELSE leaf_of[o]]
      small == Cardinality(pass) <= Cardinality(Objects \ pass)
      half == IF small THEN pass ELSE Objects \ pass
      built == Build(BinsOf(col), [o \in Objects |-> IF o \in half THEN low[o] ELSE Skip],
                     width, n_bins(col))
      rest == relocate_sub(hists[col], width, 0, built)
  IN  IF small THEN add_relocated(rest, built, n_parent)
      ELSE add_relocated(built, rest, n_parent)

(* A parent of another shape is no base to derive from. *)
LevelHist(col) ==
  IF col \in DOMAIN hists /\ DOMAIN hists[col] = Leaves(width \div 2) /\ width > 1
  THEN derive_feature_level_hist(col)
  ELSE Build(BinsOf(col), leaf_of, width, n_bins(col))

-----------------------------------------------------------------------------
SideScore(h, l, bins) ==
  Scored([o \in Objects |->
    SumTo(Cardinality(DOMAIN h[l]), [b \in DOMAIN h[l] |-> IF b \in bins THEN h[l][b][o] ELSE 0])])

(* The bins a split sends right: a suffix for a border's prefix scan, one  *)
(* bin for a one-hot value.                                                *)
TrueBins(s, bins) == IF s.kind = "onehot" THEN {s.at} ELSE {b \in bins : b >= s.at}

(* scan_and_score_borders_into, scan_and_score_one_hot_bins_into: a level  *)
(* is scored as the sum over its leaves of both sides of the split.        *)
ScanScore(h, s) ==
  SumTo(Cardinality(DOMAIN h),
        [l \in DOMAIN h |->
           LET bins == DOMAIN h[l]
               right == TrueBins(s, bins)
           IN  SideScore(h, l, right) + SideScore(h, l, bins \ right)])

Choice(h, cands) == select_best([s \in cands |-> ScanScore(h[<<s.kind, s.feature>>], s)])

(* Mutant: the partition is advanced by the level number, not its bit. *)
AdvanceByOne(s) ==
  /\ leaf_of' = [o \in Objects |-> leaf_of[o] + IF Passes(s, o) THEN 1 ELSE 0]
  /\ width' = 2 * width

advance_leaf_only(s) ==
  /\ leaf_of' = [o \in Objects |-> leaf_of[o] + IF Passes(s, o) THEN width ELSE 0]
  /\ width' = 2 * width

(* Record a level's split; the partition is advanced unless it is the last. *)
TakeSplit(s) ==
  /\ chosen' = Append(chosen, s)
  /\ IF Len(chosen) + 1 < MaxDepth THEN advance_leaf_only(s) ELSE UNCHANGED <<leaf_of, width>>
  /\ UNCHANGED <<growth, grown>>

LevelIsOpen == fit.policy = "SymmetricTree" /\ growth = "search" /\ Len(chosen) < MaxDepth

Searching == LevelIsOpen /\ ~fit.device /\ fit.ctrs = <<>> /\ fit.segments = <<>>

(* select_level_plain: floats and one-hots ranked together. *)
SelectLevelPlain ==
  LET cols == Floats \cup OneHots
  IN  /\ Searching /\ fit.noise = "none"
      /\ hists' = [col \in cols |-> LevelHist(col)]
      /\ IF cols = {}
         THEN growth' = "degenerate" /\ UNCHANGED <<chosen, leaf_of, width, grown>>
         ELSE TakeSplit(Choice(hists', Candidates(cols)))
      /\ UNCHANGED input

(* The features of a level: under rsm, any of them, and perhaps none. *)
SelectedFeatures == IF fit.rsm THEN SUBSET Floats ELSE {Floats}

(* select_level_perturbed: the best border of each selected feature, then  *)
(* the best of those.  Noise may put any border on top and any feature;    *)
(* with a zero standard deviation each instance is its raw score.          *)
PerturbedChoices(h, selected) ==
  IF fit.noise = "noisy" THEN Candidates(selected)
  ELSE {Choice(h, {Choice(h, CandidatesOf(col)) : col \in selected})}

SelectLevelPerturbed ==
  /\ Searching /\ fit.noise # "none"
  /\ hists' = [col \in Floats |-> LevelHist(col)]
  /\ \E selected \in SelectedFeatures :
       /\ selected # {}
       /\ \E s \in PerturbedChoices(hists', selected) : TakeSplit(s)
  /\ UNCHANGED input

(* A level without a candidate ends the tree at the splits it has. *)
EndTreeEarly ==
  /\ Searching /\ fit.noise # "none" /\ {} \in SelectedFeatures
  /\ growth' = "finish"
  /\ hists' = [col \in Floats |-> LevelHist(col)]
  /\ UNCHANGED <<input, chosen, leaf_of, width, grown>>

-----------------------------------------------------------------------------
(* assign_leaves_any *)
AssignLeaves(splits) ==
  [o \in Objects |-> leaf_index([i \in 1 .. Len(splits) |-> Passes(splits[i], o)])]

OfKind(splits, k) ==
  LET kept[i \in 0 .. Len(splits)] ==
        IF i = 0 THEN <<>>
        ELSE IF splits[i].kind = k THEN Append(kept[i - 1], splits[i]) ELSE kept[i - 1]
  IN  kept[Len(splits)]

(* The split of level i as its kind and its place among that kind. *)
LevelKind(splits, i) == <<splits[i].kind, Len(OfKind(SubSeq(splits, 1, i), splits[i].kind))>>

(* Mutant: the kinds are kept without the order of the levels. *)
GrownObliviousUnordered(splits) ==
  [shape |-> "oblivious", splits |-> OfKind(splits, "float"),
   one_hot_splits |-> OfKind(splits, "onehot"), ctr_splits |-> OfKind(splits, "ctr"),
   level_kinds |-> <<>>, leaf_of |-> AssignLeaves(splits)]

(* The split-back into one list per kind; level_kinds, which alone has the *)
(* order of the levels, is left empty for a tree of floats, except by the  *)
(* search over CTR columns.                                                *)
GrownOblivious(splits) ==
  [shape |-> "oblivious", splits |-> OfKind(splits, "float"),
   one_hot_splits |-> OfKind(splits, "onehot"), ctr_splits |-> OfKind(splits, "ctr"),
   level_kinds |-> IF /\ \A i \in DOMAIN splits : splits[i].kind = "float"
                      /\ fit.ctrs = <<>> \/ fit.device
                   THEN <<>>
                   ELSE [i \in 1 .. Len(splits) |-> LevelKind(splits, i)],
   leaf_of |-> AssignLeaves(splits)]

FinishOblivious ==
  /\ fit.policy = "SymmetricTree" /\ ~fit.device
  /\ growth = "finish" \/ (growth = "search" /\ Len(chosen) = MaxDepth)
  /\ grown' = GrownOblivious(chosen) /\ growth' = "grown"
  /\ UNCHANGED <<input, oblivious>>

ObliviousNext ==
  SelectLevelPlain \/ SelectLevelPerturbed \/ EndTreeEarly \/ FinishOblivious

-----------------------------------------------------------------------------
(* reduce_leaf_stats over assign_leaves_any, the rescan of                 *)
(* score_candidate_any that the histograms replace.                        *)
RescanScore(splits) ==
  LET leaf == AssignLeaves(splits)
      n_leaves == Pow2(Len(splits))
  IN  SumTo(n_leaves, [l \in Leaves(n_leaves) |-> ScoreOf({o \in Objects : leaf[o] = l})])

(* The last split of the tree is what a rescan of the candidates chooses:  *)
(* nothing scores higher, and nothing earlier scores the same.             *)
LastIsBest(cands, weight(_)) ==
  LET n == Len(chosen)
      RescanOf(s) == weight(s) * RescanScore(Append(SubSeq(chosen, 1, n - 1), s))
      best == RescanOf(chosen[n])
  IN  /\ chosen[n] \in cands
      /\ \A d \in cands : IF Before(d, chosen[n]) THEN RescanOf(d) < best ELSE RescanOf(d) <= best

(* The histograms of the level hold exactly the objects a fresh build over *)
(* its partition would hold, whichever half was built or filled and        *)
(* whichever was derived.                                                  *)
HistsAreFresh ==
  \A col \in DOMAIN hists :
    LET w == Cardinality(DOMAIN hists[col])
        bins == Cardinality(DOMAIN hists[col][0])
    IN  hists[col] = Build(BinsOf(col), [o \in Objects |-> leaf_of[o] % w], w, bins)

(* The partition the search maintains split by split is the one the splits *)
(* assign from scratch.                                                    *)
LeafOfIsSplits ==
  \E k \in 0 .. Len(chosen) :
    /\ width = Pow2(k)
    /\ leaf_of = AssignLeaves(SubSeq(chosen, 1, k))

-----------------------------------------------------------------------------
(* The projections among the chosen splits, and their groups. *)
UsedProjections(splits) ==
  {fit.ctrs[splits[i].feature].members : i \in {j \in DOMAIN splits : splits[j].kind = "ctr"}}

UsedGroups(splits) ==
  {fit.ctrs[splits[i].feature].group : i \in {j \in DOMAIN splits : splits[j].kind = "ctr"}}

(* A combination extends a projection this tree already uses by one        *)
(* feature; a simple projection needs none.                                *)
combination_ctr_eligible(members, used) ==
  \E q \in used : q \subseteq members /\ Cardinality(q) + 1 = Cardinality(members)

EligibleCtrs(used) ==
  {c \in 1 .. Len(fit.ctrs) :
     \/ Cardinality(fit.ctrs[c].members) = 1
     \/ combination_ctr_eligible(fit.ctrs[c].members, used)}

eligible_max_bucket_count(used) == Max({fit.ctrs[c].count : c \in EligibleCtrs(used)} \cup {1})

phantom_mixed_bucket_count(leaf, bucket) == Cardinality({<<leaf[o], bucket[o]>> : o \in Objects})

(* The count of the widest projection that also tells the leaves of the    *)
(* chosen float splits apart, once there is one; no such projection is     *)
(* ever a candidate.                                                       *)
PhantomMax(leaf, float_splits) ==
  IF float_splits = 0 THEN 0
  ELSE Max({phantom_mixed_bucket_count(leaf, fit.cat_buckets[i]) : i \in DOMAIN fit.cat_buckets} \cup {0})

max_bucket_count_with_phantom(splits) ==
  LET floats == OfKind(splits, "float")
  IN  Max({eligible_max_bucket_count(UsedProjections(splits)),
           PhantomMax(AssignLeaves(floats), Len(floats))})

(* What a candidate's score is multiplied by: less than 1 for a projection *)
(* new to the model.                                                       *)
CandidateWeight(splits, s) ==
  IF s.kind # "ctr" \/ fit.ctrs[s.feature].group \in fit.used \cup UsedGroups(splits) THEN Whole
  ELSE CatWeight(fit.ctrs[s.feature].count, max_bucket_count_with_phantom(splits))

CtrAwareCandidates(splits) ==
  Candidates(Floats \cup {<<"ctr", c>> : c \in EligibleCtrs(UsedProjections(splits))})

CtrSearching == LevelIsOpen /\ ~fit.device /\ fit.ctrs # <<>>

(* One histogram for the floats and the CTR columns. *)
build_ctr_aware_histogram(leaf, n_leaves) ==
  [col \in Floats \cup Ctrs |-> Build(BinsOf(col), leaf, n_leaves, n_bins(col))]

(* select_level_ctr_aware: every level's histogram is built anew over the  *)
(* partition of the chosen splits.                                         *)
SelectLevelCtrAware ==
  /\ CtrSearching
  /\ leaf_of' = AssignLeaves(chosen) /\ width' = Pow2(Len(chosen))
  /\ hists' = build_ctr_aware_histogram(leaf_of', width')
  /\ LET cands == CtrAwareCandidates(chosen)
         score(s) == CandidateWeight(chosen, s) * ScanScore(hists'[<<s.kind, s.feature>>], s)
     IN  IF cands = {} THEN growth' = "degenerate" /\ UNCHANGED chosen
         ELSE chosen' = Append(chosen, select_best([s \in cands |-> score(s)])) /\ UNCHANGED growth
  /\ UNCHANGED <<input, grown>>

-----------------------------------------------------------------------------
(* The objects of a segment's body and of its tail. *)
BodyOf(seg) == 0 .. seg.body - 1
TailOf(seg) == seg.body .. seg.tail - 1

(* ordered_segment_leaf_stats, l2_split_score_ordered: the leaf value is   *)
(* estimated on the body and meets the derivatives of the tail.            *)
SegmentScore(seg, leaf, n_leaves) ==
  LET at(l, docs) == {o \in docs : leaf[o] = l}
  IN  SumTo(n_leaves,
        [l \in Leaves(n_leaves) |->
           OrderedLeafScore(SumOf(seg.der, at(l, BodyOf(seg))),
                            SumOf(fit.weight, at(l, BodyOf(seg))),
                            SumOf(seg.der, at(l, TailOf(seg))))])

(* A value estimated on a body has a score on its tail. *)
ASSUME OrderedScoreAssumption ==
  \A f \in Fits : \A i \in DOMAIN f.segments : \A docs \in SUBSET Objects :
    LET seg == f.segments[i]
        body == docs \cap BodyOf(seg)
    IN  OrderedLeafScore(SumOf(seg.der, body), SumOf(f.weight, body),
                         SumOf(seg.der, docs \cap TailOf(seg))) \in Int

(* The sum over the segments. *)
SumOfSegments(score) ==
  SumTo(Len(fit.segments), [i \in 0 .. Len(fit.segments) - 1 |-> score[i + 1]])

(* score_candidate_ordered *)
OrderedScore(splits) ==
  LET leaf == AssignLeaves(splits)
  IN  SumOfSegments([i \in DOMAIN fit.segments |->
                       SegmentScore(fit.segments[i], leaf, Pow2(Len(splits)))])

OrderedChoice(splits) ==
  select_best([s \in Candidates(Floats) |-> OrderedScore(Append(splits, s))])

(* select_level_ordered: a rescan of every border, float columns only. *)
SelectLevelOrdered ==
  /\ LevelIsOpen /\ ~fit.device /\ fit.segments # <<>>
  /\ IF Floats = {} THEN growth' = "degenerate" /\ UNCHANGED chosen
     ELSE chosen' = Append(chosen, OrderedChoice(chosen)) /\ UNCHANGED growth
  /\ UNCHANGED <<input, grown, scratch>>

-----------------------------------------------------------------------------
(* Without noise and with every feature selected, each level's split is    *)
(* the one a rescan of every candidate chooses, each CTR column weighed    *)
(* and admitted as the chosen splits before it say.                        *)
ChosenIsReference ==
  /\ chosen # <<>> /\ fit.noise # "noisy" /\ ~fit.rsm
  /\ ~fit.device /\ fit.segments = <<>>
  => LET prior == SubSeq(chosen, 1, Len(chosen) - 1)
     IN  LastIsBest(IF fit.ctrs = <<>> THEN Candidates(Floats \cup OneHots) ELSE CtrAwareCandidates(prior),
                    LAMBDA s : CandidateWeight(prior, s))
=============================================================================
