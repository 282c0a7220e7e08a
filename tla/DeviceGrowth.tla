------------------------------ MODULE DeviceGrowth ------------------------------
(***************************************************************************)
(* The same search on a GPU: grow_oblivious_tree_resident and              *)
(* grow_oblivious_tree_ordered_resident of cb-backend/src/gpu_runtime,     *)
(* their kernels, and the trainer's reading of the tree they return.  The  *)
(* device sees bins only.  Every column has a histogram line of one common *)
(* width; only the objects of the newest leaves are filled in, and the     *)
(* others derived; candidates are swept in passes.                         *)
(*                                                                         *)
(* A sum is exact fixed point on the device, which Histogram's counts are. *)
(* A gain is rounded to f32 between passes; scores here are whole numbers. *)
(***************************************************************************)
EXTENDS ObliviousGrowth

CONSTANTS
  LineFamily,   \* the widths of a histogram line: 32, 64, 128, 256
  LdsCells      \* HIST_LDS_CELLS_LARGE

ASSUME DeviceAssumption ==
  /\ LineFamily \subseteq Nat /\ LdsCells \in Nat
  /\ \A f \in Fits : f.device => \E w \in LineFamily : w >= n_bins_of(f)

VARIABLE search   \* what the host keeps of the search: CtrSearchState and the tree's locals

NoSearch == [group_used |-> {}, projections |-> {}, float_leaf_of |-> [o \in Objects |-> 0],
             float_split_count |-> 0]

(* group_used is the session's and outlives the tree; the rest starts over. *)
DeviceInit == search = [NoSearch EXCEPT !.group_used = fit.used]

-----------------------------------------------------------------------------
(* The device's columns are float | one-hot | CTR, float columns without a *)
(* border among them.                                                      *)
DeviceFloats == {<<"float", f>> : f \in 1 .. Len(fit.floats)}
DeviceColumns == DeviceFloats \cup OneHots \cup Ctrs

(* The device pads the bins of all columns to one line. *)
n_bins_used == n_bins_of(fit)
n_bins_line == Min({w \in LineFamily : w >= n_bins_used})

real_folds(col) ==
  IF col[1] = "float" THEN fit.floats[col[2]].borders + 1
  ELSE 1 + Max({fit.cats[col[2]][o] : o \in Objects})

level == Len(chosen)

(* The bit of the newest split; 0 at the root, where all leaves are filled. *)
filter_mask == IF level = 0 THEN 0 ELSE Pow2(level - 1)
Taken(leaf) == filter_mask = 0 \/ (leaf \div filter_mask) % 2 = 1

(* partition_hist2_nonbinary_kernel, copies folded. *)
MultiCopyFill(col) ==
  Build(BinsOf(col), [o \in Objects |-> IF Taken(leaf_of[o]) THEN leaf_of[o] ELSE Skip],
        Pow2(level), n_bins_line)

n_active == IF filter_mask = 0 THEN Pow2(level) ELSE filter_mask

(* partition_hist2_lds_kernel: the taken leaves in slots of their own, put *)
(* back where they belong by the merge.                                    *)
LdsFill(col) ==
  LET slots == Build(BinsOf(col),
                     [o \in Objects |-> IF Taken(leaf_of[o]) THEN leaf_of[o] - filter_mask ELSE Skip],
                     n_active, n_bins_line)
      zero == Build(BinsOf(col), [o \in Objects |-> Skip], Pow2(level), n_bins_line)
  IN  add_relocated(zero, slots, filter_mask)

(* Mutant: the parent's histogram is taken for the sibling's. *)
DeriveWithoutSubtracting(parent, h) ==
  [l \in DOMAIN h |-> IF l >= filter_mask THEN h[l] ELSE parent[l]]

(* derive_sibling_partition_hist_kernel: the leaves not filled. *)
derive_sibling(parent, h) ==
  [l \in DOMAIN h |-> IF l >= filter_mask THEN h[l] ELSE
    [b \in DOMAIN h[l] |-> [o \in Objects |-> parent[l][b][o] - h[l + filter_mask][b][o]]]]

(* Mutant: the slots of the taken leaves are merged as if they were leaves. *)
LevelHistsUnmerged(arm) ==
  [col \in DeviceColumns |->
     LET slots == [o \in Objects |-> IF Taken(leaf_of[o]) THEN leaf_of[o] - filter_mask ELSE Skip]
     IN  Build(BinsOf(col), slots, Pow2(level), n_bins_line)]

(* The fill of a level, then the leaves it left out. *)
LevelHists(arm) ==
  [col \in DeviceColumns |->
     LET filled == IF arm = "lds" THEN LdsFill(col) ELSE MultiCopyFill(col)
     IN  IF level = 0 THEN filled ELSE derive_sibling(hists[col], filled)]

(* The lds arm runs where its leaves fit and a probe, or the latched result *)
(* of one, finds it the faster.                                            *)
Arms == {"multicopy"} \cup IF n_active * n_bins_line * 2 <= LdsCells THEN {"lds"} ELSE {}

-----------------------------------------------------------------------------
(* The candidates of a pass: a threshold for every bin in use but the      *)
(* last, whatever the column; an equality for every bin of the column.     *)
Thresholds(cols) == {Split(col[1], col[2], a) : col \in cols, a \in 1 .. n_bins_used - 1}
Equalities == UNION {{Split(col[1], col[2], a) : a \in 0 .. real_folds(col) - 1} : col \in OneHots}

DeviceCandidates == Thresholds(DeviceFloats \cup Ctrs) \cup Equalities

Score(h, s) == ScanScore(h[<<s.kind, s.feature>>], s)

(* The one winner of a pass; an empty pass has none. *)
Pass(h, cands) == IF cands = {} THEN {} ELSE {select_best([s \in cands |-> Score(h, s)])}

(* resident_eligible_max_bucket_count, resident_phantom_bucket_count: the  *)
(* device's own copies of the rules, over what it keeps itself.            *)
ResidentMax ==
  Max({eligible_max_bucket_count(search.projections),
       PhantomMax(search.float_leaf_of, search.float_split_count)})

(* Mutant: the largest count is taken over all columns. *)
ResidentWeightOfAll(s) ==
  IF s.kind # "ctr" \/ fit.ctrs[s.feature].group \in search.group_used THEN Whole
  ELSE CatWeight(fit.ctrs[s.feature].count, Max({fit.ctrs[c].count : c \in DOMAIN fit.ctrs}))

ResidentWeight(s) ==
  IF s.kind # "ctr" \/ fit.ctrs[s.feature].group \in search.group_used THEN Whole
  ELSE CatWeight(fit.ctrs[s.feature].count, ResidentMax)

(* A later pass wins only with a strictly higher weighted gain. *)
Challenge(h, best, rival) ==
  IF rival # {} /\ \A a \in best, b \in rival :
       ResidentWeight(b) * Score(h, b) > ResidentWeight(a) * Score(h, a)
  THEN rival ELSE best

(* Pass C: a winner for each eligible CTR column, then the best of those   *)
(* once weighed.                                                           *)
PassC(h) ==
  LET winners == UNION {Pass(h, Thresholds({<<"ctr", c>>})) : c \in EligibleCtrs(search.projections)}
  IN  IF winners = {} THEN {}
      ELSE {select_best([s \in winners |-> ResidentWeight(s) * Score(h, s)])}

DeviceWinner(h) ==
  Challenge(h, Challenge(h, Pass(h, Thresholds(DeviceFloats)), Pass(h, Equalities)), PassC(h))

-----------------------------------------------------------------------------
DevicePasses(s, o) ==
  LET bin == BinsOf(<<s.kind, s.feature>>)[o] IN IF s.kind = "onehot" THEN bin = s.at ELSE bin >= s.at

(* partition_split_kernel: the bit of the level, at every level. *)
RouteOnDevice(s) ==
  /\ leaf_of' = [o \in Objects |-> leaf_of[o] + IF DevicePasses(s, o) THEN Pow2(level) ELSE 0]
  /\ width' = 2 * width

(* A CTR split frees its group of the penalty and makes way for the        *)
(* combinations that extend it; a float split tells the values apart.      *)
AfterSplit(s) ==
  CASE fit.ctrs = <<>> -> search
    [] s.kind = "ctr" ->
         [search EXCEPT !.group_used = @ \cup {fit.ctrs[s.feature].group},
                        !.projections = @ \cup {fit.ctrs[s.feature].members}]
    [] OTHER ->
         [search EXCEPT !.float_split_count = @ + 1,
                        !.float_leaf_of = [o \in Objects |-> @[o] +
                           IF DevicePasses(s, o) THEN Pow2(search.float_split_count) ELSE 0]]

TakeOnDevice(winner) ==
  IF winner = {} THEN growth' = "degenerate" /\ UNCHANGED <<chosen, leaf_of, width, search>>
  ELSE \E s \in winner :
         /\ chosen' = Append(chosen, s) /\ search' = AfterSplit(s)
         /\ RouteOnDevice(s) /\ UNCHANGED growth

(* One level of grow_oblivious_tree_resident. *)
DeviceLevel ==
  /\ LevelIsOpen /\ fit.device /\ fit.segments = <<>>
  /\ \E arm \in Arms : hists' = LevelHists(arm)
  /\ TakeOnDevice(DeviceWinner(hists'))
  /\ UNCHANGED <<input, grown>>

(* The histogram of a segment is over the prefix that ends with its tail,  *)
(* of the one derivative the device keeps.                                 *)
PrefixHist(seg, col) ==
  Build(BinsOf(col), [o \in Objects |-> IF o < seg.tail THEN leaf_of[o] ELSE Skip], Pow2(level), n_bins_line)

(* find_optimal_split_ordered_kernel: the plain score, summed over the     *)
(* segments.                                                               *)
OrderedDeviceScore(s) ==
  SumOfSegments([i \in DOMAIN fit.segments |->
                   ScanScore(PrefixHist(fit.segments[i], <<s.kind, s.feature>>), s)])

(* One level of grow_oblivious_tree_ordered_resident. *)
OrderedDeviceLevel ==
  /\ LevelIsOpen /\ fit.device /\ fit.segments # <<>>
  /\ LET cands == Thresholds(DeviceFloats)
     IN  TakeOnDevice(IF cands = {} THEN {}
                      ELSE {select_best([s \in cands |-> OrderedDeviceScore(s)])})
  /\ UNCHANGED <<input, grown, hists>>

-----------------------------------------------------------------------------
(* The trainer's walk over raw values, which compares a missing one. *)
HostWalk(splits) ==
  [o \in Objects |-> leaf_index([i \in 1 .. Len(splits) |-> RawPasses(splits[i], o)])]

UnitWeights == \A o \in Objects : fit.weight[o] = 1

(* The leaf of each object in the trainer: the device's own with unit      *)
(* weights; with CTR levels, over the CTR columns; otherwise the walk.     *)
FoldedLeafOf ==
  CASE \E i \in DOMAIN chosen : chosen[i].kind = "ctr" -> AssignLeaves(chosen)
    [] OTHER -> IF UnitWeights THEN leaf_of ELSE HostWalk(chosen)

(* A split of the device is looked up among its feature's borders. *)
NamesABorder(s) == s.kind = "float" => s.at <= fit.floats[s.feature].borders

FinishDevice ==
  /\ fit.policy = "SymmetricTree" /\ fit.device
  /\ growth = "search" /\ Len(chosen) = MaxDepth
  /\ IF \A i \in DOMAIN chosen : NamesABorder(chosen[i])
     THEN /\ growth' = "grown"
          /\ grown' = [GrownOblivious(chosen) EXCEPT !.leaf_of = FoldedLeafOf]
     ELSE growth' = "out_of_range" /\ UNCHANGED grown
  /\ UNCHANGED <<input, oblivious, search>>

DeviceNext == DeviceLevel \/ OrderedDeviceLevel \/ FinishDevice

-----------------------------------------------------------------------------
(* All float columns are equally wide, and none of their thresholds is one *)
(* bin of another column too many.                                         *)
EquallyWide == \A f \in 1 .. Len(fit.floats) : fit.floats[f].borders + 1 = n_bins_used

(* A tree grown on the device is the tree the CPU would have grown: where  *)
(* the float columns are equally wide, each split is the one a rescan of   *)
(* the CPU's candidates chooses, weighed and admitted by the CPU's rules   *)
(* from the splits before it, though the device keeps its own copies of    *)
(* the groups, the projections and the float partition, sweeps in passes,  *)
(* and never rescans.                                                      *)
DeviceChoosesAsCpu ==
  fit.device /\ fit.segments = <<>> /\ EquallyWide /\ chosen # <<>> =>
    LET prior == SubSeq(chosen, 1, Len(chosen) - 1)
    IN  LastIsBest(IF fit.ctrs = <<>> THEN Candidates(Floats \cup OneHots) ELSE CtrAwareCandidates(prior),
                   LAMBDA s : CandidateWeight(prior, s))
===============================================================================
