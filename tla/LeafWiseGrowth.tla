---------------------------- MODULE LeafWiseGrowth ----------------------------
(***************************************************************************)
(* leaf_wise_grower and region_grower of cb-train/src/tree.rs: trees that  *)
(* split one leaf at a time.  Depthwise splits every leaf of a level it    *)
(* can, Lossguide always the leaf of the largest gain until max_leaves,    *)
(* Region only follows the better child and ends in a path.  The loops of  *)
(* grow_nonsym_tree and grow_region_tree of cb-backend/src/kernels are the *)
(* same over another search, device_best_split_for_node.                   *)
(*                                                                         *)
(* One step is one leaf taken up.  Nodes are numbered from 1 in the order  *)
(* they are created.                                                       *)
(***************************************************************************)
EXTENDS FeatureMatrix, SequencesExt

CONSTANTS
  MaxDiff,       \* u16::MAX, the largest child offset the flat tree can hold
  KernelWidths,  \* the numbers of bins pointwise_hist2 has a kernel for: 2, 16, 32 .. 256
  NoSplit

ASSUME LeafWiseAssumption ==
  /\ NoLeaf \notin Nat
  /\ NoSplit \notin [kind : {"float", "onehot", "ctr"}, feature : Nat, at : Nat]

VARIABLES
  nodes,                      \* splits, documents and depths, by node id
  leaf_owner,                 \* the leaf each object is in
  current_level, next_level,  \* Depthwise
  heap, leaf_count            \* Lossguide: the queue, in the order of seq

leafwise == <<nodes, leaf_owner, current_level, next_level, heap, leaf_count>>

VARIABLES
  frontier, path,             \* Region: the documents followed, the levels
  terminal_docs               \* those that left it, by level

region == <<frontier, path, terminal_docs>>

Leaf(docs, depth) == [docs |-> docs, depth |-> depth, split |-> NoSplit, left |-> 0, right |-> 0]
Fork(node, s, l) == [docs |-> node.docs, depth |-> node.depth, split |-> s, left |-> l, right |-> l + 1]
IsLeaf(n) == nodes[n].split = NoSplit
LeafNodes == {n \in 1 .. Len(nodes) : IsLeaf(n)}

LeafWiseInit ==
  /\ nodes = <<Leaf(Objects, 0)>> /\ leaf_owner = [o \in Objects |-> 1]
  /\ current_level = <<1>> /\ next_level = <<>>
  /\ heap = <<>> /\ leaf_count = 0

RegionInit == frontier = Objects /\ path = <<>> /\ terminal_docs = <<>>

-----------------------------------------------------------------------------
(* Mutant: the bin of the split itself goes right. *)
GoesRightFromBin(s, o) ==
  IF fit.device THEN BinsOf(<<s.kind, s.feature>>)[o] >= s.at - 1 ELSE Passes(s, o)

(* The device sends what is above the bin to the right, in any column. *)
GoesRight(s, o) ==
  IF fit.device THEN BinsOf(<<s.kind, s.feature>>)[o] >= s.at ELSE Passes(s, o)

RightDocs(s, docs) == {o \in docs : GoesRight(s, o)}

SidesScore(s, docs) ==
  LET right == RightDocs(s, docs) IN ScoreOf(right) + ScoreOf(docs \ right)

Halves(s, docs) ==
  [split |-> s, gain |-> SidesScore(s, docs) - ScoreOf(docs),
   left |-> docs \ RightDocs(s, docs), right |-> RightDocs(s, docs)]

TooSmall(docs) == Cardinality(docs) < fit.min_data_in_leaf \/ Cardinality(docs) < 2

BestHalves(cands, docs) == Halves(select_best([s \in cands |-> SidesScore(s, docs)]), docs)

(* The first best candidate and its gain over the leaf unsplit; none if    *)
(* the leaf is too small or nothing gains.                                 *)
GainingSplit(cands, docs) ==
  IF TooSmall(docs) \/ cands = {} THEN {} ELSE {bs \in {BestHalves(cands, docs)} : bs.gain > 0}

(* Mutant: a split that gains nothing is taken. *)
BestSplitWithoutGain(docs) ==
  IF TooSmall(docs) \/ Floats = {} THEN {}
  ELSE {bs \in {BestHalves(Candidates(Floats), docs)} : bs.gain >= 0}

(* On the CPU: the borders of the float columns only. *)
best_split_for_leaf(docs) == GainingSplit(Candidates(Floats), docs)

(* find_optimal_split_kernel in its threshold form: every bin of the       *)
(* common width but the last, in every column it was given.  The one-hot   *)
(* columns are among them, and taken for floats.                           *)
BinSplits ==
  {Split(col[1], col[2], b) :
     col \in {<<"float", f>> : f \in 1 .. Len(fit.floats)} \cup OneHots, b \in 1 .. n_bins_of(fit) - 1}

device_best_split_for_node(docs) == GainingSplit(BinSplits, docs)

best_split(docs) == IF fit.device THEN device_best_split_for_node(docs) ELSE best_split_for_leaf(docs)

(* Mutant: the objects of the right child stay with their parent. *)
SplitLeavingRight(n, bs) ==
  LET l == Len(nodes) + 1
      d == nodes[n].depth + 1
  IN  /\ nodes' = [nodes EXCEPT ![n] = Fork(@, bs.split, l)] \o <<Leaf(bs.left, d), Leaf(bs.right, d)>>
      /\ leaf_owner' = [o \in Objects |-> IF o \in bs.left THEN l ELSE leaf_owner[o]]

(* Node n gets its two children, and its objects their new owners. *)
do_split(n, bs) ==
  LET l == Len(nodes) + 1
      d == nodes[n].depth + 1
  IN  /\ nodes' = [nodes EXCEPT ![n] = Fork(@, bs.split, l)] \o <<Leaf(bs.left, d), Leaf(bs.right, d)>>
      /\ leaf_owner' = [o \in Objects |-> IF o \in bs.left THEN l
                                          ELSE IF o \in bs.right THEN l + 1 ELSE leaf_owner[o]]

-----------------------------------------------------------------------------
LevelIsDone == IF current_level = <<>> THEN TRUE ELSE nodes[Head(current_level)].depth = MaxDepth

(* The loop over a level's leaves. *)
DepthwiseLeaf ==
  /\ fit.policy = "Depthwise" /\ growth = "search"
  /\ ~LevelIsDone
  /\ LET n == Head(current_level)
         best == best_split(nodes[n].docs)
     IN  \/ /\ best = {} /\ UNCHANGED <<nodes, leaf_owner, next_level>>
         \/ \E bs \in best : /\ do_split(n, bs)
                             /\ next_level' = next_level \o <<Len(nodes) + 1, Len(nodes) + 2>>
  /\ current_level' = Tail(current_level)
  /\ UNCHANGED <<growth, grown, input, heap, leaf_count, region>>

(* The next level, or the end: no leaf was split, or the depth is reached. *)
DepthwiseLevel ==
  /\ fit.policy = "Depthwise" /\ growth = "search"
  /\ LevelIsDone
  /\ current_level' = next_level /\ next_level' = <<>>
  /\ growth' = IF next_level = <<>> THEN "finish" ELSE "search"
  /\ UNCHANGED <<grown, input, nodes, leaf_owner, heap, leaf_count, region>>

(* enqueue: a leaf at the depth limit or without a split never enters.     *)
Queued(n, docs, depth) ==
  IF depth >= MaxDepth THEN <<>>
  ELSE SetToSeq({[node |-> n, best |-> bs] : bs \in best_split(docs)})

LossguideRoot ==
  /\ fit.policy = "Lossguide" /\ growth = "search" /\ leaf_count = 0
  /\ heap' = Queued(1, Objects, 0) /\ leaf_count' = 1
  /\ UNCHANGED <<growth, grown, input, nodes, leaf_owner, current_level, next_level, region>>

(* Mutant: the leaf that was queued last is taken. *)
PoppedLast == Len(heap)

(* BinaryHeap::pop: the largest gain and, of equal gains, the one that was *)
(* queued first.                                                           *)
Popped ==
  CHOOSE i \in DOMAIN heap : \A j \in DOMAIN heap \ {i} :
    \/ heap[i].best.gain > heap[j].best.gain
    \/ heap[i].best.gain = heap[j].best.gain /\ i < j

(* Mutant: the limit is tested only after the split. *)
MayNotSplit == leaf_count > fit.max_leaves

LeafLimitReached == leaf_count >= fit.max_leaves

LossguideLeaf ==
  /\ fit.policy = "Lossguide" /\ growth = "search" /\ leaf_count > 0
  /\ heap # <<>> /\ ~LeafLimitReached
  /\ LET item == heap[Popped]
         d == nodes[item.node].depth + 1
         l == Len(nodes) + 1
     IN  /\ do_split(item.node, item.best)
         /\ heap' = RemoveAt(heap, Popped) \o Queued(l, item.best.left, d)
                                           \o Queued(l + 1, item.best.right, d)
  /\ leaf_count' = leaf_count + 1
  /\ UNCHANGED <<growth, grown, input, current_level, next_level, region>>

LossguideEnd ==
  /\ fit.policy = "Lossguide" /\ growth = "search" /\ leaf_count > 0
  /\ heap = <<>> \/ LeafLimitReached
  /\ growth' = "finish"
  /\ UNCHANGED <<grown, input, leafwise, region>>

-----------------------------------------------------------------------------
(* A child offset does not fit in its u16. *)
TooFar(n) == ~IsLeaf(n) /\ nodes[n].right - n > MaxDiff

LeafId(n) == Cardinality({k \in LeafNodes : k < n})

node_id_to_leaf(n) == IF IsLeaf(n) THEN LeafId(n) ELSE NoLeaf

(* The flat tree: for each node its split, the offsets of its children and *)
(* its leaf, numbered in node order.                                       *)
GrownLeafWise ==
  LET ids == 1 .. Len(nodes)
  IN  [shape |-> "leafwise",
       splits |-> [n \in ids |-> IF IsLeaf(n) THEN Split("float", 1, 0) ELSE nodes[n].split],
       step_nodes |-> [n \in ids |-> IF IsLeaf(n) THEN <<0, 0>>
                                     ELSE <<nodes[n].left - n, nodes[n].right - n>>],
       node_id_to_leaf_id |-> [n \in ids |-> node_id_to_leaf(n)],
       leaf_of |-> [o \in Objects |-> LeafId(leaf_owner[o])]]

(* The trainer looks each split of a device tree up among the borders of   *)
(* the float columns, and finds every leaf again by a walk over the raw    *)
(* values; it has them from the CPU.                                       *)
HasBorder(s) == s.kind = "float" /\ s.at <= fit.floats[s.feature].borders

Folded(tree) ==
  [tree EXCEPT !.leaf_of =
     IF ~fit.device THEN @
     ELSE [o \in Objects |->
             LET leaf == LeafOf(tree, [i \in DOMAIN tree.splits |-> RawPasses(tree.splits[i], o)])
             IN  IF leaf = NoLeaf THEN 0 ELSE leaf]]

Fold(tree, splits) ==
  IF fit.device /\ \E s \in splits : ~HasBorder(s)
  THEN growth' = "out_of_range" /\ UNCHANGED grown
  ELSE growth' = "grown" /\ grown' = Folded(tree)

FinishLeafWise ==
  /\ fit.policy \in {"Depthwise", "Lossguide"} /\ growth = "finish"
  /\ CASE \E n \in 1 .. Len(nodes) : TooFar(n) -> growth' = "out_of_range" /\ UNCHANGED grown
       [] Cardinality(LeafNodes) < 2 -> growth' = "degenerate" /\ UNCHANGED grown
       [] OTHER -> Fold(GrownLeafWise, {nodes[n].split : n \in (1 .. Len(nodes)) \ LeafNodes})
  /\ UNCHANGED <<input, leafwise, region>>

-----------------------------------------------------------------------------
(* The gain of splitting a side further, below every gain if nothing can.  *)
SideGain(docs) == Max({-1} \cup {bs.gain : bs \in best_split(docs)})

ContinuesRight(bs) == SideGain(bs.right) >= SideGain(bs.left)

(* One level of the path: the side with less to gain becomes its leaf. *)
RegionLevel ==
  /\ fit.policy = "Region" /\ growth = "search" /\ Len(path) < MaxDepth
  /\ \E bs \in best_split(frontier) :
       LET right == ContinuesRight(bs)
       IN  /\ path' = Append(path, [split |-> bs.split, direction |-> right])
           /\ frontier' = IF right THEN bs.right ELSE bs.left
           /\ terminal_docs' = Append(terminal_docs, IF right THEN bs.left ELSE bs.right)
  /\ UNCHANGED <<growth, grown, input, leafwise>>

(* The bin of an object: the level it left at, or the depth. *)
RegionBin(o) ==
  LET exits == {i \in 1 .. Len(terminal_docs) : o \in terminal_docs[i]}
  IN  IF exits = {} THEN Len(path) ELSE Max(exits) - 1

GrownRegion ==
  [shape |-> "region", splits |-> [i \in DOMAIN path |-> path[i].split],
   region_directions |-> [i \in DOMAIN path |-> path[i].direction],
   leaf_of |-> [o \in Objects |-> RegionBin(o)]]

RegionEnd ==
  /\ fit.policy = "Region" /\ growth = "search"
  /\ Len(path) = MaxDepth \/ best_split(frontier) = {}
  /\ IF path = <<>> THEN growth' = "degenerate" /\ UNCHANGED grown
     ELSE Fold(GrownRegion, {path[i].split : i \in DOMAIN path})
  /\ UNCHANGED <<input, leafwise, region>>

-----------------------------------------------------------------------------
leaf_wise_grower ==
  DepthwiseLeaf \/ DepthwiseLevel \/ LossguideRoot \/ LossguideLeaf \/ LossguideEnd \/ FinishLeafWise

region_grower == RegionLevel \/ RegionEnd

(* The first histogram of a tree, of all objects, is refused: there is no  *)
(* kernel for this number of bins.                                         *)
NoKernel ==
  /\ fit.device /\ fit.policy # "SymmetricTree" /\ n_bins_of(fit) \notin KernelWidths
  /\ MaxDepth > 0 /\ ~TooSmall(Objects)

WidthIsRefused ==
  /\ NoKernel /\ growth = "search" /\ growth' = "unsupported_width"
  /\ UNCHANGED <<grown, input, leafwise, region>>

grow_nonsym_tree == fit.device /\ ~NoKernel /\ leaf_wise_grower

grow_region_tree == fit.device /\ ~NoKernel /\ region_grower

LeafWiseNext ==
  \/ ~fit.device /\ (leaf_wise_grower \/ region_grower)
  \/ grow_nonsym_tree \/ grow_region_tree \/ WidthIsRefused

-----------------------------------------------------------------------------
(* Every object is in exactly one leaf, the one it is filed under, and the *)
(* splits above a leaf send exactly its documents there: bookkeeping by    *)
(* documents and by owner never part.                                      *)
OwnersAreDocs ==
  /\ \A n \in LeafNodes : nodes[n].docs = {o \in Objects : leaf_owner[o] = n}
  /\ \A n \in (1 .. Len(nodes)) \ LeafNodes :
       /\ nodes[nodes[n].right].docs = RightDocs(nodes[n].split, nodes[n].docs)
       /\ nodes[nodes[n].left].docs = nodes[n].docs \ nodes[nodes[n].right].docs

(* No leaf of these trees is ever empty: a split that moves everything to  *)
(* one side gains nothing.                                                 *)
NoLeafIsEmpty ==
  /\ \A n \in LeafNodes : nodes[n].docs # {}
  /\ \A i \in DOMAIN terminal_docs : terminal_docs[i] # {}
  /\ frontier # {}

(* The partition reached by splitting, in any order, until nothing splits. *)
fully[d \in 0 .. MaxDepth, docs \in SUBSET Objects] ==
  LET best == best_split(docs)
  IN  IF d = 0 \/ best = {} THEN {docs}
      ELSE UNION {fully[d - 1, bs.left] \cup fully[d - 1, bs.right] : bs \in best}

(* The order of splits does not matter: Depthwise, and Lossguide within    *)
(* its leaf limit, end at the same leaves; Lossguide stops short of them   *)
(* only at the limit, never beyond it.                                     *)
LeafWiseIsComplete ==
  fit.policy \in {"Depthwise", "Lossguide"} /\ growth \in {"finish", "grown"} =>
    LET found == {nodes[n].docs : n \in LeafNodes}
        all == fully[MaxDepth, Objects]
    IN  IF fit.policy = "Depthwise" THEN found = all
        ELSE Cardinality(found) =
               Max({1, Min({Cardinality(all), fit.max_leaves})})

(* A leaf of larger gain is never passed over: what Lossguide has split    *)
(* gained at least as much as what it could have split instead, so what is *)
(* queued gains no more than the last split taken, or came from it.        *)
LossguideIsGreedy ==
  [][growth = "search" /\ growth' = "search" /\ Len(nodes') > Len(nodes) /\ fit.policy = "Lossguide" =>
       \A n \in LeafNodes \ LeafNodes' : \A m \in LeafNodes \cap LeafNodes' :
         nodes[m].depth < MaxDepth =>
           SideGain(nodes[m].docs) <= SideGain(nodes[n].docs)]_leafwise

(* A leaf-wise tree splits what is worth most first, and all there is.     *)
LeafWiseGrowsToItsEnd == []LeafWiseIsComplete /\ LossguideIsGreedy

-----------------------------------------------------------------------------
(* The split a scan of all borders of the float columns chooses. *)
CpuSplit(docs) ==
  LET Gain(s) == LET right == {o \in docs : Passes(s, o)}
                 IN  ScoreOf(right) + ScoreOf(docs \ right) - ScoreOf(docs)
      gaining == {s \in Candidates(Floats) : Gain(s) > 0}
  IN  IF gaining = {} THEN {} ELSE {select_best([s \in gaining |-> Gain(s)])}

(* The documents a level of the path was chosen for. *)
DocsAt(i) == frontier \cup UNION {terminal_docs[k] : k \in i .. Len(path)}

(* A device that searches bins, among them bins past a column's last       *)
(* border, splits a leaf as the CPU does: what no border separates gains   *)
(* nothing, and a border moves the objects its bins move.  One-hot columns *)
(* are outside: the device searches them and the CPU does not.             *)
DeviceLeafWiseIsCpu ==
  fit.device /\ fit.cats = <<>> =>
    /\ \A n \in (1 .. Len(nodes)) \ LeafNodes :
         /\ CpuSplit(nodes[n].docs) = {nodes[n].split}
         /\ nodes[nodes[n].right].docs = {o \in nodes[n].docs : Passes(nodes[n].split, o)}
    /\ \A i \in DOMAIN path : CpuSplit(DocsAt(i)) = {path[i].split}
===============================================================================
