---------------------------- MODULE PairwiseSplits ----------------------------
(***************************************************************************)
(* Split search and leaf values of the losses that are scored by pairs     *)
(* (cb-compute/src/pairwise_scoring.rs, the pairwise part of               *)
(* cb-train/src/tree.rs, cb-train/src/pairwise_leaves.rs).                 *)
(*                                                                         *)
(* A tree of L leaves solves a system of L unknowns: the pairs between two *)
(* leaves off the diagonal, negative, every leaf's pairs to other leaves   *)
(* on it, and the leaves' derivative sums on the right.  The search never  *)
(* builds it from the pairs: it keeps statistics per (leaf, leaf, bucket)  *)
(* and moves the system from one border to the next.  While searching,     *)
(* leaf y split by the border is the unknowns 2y (left) and 2y + 1.        *)
(*                                                                         *)
(* Leaves, buckets, borders and unknowns are numbered from 0, objects and  *)
(* features from 1.  The system is kept times the number of its unknowns,  *)
(* which makes the regularisation integral; its solution is a given        *)
(* function of it.                                                         *)
(*                                                                         *)
(* The device's pairwise stump (cb-backend/src/gpu_runtime/pairwise.rs and *)
(* the kernels it launches): histograms of the pairs by bin in four        *)
(* channels, their running sums, the systems of one leaf's borders, and    *)
(* the tree of depth one grown from them.                                  *)
(*                                                                         *)
(* A pair (i, j) counts at the bins of both ends: channels 0 and 2 at i's, *)
(* 1 and 3 at j's; the upper pair of channels is for "at least" and        *)
(* "above".  The four layouts differ in the bins they hold and the bits of *)
(* a bin they read.                                                        *)
(***************************************************************************)
EXTENDS QueryGroups

CONSTANTS
    L2Reg, BucketPrior,    \* l2_leaf_reg and the pairwise prior
    Solve(_, _),           \* the solution of a linear system, by Cholesky
    ScoreOf(_, _, _)       \* calculate_score of the values and their system

System(w, d) == [w |-> w, d |-> d]
Unknowns(sys) == DOMAIN sys.d
ZeroSquare(k) == [i \in 0..(k - 1) |-> [j \in 0..(k - 1) |-> 0]]

(* m with every [cell, delta] of a sequence added.                         *)
AddAll(m, changes) ==
    FoldLeft(LAMBDA acc, c : [acc EXCEPT ![c.row][c.col] = @ + c.by], m, changes)
Add(row, col, by) == [row |-> row, col |-> col, by |-> by]

(***************************************************************************)
(* The statistics.                                                         *)
(***************************************************************************)
compute_der_sums(ders, leafOf, bucketOf, leaves, buckets) ==
    [leaf \in 0..(leaves - 1) |->
        [bucket \in 0..(buckets - 1) |->
            Total([o \in DOMAIN ders |->
                IF leafOf[o] = leaf /\ bucketOf[o] = bucket THEN ders[o] ELSE 0])]]

(* The end in the smaller bucket comes first; at equal buckets the winner. *)
LowEnd(p, bucketOf)  == IF bucketOf[p.winner] > bucketOf[p.loser] THEN p.loser ELSE p.winner
HighEnd(p, bucketOf) == IF bucketOf[p.winner] > bucketOf[p.loser] THEN p.winner ELSE p.loser

\* Mutant: a pair is filed under the winner's leaf first, whatever its bucket.
WinnerFirst(pairs, leafOf, bucketOf, leaves, buckets) ==
    LET real == SelectSeq(pairs, LAMBDA p : p.winner # p.loser)
        At(p, a, b) == leafOf[p.winner] = a /\ leafOf[p.loser] = b
        Sum(a, b, bucket, End(_, _)) ==
            -Total([k \in DOMAIN real |->
                IF At(real[k], a, b) /\ bucketOf[End(real[k], bucketOf)] = bucket
                THEN real[k].weight ELSE 0])
    IN  [a \in 0..(leaves - 1) |-> [b \in 0..(leaves - 1) |-> [bucket \in 0..(buckets - 1) |->
            [smaller |-> Sum(a, b, bucket, LowEnd), greater |-> Sum(a, b, bucket, HighEnd)]]]]

compute_pair_weight_statistics(pairs, leafOf, bucketOf, leaves, buckets) ==
    LET real == SelectSeq(pairs, LAMBDA p : p.winner # p.loser)
        At(p, a, b) == leafOf[LowEnd(p, bucketOf)] = a /\ leafOf[HighEnd(p, bucketOf)] = b
        Sum(a, b, bucket, End(_, _)) ==
            -Total([k \in DOMAIN real |->
                IF At(real[k], a, b) /\ bucketOf[End(real[k], bucketOf)] = bucket
                THEN real[k].weight ELSE 0])
    IN  [a \in 0..(leaves - 1) |-> [b \in 0..(leaves - 1) |-> [bucket \in 0..(buckets - 1) |->
            [smaller |-> Sum(a, b, bucket, LowEnd), greater |-> Sum(a, b, bucket, HighEnd)]]]]

(***************************************************************************)
(* The running system of calculate_pairwise_score.                         *)
(***************************************************************************)
update_weight_sum_from_total(y, x, total) ==
    <<Add(2*y + 1, 2*x + 1, total), Add(2*x + 1, 2*y + 1, total),
      Add(2*x + 1, 2*x + 1, -total), Add(2*y + 1, 2*y + 1, -total)>>

update_weight_sum_from_non_diag_stats(y, x, xy, yx) ==
    LET w00 == xy.greater + yx.greater
        w01 == xy.smaller - xy.greater
        w10 == yx.smaller - yx.greater
        w11 == -(xy.smaller + yx.smaller)
        Both(r, c, w) == <<Add(r, c, w), Add(c, r, w)>>
    IN  Both(2*x, 2*y, w00) \o Both(2*x, 2*y + 1, w01)
          \o Both(2*x + 1, 2*y, w10) \o Both(2*x + 1, 2*y + 1, w11)
          \o <<Add(2*y, 2*y, -(w00 + w10)), Add(2*x, 2*x, -(w00 + w01)),
               Add(2*x + 1, 2*x + 1, -(w10 + w11)), Add(2*y + 1, 2*y + 1, -(w01 + w11))>>

(* The pairs (y, x) of leaves with y < x, row by row.                      *)
LeafPairs(y, leaves) == [k \in 1..(leaves - 1 - y) |-> y + k]

(* Before the first border everything lies on the right.                   *)
StartSystem(der_sums, stats, leaves, buckets) ==
    LET all == 0..(leaves - 1)
        total(y, x) == Total([b \in 1..buckets |->
                            stats[x][y][b - 1].smaller + stats[y][x][b - 1].smaller])
        ofRow(y) == FlattenSeq([k \in 1..(leaves - 1 - y) |->
                        update_weight_sum_from_total(y, y + k, total(y, y + k))])
    IN  System(AddAll(ZeroSquare(2 * leaves), FlattenSeq([y \in 1..leaves |-> ofRow(y - 1)])),
               [u \in 0..(2 * leaves - 1) |->
                    IF u % 2 = 0 THEN 0
                    ELSE Total([b \in 1..buckets |-> der_sums[u \div 2][b - 1]])])

(* One bucket crosses from the right to the left.                          *)
MoveBucket(sys, der_sums, stats, leaves, bucket) ==
    LET diag(y) == LET s == stats[y][y][bucket] IN s.smaller - s.greater
        inside(y) == <<Add(2*y, 2*y + 1, diag(y)), Add(2*y + 1, 2*y, diag(y)),
                       Add(2*y, 2*y, -diag(y)), Add(2*y + 1, 2*y + 1, -diag(y))>>
        across(y) == FlattenSeq([k \in 1..(leaves - 1 - y) |->
                        update_weight_sum_from_non_diag_stats(
                            y, y + k, stats[y + k][y][bucket], stats[y][y + k][bucket])])
    IN  System(AddAll(sys.w, FlattenSeq([y \in 1..leaves |-> inside(y - 1) \o across(y - 1)])),
               [u \in DOMAIN sys.d |->
                    sys.d[u] + (IF u % 2 = 0 THEN 1 ELSE -1) * der_sums[u \div 2][bucket]])

(* The system at every border, by the number of buckets moved.             *)
SplitSystems(der_sums, stats, leaves, buckets) ==
    LET upTo[moved \in 0..(buckets - 1)] ==
            IF moved = 0 THEN StartSystem(der_sums, stats, leaves, buckets)
            ELSE MoveBucket(upTo[moved - 1], der_sums, stats, leaves, moved - 1)
    IN  [border \in 0..(buckets - 2) |-> upTo[border + 1]]

(***************************************************************************)
(* The regularised solution: the last unknown is fixed at 0, two unknowns  *)
(* have a closed form, and the values are shifted to a zero mean.  Times   *)
(* the number of unknowns, as the system is.                               *)
(***************************************************************************)
NonDiagReg == -BucketPrior
DiagReg(n) == BucketPrior * (n - 1) + n * L2Reg

make_zero_average(values) ==
    LET n == Len(values)
    IN  [i \in 0..(n - 1) |-> n * values[i + 1] - Total(values)]

Minor(sys) ==
    LET n == Cardinality(Unknowns(sys))
    IN  [i \in 1..(n - 1) |-> [j \in 1..(n - 1) |->
            n * sys.w[i - 1][j - 1] + (IF i = j THEN DiagReg(n) ELSE NonDiagReg)]]
RightSide(sys) ==
    LET n == Cardinality(Unknowns(sys)) IN [i \in 1..(n - 1) |-> n * sys.d[i - 1]]

calculate_pairwise_leaf_values(sys) ==
    IF Unknowns(sys) = {} THEN <<>>
    ELSE make_zero_average(Append(Solve(Minor(sys), RightSide(sys)), 0))

(***************************************************************************)
(* tree.rs: the scores of a feature's borders and the best of a level; the *)
(* first of the best candidates wins.                                      *)
(***************************************************************************)
FeatureSystems(bucketOf, buckets, leafOf, leaves, ders, pairs) ==
    SplitSystems(compute_der_sums(ders, leafOf, bucketOf, leaves, buckets),
                 compute_pair_weight_statistics(pairs, leafOf, bucketOf, leaves, buckets),
                 leaves, buckets)

SystemScore(sys) == ScoreOf(calculate_pairwise_leaf_values(sys), sys.d, sys.w)

score_pairwise_feature(bucketOf, buckets, leafOf, leaves, ders, pairs) ==
    LET systems == FeatureSystems(bucketOf, buckets, leafOf, leaves, ders, pairs)
    IN  [border \in DOMAIN systems |-> SystemScore(systems[border])]

(* features: sequence of [borders, value : object -> bucket].              *)
PairwiseCandidates(features, leafOf, leaves, ders, pairs) ==
    FlattenSeq([f \in DOMAIN features |->
        LET scores == score_pairwise_feature(features[f].value, features[f].borders + 1,
                                             leafOf, leaves, ders, pairs)
        IN  [b \in 1..features[f].borders |->
                [feature |-> f, border |-> b - 1, score |-> scores[b - 1]]]])

select_best_candidate(candidates) ==
    LET best == CHOOSE i \in DOMAIN candidates :
                    /\ \A j \in DOMAIN candidates : candidates[j].score <= candidates[i].score
                    /\ \A j \in 1..(i - 1) : candidates[j].score < candidates[i].score
    IN  [feature |-> candidates[best].feature, border |-> candidates[best].border]

(* A leaf is numbered by its levels, the first the lowest bit.             *)
assign_leaves(features, chosen, n) ==
    [o \in 1..n |->
        Total([level \in DOMAIN chosen |->
            IF features[chosen[level].feature].value[o] > chosen[level].border
            THEN 2 ^ (level - 1) ELSE 0])]

(***************************************************************************)
(* pairwise_leaves.rs: the system of a finished tree, straight from the    *)
(* groups' competitors.                                                    *)
(***************************************************************************)
compute_pairwise_weight_sums(groups, leafOf, leaves) ==
    LET pairs == flatten_global_pairs(groups)
        changes(p) ==
            LET w == leafOf[p.winner]
                l == leafOf[p.loser]
            IN  IF w = l THEN <<>>
                ELSE <<Add(w, l, -p.weight), Add(l, w, -p.weight),
                       Add(w, w, p.weight), Add(l, l, p.weight)>>
    IN  AddAll(ZeroSquare(leaves), FlattenSeq([k \in DOMAIN pairs |-> changes(pairs[k])]))

LeafSystem(groups, leafOf, ders, leaves) ==
    System(compute_pairwise_weight_sums(groups, leafOf, leaves),
           [leaf \in 0..(leaves - 1) |->
                Total([o \in DOMAIN ders |-> IF leafOf[o] = leaf THEN ders[o] ELSE 0])])

compute_pairwise_leaf_deltas(groups, leafOf, ders, leaves) ==
    calculate_pairwise_leaf_values(LeafSystem(groups, leafOf, ders, leaves))

-----------------------------------------------------------------------------

CONSTANT CubeDim     \* units of a cube: the bins one scan can carry

Channels == 0..3

(* A layout: the number of bins it is launched with and what it reads of a *)
(* word of the compressed index.                                           *)
pairwise_hist_nonbinary == [bins |-> {32, 64, 128}, mask |-> 256]
pairwise_hist_8bit      == [bins |-> {256}, mask |-> 256]
pairwise_hist_half_byte == [bins |-> {16}, mask |-> 16]
pairwise_hist_binary    == [bins |-> {2}, mask |-> 2]

ReadBin(layout, word) == word % layout.mask

(***************************************************************************)
(* A launch: lengths first, then ranges, then nothing to do, the shape,    *)
(* and last whether the device can add floats atomically.                  *)
(***************************************************************************)
HistLaunch(layout, pairs, columns, objects, bins, atomics) ==
    CASE \E f \in DOMAIN columns : Len(columns[f]) # objects -> "LengthMismatch"
      [] \E p \in ToSet(pairs) : {p.winner, p.loser} \ (1..objects) # {} -> "OutOfRange"
      [] \E f \in DOMAIN columns : \E o \in 1..objects : columns[f][o] >= bins -> "OutOfRange"
      [] pairs = <<>> \/ columns = <<>> \/ bins = 0 -> "empty"
      [] bins \notin layout.bins -> "Degenerate"
      [] ~atomics -> "Unsupported"
      [] OTHER -> "launched"

launch_pairwise_hist_into(pairs, columns, objects, bins, atomics) ==
    HistLaunch(pairwise_hist_nonbinary, pairs, columns, objects, bins, atomics)
launch_pairwise_hist_8bit_into(pairs, columns, objects, bins, atomics) ==
    HistLaunch(pairwise_hist_8bit, pairs, columns, objects, bins, atomics)
launch_pairwise_hist_half_byte_into(pairs, columns, objects, bins, atomics) ==
    HistLaunch(pairwise_hist_half_byte, pairs, columns, objects, bins, atomics)
launch_pairwise_hist_binary_into(pairs, columns, objects, bins, atomics) ==
    HistLaunch(pairwise_hist_binary, pairs, columns, objects, bins, atomics)

(***************************************************************************)
(* The histogram: how often a pair adds its weight to a cell.              *)
(***************************************************************************)
BinHits(b1, b2, bin, channel) ==
    LET ge == IF b1 >= b2 THEN 1 ELSE 0
        gt == IF b1 > b2 THEN 1 ELSE 0
        at == IF channel % 2 = 0 THEN b1 ELSE b2
        half == channel \div 2
    IN  IF at # bin THEN 0
        ELSE (IF ge = half THEN 1 ELSE 0) + (IF gt = half THEN 1 ELSE 0)

OneHotHits(b1, b2, bin, channel) ==
    LET is_ge == IF b1 # b2 THEN 1 ELSE 0
        at == IF channel % 2 = 0 THEN b1 ELSE b2
    IN  IF at = bin /\ channel \div 2 = is_ge THEN 2 ELSE 0

PairHist(layout, oneHot, pairs, column, bin, channel) ==
    LET hits(p) == LET b1 == ReadBin(layout, column[p.winner])
                       b2 == ReadBin(layout, column[p.loser])
                   IN  IF oneHot THEN OneHotHits(b1, b2, bin, channel)
                                 ELSE BinHits(b1, b2, bin, channel)
    IN  Total([k \in DOMAIN pairs |-> hits(pairs[k]) * pairs[k].weight])

(* One cube per feature and channel scans the bins; the scan cannot carry  *)
(* over into another cube.                                                 *)
ScanLaunch(pairs, columns, bins) ==
    IF pairs = <<>> \/ columns = <<>> \/ bins = 0 THEN "empty"
    ELSE IF bins > CubeDim THEN "OutOfRange" ELSE "launched"

ScanUpdate(layout, oneHot, pairs, column, bin, channel) ==
    Total([b \in 1..(bin + 1) |-> PairHist(layout, oneHot, pairs, column, b - 1, channel)])

(***************************************************************************)
(* The derivative sums by bin, scattered over the objects of an index.     *)
(***************************************************************************)
MakeDerivatives(ders, column, indices, bins) ==
    [bin \in 0..(bins - 1) |->
        Total([k \in DOMAIN indices |->
            IF column[indices[k]] = bin THEN ders[indices[k]] ELSE 0])]

(***************************************************************************)
(* The systems of the borders of one leaf, and the solve's input: the      *)
(* lower triangle, row by row, then the right side.                        *)
(***************************************************************************)
Leaf1Systems(binSums, stats, buckets) ==
    LET der == binSums
        cross[s \in 0..(buckets - 1)] ==
            IF s = 0 THEN 0
            ELSE cross[s - 1] + (stats[0][0][s - 1].smaller - stats[0][0][s - 1].greater)
        left[s \in 0..(buckets - 1)] == IF s = 0 THEN 0 ELSE left[s - 1] + der[s - 1]
        all == Total([b \in 1..buckets |-> der[b - 1]])
    IN  [border \in 0..(buckets - 2) |->
            System([y \in 0..1 |-> [x \in 0..1 |->
                        IF x = y THEN -cross[border + 1] ELSE cross[border + 1]]],
                   [u \in 0..1 |-> IF u = 0 THEN left[border + 1] ELSE all - left[border + 1]])]

(* Rows 0 .. m - 1, times the number of unknowns as Minor and RightSide.   *)
AssembleSystem(sys) ==
    LET n == Cardinality(Unknowns(sys))
        row(y) == [x \in 1..y |->
                    n * sys.w[y - 1][x - 1] + (IF x = y THEN DiagReg(n) ELSE NonDiagReg)]
    IN  IF n <= 1 THEN <<>>
        ELSE FlattenSeq([y \in 1..(n - 1) |-> row(y)]) \o [y \in 1..(n - 1) |-> n * sys.d[y - 1]]

(***************************************************************************)
(* The best of the flat list of candidates, feature by feature; one cube   *)
(* nominates one candidate, the first of the highest.                      *)
(***************************************************************************)
DeviceScores(columns, buckets, ders, indices, pairs) ==
    LET of(f) ==
            LET bins == MakeDerivatives(ders, columns[f], indices, buckets)
                zero == [o \in DOMAIN ders |-> 0]
                stats == compute_pair_weight_statistics(pairs, zero, columns[f], 1, buckets)
                systems == Leaf1Systems(bins, stats, buckets)
            IN  [b \in 1..(buckets - 1) |-> SystemScore(systems[b - 1])]
    IN  FlattenSeq([f \in DOMAIN columns |-> of(f)])

select_best_split_over_scores(scores, splits) ==
    LET best == CHOOSE c \in DOMAIN scores :
                    /\ \A k \in DOMAIN scores : scores[k] <= scores[c]
                    /\ \A k \in 1..(c - 1) : scores[k] < scores[c]
    IN  [feature |-> 1 + ((best - 1) \div splits), border |-> (best - 1) % splits]

(***************************************************************************)
(* grow_oblivious_tree_pairwise: a stump, whose leaf values are averages   *)
(* of the derivatives and not solutions of the leaves' system.             *)
(***************************************************************************)
GrowLaunch(objects, columns, buckets, depth) ==
    IF objects = 0 \/ columns = <<>> \/ buckets = 0 \/ depth = 0 THEN "empty"
    ELSE IF depth > 1 THEN "OutOfRange"
    ELSE IF buckets <= 1 THEN "Degenerate" ELSE "grown"

DeviceStump(columns, buckets, ders, weights, indices, pairs) ==
    LET split == select_best_split_over_scores(
                     DeviceScores(columns, buckets, ders, indices, pairs), buckets - 1)
        leafOf == [o \in DOMAIN ders |-> IF columns[split.feature][o] > split.border THEN 1 ELSE 0]
        inLeaf(f, leaf) == Total([o \in DOMAIN ders |-> IF leafOf[o] = leaf THEN f[o] ELSE 0])
    IN  [split |-> split, leafOf |-> leafOf,
         stats |-> [leaf \in 0..1 |-> <<inLeaf(ders, leaf), inLeaf(weights, leaf)>>]]
=============================================================================
