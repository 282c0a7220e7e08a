----------------------------- MODULE FeatureMatrix -----------------------------
(***************************************************************************)
(* What a tree grower is given: the feature columns, the derivatives and   *)
(* weights, and the tests a split makes of an object (FeatureMatrix of     *)
(* cb-train/src/tree.rs, bin_of of cb-compute/src/histogram.rs).           *)
(*                                                                         *)
(* A float value is only ever compared with its feature's borders, so it   *)
(* is the number of borders below it, or NaN.  The missing-value mode is   *)
(* the `top` flag: the last border is the f32::MAX sentinel of             *)
(* nan_mode=Max.  Under nan_mode=Min the first border is a sentinel below  *)
(* every number, which needs no flag.  A CTR column is its binned values,  *)
(* with what the search knows of its projection.  Features are numbered    *)
(* from 1, objects and bins from 0; with an ordered fit, the objects in    *)
(* the order of its learning permutation.                                  *)
(***************************************************************************)
EXTENDS TreeApply

CONSTANTS
  N,                 \* objects
  Fits,              \* the trainings to explore: see FitsAssumption
  MaxDepth,
  CtrBorders,        \* ctr_border_count
  LeafScore(_, _)    \* a leaf's score from its sums of derivatives and weights

Objects == 0 .. N - 1
NaN == -1
Policies == {"SymmetricTree", "Depthwise", "Lossguide", "Region"}

(* A float column: how many borders, their sentinel, and the values. *)
FloatColumns(borders) ==
  [borders : {borders}, top : BOOLEAN, value : [Objects -> NaN .. borders]]

(* A CTR column: its projection, its (type, projection) group, the number  *)
(* of values of the projection, and the binned CTR of every object.        *)
CtrColumns(features) ==
  [members : SUBSET features \ {{}}, group : Nat, count : Nat \ {0}, bin : [Objects -> 0 .. CtrBorders]]

(* A body/tail segment of an ordered fit, with its own derivatives. *)
IsSegment(s) == s.body \in 1 .. s.tail /\ s.tail \in 1 .. N /\ s.der \in [Objects -> Int]

n_bins_of(f) ==
  Max({f.floats[i].borders + 1 : i \in 1 .. Len(f.floats)}
      \cup {f.cats[i][o] + 1 : i \in 1 .. Len(f.cats), o \in Objects} \cup {1})

IsList(s) == Len(s) \in Nat /\ DOMAIN s = 1 .. Len(s)

(* The bins of a perfect hash, which are given out in the order seen. *)
IsDense(bins) == \A o \in Objects : 0 .. bins[o] \subseteq {bins[p] : p \in Objects}

(* What the search is ever called with.  The categorical columns are all   *)
(* one-hot or all CTR; the device takes what its gates let through.        *)
IsFit(f) ==
  /\ f.policy \in Policies
  /\ \A s \in {f.floats, f.cats, f.ctrs, f.cat_buckets, f.segments} : IsList(s)
  /\ \A i \in 1 .. Len(f.floats) : f.floats[i] \in FloatColumns(f.floats[i].borders)
  /\ \A i \in 1 .. Len(f.floats) : f.floats[i].borders \in Nat
  /\ \A i \in 1 .. Len(f.cats) : f.cats[i] \in [Objects -> Nat]
  /\ \A i \in 1 .. Len(f.cats) : IsDense(f.cats[i])
  /\ f.der \in [Objects -> Int] /\ f.weight \in [Objects -> Nat]
  /\ f.noise \in {"none", "silent", "noisy"} /\ f.rsm \in BOOLEAN
  /\ f.min_data_in_leaf \in Nat /\ f.max_leaves \in Nat
  /\ f.noise # "none" => Len(f.cats) = 0     \* rejected before any tree is grown
  /\ f.rsm => f.noise # "none"
  /\ \A i \in 1 .. Len(f.ctrs) : f.ctrs[i] \in CtrColumns(f.ctrs[i].members)
  /\ \A i \in 1 .. Len(f.cat_buckets) : f.cat_buckets[i] \in [Objects -> Nat]
  /\ \A i \in 1 .. Len(f.segments) : IsSegment(f.segments[i])
  /\ f.ctrs # <<>> \/ f.segments # <<>> =>
        f.policy = "SymmetricTree" /\ f.noise = "none" /\ f.cats = <<>>
  /\ f.ctrs = <<>> \/ f.segments = <<>>
  /\ f.used \subseteq Nat /\ f.device \in BOOLEAN
  /\ f.device => /\ f.noise = "none" /\ Len(f.floats) + Len(f.cats) > 0
                 /\ f.ctrs # <<>> => n_bins_of(f) = CtrBorders + 1

ASSUME FitsAssumption ==
  /\ N \in Nat \ {0} /\ MaxDepth \in Nat /\ CtrBorders \in Nat \ {0}
  /\ \A f \in Fits : IsFit(f)

VARIABLES
  fit,       \* the training
  growth,    \* "search", "finish", then "grown" or why not
  grown      \* the GrownTree, once there is one

input == <<fit>>
NoTree == [leaf_of |-> [o \in Objects |-> 0]]

-----------------------------------------------------------------------------
(* A split: kind "float" tests value > border number `at` (from 1), kind   *)
(* "onehot" tests the categorical bin for equality with `at`, and kind     *)
(* "ctr" tests the binned CTR against border `at` - 1 of the code.         *)
Split(k, f, a) == [kind |-> k, feature |-> f, at |-> a]

(* Mutant: a missing value is compared like a number. *)
passes_float_raw(f, o, b) == fit.floats[f].value[o] >= b

passes_float(f, o, b) ==
  LET col == fit.floats[f]
  IN  IF col.value[o] = NaN THEN col.top ELSE col.value[o] >= b

passes_one_hot(c, o, v) == fit.cats[c][o] = v

passes_ctr(c, o, b) == fit.ctrs[c].bin[o] >= b

Passes(s, o) ==
  CASE s.kind = "float"  -> passes_float(s.feature, o, s.at)
    [] s.kind = "onehot" -> passes_one_hot(s.feature, o, s.at)
    [] s.kind = "ctr"    -> passes_ctr(s.feature, o, s.at)

(* The walks of the trainer over a tree of the device: the raw value. *)
RawPasses(s, o) == IF s.kind = "float" THEN fit.floats[s.feature].value[o] >= s.at ELSE Passes(s, o)

bin_of(f, o) ==
  LET col == fit.floats[f]
  IN  IF col.value[o] # NaN THEN col.value[o] ELSE IF col.top THEN col.borders ELSE 0

-----------------------------------------------------------------------------
(* The searched columns of each kind, and the split candidates of one.     *)
Bordered == {f \in 1 .. Len(fit.floats) : fit.floats[f].borders > 0}
Floats == {<<"float", f>> : f \in Bordered}
OneHots == {<<"onehot", c>> : c \in 1 .. Len(fit.cats)}
Ctrs == {<<"ctr", c>> : c \in 1 .. Len(fit.ctrs)}

BinsOf(col) ==
  CASE col[1] = "float"  -> [o \in Objects |-> bin_of(col[2], o)]
    [] col[1] = "onehot" -> fit.cats[col[2]]
    [] col[1] = "ctr"    -> fit.ctrs[col[2]].bin

CandidatesOf(col) ==
  {Split(col[1], col[2], a) :
     a \in CASE col[1] = "float"  -> 1 .. fit.floats[col[2]].borders
            [] col[1] = "onehot" -> {fit.cats[col[2]][o] : o \in Objects}
            [] col[1] = "ctr"    -> 1 .. CtrBorders}

Candidates(cols) == UNION {CandidatesOf(col) : col \in cols}

(* The order candidates are scored in: floats before the categorical ones, *)
(* of which a fit has one kind, then by feature, then by border or bin.    *)
Before(c, d) ==
  \/ c.kind = "float" /\ d.kind # "float"
  \/ c.kind = d.kind /\ c.feature < d.feature
  \/ c.kind = d.kind /\ c.feature = d.feature /\ c.at < d.at

BestOf(score) ==
  LET best == Max({score[c] : c \in DOMAIN score}) IN {c \in DOMAIN score : score[c] = best}

(* select_best: the first of the best scores. *)
select_best(score) ==
  LET ties == BestOf(score) IN CHOOSE c \in ties : \A d \in ties \ {c} : Before(c, d)

(* The sum over the objects, in their order. *)
SumOver(value) == SumTo(N, value)

SumOf(value, docs) == SumOver([o \in Objects |-> IF o \in docs THEN value[o] ELSE 0])

(* The score of a leaf that holds each object count[o] times. *)
Scored(count) ==
  LeafScore(SumOver([o \in Objects |-> count[o] * fit.der[o]]),
            SumOver([o \in Objects |-> count[o] * fit.weight[o]]))

ScoreOf(docs) == LeafScore(SumOf(fit.der, docs), SumOf(fit.weight, docs))

(* A score is a whole number in some unit, and an empty leaf has none: its *)
(* average is 0.                                                           *)
ASSUME ScoreAssumption ==
  /\ LeafScore(0, 0) = 0
  /\ \A f \in Fits : \A docs \in SUBSET Objects :
       LeafScore(SumOf(f.der, docs), SumOf(f.weight, docs)) \in Int
===============================================================================
