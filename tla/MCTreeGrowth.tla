----------------------------- MODULE MCTreeGrowth -----------------------------
(***************************************************************************)
(* Four objects, up to two float columns and one categorical, depth 3.     *)
(* The first float column, whose order of objects can be chosen freely, is *)
(* sorted, and the first derivative positive; with four objects a score is *)
(* a whole number of sixtieths.                                            *)
(***************************************************************************)
EXTENDS TreeGrowth

(* d^2 / (w + 1) in sixtieths: the L2 score at l2_leaf_reg = 1. *)
L2Score(d, w) == (d * d * 60) \div (w + 1)

Column(borders, top, v) == [borders |-> borders, top |-> top, value |-> [o \in Objects |-> v[o + 1]]]

(* Sorted columns of two borders; missing values first, or last when they  *)
(* are above all borders.  A sentinel keeps the numbers on its inside.     *)
SortedColumns ==
  {Column(2, FALSE, v) : v \in {<<0, 0, 1, 2>>, <<0, 1, 1, 2>>, <<0, 1, 2, 2>>, <<0, 0, 2, 2>>,
                                <<NaN, 1, 1, 2>>, <<NaN, NaN, 1, 2>>}}
  \cup {Column(2, TRUE, v) : v \in {<<0, 0, 1, NaN>>, <<0, 1, NaN, NaN>>}}

SecondColumns ==
  {Column(1, FALSE, <<a, b, c, 1 - a>>) : a, b, c \in 0 .. 1}
  \cup {Column(0, FALSE, <<0, 0, 0, 0>>), Column(1, TRUE, <<0, NaN, 0, NaN>>)}

(* Categorical bins in the order they are first seen. *)
CatColumns ==
  {[o \in Objects |-> v[o + 1]] :
     v \in {<<0, 0, 0, 0>>, <<0, 1, 0, 1>>, <<0, 1, 1, 0>>, <<0, 1, 2, 0>>, <<0, 0, 1, 2>>}}

(* A sampled-out object has neither derivative nor weight. *)
Derivatives == {d \in [Objects -> -1 .. 1] : d[0] = 1 /\ Cardinality({o \in Objects : d[o] = 0}) <= 1}

Training(policy, floats, cats, d, noise, rsm, min_data, max_leaves) ==
  [policy |-> policy, floats |-> floats, cats |-> cats,
   der |-> d, weight |-> [o \in Objects |-> IF d[o] = 0 THEN 0 ELSE 1],
   noise |-> noise, rsm |-> rsm, min_data_in_leaf |-> min_data, max_leaves |-> max_leaves,
   ctrs |-> <<>>, cat_buckets |-> <<>>, used |-> {}, segments |-> <<>>, device |-> FALSE]

Oblivious(floats, cats, d) == Training("SymmetricTree", floats, cats, d, "none", FALSE, 1, 31)

(* Derivatives of +-1, the first of them positive. *)
Signs == {d \in Derivatives : \A o \in Objects : d[o] # 0}

PlainFits ==
  {Oblivious(<<f>>, <<c>>, d) : f \in SortedColumns, c \in CatColumns, d \in Derivatives}
  \cup {Oblivious(<<>>, cs, d) : cs \in {<<>>, <<[o \in Objects |-> o % 2], [o \in Objects |-> o \div 2]>>}, d \in Derivatives}

PerturbedFits ==
  {Training("SymmetricTree", <<f, g>>, <<>>, d, n, r, 1, 31) :
     f \in {c \in SortedColumns : c.value[1] # 1}, g \in SecondColumns,
     d \in {x \in Derivatives : x[1] # 0 /\ x[3] # 0},
     n \in {"silent", "noisy"}, r \in BOOLEAN}

LeafWiseFits ==
  {Training(p, <<f, g>>, <<>>, d, "none", FALSE, m, l) :
     p \in {"Depthwise", "Lossguide", "Region"}, f \in SortedColumns, g \in SecondColumns,
     d \in Derivatives, m \in {1, 3}, l \in {31, 3}}

(* Halves of unlike gains, for the queue of Lossguide to order. *)
SteepFits ==
  {Training("Lossguide", <<f, g>>, <<>>, [d EXCEPT ![0] = 2], "none", FALSE, 1, l) :
     f \in {c \in SortedColumns : c.value[1] # 1}, g \in SecondColumns,
     d \in {x \in Derivatives : \A o \in Objects : x[o] # 0}, l \in {31, 3}}

-----------------------------------------------------------------------------
(* Two categorical columns, their projections as CTR columns, and the      *)
(* values a projection tells apart.  Two columns of one projection share a *)
(* group when they differ in the prior only.                               *)
Cats == <<[o \in Objects |-> o % 2], [o \in Objects |-> IF o = 3 THEN 2 ELSE o \div 2]>>

ProjectionSize(members) == Cardinality({[i \in members |-> Cats[i][o]] : o \in Objects})

Ctr(members, group, v) ==
  [members |-> members, group |-> group, count |-> ProjectionSize(members),
   bin |-> [o \in Objects |-> v[o + 1]]]

CtrPools ==
  {<<Ctr({1}, 1, v), Ctr({2}, 2, w), Ctr({1, 2}, 3, x)>> :
     v \in {<<0, 1, 2, 1>>, <<2, 0, 1, 0>>}, w \in {<<1, 0, 0, 2>>, <<0, 0, 2, 1>>},
     x \in {<<0, 2, 1, 1>>, <<0, 0, 1, 2>>}}
  \cup {<<Ctr({1}, 1, <<0, 1, 2, 1>>), Ctr({1}, 1, <<1, 0, 1, 2>>), Ctr({1, 2}, 2, w)>> :
     w \in {<<1, 1, 0, 2>>, <<0, 2, 0, 1>>}}

(* cat_feature_weight at model_size_reg = 2, in percent: the inverse       *)
(* square of 1 + count / max.                                              *)
PercentTable == [c \in 1 .. N, m \in 1 .. N |-> (100 * m * m) \div ((m + c) * (m + c))]
CatPercent(count, max) == PercentTable[count, max]

WithCtrs(floats, ctrs, used, d, device) ==
  [Oblivious(floats, <<>>, d) EXCEPT
     !.ctrs = ctrs, !.cat_buckets = Cats, !.used = used, !.device = device]

CtrFits ==
  {WithCtrs(<<Column(2, FALSE, f)>>, ctrs, used, d, device) :
     f \in {<<0, 0, 1, 2>>, <<1, 2, 0, 1>>}, ctrs \in CtrPools, used \in {{}, {2}},
     d \in Signs, device \in BOOLEAN}

-----------------------------------------------------------------------------
(* A body of one object and a tail of one, then a body of two and a tail   *)
(* of two; each segment has derivatives at its own approximants.           *)
Segment(body, tail, v) == [body |-> body, tail |-> tail, der |-> [o \in Objects |-> v[o + 1]]]

(* 60 * average body derivative at l2_leaf_reg = 1, times the tail's. *)
BodyTailScore(body_der, body_weight, tail_der) == ((60 * body_der) \div (body_weight + 1)) * tail_der

WithSegments(floats, first, second, device) ==
  [Oblivious(floats, <<>>, [o \in Objects |-> second[o + 1]]) EXCEPT
     !.segments = <<Segment(1, 2, first), Segment(2, 4, second)>>, !.device = device]

OrderedDers == {<<1, 2, -1, -1>>, <<2, -1, 1, -2>>, <<1, -1, -1, 2>>, <<-1, -2, 2, 1>>}

Ordered(device) ==
  {WithSegments(<<Column(2, FALSE, f), Column(2, FALSE, g)>>, d, e, device) :
     f \in {<<0, 0, 1, 2>>, <<2, 1, 0, 1>>}, g \in {<<1, 0, 2, 0>>, <<0, 2, 2, 1>>},
     d \in OrderedDers, e \in OrderedDers}

(* The device's fits have one derivative, at the first iteration's common  *)
(* approximants.                                                           *)
OrderedDeviceFits == {f \in Ordered(TRUE) : f.segments[1].der = f.der}

-----------------------------------------------------------------------------
(* On the device: two float columns, of equal widths or the second one     *)
(* narrower, a one-hot column, and weights.                                *)
OnDevice(floats, cats, d, w) ==
  [Oblivious(floats, cats, d) EXCEPT !.weight = [o \in Objects |-> w[o + 1]], !.device = TRUE]

DeviceFits ==
  {OnDevice(<<f, g>>, cs, d, w) :
     f \in {Column(2, FALSE, <<0, 1, 1, 2>>), Column(2, FALSE, <<NaN, 0, 1, 2>>), Column(2, TRUE, <<0, 1, NaN, 1>>)},
     g \in {Column(2, FALSE, <<1, 0, 2, 0>>), Column(2, TRUE, <<0, NaN, 1, 1>>), Column(1, FALSE, <<0, 1, 0, 1>>)},
     cs \in {<<>>, <<[o \in Objects |-> o % 2]>>, <<[o \in Objects |-> (o + 1) \div 2]>>},
     d \in Signs, w \in {<<1, 1, 1, 1>>, <<1, 2, 1, 1>>}}

(* One-hot columns alone, of one common width. *)
CatDeviceFits ==
  {OnDevice(<<>>, cs, d, <<1, 1, 1, 1>>) :
     cs \in {<<c>> : c \in CatColumns} \cup {<<[o \in Objects |-> o % 2], [o \in Objects |-> o \div 2]>>},
     d \in Signs}

(* Trees of the device that are not symmetric: columns of one and of three *)
(* borders, for which there are kernels; the one-hot column is searched.   *)
LeafWiseOnDevice(p, floats, cats, d, min_data, max_leaves) ==
  [Training(p, floats, cats, d, "none", FALSE, min_data, max_leaves) EXCEPT !.device = TRUE]

KernelFits ==
  {LeafWiseOnDevice(p, <<f, g>>, cs, d, m, l) :
     p \in {"Depthwise", "Lossguide", "Region"},
     f \in {Column(3, FALSE, <<0, 1, 2, 3>>), Column(3, FALSE, <<NaN, 1, 1, 3>>), Column(3, TRUE, <<0, 2, NaN, 1>>)},
     g \in {Column(3, FALSE, <<1, 0, 3, 0>>), Column(1, FALSE, <<0, 1, 0, 1>>), Column(1, TRUE, <<1, NaN, 0, 0>>)},
     cs \in {<<>>, <<[o \in Objects |-> o % 2]>>}, d \in Signs, m \in {1, 3}, l \in {31, 3}}

(* A number of bins without a kernel. *)
OddFits ==
  {LeafWiseOnDevice(p, <<Column(2, FALSE, <<0, 1, 1, 2>>)>>, <<>>, d, 1, 31) :
     p \in {"Depthwise", "Lossguide", "Region"}, d \in Signs}

(* The right leaf of the root is split before the left one, whose children *)
(* are then five nodes away.                                               *)
FarFits ==
  {[LeafWiseOnDevice("Lossguide", <<Column(3, FALSE, <<0, 1, 2, 3>>)>>, <<>>,
                     [o \in Objects |-> <<1, -2, 3, -1>>[o + 1]], 1, 31) EXCEPT !.device = device] :
     device \in BOOLEAN}

DeviceLeafWiseFits == KernelFits \cup OddFits

-----------------------------------------------------------------------------
AllFits ==
  FarFits \cup SteepFits \cup PlainFits \cup CtrFits \cup Ordered(FALSE)
  \cup OrderedDeviceFits \cup DeviceFits \cup CatDeviceFits
  \cup {f \in PerturbedFits : f.noise = "noisy" => f.rsm /\ f.der[2] = 1}
  \cup {f \in DeviceLeafWiseFits : f.max_leaves = 3 => f.policy = "Lossguide" /\ f.min_data_in_leaf = 1}
  \cup {f \in LeafWiseFits : f.max_leaves = 3 => f.policy = "Lossguide" /\ f.min_data_in_leaf = 1}
===============================================================================
