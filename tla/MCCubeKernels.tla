-------------------------- MODULE MCCubeKernels --------------------------
(***************************************************************************)
(* Cubes of at most four units, on a GPU with planes of two lanes and of   *)
(* eight (wider than the cube), and on CPU runtimes of two, three and      *)
(* eight cores (widths two, two and four). Elements are distinct powers of *)
(* three, so a sum names what entered it.                                  *)
(***************************************************************************)
EXTENDS CubeKernels

Gpus == {[plane |-> 2, cores |-> 0], [plane |-> 8, cores |-> 0]}
Cpus == {[plane |-> 1, cores |-> c] : c \in {2, 3, 8}}

Powers(n) == [i \in 0 .. n - 1 |-> 3 ^ i]
Signed(n) == [i \in 0 .. n - 1 |-> IF i % 2 = 0 THEN i + 1 ELSE -(i + 2)]

Plain == {[kernel |-> k, in |-> Powers(n)] :
            k \in {"block_reduce", "block_reduce_atomic"}, n \in {1, 5, 7}}
Fixed == {[kernel |-> "block_reduce_fixedpoint", in |-> Signed(7)]}
Prefixes == {[kernel |-> k, in |-> Powers(n), inclusive |-> i] :
               k \in {"block_scan"}, n \in {1, 3, 4}, i \in BOOLEAN}
  \union {[kernel |-> "block_scan_total", in |-> Powers(n), inclusive |-> i] :
               n \in {5, 8}, i \in BOOLEAN}
Segmented == {[kernel |-> "segmented_scan", in |-> Powers(4), heads |-> h, inclusive |-> i] :
                h \in [0 .. 3 -> BOOLEAN], i \in BOOLEAN}
At(offsets) == [s \in 0 .. Len(offsets) - 1 |-> offsets[s + 1]]
Keys(offsets) == [i \in 0 .. offsets[Len(offsets)] - 1 |->
                    CHOOSE k \in 1 .. Len(offsets) - 1 : offsets[k] <= i /\ i < offsets[k + 1]]
Segments == {[kernel |-> k, in |-> Powers(6), offsets |-> At(o), keys |-> Keys(o)] :
               k \in SegmentFolds, o \in {<<0, 5, 6>>, <<0, 1, 3, 6>>}}
EmptySegments == [kernel : SegmentFolds \ {"reduce_by_key"}, in : {Powers(3)}, offsets : {At(<<0, 0, 3>>)}]
Bins == {[kernel |-> "scan_update_pointwise", in |-> Powers(6), bins |-> 3, channels |-> 2],
         [kernel |-> "scan_update_pairwise", in |-> Powers(8), bins |-> 2, channels |-> 4]}
Leaves == {[kernel |-> "partition_update_lds", in |-> Signed(6), cells |-> 3, cubes |-> 2,
            part |-> p] : p \in {[i \in 0 .. 5 |-> i % 3], [i \in 0 .. 5 |-> IF i < 4 THEN 0 ELSE 2]}}
Scores == {[kernel |-> k, in |-> [c \in 0 .. 4 |-> IF c \in none THEN NoScore ELSE s[c % 3]]] :
             k \in Searches, s \in [0 .. 2 -> {-1, 1}], none \in {{}, {0, 1}, 0 .. 4}}

(* The cubes of a GPU run at once: two of them, and fewer inputs.          *)
CpuLaunches == Plain \union Fixed \union Prefixes \union Segmented \union Segments
                 \union EmptySegments \union Bins \union Leaves \union Scores
GpuLaunches ==
  {l \in Plain \union Prefixes \union Bins \union EmptySegments :
     /\ Cardinality(DOMAIN l.in) \in {4, 5, 6}
     /\ "inclusive" \in DOMAIN l => ~l.inclusive}

MCRuns == [device : Cpus, launch : CpuLaunches] \union [device : Gpus, launch : GpuLaunches]
=============================================================================
