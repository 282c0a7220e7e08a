---------------------------- MODULE CubeKernels ----------------------------
(***************************************************************************)
(* The shared-memory kernels of cb-backend (kernels.rs) as their units     *)
(* execute them. A launch is a grid of cubes of Width units; the units of  *)
(* a cube meet at sync_cube. On a GPU every cube has its own shared slice  *)
(* and all cubes run at once; on the CPU runtime each unit is a thread     *)
(* that walks the cubes one after the other, and all cubes reuse the one   *)
(* shared buffer.                                                          *)
(*                                                                         *)
(* A kernel is the sequence of its segments, one sync_cube after each. A   *)
(* unit executes a segment in one step: NoRacyAccess says that no finer    *)
(* interleaving can be told apart. Shared memory starts as Garbage, on     *)
(* which no arithmetic is defined.                                         *)
(*                                                                         *)
(* Sums are over integers: the float rounding of one order against         *)
(* another is not modelled, which element enters which sum is.             *)
(***************************************************************************)
EXTENDS Integers, Sequences, FiniteSets, FiniteSetsExt, Functions

CONSTANTS
  CubeDim,      \* CUBE_DIM, also the size of the shared allocation
  Runs,         \* records [device, launch]: a device is [plane, cores], with
                \* plane = 1 on the CPU runtime, a launch [kernel, in, ...]
  FixedCell,    \* input units in one step of the fixed-point grid (2^-30)
  FixedRange,   \* 2^64, in steps of that grid
  NoScore,      \* the score of a candidate that is not eligible
  Garbage       \* what shared memory holds before it is written

VARIABLES
  device,       \* the device the launch runs on
  launch,       \* the launch
  at,           \* at[m][u]: where unit u over the shared slice m is
  mem,          \* mem[m]: the shared slice m
  out,          \* the per-element output buffer
  totals        \* the per-cube output buffer, or the global accumulators

vars == <<device, launch, at, mem, out, totals>>

-----------------------------------------------------------------------------
(* Geometry. *)

CeilDiv(a, b) == (a + b - 1) \div b
Pow2[k \in Nat] == IF k = 0 THEN 1 ELSE 2 * Pow2[k - 1]
PowersOfTwo(n) == {Pow2[k] : k \in 0 .. n}
LargestPower(n) == CHOOSE p \in PowersOfTwo(n) : p <= n /\ 2 * p > n
NextPower(n) == CHOOSE p \in PowersOfTwo(n) : p >= n /\ p < 2 * n

has_planes(d) == d.plane > 1

(* A spinning thread per core at most on the CPU runtime, and a power of   *)
(* two of them because the folds halve their stride.                       *)
barrier_cube_dim(d) ==
  IF has_planes(d) THEN CubeDim
  ELSE LargestPower(IF CubeDim <= d.cores THEN CubeDim ELSE d.cores)

single_cube_dim(d, items) ==
  LET wanted == IF items = 0 THEN 1 ELSE NextPower(items)
      atLeast == IF barrier_cube_dim(d) > wanted THEN barrier_cube_dim(d) ELSE wanted
  IN IF CubeDim < atLeast THEN CubeDim ELSE atLeast

SegmentFolds == {"segmented_reduce", "reduce_by_key", "update_part_props"}
SingleCube == {"block_scan", "segmented_scan"}
BinScans == {"scan_update_pointwise", "scan_update_pairwise"}
Accumulators == {"block_reduce_atomic", "block_reduce_fixedpoint", "partition_update_lds"}

PrefixSums == {"block_scan", "block_scan_total"}
Searches == {"find_optimal_split", "select_best_split"}
Kernels == SegmentFolds \union SingleCube \union BinScans \union Accumulators
             \union PrefixSums \union Searches \union {"block_reduce"}

(* What the hosts launch, and refuse to launch otherwise: a scan whose     *)
(* units own one item each has no more items than a cube has units, a      *)
(* histogram is whole lines of bins, and a segment ends where the next one *)
(* begins.                                                                 *)
Shaped(l) ==
  LET n == Cardinality(DOMAIN l.in)
      segments == Cardinality(DOMAIN l.offsets) - 1
  IN /\ IsFiniteSet(DOMAIN l.in)
     /\ l.in \in [0 .. n - 1 -> IF l.kernel \in Searches THEN Int \union {NoScore} ELSE Int]
     /\ l.kernel \in SingleCube => n <= CubeDim
     /\ l.kernel \in SingleCube \union PrefixSums => l.inclusive \in BOOLEAN
     /\ l.kernel = "segmented_scan" => l.heads \in [0 .. n - 1 -> BOOLEAN]
     /\ l.kernel \in BinScans => /\ l.bins \in 1 .. CubeDim
                                /\ l.channels \in Nat \ {0}
                                /\ n % (l.bins * l.channels) = 0
     /\ l.kernel \in SegmentFolds => /\ IsFiniteSet(DOMAIN l.offsets)
                                    /\ segments \in Nat
                                    /\ l.offsets \in [0 .. segments -> 0 .. n]
                                    /\ \A s \in 1 .. segments : l.offsets[s - 1] <= l.offsets[s]
     /\ l.kernel = "partition_update_lds" => /\ l.cells \in 0 .. CubeDim
                                             /\ l.cubes \in Nat \ {0}
                                             /\ l.part \in [0 .. n - 1 -> 0 .. l.cells - 1]

(* The folds halve the width of a cube, so CUBE_DIM is a power of two. A   *)
(* unit counts itself as a plane where the runtime has none; an unknown    *)
(* number of cores is one.                                                 *)
ASSUME CubeDimAssumption == CubeDim \in Nat \ {0} /\ CubeDim \in PowersOfTwo(CubeDim)
ASSUME FixedAssumption == FixedCell \in Nat \ {0} /\ FixedRange \in Nat \ {0}
ASSUME RunsAssumption ==
  \A r \in Runs :
    /\ r.device.plane \in Nat \ {0}
    /\ ~has_planes(r.device) => r.device.cores \in Nat \ {0}
    /\ r.launch.kernel \in Kernels
    /\ Shaped(r.launch)

Items == Cardinality(DOMAIN launch.in)
Width ==
  IF launch.kernel \in SingleCube THEN single_cube_dim(device, Items)
  ELSE IF launch.kernel \in BinScans THEN single_cube_dim(device, launch.bins)
  ELSE barrier_cube_dim(device)

Cubes ==
  CASE launch.kernel \in SegmentFolds -> Cardinality(DOMAIN launch.offsets) - 1
    [] launch.kernel \in BinScans -> Items \div launch.bins
    [] launch.kernel \in SingleCube \union {"select_best_split"} -> 1
    [] launch.kernel = "partition_update_lds" -> launch.cubes
    [] OTHER -> CeilDiv(Items, Width)

(* One unit is its own plane where the runtime has no planes.              *)
Plane == device.plane
PlaneOf(u) == u \div Plane
Planes == CeilDiv(Width, Plane)

Units == 0 .. Width - 1
Slices == IF has_planes(device) THEN 0 .. Cubes - 1 ELSE {0}
-----------------------------------------------------------------------------
(* What a unit loads. *)

Abs(cube, u) == cube * Width + u

(* The bin axis of one (feature, channel) pair, channels interleaved.      *)
BinCell(cube, bin) ==
  ((cube \div launch.channels) * launch.bins + bin) * launch.channels
    + (cube % launch.channels)

(* The element of lane u; idle lanes are padded with zero.                 *)
Element(cube, u) ==
  IF launch.kernel \in BinScans
  THEN IF u < launch.bins THEN launch.in[BinCell(cube, u)] ELSE 0
  ELSE IF Abs(cube, u) < Items THEN launch.in[Abs(cube, u)] ELSE 0

(* The elements a lane walks with the stride of its cube or of the grid.   *)
SegmentItems(cube, u) ==
  {i \in launch.offsets[cube] .. launch.offsets[cube + 1] - 1 :
     (i - launch.offsets[cube]) % Width = u}
GridItems(cube, u) == {i \in 0 .. Items - 1 : i % (Cubes * Width) = Abs(cube, u)}

(* A strict > keeps the first of equal scores; the seed is the pass's own  *)
(* upper bound.                                                            *)
Beats(x, y) == \/ y.gain = NoScore /\ x.gain # NoScore
               \/ /\ x.gain # NoScore /\ y.gain # NoScore
                  /\ x.gain > y.gain \/ (x.gain = y.gain /\ x.idx < y.idx)
Unseen == [gain |-> NoScore, idx |-> Items]
BestOf(C) ==
  LET scored == {[gain |-> launch.in[c], idx |-> c] : c \in {d \in C : launch.in[d] # NoScore}}
  IN IF scored = {} THEN Unseen
     ELSE CHOOSE x \in scored : \A y \in scored \ {x} : Beats(x, y)

Elements(cube) == [u \in Units |-> Element(cube, u)]
PlaneSum(cube, u) ==
  SumFunctionOnSet(Elements(cube), {v \in Units : PlaneOf(v) = PlaneOf(u)})
PlaneInclusive(cube, u) ==
  SumFunctionOnSet(Elements(cube), {v \in Units : PlaneOf(v) = PlaneOf(u) /\ v <= u})

-----------------------------------------------------------------------------
(* The segments of the kernels. *)

PlaneFolds == {"block_reduce", "block_reduce_atomic"}
Scans == PrefixSums \union BinScans
Merging == launch.kernel = "partition_update_lds"
SegmentedScan == launch.kernel = "segmented_scan"
UnitFolds == Kernels \ (Scans \union {"segmented_scan", "partition_update_lds"})
UsesPlanes == has_planes(device) /\ launch.kernel \in PlaneFolds

Seg(op, s) == [op |-> op, s |-> s]

(* s = CUBE_DIM_X / 2; while s > 0 { fold; sync; s /= 2 }                  *)
Halvings == LET bits == Cardinality({p \in PowersOfTwo(Width) : 1 < p /\ p <= Width})
            IN [k \in 1 .. bits |-> Seg("fold", Width \div Pow2[k])]

(* s = 1; while s < limit { read; sync; add; sync; s *= 2 }                *)
Doublings(limit) ==
  LET bits == Cardinality({p \in PowersOfTwo(limit) : p < limit})
  IN [k \in 1 .. 2 * bits |->
        Seg(IF k % 2 = 1 THEN "read" ELSE "add", Pow2[(k - 1) \div 2])]

Program ==
  LET body ==
        CASE launch.kernel \in Scans -> Append(Doublings(Planes), Seg("carry", 0))
          [] launch.kernel = "segmented_scan" -> Doublings(Width)
          [] launch.kernel = "partition_update_lds" -> <<Seg("scatter", 0)>>
          [] UsesPlanes -> <<>>
          [] OTHER -> Halvings
  IN <<Seg("load", 0)>> \o body \o <<Seg("store", 0)>>

(* Mutant: the carry is read after the last barrier of the kernel.         *)
SyncedNoTrailing(op) == op \notin {"carry", "store"}
(* Mutant: a stage of the scan updates its slot without waiting for the    *)
(* neighbour that still has to read it.                                    *)
SyncedLateReads(op) == op # "read"
(* Every segment ends with a barrier, the last one with the trailing       *)
(* barrier that keeps a unit out of the next cube.                         *)
Synced(op) == TRUE

(* The slot a unit of plane p owns: the last lane of a plane for the       *)
(* scans, the first for the folds, the lane itself without planes.         *)
OwnsSlot(u) ==
  IF launch.kernel \in Scans THEN u % Plane = Plane - 1
  ELSE UsesPlanes => u % Plane = 0
SlotOf(u) == IF launch.kernel \in Scans \/ UsesPlanes THEN PlaneOf(u) ELSE u

Drives(u, s) ==
  /\ u >= s
  /\ launch.kernel \in Scans => u < Planes

Cells == IF launch.kernel = "partition_update_lds" THEN launch.cells ELSE 0
OwnCells(u) == {c \in 0 .. Cells - 1 : c % Width = u}
ScatterCells(cube, u) == {launch.part[i] : i \in GridItems(cube, u)}

(* The shared slots a segment reads, writes and updates atomically.        *)
Reads(cube, u, seg) ==
  CASE seg.op = "fold" -> IF u < seg.s THEN {u, u + seg.s} ELSE {}
    [] seg.op = "read" -> IF Drives(u, seg.s) THEN {u - seg.s} ELSE {}
    [] seg.op = "add" -> IF Drives(u, seg.s) THEN {u} ELSE {}
    [] seg.op = "carry" -> IF PlaneOf(u) >= 1 THEN {PlaneOf(u) - 1} ELSE {}
    [] seg.op = "store" /\ Merging -> OwnCells(u)
    [] seg.op = "store" /\ SegmentedScan -> {u}
    [] seg.op = "store" /\ launch.kernel \in UnitFolds ->
         IF u # 0 THEN {} ELSE IF UsesPlanes THEN 0 .. Planes - 1 ELSE {0}
    [] OTHER -> {}
Writes(cube, u, seg) ==
  CASE seg.op = "load" /\ Merging -> OwnCells(u)
    [] seg.op = "load" /\ ~Merging -> IF OwnsSlot(u) THEN {SlotOf(u)} ELSE {}
    [] seg.op = "fold" -> IF u < seg.s THEN {u} ELSE {}
    [] seg.op = "add" -> IF Drives(u, seg.s) THEN {u} ELSE {}
    [] OTHER -> {}
Atomics(cube, u, seg) == IF seg.op = "scatter" THEN ScatterCells(cube, u) ELSE {}
-----------------------------------------------------------------------------
(* One step of a unit: its next segment. *)

Round(v) == IF v >= 0 THEN (2 * v + FixedCell) \div (2 * FixedCell)
            ELSE -((FixedCell - 2 * v) \div (2 * FixedCell))
fixedpoint_encode(v) == Round(v) % FixedRange
fixedpoint_decode(bits) == IF 2 * bits >= FixedRange THEN bits - FixedRange ELSE bits

(* The RANGE precondition: the partial sum of a cube fits the grid, at     *)
(* whatever width the cube is launched.                                    *)
InRange(l) ==
  \A width \in 1 .. CubeDim, cube \in 0 .. l.cubes - 1, c \in 0 .. l.cells - 1 :
    LET partial == SumFunctionOnSet([i \in DOMAIN l.in |-> Round(l.in[i])],
                     {i \in DOMAIN l.in : /\ (i % (l.cubes * width)) \div width = cube
                                          /\ l.part[i] = c})
    IN -FixedRange <= 2 * partial /\ 2 * partial < FixedRange
ASSUME RangeAssumption ==
  \A r \in Runs : r.launch.kernel = "partition_update_lds" => InRange(r.launch)

(* Mutant: an equal gain of a later lane wins.                             *)
CombineLast(x, y) ==
  IF launch.kernel \notin Searches THEN x + y
  ELSE IF Beats(y, x) \/ (y.gain = x.gain /\ y.gain # NoScore) THEN y ELSE x
Combine(x, y) ==
  IF launch.kernel \notin Searches THEN x + y ELSE IF Beats(y, x) THEN y ELSE x

Loaded(cube, u) ==
  CASE launch.kernel \in Searches -> BestOf(GridItems(cube, u))
    [] launch.kernel \in SegmentFolds -> SumFunctionOnSet(launch.in, SegmentItems(cube, u))
    [] launch.kernel \in Scans -> PlaneInclusive(cube, u)
    [] launch.kernel = "segmented_scan" ->
         [val |-> Element(cube, u), head |-> Abs(cube, u) < Items /\ launch.heads[Abs(cube, u)]]
    [] UsesPlanes -> PlaneSum(cube, u)
    [] OTHER -> Element(cube, u)

(* A slot absorbs its neighbour only while it has seen no segment head.    *)
Absorb(own, left) ==
  IF launch.kernel # "segmented_scan" THEN own + left
  ELSE [val |-> IF own.head THEN own.val ELSE own.val + left.val,
        head |-> own.head \/ left.head]

Encoded == [i \in DOMAIN launch.in |-> fixedpoint_encode(launch.in[i])]

NewSlots(cube, u, seg, reg, slots) ==
  CASE seg.op = "load" /\ Merging ->
         [s \in DOMAIN slots |-> IF s \in OwnCells(u) THEN 0 ELSE slots[s]]
    [] seg.op = "load" /\ ~Merging /\ OwnsSlot(u) -> [slots EXCEPT ![SlotOf(u)] = Loaded(cube, u)]
    [] seg.op = "fold" /\ u < seg.s -> [slots EXCEPT ![u] = Combine(@, slots[u + seg.s])]
    [] seg.op = "add" /\ Drives(u, seg.s) -> [slots EXCEPT ![u] = Absorb(@, reg)]
    [] seg.op = "scatter" ->
         [s \in DOMAIN slots |->
            IF s \notin ScatterCells(cube, u) THEN slots[s]
            ELSE (slots[s] + SumFunctionOnSet(Encoded, {i \in GridItems(cube, u) : launch.part[i] = s}))
                   % FixedRange]
    [] OTHER -> slots

NewReg(u, seg, reg, slots) ==
  CASE seg.op = "read" /\ Drives(u, seg.s) -> slots[u - seg.s]
    [] seg.op = "carry" -> IF PlaneOf(u) >= 1 THEN slots[PlaneOf(u) - 1] ELSE 0
    [] OTHER -> reg

(* What the last segment writes to global memory.                          *)
Prefix(cube, u, reg) ==
  PlaneInclusive(cube, u) + reg - (IF launch.inclusive THEN 0 ELSE Element(cube, u))
SegmentPrefix(u, slots) ==
  IF launch.inclusive THEN slots[u].val
  ELSE IF launch.heads[u] THEN 0 ELSE slots[u].val - launch.in[u]

NewOut(cube, u, seg, reg, slots) ==
  IF seg.op # "store" THEN out
  ELSE CASE launch.kernel \in BinScans /\ u < launch.bins ->
              [out EXCEPT ![BinCell(cube, u)] = PlaneInclusive(cube, u) + reg]
         [] launch.kernel \in PrefixSums /\ Abs(cube, u) < Items ->
              [out EXCEPT ![Abs(cube, u)] = Prefix(cube, u, reg)]
         [] SegmentedScan /\ u < Items -> [out EXCEPT ![u] = SegmentPrefix(u, slots)]
         [] launch.kernel = "reduce_by_key" /\ u = 0 ->
              [out EXCEPT ![cube] = launch.keys[launch.offsets[cube]]]
         [] OTHER -> out

Folded(slots) ==
  IF UsesPlanes THEN SumFunctionOnSet(slots, 0 .. Planes - 1) ELSE slots[0]

LastValid(cube, u) ==
  Abs(cube, u) < Items /\ (u = Width - 1 \/ Abs(cube, u) = Items - 1)

NewTotals(cube, u, seg, reg, slots) ==
  IF seg.op # "store" THEN totals
  ELSE CASE launch.kernel = "block_scan_total" /\ LastValid(cube, u) ->
              [totals EXCEPT ![cube] = PlaneInclusive(cube, u) + reg]
         [] Merging ->
              [c \in DOMAIN totals |->
                 IF c \in OwnCells(u) THEN totals[c] + fixedpoint_decode(slots[c]) ELSE totals[c]]
         [] launch.kernel = "block_reduce_atomic" /\ u = 0 ->
              [totals EXCEPT ![0] = @ + Folded(slots)]
         [] launch.kernel = "block_reduce_fixedpoint" /\ u = 0 ->
              [totals EXCEPT ![0] = (@ + fixedpoint_encode(Folded(slots))) % FixedRange]
         [] launch.kernel \in UnitFolds \ Accumulators /\ u = 0 ->
              [totals EXCEPT ![cube] = Folded(slots)]
         [] OTHER -> totals
-----------------------------------------------------------------------------
(* A unit of the CPU runtime loops into its next cube; on a GPU the cubes  *)
(* of a grid have units of their own.                                      *)
Past(p) ==
  IF p.stage < Len(Program) THEN [p EXCEPT !.stage = @ + 1, !.waits = FALSE]
  ELSE [p EXCEPT !.stage = 1, !.waits = FALSE, !.reg = 0,
                 !.cube = IF has_planes(device) THEN Cubes ELSE @ + 1]

Start(m) == [cube |-> m, stage |-> 1, waits |-> FALSE, reg |-> 0]
Running(m, u) == at[m][u].cube < Cubes
Ready(m, u) == Running(m, u) /\ ~at[m][u].waits
Segment(m, u) == Program[at[m][u].stage]

OutKeys ==
  CASE launch.kernel \in Scans \union {"segmented_scan"} -> DOMAIN launch.in
    [] launch.kernel = "reduce_by_key" -> 0 .. Cubes - 1
    [] OTHER -> {}
TotalKeys ==
  CASE launch.kernel \in {"block_reduce_atomic", "block_reduce_fixedpoint"} -> {0}
    [] launch.kernel = "partition_update_lds" -> 0 .. launch.cells - 1
    [] launch.kernel \in BinScans \union SingleCube -> {}
    [] OTHER -> 0 .. Cubes - 1

(* The host zeroes the accumulators and leaves other buffers as they come. *)
Init ==
  /\ \E r \in Runs : device = r.device /\ launch = r.launch
  /\ at = [m \in Slices |-> [u \in Units |-> Start(m)]]
  /\ mem = [m \in Slices |-> [s \in 0 .. CubeDim - 1 |-> Garbage]]
  /\ out = [i \in OutKeys |-> Garbage]
  /\ totals = [c \in TotalKeys |-> IF launch.kernel \in Accumulators THEN 0 ELSE Garbage]

Step(m, u) ==
  /\ Ready(m, u)
  /\ LET p == at[m][u]
         seg == Segment(m, u)
         done == [p EXCEPT !.reg = NewReg(u, seg, @, mem[m])]
     IN /\ mem' = [mem EXCEPT ![m] = NewSlots(p.cube, u, seg, p.reg, @)]
        /\ out' = NewOut(p.cube, u, seg, p.reg, mem[m])
        /\ totals' = NewTotals(p.cube, u, seg, p.reg, mem[m])
        /\ at' = [at EXCEPT ![m][u] =
                    IF Synced(seg.op) THEN [done EXCEPT !.waits = TRUE] ELSE Past(done)]
  /\ UNCHANGED <<device, launch>>

(* sync_cube: the barrier opens when every unit of the cube has arrived.   *)
sync_cube(m) ==
  /\ \A u \in Units : at[m][u].waits
  /\ at' = [at EXCEPT ![m] = [u \in Units |-> Past(at[m][u])]]
  /\ UNCHANGED <<device, launch, mem, out, totals>>

Finished == \A m \in Slices, u \in Units : ~Running(m, u)
Return == Finished /\ UNCHANGED vars

Next == \/ \E m \in Slices, u \in Units : Step(m, u)
        \/ \E m \in Slices : sync_cube(m)
        \/ Return

Spec == Init /\ [][Next]_vars
-----------------------------------------------------------------------------
(* Properties. *)

(* Between two barriers no unit reads or writes a slot of shared memory    *)
(* that another unit writes, neither in its own cube nor, on the CPU       *)
(* runtime, in the next one (SHARED-MEMORY CUBE INDEPENDENCE). Atomic      *)
(* additions to one slot are not a race.                                   *)
Touches(cube, u, seg) == Reads(cube, u, seg) \union Atomics(cube, u, seg)
NoRacyAccess ==
  \A m \in Slices : \A u, v \in {w \in Units : Ready(m, w)} : u # v =>
    LET a == Segment(m, u)
        b == Segment(m, v)
        writes == Writes(at[m][u].cube, u, a)
    IN /\ writes \intersect Writes(at[m][v].cube, v, b) = {}
       /\ writes \intersect Touches(at[m][v].cube, v, b) = {}
       /\ Reads(at[m][u].cube, u, a) \intersect Atomics(at[m][v].cube, v, b) = {}

(* The serial meaning of a launch: prefixes and sums of the elements of a  *)
(* cube, a segment, a bin axis or a partition, and the first best score.   *)
SumOver(S) == SumFunctionOnSet(launch.in, S)
InCube(c) == {i \in DOMAIN launch.in : i \div Width = c}
InSegment(c) == launch.offsets[c] .. launch.offsets[c + 1] - 1
Axis(i) == <<i % launch.channels, i \div (launch.channels * launch.bins)>>
Bin(i) == (i \div launch.channels) % launch.bins
HeadOf(i) == Max({0} \union {h \in 0 .. i : launch.heads[h]})

SerialOut(i) ==
  CASE launch.kernel \in PrefixSums ->
         SumOver({j \in InCube(i \div Width) : j < i \/ (j = i /\ launch.inclusive)})
    [] launch.kernel \in BinScans ->
         SumOver({j \in DOMAIN launch.in : Axis(j) = Axis(i) /\ Bin(j) <= Bin(i)})
    [] launch.kernel = "segmented_scan" ->
         SumOver({j \in HeadOf(i) .. i : j < i \/ launch.inclusive})
    [] launch.kernel = "reduce_by_key" -> launch.keys[launch.offsets[i]]

FirstBest(C) ==
  LET scored == {c \in C : launch.in[c] # NoScore}
      best == Max({launch.in[c] : c \in scored})
  IN IF scored = {} THEN Unseen
     ELSE [gain |-> best, idx |-> Min({c \in scored : launch.in[c] = best})]

SerialTotal(c) ==
  CASE launch.kernel \in {"block_reduce", "block_scan_total"} -> SumOver(InCube(c))
    [] launch.kernel = "block_reduce_atomic" -> SumOver(DOMAIN launch.in)
    [] launch.kernel = "block_reduce_fixedpoint" ->
         SumFunction([k \in 0 .. Cubes - 1 |-> Round(SumOver(InCube(k)))]) % FixedRange
    [] launch.kernel \in SegmentFolds -> SumOver(InSegment(c))
    [] launch.kernel = "partition_update_lds" ->
         SumFunctionOnSet([i \in DOMAIN launch.in |-> Round(launch.in[i])],
                          {i \in DOMAIN launch.in : launch.part[i] = c})
    [] launch.kernel = "find_optimal_split" -> FirstBest(InCube(c))
    [] launch.kernel = "select_best_split" -> FirstBest(DOMAIN launch.in)

(* Whatever the order in which the units run, on every device and at every *)
(* width the host may choose, a launch returns what its serial loop does.  *)
LaunchesAreSerial ==
  Finished => /\ \A i \in OutKeys : out[i] = SerialOut(i)
              /\ \A c \in TotalKeys : totals[c] = SerialTotal(c)
=============================================================================
