------------------------- MODULE CubeKernelsProofs -------------------------
(***************************************************************************)
(* Why the shared memory of a cube is free of races, for every kernel,     *)
(* launch and device: the units of a cube are always in the same segment   *)
(* of the same cube, because every segment ends with a barrier, and inside *)
(* a segment a unit writes only the slots it owns, which no other unit     *)
(* touches. And why what a launch returns is what a serial loop returns:   *)
(* at every moment each slot and each register holds the sum, or the best, *)
(* of a set of items known from the unit and the segment alone.            *)
(***************************************************************************)
EXTENDS CubeKernels, Induction, FiniteSetTheorems, SequenceTheorems

-----------------------------------------------------------------------------
(* The width of a cube. *)

(* The powers of two are positive numbers, each double the one before.     *)
LEMMA PowersDouble ==
  /\ Pow2 \in [Nat -> Nat \ {0}]
  /\ Pow2[0] = 1
  /\ \A k \in Nat : Pow2[k + 1] = 2 * Pow2[k]
<1> DEFINE X == Nat \ {0}
           F == [x \in X |-> 2 * x]
<1>1. 1 \in X /\ F \in [X -> X]
  OBVIOUS
<1>2. \E g : Recursion(X, 1, F, g)
  <2> HIDE DEF X, F
  <2> QED  BY <1>1, RecursionExists
<1>3. \E g : g \in [Nat -> X] /\ g = [k \in Nat |-> IF k = 0 THEN 1 ELSE 2 * g[k - 1]]
  <2>1. PICK g : g \in [Nat -> X] /\ g = [k \in Nat |-> IF k = 0 THEN 1 ELSE F[g[k - 1]]]
    BY <1>2 DEF Recursion
  <2>2. ASSUME NEW k \in Nat PROVE g[k] = IF k = 0 THEN 1 ELSE 2 * g[k - 1]
    <3>1. CASE k = 0
      BY <2>1, <3>1
    <3>2. CASE k # 0
      <4>1. k - 1 \in Nat
        BY <3>2
      <4> QED  BY <2>1, <3>2, <4>1
    <3> QED  BY <3>1, <3>2
  <2>3. g = [k \in Nat |-> IF k = 0 THEN 1 ELSE 2 * g[k - 1]]
    BY <2>1, <2>2
  <2> QED  BY <2>1, <2>3
<1>4. Pow2 = [k \in Nat |-> IF k = 0 THEN 1 ELSE 2 * Pow2[k - 1]]
  BY <1>3 DEF Pow2
<1>5. Pow2[0] = 1
  BY <1>4
<1>6. ASSUME NEW k \in Nat PROVE Pow2[k + 1] = 2 * Pow2[k]
  <2>1. k + 1 \in Nat /\ k + 1 # 0 /\ (k + 1) - 1 = k
    OBVIOUS
  <2> QED  BY <1>4, <2>1
<1> DEFINE Positive == {k \in Nat : Pow2[k] \in X}
<1>7. Nat \subseteq Positive
  <2>1. 0 \in Positive
    BY <1>5
  <2>2. ASSUME NEW k \in Nat, k \in Positive PROVE k + 1 \in Positive
    BY <1>6, <2>2
  <2> HIDE DEF Positive
  <2> QED  BY <2>1, <2>2, SetInduction
<1> QED  BY <1>4, <1>5, <1>6, <1>7

(* A power of two exceeds its exponent, so n powers reach past n.          *)
LEMMA PowersExceed == \A k \in Nat : Pow2[k] > k
<1> DEFINE Above == {k \in Nat : Pow2[k] > k}
<1>1. 0 \in Above
  BY PowersDouble
<1>2. ASSUME NEW k \in Nat, k \in Above PROVE k + 1 \in Above
  BY <1>2, PowersDouble
<1>3. Nat \subseteq Above
  <2> HIDE DEF Above
  <2> QED  BY <1>1, <1>2, SetInduction
<1> QED  BY <1>3

(* Every positive number lies between two consecutive powers of two.       *)
LEMMA PowersBracket ==
  ASSUME NEW n \in Nat \ {0}
  PROVE  /\ \E p \in PowersOfTwo(n) : p <= n /\ 2 * p > n
         /\ \E p \in PowersOfTwo(n) : p >= n /\ p < 2 * n
<1> DEFINE Over == {k \in Nat : Pow2[k] > n}
           Reach == {k \in Nat : Pow2[k] >= n}
<1>1. n \in Over /\ n \in Reach /\ 0 \notin Over
  BY PowersExceed, PowersDouble
<1>2. PICK k \in Over : \A j \in Over : k <= j
  BY <1>1, LeastElement
<1>3. /\ k - 1 \in 0 .. n /\ k - 1 \notin Over
      /\ (k - 1) + 1 = k
  BY <1>1, <1>2
<1>4. Pow2[k] = 2 * Pow2[k - 1] /\ Pow2[k - 1] <= n /\ Pow2[k] > n
  <2>1. k - 1 \in Nat
    BY <1>3
  <2> QED  BY <1>2, <1>3, <2>1, PowersDouble
<1>5. PICK i \in Reach : \A j \in Reach : i <= j
  BY <1>1, LeastElement
<1>6. i \in 0 .. n /\ Pow2[i] >= n
  BY <1>1, <1>5
<1>7. Pow2[i] < 2 * n
  <2>1. CASE i = 0
    BY <2>1, PowersDouble
  <2>2. CASE i # 0
    <3>1. i - 1 \in Nat /\ i - 1 \notin Reach /\ (i - 1) + 1 = i
      BY <1>5, <2>2
    <3>2. Pow2[i - 1] < n /\ Pow2[i] = 2 * Pow2[i - 1]
      BY <3>1, PowersDouble
    <3> QED  BY <3>1, <3>2, PowersDouble
  <2> QED  BY <2>1, <2>2
<1> QED  BY <1>3, <1>4, <1>6, <1>7 DEF PowersOfTwo

(* The powers of two.                                                      *)
Powers == {Pow2[k] : k \in Nat}

(* The widths the host may choose are powers of two on the right side of   *)
(* what they are chosen for.                                               *)
LEMMA WidthsArePowers ==
  ASSUME NEW n \in Nat \ {0}
  PROVE  /\ Powers \subseteq Nat \ {0} /\ PowersOfTwo(n) \subseteq Powers
         /\ LargestPower(n) \in Powers /\ LargestPower(n) <= n
         /\ NextPower(n) \in Powers /\ NextPower(n) >= n
<1>1. Powers \subseteq Nat \ {0} /\ PowersOfTwo(n) \subseteq Powers
  BY PowersDouble DEF PowersOfTwo, Powers
<1>2. LargestPower(n) \in PowersOfTwo(n) /\ LargestPower(n) <= n
  BY PowersBracket DEF LargestPower
<1>3. NextPower(n) \in PowersOfTwo(n) /\ NextPower(n) >= n
  BY PowersBracket DEF NextPower
<1> QED  BY <1>1, <1>2, <1>3

-----------------------------------------------------------------------------
(* The units of a cube move together. *)

(* The launch is one of the launches and its grid is laid out for it.      *)
Launched == \E r \in Runs : device = r.device /\ launch = r.launch

(* Every unit has a place, and the units over one slice share the cube and *)
(* the segment they are in: only waiting at the barrier tells them apart.  *)
InStep ==
  /\ at = [m \in Slices |-> [u \in Units |-> at[m][u]]]
  /\ \A m \in Slices, u \in Units :
       at[m][u] = [cube |-> at[m][u].cube, stage |-> at[m][u].stage,
                   waits |-> at[m][u].waits, reg |-> at[m][u].reg]
  /\ \A m \in Slices, u \in Units : at[m][u].stage \in 1 .. Len(Program)
  /\ \A m \in Slices : \A u, v \in Units :
       at[m][u].cube = at[m][v].cube /\ at[m][u].stage = at[m][v].stage

(* All units of a launched cube stand at the same place.                   *)
Lockstep == Launched /\ InStep

(* The width of a cube is a power of two on every device, it fits the      *)
(* shared allocation, and a scan whose units own one item each has a unit  *)
(* for every item.                                                         *)
LEMMA GridIsSound ==
  ASSUME Launched
  PROVE  /\ Plane \in Nat \ {0} /\ Width \in Nat \ {0} /\ Items \in Nat
         /\ Width \in Powers /\ Width <= CubeDim
         /\ launch.kernel \in SingleCube => Items <= Width
         /\ launch.kernel \in BinScans => launch.bins <= Width
<1>1. PICK r \in Runs : device = r.device /\ launch = r.launch
  BY DEF Launched
<1>2. /\ device.plane \in Nat \ {0}
      /\ ~has_planes(device) => device.cores \in Nat \ {0}
      /\ Shaped(launch)
  BY <1>1, RunsAssumption
<1>3. /\ Items \in Nat
      /\ launch.kernel \in SingleCube => Items <= CubeDim
      /\ launch.kernel \in BinScans => launch.bins \in 1 .. CubeDim
  BY <1>2, FS_CardinalityType DEF Items, Shaped
<1>4. Powers \subseteq Nat \ {0} /\ CubeDim \in Powers /\ CubeDim \in Nat \ {0}
  BY CubeDimAssumption, WidthsArePowers
<1>5. barrier_cube_dim(device) \in Powers /\ barrier_cube_dim(device) <= CubeDim
  <2>1. CASE has_planes(device)
    BY <1>4, <2>1 DEF barrier_cube_dim
  <2>2. CASE ~has_planes(device)
    <3> DEFINE cap == IF CubeDim <= device.cores THEN CubeDim ELSE device.cores
    <3>1. cap \in Nat \ {0} /\ cap <= CubeDim
      BY <1>2, <1>4, <2>2
    <3>2. barrier_cube_dim(device) = LargestPower(cap)
      BY <2>2 DEF barrier_cube_dim
    <3> HIDE DEF cap
    <3>3. LargestPower(cap) \in Powers /\ LargestPower(cap) <= cap
      BY <3>1, WidthsArePowers
    <3>4. LargestPower(cap) \in Nat
      BY <1>4, <3>3
    <3>5. LargestPower(cap) <= CubeDim
      BY <1>4, <3>1, <3>3, <3>4
    <3> QED  BY <3>2, <3>3, <3>5
  <2> QED  BY <2>1, <2>2
<1>6. ASSUME NEW n \in Nat, n <= CubeDim
      PROVE  /\ single_cube_dim(device, n) \in Powers
             /\ single_cube_dim(device, n) <= CubeDim
             /\ n <= single_cube_dim(device, n)
  <2> DEFINE wanted == IF n = 0 THEN 1 ELSE NextPower(n)
             barrier == barrier_cube_dim(device)
             atLeast == IF barrier > wanted THEN barrier ELSE wanted
  <2>1. wanted \in Powers /\ wanted >= n
    <3>1. CASE n = 0
      <4>1. 1 \in Powers
        BY PowersDouble DEF Powers
      <4> QED  BY <3>1, <4>1
    <3>2. CASE n # 0
      <4>1. NextPower(n) \in Powers /\ NextPower(n) >= n
        BY <3>2, WidthsArePowers
      <4> QED  BY <3>2, <4>1
    <3> QED  BY <3>1, <3>2
  <2>2. single_cube_dim(device, n) = IF CubeDim < atLeast THEN CubeDim ELSE atLeast
    BY DEF single_cube_dim
  <2>3. barrier \in Powers /\ barrier <= CubeDim
    BY <1>5
  <2> HIDE DEF wanted, barrier
  <2>4. wanted \in Nat /\ barrier \in Nat
    BY <1>4, <2>1, <2>3
  <2> QED  BY <1>4, <1>6, <2>1, <2>2, <2>3, <2>4
<1>7. Width \in Powers /\ Width <= CubeDim
  BY <1>3, <1>5, <1>6 DEF Width
<1>8. launch.kernel \in SingleCube => Items <= Width
  BY <1>3, <1>6 DEF Width
<1>9. launch.kernel \in BinScans => launch.bins <= Width
  BY <1>3, <1>6 DEF Width, SingleCube, BinScans
<1>10. Width \in Nat \ {0}
  BY <1>4, <1>7
<1> QED  BY <1>2, <1>3, <1>7, <1>8, <1>9, <1>10 DEF Plane

(* Nothing a step changes moves the grid.                                  *)
LEMMA GridStays ==
  ASSUME UNCHANGED <<device, launch>>
  PROVE  /\ Launched' = Launched /\ Units' = Units /\ Slices' = Slices
         /\ Cubes' = Cubes /\ Program' = Program /\ Width' = Width
<1>1. Items' = Items
  BY DEF Items
<1>2. Width' = Width
  BY <1>1 DEF Width
<1>3. Cubes' = Cubes
  BY <1>1, <1>2 DEF Cubes
<1>4. Slices' = Slices /\ Units' = Units
  BY <1>2, <1>3 DEF Slices, Units
<1>5. Planes' = Planes /\ UsesPlanes' = UsesPlanes
  BY <1>2 DEF Planes, Plane, UsesPlanes
<1>6. Halvings' = Halvings
  BY <1>2 DEF Halvings
<1>7. Program' = Program
  BY <1>2, <1>5, <1>6 DEF Program
<1>8. Launched' = Launched
  BY DEF Launched
<1> QED  BY <1>2, <1>3, <1>4, <1>7, <1>8

(* The programs of the kernels: a load, a store, and between them segments *)
(* whose strides are numbers.                                              *)
Ops == {"load", "fold", "read", "add", "carry", "scatter", "store"}
Segs == [op : Ops, s : Nat]

(* Finitely many powers of two lie below a width.                          *)
LEMMA SomePowers ==
  ASSUME NEW n \in Nat, NEW S \in SUBSET PowersOfTwo(n)
  PROVE  Cardinality(S) \in Nat
<1>1. IsFiniteSet(0 .. n)
  BY FS_Interval
<1>2. IsFiniteSet(PowersOfTwo(n))
  <2> DEFINE power == [k \in 0 .. n |-> Pow2[k]]
  <2>1. power \in Surjection(0 .. n, PowersOfTwo(n))
    BY DEF PowersOfTwo, Surjection
  <2> QED  BY <1>1, <2>1, FS_Surjection
<1> QED  BY <1>2, FS_Subset, FS_CardinalityType

(* The reads and additions of a scan are segments of a program.            *)
LEMMA DoublingsType ==
  ASSUME NEW limit \in Nat
  PROVE  Doublings(limit) \in Seq(Segs)
<1> DEFINE bits == Cardinality({p \in PowersOfTwo(limit) : p < limit})
<1>1. bits \in Nat
  BY SomePowers
<1>2. Doublings(limit) = [k \in 1 .. 2 * bits |->
         Seg(IF k % 2 = 1 THEN "read" ELSE "add", Pow2[(k - 1) \div 2])]
  BY DEF Doublings
<1> HIDE DEF bits
<1>3. \A k \in 1 .. 2 * bits :
        Seg(IF k % 2 = 1 THEN "read" ELSE "add", Pow2[(k - 1) \div 2]) \in Segs
  BY <1>1, PowersDouble DEF Seg, Segs, Ops
<1> QED  BY <1>1, <1>2, <1>3

(* So are the folds of a reduction.                                        *)
LEMMA HalvingsType ==
  ASSUME Width \in Nat \ {0}
  PROVE  Halvings \in Seq(Segs)
<1> DEFINE bits == Cardinality({p \in PowersOfTwo(Width) : 1 < p /\ p <= Width})
<1>1. bits \in Nat
  BY SomePowers
<1>2. Halvings = [k \in 1 .. bits |-> Seg("fold", Width \div Pow2[k])]
  BY DEF Halvings
<1> HIDE DEF bits
<1>3. \A k \in 1 .. bits : Seg("fold", Width \div Pow2[k]) \in Segs
  BY <1>1, PowersDouble DEF Seg, Segs, Ops
<1> QED  BY <1>1, <1>2, <1>3

(* Every kernel's segments are a program.                                  *)
LEMMA ProgramType ==
  ASSUME Launched
  PROVE  Program \in Seq(Segs) /\ Len(Program) \in Nat \ {0}
<1>1. Plane \in Nat \ {0} /\ Width \in Nat \ {0}
  BY GridIsSound
<1>2. Planes \in Nat
  BY <1>1 DEF Planes, CeilDiv
<1>3. \A op \in Ops : Seg(op, 0) \in Segs
  BY DEF Seg, Segs
<1> DEFINE body ==
        CASE launch.kernel \in Scans -> Append(Doublings(Planes), Seg("carry", 0))
          [] launch.kernel = "segmented_scan" -> Doublings(Width)
          [] launch.kernel = "partition_update_lds" -> <<Seg("scatter", 0)>>
          [] UsesPlanes -> <<>>
          [] OTHER -> Halvings
<1>4. body \in Seq(Segs)
  BY <1>1, <1>2, <1>3, DoublingsType, HalvingsType DEF Ops, Scans, BinScans, UsesPlanes, PlaneFolds
<1>5. Program = <<Seg("load", 0)>> \o body \o <<Seg("store", 0)>>
  BY DEF Program
<1> HIDE DEF body
<1>6. <<Seg("load", 0)>> \in Seq(Segs) /\ <<Seg("store", 0)>> \in Seq(Segs)
  BY <1>3 DEF Ops
<1>7. <<Seg("load", 0)>> \o body \in Seq(Segs)
  BY <1>4, <1>6
<1> QED  BY <1>4, <1>5, <1>6, <1>7

(* A launch begins with every unit at the first segment of its cube.       *)
LEMMA InitLockstep == Init => Lockstep
<1> SUFFICES ASSUME Init PROVE Lockstep
  OBVIOUS
<1>1. Launched
  BY DEF Init, Launched
<1>2. at = [m \in Slices |-> [u \in Units |-> Start(m)]]
  BY DEF Init
<1>3. 1 \in 1 .. Len(Program)
  BY <1>1, ProgramType
<1>4. \A m \in Slices, u \in Units : at[m][u] = Start(m)
  BY <1>2
<1>5. InStep
  BY <1>2, <1>3, <1>4 DEF InStep, Start
<1> QED  BY <1>1, <1>5 DEF Lockstep

(* A unit that has run its segment stays in it until the barrier opens.    *)
LEMMA StepKeepsPace ==
  ASSUME Lockstep, NEW m \in Slices, NEW u \in Units, Step(m, u)
  PROVE  Lockstep'
<1>1. UNCHANGED <<device, launch>>
  BY DEF Step
<1>2. /\ Launched' /\ Slices' = Slices /\ Units' = Units /\ Program' = Program
  BY <1>1, GridStays DEF Lockstep
<1> DEFINE p == at[m][u]
           done == [p EXCEPT !.reg = NewReg(u, Segment(m, u), @, mem[m])]
           moved == [done EXCEPT !.waits = TRUE]
<1>3. at' = [at EXCEPT ![m][u] = moved]
  BY DEF Step, Synced
<1>4. p = [cube |-> p.cube, stage |-> p.stage, waits |-> p.waits, reg |-> p.reg]
  BY DEF Lockstep, InStep
<1>5. moved.cube = p.cube /\ moved.stage = p.stage
      /\ moved = [cube |-> moved.cube, stage |-> moved.stage,
                  waits |-> moved.waits, reg |-> moved.reg]
  <2> DEFINE r == NewReg(u, Segment(m, u), p.reg, mem[m])
  <2>1. moved = [[p EXCEPT !.reg = r] EXCEPT !.waits = TRUE]
    OBVIOUS
  <2> HIDE DEF p, moved, done, r
  <2>2. moved = [cube |-> p.cube, stage |-> p.stage, waits |-> TRUE, reg |-> r]
    BY <1>4, <2>1
  <2> QED  BY <2>2
<1> HIDE DEF moved
<1>6. /\ at' = [n \in Slices |-> [v \in Units |-> at'[n][v]]]
      /\ \A n \in Slices, v \in Units :
           at'[n][v] = IF n = m /\ v = u THEN moved ELSE at[n][v]
  <2>1. at = [n \in Slices |-> [v \in Units |-> at[n][v]]]
    BY DEF Lockstep, InStep
  <2> DEFINE f == [n \in Slices |-> [v \in Units |-> IF n = m /\ v = u THEN moved ELSE at[n][v]]]
  <2>2. at' = f
    BY <1>3, <2>1
  <2> QED  BY <2>2
<1>7. \A n \in Slices, v \in Units :
        at'[n][v].cube = at[n][v].cube /\ at'[n][v].stage = at[n][v].stage
  BY <1>5, <1>6
<1>8. \A n \in Slices, v \in Units :
        at'[n][v] = [cube |-> at'[n][v].cube, stage |-> at'[n][v].stage,
                     waits |-> at'[n][v].waits, reg |-> at'[n][v].reg]
  <2> SUFFICES ASSUME NEW n \in Slices, NEW v \in Units
               PROVE  at'[n][v] = [cube |-> at'[n][v].cube, stage |-> at'[n][v].stage,
                                   waits |-> at'[n][v].waits, reg |-> at'[n][v].reg]
    OBVIOUS
  <2>1. at[n][v] = [cube |-> at[n][v].cube, stage |-> at[n][v].stage,
                    waits |-> at[n][v].waits, reg |-> at[n][v].reg]
    BY DEF Lockstep, InStep
  <2>2. at'[n][v] = moved \/ at'[n][v] = at[n][v]
    BY <1>6
  <2> QED  BY <1>5, <2>1, <2>2
<1>9. InStep'
  BY <1>2, <1>6, <1>7, <1>8 DEF Lockstep, InStep
<1> QED  BY <1>2, <1>9 DEF Lockstep

(* The barrier moves every unit of the cube to the same place.             *)
LEMMA BarrierKeepsPace ==
  ASSUME Lockstep, NEW m \in Slices, sync_cube(m)
  PROVE  Lockstep'
<1>1. UNCHANGED <<device, launch>>
  BY DEF sync_cube
<1>2. /\ Launched' /\ Slices' = Slices /\ Units' = Units /\ Program' = Program
  BY <1>1, GridStays DEF Lockstep
<1>3. at' = [at EXCEPT ![m] = [u \in Units |-> Past(at[m][u])]]
  BY DEF sync_cube
<1>4. /\ at' = [n \in Slices |-> [v \in Units |-> at'[n][v]]]
      /\ \A n \in Slices, v \in Units :
           at'[n][v] = IF n = m THEN Past(at[m][v]) ELSE at[n][v]
  <2>1. at = [n \in Slices |-> [u \in Units |-> at[n][u]]]
    BY DEF Lockstep, InStep
  <2> DEFINE past == [u \in Units |-> Past(at[m][u])]
  <2>2. past = [u \in Units |-> past[u]] /\ \A u \in Units : past[u] = Past(at[m][u])
    OBVIOUS
  <2>3. at' = [at EXCEPT ![m] = past]
    BY <1>3
  <2> HIDE DEF past
  <2>4. at' = [n \in Slices |-> IF n = m THEN past ELSE at[n]]
    BY <2>1, <2>3
  <2> QED  BY <2>1, <2>2, <2>4
<1>5. Len(Program) \in Nat \ {0}
  BY ProgramType DEF Lockstep
<1>6. ASSUME NEW v \in Units
      PROVE  LET p == at[m][v]
                 q == Past(p)
             IN /\ q = [cube |-> q.cube, stage |-> q.stage, waits |-> q.waits, reg |-> q.reg]
                /\ q.stage = IF p.stage < Len(Program) THEN p.stage + 1 ELSE 1
                /\ q.cube = IF p.stage < Len(Program) THEN p.cube
                            ELSE IF has_planes(device) THEN Cubes ELSE p.cube + 1
  <2> DEFINE p == at[m][v]
  <2>1. p = [cube |-> p.cube, stage |-> p.stage, waits |-> p.waits, reg |-> p.reg]
    BY DEF Lockstep, InStep
  <2> HIDE DEF p
  <2> SUFFICES LET q == Past(p)
               IN /\ q = [cube |-> q.cube, stage |-> q.stage, waits |-> q.waits, reg |-> q.reg]
                  /\ q.stage = IF p.stage < Len(Program) THEN p.stage + 1 ELSE 1
                  /\ q.cube = IF p.stage < Len(Program) THEN p.cube
                              ELSE IF has_planes(device) THEN Cubes ELSE p.cube + 1
    BY DEF p
  <2>2. CASE p.stage < Len(Program)
    <3>1. Past(p) = [cube |-> p.cube, stage |-> p.stage + 1, waits |-> FALSE, reg |-> p.reg]
      BY <2>1, <2>2 DEF Past
    <3> QED  BY <2>2, <3>1
  <2>3. CASE ~(p.stage < Len(Program))
    <3>1. Past(p) = [cube |-> IF has_planes(device) THEN Cubes ELSE p.cube + 1,
                     stage |-> 1, waits |-> FALSE, reg |-> 0]
      BY <2>1, <2>3 DEF Past
    <3> QED  BY <2>3, <3>1
  <2> QED  BY <2>2, <2>3
<1>7. ASSUME NEW v \in Units
      PROVE  /\ at'[m][v].stage \in 1 .. Len(Program)
             /\ at'[m][v] = [cube |-> at'[m][v].cube, stage |-> at'[m][v].stage,
                             waits |-> at'[m][v].waits, reg |-> at'[m][v].reg]
  <2>1. at[m][v].stage \in 1 .. Len(Program)
    BY DEF Lockstep, InStep
  <2> QED  BY <1>4, <1>5, <1>6, <2>1
<1>8. ASSUME NEW v \in Units, NEW w \in Units
      PROVE  at'[m][v].cube = at'[m][w].cube /\ at'[m][v].stage = at'[m][w].stage
  <2>1. at[m][v].cube = at[m][w].cube /\ at[m][v].stage = at[m][w].stage
    BY DEF Lockstep, InStep
  <2>2. at'[m][v] = Past(at[m][v]) /\ at'[m][w] = Past(at[m][w])
    BY <1>4
  <2>3. Past(at[m][v]).stage = Past(at[m][w]).stage /\ Past(at[m][v]).cube = Past(at[m][w]).cube
    BY <1>6, <2>1
  <2> QED  BY <2>2, <2>3
<1>9. InStep'
  <2>1. ASSUME NEW n \in Slices, n # m, NEW v \in Units PROVE at'[n][v] = at[n][v]
    BY <1>4, <2>1
  <2>2. ASSUME NEW n \in Slices, NEW v \in Units
        PROVE  /\ at'[n][v].stage \in 1 .. Len(Program)
               /\ at'[n][v] = [cube |-> at'[n][v].cube, stage |-> at'[n][v].stage,
                               waits |-> at'[n][v].waits, reg |-> at'[n][v].reg]
    BY <1>7, <2>1 DEF Lockstep, InStep
  <2>3. ASSUME NEW n \in Slices, NEW v \in Units, NEW w \in Units
        PROVE  at'[n][v].cube = at'[n][w].cube /\ at'[n][v].stage = at'[n][w].stage
    BY <1>8, <2>1 DEF Lockstep, InStep
  <2>4. at' = [n \in Slices' |-> [v \in Units' |-> at'[n][v]]]
    BY <1>2, <1>4
  <2>5. \A n \in Slices', v \in Units' :
          /\ at'[n][v].stage \in 1 .. Len(Program')
          /\ at'[n][v] = [cube |-> at'[n][v].cube, stage |-> at'[n][v].stage,
                          waits |-> at'[n][v].waits, reg |-> at'[n][v].reg]
    BY <1>2, <2>2
  <2>6. \A n \in Slices' : \A v, w \in Units' :
          at'[n][v].cube = at'[n][w].cube /\ at'[n][v].stage = at'[n][w].stage
    BY <1>2, <2>3
  <2> QED  BY <2>4, <2>5, <2>6 DEF InStep
<1> QED  BY <1>2, <1>9 DEF Lockstep

(* The units of a cube never leave each other's segment.                   *)
THEOREM UnitsMoveTogether == Spec => []Lockstep
<1>1. Init => Lockstep
  BY InitLockstep
<1>2. Lockstep /\ [Next]_vars => Lockstep'
  <2> SUFFICES ASSUME Lockstep, [Next]_vars PROVE Lockstep'
    OBVIOUS
  <2>1. ASSUME NEW m \in Slices, NEW u \in Units, Step(m, u) PROVE Lockstep'
    BY <2>1, StepKeepsPace
  <2>2. ASSUME NEW m \in Slices, sync_cube(m) PROVE Lockstep'
    BY <2>2, BarrierKeepsPace
  <2>3. CASE UNCHANGED vars
    <3>1. UNCHANGED <<device, launch>> /\ at' = at
      BY <2>3 DEF vars
    <3>2. Launched' /\ Slices' = Slices /\ Units' = Units /\ Program' = Program
      BY <3>1, GridStays DEF Lockstep
    <3> QED  BY <3>1, <3>2 DEF Lockstep, InStep
  <2> QED  BY <2>1, <2>2, <2>3 DEF Next, Return
<1> QED  BY <1>1, <1>2, PTL DEF Spec

-----------------------------------------------------------------------------
(* Inside a segment. *)

(* No two units own one slot.                                              *)
LEMMA SlotsAreOwnedOnce ==
  ASSUME Launched, NEW u \in Units, NEW v \in Units, u # v, OwnsSlot(u), OwnsSlot(v)
  PROVE  SlotOf(u) # SlotOf(v)
<1>1. Plane \in Nat \ {0} /\ u \in Nat /\ v \in Nat
  BY GridIsSound DEF Units
<1>2. CASE launch.kernel \in Scans \/ UsesPlanes
  <2>1. u % Plane = v % Plane
    BY <1>2 DEF OwnsSlot
  <2>2. /\ u = Plane * (u \div Plane) + (u % Plane)
        /\ v = Plane * (v \div Plane) + (v % Plane)
    BY <1>1
  <2>3. u \div Plane # v \div Plane
    BY <2>1, <2>2
  <2> QED  BY <1>2, <2>3 DEF SlotOf, PlaneOf
<1>3. CASE ~(launch.kernel \in Scans \/ UsesPlanes)
  BY <1>3 DEF SlotOf
<1> QED  BY <1>2, <1>3

(* Of two units in one segment neither writes what the other touches, and  *)
(* neither reads what the other updates atomically.                        *)
LEMMA SegmentsAreApart ==
  ASSUME Launched, NEW cube, NEW seg \in Segs, NEW u \in Units, NEW v \in Units, u # v
  PROVE  /\ Writes(cube, u, seg) \intersect Writes(cube, v, seg) = {}
         /\ Writes(cube, u, seg) \intersect Touches(cube, v, seg) = {}
         /\ Reads(cube, u, seg) \intersect Atomics(cube, v, seg) = {}
<1>1. u \in Nat /\ v \in Nat /\ seg.s \in Nat /\ seg.op \in Ops
  BY GridIsSound DEF Units, Segs
<1>2. CASE seg.op = "load"
  <2>1. Touches(cube, v, seg) = {} /\ Reads(cube, u, seg) = {}
    BY <1>2 DEF Touches, Reads, Atomics
  <2>2. OwnCells(u) \intersect OwnCells(v) = {}
    BY DEF OwnCells
  <2>3. Writes(cube, u, seg) \intersect Writes(cube, v, seg) = {}
    BY <1>2, <2>2, SlotsAreOwnedOnce DEF Writes
  <2> QED  BY <2>1, <2>3
<1>3. CASE seg.op = "fold"
  BY <1>1, <1>3 DEF Touches, Reads, Writes, Atomics
<1>4. CASE seg.op = "add"
  BY <1>1, <1>4 DEF Touches, Reads, Writes, Atomics
<1>5. CASE seg.op = "scatter"
  BY <1>5 DEF Touches, Reads, Writes, Atomics
<1>6. CASE seg.op \in {"read", "carry", "store"}
  BY <1>6 DEF Touches, Reads, Writes, Atomics
<1> QED  BY <1>1, <1>2, <1>3, <1>4, <1>5, <1>6 DEF Ops

(* On every device and at every width the host may choose, no unit touches *)
(* a slot of shared memory that another unit writes between two barriers.  *)
THEOREM SharedMemoryIsFreeOfRaces == Spec => []NoRacyAccess
<1>1. Lockstep => NoRacyAccess
  <2> SUFFICES ASSUME Lockstep, NEW m \in Slices,
                      NEW u \in Units, NEW v \in Units, u # v
               PROVE  LET a == Segment(m, u)
                          b == Segment(m, v)
                          writes == Writes(at[m][u].cube, u, a)
                      IN /\ writes \intersect Writes(at[m][v].cube, v, b) = {}
                         /\ writes \intersect Touches(at[m][v].cube, v, b) = {}
                         /\ Reads(at[m][u].cube, u, a) \intersect Atomics(at[m][v].cube, v, b) = {}
    BY DEF NoRacyAccess
  <2>1. at[m][u].cube = at[m][v].cube /\ at[m][u].stage = at[m][v].stage
    BY DEF Lockstep, InStep
  <2>2. Segment(m, u) = Segment(m, v)
    BY <2>1 DEF Segment
  <2>3. Segment(m, u) \in Segs
    <3>1. at[m][u].stage \in 1 .. Len(Program)
      BY DEF Lockstep, InStep
    <3>2. Program \in Seq(Segs)
      BY ProgramType DEF Lockstep
    <3> QED  BY <3>1, <3>2 DEF Segment
  <2> QED  BY <2>1, <2>2, <2>3, SegmentsAreApart DEF Lockstep
<1> QED  BY <1>1, UnitsMoveTogether, PTL

Pick(s) == CHOOSE x \in s : TRUE
(* The recursion of a sum over the subsets of a set.                       *)
Adds(f, S, g) ==
  g = [s \in SUBSET S |-> IF s = {} THEN 0 ELSE f[Pick(s)] + g[s \ {Pick(s)}]]

(* A sum over a set is the value there of the recursion over its subsets.  *)
LEMMA SumIsRecursion ==
  ASSUME NEW f, NEW S
  PROVE  SumFunctionOnSet(f, S) = (CHOOSE g : Adds(f, S, g))[S]
BY DEF SumFunctionOnSet, FoldFunctionOnSet, MapThenFoldSet, Adds, Pick

(* What holds of no element and passes on to one more holds of a finite    *)
(* set.                                                                    *)
LEMMA SubsetInduction ==
  ASSUME NEW S, IsFiniteSet(S), NEW P, {} \in P,
         \A T \in SUBSET S, x \in S : T \in P /\ x \notin T => T \union {x} \in P
  PROVE  S \in P
<1> DEFINE N == {n \in Nat : \A T \in SUBSET S : Cardinality(T) = n => T \in P}
<1>1. 0 \in N
  <2>1. ASSUME NEW T \in SUBSET S, Cardinality(T) = 0 PROVE T \in P
    <3>1. IsFiniteSet(T)
      BY FS_Subset
    <3>2. T = {}
      BY <2>1, <3>1, FS_EmptySet
    <3> QED  BY <3>2
  <2> QED  BY <2>1
<1>2. ASSUME NEW n \in Nat, n \in N PROVE n + 1 \in N
  <2>1. ASSUME NEW T \in SUBSET S, Cardinality(T) = n + 1 PROVE T \in P
    <3>1. IsFiniteSet(T)
      BY FS_Subset
    <3>2. T # {}
      <4>1. Cardinality({}) = 0 /\ n + 1 # 0
        BY FS_EmptySet
      <4> QED  BY <2>1, <4>1
    <3>3. PICK x \in T : TRUE
      BY <3>2
    <3>4. T \ {x} \in SUBSET S /\ Cardinality(T \ {x}) = n
      <4>1. Cardinality(T \ {x}) = Cardinality(T) - 1
        BY <3>1, FS_RemoveElement
      <4> QED  BY <2>1, <4>1
    <3>5. T \ {x} \in P
      BY <1>2, <3>4
    <3>6. (T \ {x}) \union {x} = T
      OBVIOUS
    <3> QED  BY <3>4, <3>5, <3>6
  <2> QED  BY <2>1
<1>3. Nat \subseteq N
  <2> HIDE DEF N
  <2> QED  BY <1>1, <1>2, SetInduction
<1>4. Cardinality(S) \in Nat
  BY FS_CardinalityType
<1> QED  BY <1>3, <1>4

(* Sums over the subsets of a finite set of numbers exist.                 *)
LEMMA SumsExist ==
  ASSUME NEW S, IsFiniteSet(S), NEW f, \A x \in S : f[x] \in Int
  PROVE  \E g : Adds(f, S, g) /\ g \in [SUBSET S -> Int]
<1> DEFINE X == [SUBSET S -> Int]
           zero == [s \in SUBSET S |-> 0]
           Next1(h) == [s \in SUBSET S |-> IF s = {} THEN 0 ELSE f[Pick(s)] + h[s \ {Pick(s)}]]
           F == [h \in X |-> Next1(h)]
<1>1. \A s \in SUBSET S : s # {} => Pick(s) \in s /\ s \ {Pick(s)} \in SUBSET S
  BY DEF Pick
<1>2. ASSUME NEW h \in X PROVE Next1(h) \in X
  <2>1. \A s \in SUBSET S : s # {} => f[Pick(s)] \in Int /\ h[s \ {Pick(s)}] \in Int
    BY <1>1
  <2>2. \A s \in SUBSET S : (IF s = {} THEN 0 ELSE f[Pick(s)] + h[s \ {Pick(s)}]) \in Int
    BY <2>1
  <2> QED  BY <2>2
<1>3. zero \in X /\ F \in [X -> X]
  <2>1. zero \in X
    OBVIOUS
  <2> HIDE DEF X, Next1, zero
  <2> QED  BY <1>2, <2>1
<1>4. PICK h : Orbit(X, zero, F, h)
  <2> HIDE DEF X, F, zero
  <2> QED  BY <1>3, PrimitiveRecursion
<1>5. /\ \A n \in Nat : h[n] \in X
      /\ \A n \in Nat : \A s \in SUBSET S :
           h[n + 1][s] = IF s = {} THEN 0 ELSE f[Pick(s)] + h[n][s \ {Pick(s)}]
      /\ h[0] = zero
  <2>1. h \in [Nat -> X] /\ h[0] = zero /\ \A n \in Nat : h[n + 1] = F[h[n]]
    BY <1>4 DEF Orbit
  <2>2. ASSUME NEW n \in Nat PROVE h[n] \in X /\ h[n + 1] = Next1(h[n])
    BY <2>1
  <2>3. ASSUME NEW n \in Nat, NEW s \in SUBSET S
        PROVE  h[n + 1][s] = IF s = {} THEN 0 ELSE f[Pick(s)] + h[n][s \ {Pick(s)}]
    BY <2>2
  <2>4. \A n \in Nat : h[n] \in X
    BY <2>2
  <2> HIDE DEF X, F, zero, Next1
  <2> QED  BY <2>1, <2>3, <2>4
<1> DEFINE All(n) == \A s \in SUBSET S : Cardinality(s) <= n => h[n + 1][s] = h[n][s]
           Stable == {n \in Nat : All(n)}
<1>6. \A s \in SUBSET S : IsFiniteSet(s) /\ Cardinality(s) \in Nat
  BY FS_Subset, FS_CardinalityType
<1>7. 0 \in Stable
  <2>1. ASSUME NEW s \in SUBSET S, Cardinality(s) <= 0 PROVE h[0 + 1][s] = h[0][s]
    <3>1. s = {}
      <4>1. Cardinality(s) = 0
        BY <1>6, <2>1
      <4> QED  BY <1>6, <4>1, FS_EmptySet
    <3> QED  BY <1>5, <3>1
  <2> QED  BY <2>1
<1>8. ASSUME NEW n \in Nat, n \in Stable PROVE n + 1 \in Stable
  <2>1. ASSUME NEW s \in SUBSET S, Cardinality(s) <= n + 1 PROVE h[(n + 1) + 1][s] = h[n + 1][s]
    <3>0. h[(n + 1) + 1][s] = (IF s = {} THEN 0 ELSE f[Pick(s)] + h[n + 1][s \ {Pick(s)}])
          /\ h[n + 1][s] = (IF s = {} THEN 0 ELSE f[Pick(s)] + h[n][s \ {Pick(s)}])
      <4> HIDE DEF X, F, zero, Next1, Stable
      <4>1. n + 1 \in Nat
        OBVIOUS
      <4> QED  BY <1>5, <4>1
    <3>1. CASE s = {}
      BY <3>0, <3>1
    <3>2. CASE s # {}
      <4> DEFINE t == s \ {Pick(s)}
      <4>1. t \in SUBSET S /\ Pick(s) \in s
        BY <1>1, <3>2
      <4>2. Cardinality(t) = Cardinality(s) - 1
        BY <1>6, <4>1, FS_RemoveElement
      <4>3. Cardinality(t) <= n
        BY <1>6, <2>1, <4>1, <4>2
      <4>4. h[n + 1][t] = h[n][t]
        BY <1>8, <4>1, <4>3
      <4>5. h[(n + 1) + 1][s] = f[Pick(s)] + h[n + 1][t] /\ h[n + 1][s] = f[Pick(s)] + h[n][t]
        BY <3>0, <3>2
      <4> QED  BY <4>4, <4>5
    <3> QED  BY <3>1, <3>2
  <2> QED  BY <2>1
<1>9. Nat \subseteq Stable
  <2> HIDE DEF Stable
  <2> QED  BY <1>7, <1>8, SetInduction
<1> DEFINE g == [s \in SUBSET S |-> h[Cardinality(s)][s]]
<1>10. g \in X
  BY <1>5, <1>6
<1>11. ASSUME NEW s \in SUBSET S
       PROVE  g[s] = IF s = {} THEN 0 ELSE f[Pick(s)] + g[s \ {Pick(s)}]
  <2>1. CASE s = {}
    BY <1>5, <2>1, FS_EmptySet
  <2>2. CASE s # {}
    <3> DEFINE t == s \ {Pick(s)}
    <3>1. t \in SUBSET S /\ Pick(s) \in s
      BY <1>1, <2>2
    <3>2. Cardinality(t) = Cardinality(s) - 1 /\ Cardinality(t) \in Nat /\ Cardinality(s) \in Nat
      BY <1>6, <3>1, FS_RemoveElement
    <3>3. Cardinality(s) = Cardinality(t) + 1
      BY <3>2
    <3>4. h[Cardinality(s)][s] = f[Pick(s)] + h[Cardinality(t)][t]
      <4> DEFINE k == Cardinality(t)
      <4>1. h[k + 1][s] = IF s = {} THEN 0 ELSE f[Pick(s)] + h[k][s \ {Pick(s)}]
        <5> k \in Nat
          BY <3>2
        <5> HIDE DEF k
        <5> QED  BY <1>5
      <4> QED  BY <2>2, <3>3, <4>1
    <3>5. g[s] = h[Cardinality(s)][s] /\ g[t] = h[Cardinality(t)][t]
      BY <3>1
    <3> HIDE DEF g, t
    <3>6. g[s] = f[Pick(s)] + g[t]
      BY <3>4, <3>5
    <3> QED  BY <2>2, <3>6 DEF t
  <2> QED  BY <2>1, <2>2
<1>12. Adds(f, S, g)
  <2>1. g = [s \in SUBSET S |-> g[s]]
    OBVIOUS
  <2> HIDE DEF g
  <2> QED  BY <1>11, <2>1 DEF Adds
<1> QED  BY <1>10, <1>12

(* Two recursions agree on the subsets they share.                         *)
LEMMA SumsAgree ==
  ASSUME NEW S, IsFiniteSet(S), NEW R, NEW T, S \subseteq R, S \subseteq T, NEW e, NEW f,
         \A x \in S : e[x] = f[x], NEW g, NEW h, Adds(e, R, g), Adds(f, T, h)
  PROVE  g[S] = h[S]
<1> DEFINE Same(n) == \A s \in SUBSET S : Cardinality(s) = n => g[s] = h[s]
           N == {n \in Nat : Same(n)}
<1>1. \A s \in SUBSET S : IsFiniteSet(s) /\ Cardinality(s) \in Nat
  BY FS_Subset, FS_CardinalityType
<1>2. \A s \in SUBSET S : g[s] = IF s = {} THEN 0 ELSE e[Pick(s)] + g[s \ {Pick(s)}]
  BY DEF Adds
<1>3. \A s \in SUBSET S : h[s] = IF s = {} THEN 0 ELSE f[Pick(s)] + h[s \ {Pick(s)}]
  BY DEF Adds
<1>4. \A s \in SUBSET S : s # {} => Pick(s) \in s /\ s \ {Pick(s)} \in SUBSET S
  BY DEF Pick
<1>5. 0 \in N
  <2>1. ASSUME NEW s \in SUBSET S, Cardinality(s) = 0 PROVE g[s] = h[s]
    <3>1. s = {}
      BY <1>1, <2>1, FS_EmptySet
    <3> QED  BY <1>2, <1>3, <3>1
  <2> QED  BY <2>1
<1>6. ASSUME NEW n \in Nat, n \in N PROVE n + 1 \in N
  <2>1. ASSUME NEW s \in SUBSET S, Cardinality(s) = n + 1 PROVE g[s] = h[s]
    <3>1. s # {}
      <4>1. Cardinality({}) = 0 /\ n + 1 # 0
        BY FS_EmptySet
      <4> QED  BY <2>1, <4>1
    <3> DEFINE t == s \ {Pick(s)}
    <3>2. Pick(s) \in s /\ t \in SUBSET S
      BY <1>4, <3>1
    <3>3. Cardinality(t) = n
      <4>1. Cardinality(t) = Cardinality(s) - 1
        BY <1>1, <3>2, FS_RemoveElement
      <4> QED  BY <2>1, <4>1
    <3>4. g[t] = h[t]
      BY <1>6, <3>2, <3>3
    <3>5. e[Pick(s)] = f[Pick(s)]
      BY <3>2
    <3> QED  BY <1>2, <1>3, <3>1, <3>4, <3>5
  <2> QED  BY <2>1
<1>7. Nat \subseteq N
  <2> HIDE DEF N
  <2> QED  BY <1>5, <1>6, SetInduction
<1> QED  BY <1>1, <1>7

(* The sum of a finite set of numbers is one of its recursions.            *)
LEMMA SumIsAdded ==
  ASSUME NEW S, IsFiniteSet(S), NEW f, \A x \in S : f[x] \in Int, NEW g, Adds(f, S, g)
  PROVE  SumFunctionOnSet(f, S) = g[S]
<1> DEFINE h == CHOOSE k : Adds(f, S, k)
<1>1. Adds(f, S, h)
  OBVIOUS
<1>2. SumFunctionOnSet(f, S) = h[S]
  BY SumIsRecursion
<1> HIDE DEF h
<1> QED  BY <1>1, <1>2, SumsAgree

AnyOrder(f, S, g) == \A s \in SUBSET S : \A x \in S \ s : g[s \union {x}] = g[s] + f[x]

(* The order in which a sum takes its elements does not matter.            *)
LEMMA SumsTakeAnyElement ==
  ASSUME NEW S, IsFiniteSet(S), NEW f, \A x \in S : f[x] \in Int,
         NEW g, Adds(f, S, g), g \in [SUBSET S -> Int]
  PROVE  AnyOrder(f, S, g)
<1> DEFINE Any(n) == \A s \in SUBSET S : Cardinality(s) = n =>
                       \A x \in S \ s : g[s \union {x}] = g[s] + f[x]
           N == {n \in Nat : Any(n)}
<1>1. \A s \in SUBSET S : IsFiniteSet(s) /\ Cardinality(s) \in Nat
  BY FS_Subset, FS_CardinalityType
<1>2. \A s \in SUBSET S : g[s] = IF s = {} THEN 0 ELSE f[Pick(s)] + g[s \ {Pick(s)}]
  BY DEF Adds
<1>3. \A s \in SUBSET S : s # {} => Pick(s) \in s /\ s \ {Pick(s)} \in SUBSET S
  BY DEF Pick
<1>4. ASSUME NEW s \in SUBSET S, NEW x \in S \ s, Pick(s \union {x}) = x
      PROVE  g[s \union {x}] = g[s] + f[x]
  <2>1. s \union {x} \in SUBSET S /\ s \union {x} # {} /\ (s \union {x}) \ {x} = s
    OBVIOUS
  <2>2. g[s \union {x}] = f[x] + g[s]
    BY <1>2, <1>4, <2>1
  <2>3. f[x] \in Int /\ g[s] \in Int
    OBVIOUS
  <2> QED  BY <2>2, <2>3
<1>5. 0 \in N
  <2>1. ASSUME NEW s \in SUBSET S, Cardinality(s) = 0, NEW x \in S \ s
        PROVE  g[s \union {x}] = g[s] + f[x]
    <3>1. s = {}
      BY <1>1, <2>1, FS_EmptySet
    <3>2. Pick(s \union {x}) = x
      BY <3>1 DEF Pick
    <3> QED  BY <1>4, <3>2
  <2> QED  BY <2>1
<1>6. ASSUME NEW n \in Nat, n \in N PROVE n + 1 \in N
  <2>1. ASSUME NEW s \in SUBSET S, Cardinality(s) = n + 1, NEW x \in S \ s
        PROVE  g[s \union {x}] = g[s] + f[x]
    <3> DEFINE u == s \union {x}
               y == Pick(u)
               t == s \ {y}
    <3>1. y \in u /\ u \in SUBSET S /\ u # {}
      BY <1>3
    <3>2. CASE y = x
      BY <1>4, <3>2
    <3>3. CASE y # x
      <4>1. y \in s /\ t \in SUBSET S /\ x \in S \ t /\ y \in S \ t
        BY <3>1, <3>3
      <4>2. Cardinality(t) = n
        <5>1. IsFiniteSet(s) /\ y \in s
          BY <1>1, <4>1
        <5>2. Cardinality(s \ {y}) = Cardinality(s) - 1
          <6> HIDE DEF y
          <6> QED  BY <5>1, FS_RemoveElement
        <5> QED  BY <2>1, <5>2
      <4>3. u \ {y} = t \union {x} /\ s = t \union {y}
        BY <4>1, <3>3
      <4>4. g[u] = f[y] + g[t \union {x}]
        BY <1>2, <3>1, <4>3
      <4>5. g[t \union {x}] = g[t] + f[x] /\ g[t \union {y}] = g[t] + f[y]
        BY <1>6, <4>1, <4>2
      <4>6. f[x] \in Int /\ f[y] \in Int /\ g[t] \in Int
        BY <4>1
      <4>7. g[s] = g[t] + f[y]
        BY <4>3, <4>5
      <4> HIDE DEF y, t, u
      <4>8. g[u] = g[s] + f[x]
        BY <4>4, <4>5, <4>6, <4>7
      <4> QED  BY <4>8 DEF u
    <3> QED  BY <3>2, <3>3
  <2> QED  BY <2>1
<1>7. Nat \subseteq N
  <2> HIDE DEF N
  <2> QED  BY <1>5, <1>6, SetInduction
<1> QED  BY <1>1, <1>7 DEF AnyOrder

(* A sum of numbers is a number, nothing sums to 0, and one more element   *)
(* adds its value.                                                         *)
LEMMA SumLaws ==
  ASSUME NEW S, IsFiniteSet(S), NEW f, \A x \in S : f[x] \in Int
  PROVE  /\ SumFunctionOnSet(f, S) \in Int
         /\ SumFunctionOnSet(f, {}) = 0
         /\ \A T \in SUBSET S : \A x \in S \ T :
              SumFunctionOnSet(f, T \union {x}) = SumFunctionOnSet(f, T) + f[x]
<1>1. PICK g : Adds(f, S, g) /\ g \in [SUBSET S -> Int]
  BY SumsExist
<1>2. ASSUME NEW T \in SUBSET S PROVE SumFunctionOnSet(f, T) = g[T]
  <2>1. IsFiniteSet(T) /\ \A x \in T : f[x] \in Int
    BY FS_Subset
  <2>2. PICK h : Adds(f, T, h)
    BY <2>1, SumsExist
  <2>3. SumFunctionOnSet(f, T) = h[T]
    BY <2>1, <2>2, SumIsAdded
  <2>4. g[T] = h[T]
    BY <1>1, <2>1, <2>2, SumsAgree
  <2> QED  BY <2>3, <2>4
<1>3. SumFunctionOnSet(f, {}) = 0
  <2>1. g[{}] = 0
    BY <1>1 DEF Adds
  <2> QED  BY <1>2, <2>1
<1>4. \A T \in SUBSET S : \A x \in S \ T : g[T \union {x}] = g[T] + f[x]
  <2>1. AnyOrder(f, S, g)
    BY <1>1, SumsTakeAnyElement
  <2> QED  BY <2>1 DEF AnyOrder
<1>5. ASSUME NEW T \in SUBSET S, NEW x \in S \ T
      PROVE  SumFunctionOnSet(f, T \union {x}) = SumFunctionOnSet(f, T) + f[x]
  <2>1. T \union {x} \in SUBSET S
    OBVIOUS
  <2> QED  BY <1>2, <1>4, <2>1
<1>6. SumFunctionOnSet(f, S) \in Int
  BY <1>1, <1>2
<1> QED  BY <1>3, <1>5, <1>6

(* The sum of one element is its value.                                    *)
LEMMA SumOfOne ==
  ASSUME NEW x, NEW f, f[x] \in Int
  PROVE  SumFunctionOnSet(f, {x}) = f[x]
<1>1. IsFiniteSet({x}) /\ \A y \in {x} : f[y] \in Int
  BY FS_Singleton
<1>2. SumFunctionOnSet(f, {}) = 0
  BY <1>1, SumLaws
<1>3. \A T \in SUBSET {x} : \A y \in {x} \ T :
        SumFunctionOnSet(f, T \union {y}) = SumFunctionOnSet(f, T) + f[y]
  BY <1>1, SumLaws
<1>4. {} \in SUBSET {x} /\ x \in {x} \ {} /\ {} \union {x} = {x}
  OBVIOUS
<1>5. SumFunctionOnSet(f, {x}) = SumFunctionOnSet(f, {}) + f[x]
  BY <1>3, <1>4
<1> QED  BY <1>2, <1>5

(* Functions that agree on a set have the same sum.                        *)
LEMMA SumOfSame ==
  ASSUME NEW S, IsFiniteSet(S), NEW e, NEW f, \A x \in S : f[x] \in Int /\ e[x] = f[x]
  PROVE  SumFunctionOnSet(e, S) = SumFunctionOnSet(f, S)
<1>1. \A x \in S : e[x] \in Int /\ f[x] \in Int
  OBVIOUS
<1>2. PICK g : Adds(e, S, g)
  BY <1>1, SumsExist
<1>3. PICK h : Adds(f, S, h)
  BY <1>1, SumsExist
<1>4. SumFunctionOnSet(e, S) = g[S] /\ SumFunctionOnSet(f, S) = h[S]
  BY <1>1, <1>2, <1>3, SumIsAdded
<1> QED  BY <1>2, <1>3, <1>4, SumsAgree

(* The sum of two sets apart is the sum of their sums.                     *)
LEMMA SumOfUnion ==
  ASSUME NEW S, NEW T, IsFiniteSet(S), IsFiniteSet(T), S \intersect T = {},
         NEW f, \A x \in S \union T : f[x] \in Int
  PROVE  SumFunctionOnSet(f, S \union T) = SumFunctionOnSet(f, S) + SumFunctionOnSet(f, T)
<1> DEFINE P == {t \in SUBSET T : SumFunctionOnSet(f, S \union t)
                                    = SumFunctionOnSet(f, S) + SumFunctionOnSet(f, t)}
<1>1. IsFiniteSet(S \union T)
  BY FS_Union
<1>2. \A U \in SUBSET (S \union T) : SumFunctionOnSet(f, U) \in Int
  <2>1. ASSUME NEW U \in SUBSET (S \union T) PROVE SumFunctionOnSet(f, U) \in Int
    <3>1. IsFiniteSet(U) /\ \A x \in U : f[x] \in Int
      BY <1>1, FS_Subset
    <3> QED  BY <3>1, SumLaws
  <2> QED  BY <2>1
<1>3. \A U \in SUBSET (S \union T) : \A x \in (S \union T) \ U :
        SumFunctionOnSet(f, U \union {x}) = SumFunctionOnSet(f, U) + f[x]
  <2>1. \A x \in S \union T : f[x] \in Int
    OBVIOUS
  <2> QED  BY <1>1, <2>1, SumLaws, Zenon
<1>4. SumFunctionOnSet(f, {}) = 0
  BY <1>1, SumLaws
<1>5. {} \in P
  <2>1. S \union {} = S /\ SumFunctionOnSet(f, S) \in Int
    BY <1>2
  <2> QED  BY <1>4, <2>1
<1>6. ASSUME NEW t \in SUBSET T, NEW x \in T, t \in P, x \notin t PROVE t \union {x} \in P
  <2>1. /\ S \union t \in SUBSET (S \union T) /\ x \in (S \union T) \ (S \union t)
        /\ t \in SUBSET (S \union T) /\ x \in (S \union T) \ t
        /\ (S \union t) \union {x} = S \union (t \union {x})
        /\ S \in SUBSET (S \union T)
    BY <1>6
  <2>2. /\ SumFunctionOnSet(f, S \union (t \union {x})) = SumFunctionOnSet(f, S \union t) + f[x]
        /\ SumFunctionOnSet(f, t \union {x}) = SumFunctionOnSet(f, t) + f[x]
    BY <1>3, <2>1
  <2>3. f[x] \in Int /\ SumFunctionOnSet(f, S) \in Int /\ SumFunctionOnSet(f, t) \in Int
    BY <1>2, <2>1
  <2>4. SumFunctionOnSet(f, S \union t) = SumFunctionOnSet(f, S) + SumFunctionOnSet(f, t)
    BY <1>6
  <2>5. SumFunctionOnSet(f, S \union (t \union {x}))
          = SumFunctionOnSet(f, S) + SumFunctionOnSet(f, t \union {x})
    BY <2>2, <2>3, <2>4
  <2> QED  BY <2>5
<1>7. T \in P
  <2> HIDE DEF P
  <2> QED  BY <1>5, <1>6, SubsetInduction
<1> QED  BY <1>7

(* Elements worth nothing may be left out.                                 *)
LEMMA SumOfZeros ==
  ASSUME NEW S, IsFiniteSet(S), NEW f, \A x \in S : f[x] = 0
  PROVE  SumFunctionOnSet(f, S) = 0
<1> DEFINE P == {t \in SUBSET S : SumFunctionOnSet(f, t) = 0}
<1>1. /\ SumFunctionOnSet(f, {}) = 0
      /\ \A T \in SUBSET S : \A x \in S \ T :
           SumFunctionOnSet(f, T \union {x}) = SumFunctionOnSet(f, T) + f[x]
  <2>1. \A x \in S : f[x] \in Int
    OBVIOUS
  <2> QED  BY <2>1, SumLaws
<1>2. {} \in P
  BY <1>1
<1>3. ASSUME NEW t \in SUBSET S, NEW x \in S, t \in P, x \notin t PROVE t \union {x} \in P
  <2>1. SumFunctionOnSet(f, t \union {x}) = SumFunctionOnSet(f, t) + f[x]
    BY <1>1, <1>3
  <2>2. SumFunctionOnSet(f, t \union {x}) = 0
    BY <1>3, <2>1
  <2> QED  BY <2>2
<1>4. S \in P
  <2> HIDE DEF P
  <2> QED  BY <1>2, <1>3, SubsetInduction
<1> QED  BY <1>4

(* Two functions whose values pair up have the same sum.                   *)
LEMMA SumOfImage ==
  ASSUME NEW S, IsFiniteSet(S), NEW b, \A x, y \in S : b[x] = b[y] => x = y,
         NEW e, NEW f, \A x \in S : e[x] \in Int /\ f[b[x]] = e[x]
  PROVE  /\ IsFiniteSet({b[x] : x \in S})
         /\ SumFunctionOnSet(e, S) = SumFunctionOnSet(f, {b[x] : x \in S})
<1> DEFINE image(t) == {b[x] : x \in t}
           P == {t \in SUBSET S : SumFunctionOnSet(e, t) = SumFunctionOnSet(f, image(t))}
           B == image(S)
<1>1. IsFiniteSet(B)
  <2> DEFINE k == [x \in S |-> b[x]]
  <2>1. k \in Surjection(S, B)
    BY DEF Surjection
  <2> QED  BY <2>1, FS_Surjection
<1>2. /\ SumFunctionOnSet(e, {}) = 0
      /\ \A t \in SUBSET S : \A x \in S \ t :
           SumFunctionOnSet(e, t \union {x}) = SumFunctionOnSet(e, t) + e[x]
  BY SumLaws
<1>3. /\ SumFunctionOnSet(f, {}) = 0
      /\ \A t \in SUBSET B : \A x \in B \ t :
           SumFunctionOnSet(f, t \union {x}) = SumFunctionOnSet(f, t) + f[x]
  <2>1. \A y \in B : f[y] \in Int
    OBVIOUS
  <2> HIDE DEF B
  <2> QED  BY <1>1, <2>1, SumLaws
<1>4. {} \in P
  <2>1. image({}) = {}
    OBVIOUS
  <2> QED  BY <1>2, <1>3, <2>1
<1>5. ASSUME NEW t \in SUBSET S, NEW x \in S, t \in P, x \notin t PROVE t \union {x} \in P
  <2>1. image(t) \in SUBSET B /\ b[x] \in B \ image(t) /\ image(t \union {x}) = image(t) \union {b[x]}
    BY <1>5
  <2>2. SumFunctionOnSet(f, image(t) \union {b[x]}) = SumFunctionOnSet(f, image(t)) + f[b[x]]
    <3> HIDE DEF B, image
    <3> QED  BY <1>3, <2>1
  <2>3. SumFunctionOnSet(e, t \union {x}) = SumFunctionOnSet(e, t) + e[x]
    BY <1>2, <1>5
  <2>4. SumFunctionOnSet(e, t \union {x}) = SumFunctionOnSet(f, image(t \union {x}))
    BY <1>5, <2>1, <2>2, <2>3
  <2> QED  BY <2>4
<1>6. S \in P
  <2> HIDE DEF P
  <2> QED  BY <1>4, <1>5, SubsetInduction
<1> QED  BY <1>1, <1>6

(* Division with remainder.                                                *)
LEMMA DivisionHolds ==
  ASSUME NEW x \in Int, NEW n \in Nat \ {0}
  PROVE  x = n * (x \div n) + (x % n) /\ x % n \in 0 .. n - 1 /\ x \div n \in Int
<1>1. x \div n \in Int /\ x % n \in 0 .. n - 1
  OBVIOUS
<1>2. x = n * (x \div n) + (x % n)
  OBVIOUS
<1> QED  BY <1>1, <1>2

(* A number times a positive one is at least that one.                     *)
LEMMA MultiplesApart ==
  ASSUME NEW n \in Nat \ {0}, NEW d \in Int, n * d < n, -n < n * d
  PROVE  d = 0
<1>1. CASE d >= 1
  <2>1. n * d >= n * 1
    BY <1>1
  <2> QED  BY <2>1
<1>2. CASE d <= -1
  <2>1. n * d <= n * (-1)
    BY <1>2
  <2> QED  BY <2>1
<1> QED  BY <1>1, <1>2

(* A quotient and a remainder below the divisor are those of the division. *)
LEMMA Remainder ==
  ASSUME NEW n \in Nat \ {0}, NEW q \in Int, NEW r \in 0 .. n - 1
  PROVE  (n * q + r) % n = r /\ (n * q + r) \div n = q
<1> DEFINE x == n * q + r
           p == x \div n
           t == x % n
<1>0. x \in Int
  OBVIOUS
<1>1. x = n * p + t /\ t \in 0 .. n - 1 /\ p \in Int
  <2> HIDE DEF x
  <2> QED  BY <1>0, DivisionHolds
<1>2. n * q + r = n * p + t
  BY <1>1
<1> HIDE DEF p, t, x
<1>3. n * (q - p) = n * q - n * p
  BY <1>1
<1>4. n * q \in Int /\ n * p \in Int
  BY <1>1
<1>5. n * (q - p) = t - r
  BY <1>1, <1>2, <1>3, <1>4
<1>6. q - p = 0
  BY <1>1, <1>5, MultiplesApart
<1>7. q = p
  BY <1>1, <1>6
<1>8. t = r
  BY <1>1, <1>2, <1>4, <1>7
<1> QED  BY <1>7, <1>8 DEF x, p, t

(* An addend may be reduced before the sum is.                             *)
LEMMA ModAdds ==
  ASSUME NEW a \in Int, NEW b \in Int, NEW n \in Nat \ {0}
  PROVE  (a + (b % n)) % n = (a + b) % n
<1> DEFINE p == b \div n
           r == b % n
           x == a + r
           q == x \div n
           t == x % n
<1>1. b = n * p + r /\ r \in 0 .. n - 1 /\ p \in Int
  BY DivisionHolds
<1>2. x \in Int
  BY <1>1
<1>3. x = n * q + t /\ t \in 0 .. n - 1 /\ q \in Int
  <2> HIDE DEF x
  <2> QED  BY <1>2, DivisionHolds
<1> HIDE DEF p, q, t, r
<1>4. a + b = n * (p + q) + t
  <2>1. n * (p + q) = n * p + n * q /\ n * p \in Int /\ n * q \in Int
    BY <1>1, <1>3
  <2> QED  BY <1>1, <1>3, <2>1
<1>5. (a + b) % n = t
  <2>1. p + q \in Int
    BY <1>1, <1>3
  <2>2. (n * (p + q) + t) % n = t
    BY <1>3, <2>1, Remainder
  <2> QED  BY <1>4, <2>2
<1> QED  BY <1>5 DEF t, x, r

(* Powers of two grow.                                                     *)
LEMMA PowersGrow ==
  /\ \A j, k \in Nat : j < k => Pow2[j] < Pow2[k]
  /\ \A k \in Nat : Pow2[k] \in Nat /\ Pow2[k] >= 1
<1>1. \A k \in Nat : Pow2[k] \in Nat /\ Pow2[k] >= 1 /\ Pow2[k] < Pow2[k + 1]
  BY PowersDouble
<1>2. ASSUME NEW j \in Nat PROVE \A k \in Nat : j < k => Pow2[j] < Pow2[k]
  <2> DEFINE N == {d \in Nat : Pow2[j] < Pow2[j + d + 1]}
  <2>1. 0 \in N
    BY <1>1
  <2>2. ASSUME NEW d \in Nat, d \in N PROVE d + 1 \in N
    <3>1. Pow2[j + d + 1] < Pow2[(j + d + 1) + 1] /\ j + (d + 1) + 1 = (j + d + 1) + 1
      BY <1>1
    <3>2. Pow2[j] \in Nat /\ Pow2[j + d + 1] \in Nat /\ Pow2[(j + d + 1) + 1] \in Nat
      BY <1>1
    <3>3. Pow2[j] < Pow2[j + d + 1]
      BY <2>2
    <3>4. Pow2[j] < Pow2[j + (d + 1) + 1]
      BY <3>1, <3>2, <3>3
    <3> QED  BY <3>4
  <2>3. Nat \subseteq N
    <3> HIDE DEF N
    <3> QED  BY <2>1, <2>2, SetInduction
  <2>4. ASSUME NEW k \in Nat, j < k PROVE Pow2[j] < Pow2[k]
    <3>1. k - j - 1 \in Nat /\ j + (k - j - 1) + 1 = k
      BY <2>4
    <3>2. k - j - 1 \in N
      BY <2>3, <3>1
    <3> QED  BY <3>1, <3>2
  <2> QED  BY <2>4
<1> QED  BY <1>1, <1>2

(* The powers of two below a bound are counted by the first exponent that  *)
(* reaches it.                                                             *)
LEMMA PowersBelow ==
  ASSUME NEW n \in Nat, NEW b \in Nat, Pow2[b] >= n, \A k \in 0 .. b - 1 : Pow2[k] < n
  PROVE  Cardinality({p \in PowersOfTwo(n) : p < n}) = b
<1> DEFINE S == {p \in PowersOfTwo(n) : p < n}
           f == [k \in 1 .. b |-> Pow2[k - 1]]
<1>1. ASSUME NEW k \in 1 .. b PROVE f[k] \in S
  <2>1. k - 1 \in 0 .. b - 1 /\ k - 1 \in Nat
    OBVIOUS
  <2>2. Pow2[k - 1] < n /\ Pow2[k - 1] > k - 1 /\ Pow2[k - 1] \in Nat
    BY <2>1, PowersExceed, PowersGrow
  <2>3. k - 1 \in 0 .. n
    BY <2>1, <2>2
  <2> QED  BY <2>2, <2>3 DEF PowersOfTwo
<1>2. ASSUME NEW p \in S PROVE \E k \in 1 .. b : f[k] = p
  <2>1. PICK k \in 0 .. n : p = Pow2[k]
    BY DEF PowersOfTwo
  <2>2. k < b
    <3> SUFFICES ASSUME ~(k < b) PROVE FALSE
      OBVIOUS
    <3>1. k = b \/ b < k
      OBVIOUS
    <3>2. Pow2[k] >= Pow2[b]
      BY <3>1, PowersGrow
    <3>3. Pow2[k] < n
      BY <2>1
    <3> QED  BY <3>2, <3>3, PowersGrow
  <2>3. k + 1 \in 1 .. b /\ (k + 1) - 1 = k
    BY <2>2
  <2>4. f[k + 1] = p
    BY <2>1, <2>3
  <2> QED  BY <2>3, <2>4
<1>3. ASSUME NEW j \in 1 .. b, NEW k \in 1 .. b, f[j] = f[k] PROVE j = k
  <2>1. j - 1 \in Nat /\ k - 1 \in Nat /\ Pow2[j - 1] = Pow2[k - 1]
    BY <1>3
  <2>2. ~(j - 1 < k - 1) /\ ~(k - 1 < j - 1)
    BY <2>1, PowersGrow
  <2> QED  BY <2>1, <2>2
<1>4. f \in Bijection(1 .. b, S)
  <2>1. f = [k \in 1 .. b |-> f[k]]
    OBVIOUS
  <2> HIDE DEF f, S
  <2>2. f \in [1 .. b -> S]
    BY <1>1, <2>1
  <2>3. f \in Injection(1 .. b, S)
    BY <1>3, <2>2 DEF Injection, IsInjective
  <2>4. f \in Surjection(1 .. b, S)
    BY <1>2, <2>2 DEF Surjection
  <2> QED  BY <2>3, <2>4 DEF Bijection
<1> HIDE DEF S, f
<1>5. ExistsBijection(1 .. b, S)
  BY <1>4 DEF ExistsBijection
<1>6. Cardinality(S) = b
  BY <1>5, FS_CountingElements
<1> QED  BY <1>6 DEF S

(* A power of two has as many powers of two above 1 as its exponent.       *)
LEMMA PowersUpTo ==
  ASSUME NEW b \in Nat
  PROVE  Cardinality({p \in PowersOfTwo(Pow2[b]) : 1 < p /\ p <= Pow2[b]}) = b
<1> DEFINE S == {p \in PowersOfTwo(Pow2[b]) : 1 < p /\ p <= Pow2[b]}
           f == [k \in 1 .. b |-> Pow2[k]]
<1>1. ASSUME NEW k \in 1 .. b PROVE f[k] \in S
  <2>1. Pow2[0] < Pow2[k] /\ Pow2[0] = 1
    BY PowersGrow, PowersDouble
  <2>2. Pow2[k] <= Pow2[b]
    <3>1. k = b \/ k < b
      OBVIOUS
    <3> QED  BY <3>1, PowersGrow
  <2>3. k \in 0 .. Pow2[b]
    <3>1. b < Pow2[b] /\ Pow2[b] \in Nat
      BY PowersExceed, PowersGrow
    <3> QED  BY <3>1
  <2> QED  BY <2>1, <2>2, <2>3 DEF PowersOfTwo
<1>2. ASSUME NEW p \in S PROVE \E k \in 1 .. b : f[k] = p
  <2>1. PICK k \in 0 .. Pow2[b] : p = Pow2[k]
    BY DEF PowersOfTwo
  <2>2. k \in Nat /\ Pow2[b] \in Nat
    BY PowersGrow
  <2>3. k # 0
    BY <2>1, PowersDouble
  <2>4. ~(b < k)
    <3> SUFFICES ASSUME b < k PROVE FALSE
      OBVIOUS
    <3>1. Pow2[b] < Pow2[k]
      BY <2>2, PowersGrow
    <3> QED  BY <2>1, <2>2, <3>1, PowersGrow
  <2>5. k \in 1 .. b
    BY <2>2, <2>3, <2>4
  <2> QED  BY <2>1, <2>5
<1>3. ASSUME NEW j \in 1 .. b, NEW k \in 1 .. b, f[j] = f[k] PROVE j = k
  <2>1. ~(j < k) /\ ~(k < j)
    BY <1>3, PowersGrow
  <2> QED  BY <2>1
<1>4. f \in Bijection(1 .. b, S)
  <2>1. f = [k \in 1 .. b |-> f[k]]
    OBVIOUS
  <2> HIDE DEF f, S
  <2>2. f \in [1 .. b -> S]
    BY <1>1, <2>1
  <2>3. f \in Injection(1 .. b, S)
    BY <1>3, <2>2 DEF Injection, IsInjective
  <2>4. f \in Surjection(1 .. b, S)
    BY <1>2, <2>2 DEF Surjection
  <2> QED  BY <2>3, <2>4 DEF Bijection
<1> HIDE DEF S, f
<1>5. ExistsBijection(1 .. b, S)
  BY <1>4 DEF ExistsBijection
<1>6. Cardinality(S) = b
  BY <1>5, FS_CountingElements
<1> QED  BY <1>6 DEF S

(* Halving a power of two k times takes k from its exponent.               *)
LEMMA PowersHalve ==
  ASSUME NEW b \in Nat, NEW k \in 0 .. b
  PROVE  Pow2[b] \div Pow2[k] = Pow2[b - k]
<1> DEFINE N == {d \in Nat : Pow2[k + d] = Pow2[k] * Pow2[d]}
<1>0. k \in Nat /\ b - k \in Nat /\ k + (b - k) = b
  OBVIOUS
<1>1. 0 \in N
  BY PowersDouble, PowersGrow
<1>2. ASSUME NEW d \in Nat, d \in N PROVE d + 1 \in N
  <2>1. Pow2[k + (d + 1)] = 2 * Pow2[k + d] /\ Pow2[d + 1] = 2 * Pow2[d]
    <3>1. k + d \in Nat /\ k + (d + 1) = (k + d) + 1
      BY <1>0
    <3> QED  BY <3>1, PowersDouble
  <2>2. Pow2[k] \in Nat /\ Pow2[d] \in Nat /\ Pow2[k + d] = Pow2[k] * Pow2[d]
    BY <1>0, <1>2, PowersGrow
  <2>3. 2 * (Pow2[k] * Pow2[d]) = Pow2[k] * (2 * Pow2[d])
    BY <2>2
  <2> QED  BY <2>1, <2>2, <2>3
<1>3. b - k \in N
  <2>1. Nat \subseteq N
    <3> HIDE DEF N
    <3> QED  BY <1>1, <1>2, SetInduction
  <2> QED  BY <1>0, <2>1
<1>4. Pow2[b] = Pow2[k] * Pow2[b - k] + 0
  BY <1>0, <1>3, PowersGrow
<1>5. Pow2[k] \in Nat \ {0} /\ Pow2[b - k] \in Int /\ 0 \in 0 .. Pow2[k] - 1
  BY <1>0, PowersGrow
<1> HIDE DEF N
<1> QED  BY <1>4, <1>5, Remainder

(* The kernels that fold in shared memory and those that scan in it.       *)
Scanning == launch.kernel \in Scans \union {"segmented_scan"}
Limit == IF launch.kernel \in Scans THEN Planes ELSE Width
TreeFolds == launch.kernel \in UnitFolds /\ ~UsesPlanes

(* Which segment comes after which.                                        *)
Follows(prev, seg) ==
  \/ /\ TreeFolds /\ seg.op = "fold" /\ seg.s \in Nat \ {0} /\ 2 * seg.s <= Width
     /\ \/ prev.op = "load" /\ Width = 2 * seg.s
        \/ prev.op = "fold" /\ prev.s = 2 * seg.s
  \/ /\ Scanning /\ seg.op = "read" /\ seg.s \in Nat \ {0}
     /\ \/ prev.op = "load" /\ seg.s = 1
        \/ prev.op = "add" /\ seg.s = 2 * prev.s
  \/ Scanning /\ seg.op = "add" /\ seg.s \in Nat \ {0} /\ prev.op = "read" /\ prev.s = seg.s
  \/ /\ launch.kernel \in Scans /\ seg.op = "carry"
     /\ \/ prev.op = "load" /\ Planes <= 1
        \/ prev.op = "add" /\ 2 * prev.s >= Planes
  \/ Merging /\ seg.op = "scatter" /\ prev.op = "load"
  \/ /\ seg.op = "store"
     /\ \/ launch.kernel \in Scans /\ prev.op = "carry"
        \/ /\ launch.kernel = "segmented_scan"
           /\ \/ prev.op = "load" /\ Width <= 1
              \/ prev.op = "add" /\ 2 * prev.s >= Width
        \/ /\ TreeFolds
           /\ \/ prev.op = "load" /\ Width = 1
              \/ prev.op = "fold" /\ prev.s = 1
        \/ UsesPlanes /\ prev.op = "load"
        \/ Merging /\ prev.op = "scatter"

(* A program of a load, a body and a store.                                *)
Framed(body) == <<Seg("load", 0)>> \o body \o <<Seg("store", 0)>>

(* The positions of such a program.                                        *)
LEMMA FrameSteps ==
  ASSUME NEW body \in Seq(Segs)
  PROVE  /\ Len(Framed(body)) = Len(body) + 2
         /\ Framed(body)[1] = Seg("load", 0)
         /\ \A k \in 1 .. Len(body) : Framed(body)[k + 1] = body[k]
         /\ Framed(body)[Len(body) + 2] = Seg("store", 0)
<1> DEFINE first == <<Seg("load", 0)>>
           last == <<Seg("store", 0)>>
<1>1. first \in Seq(Segs) /\ last \in Seq(Segs) /\ Len(first) = 1 /\ Len(last) = 1
      /\ first[1] = Seg("load", 0) /\ last[1] = Seg("store", 0)
  BY DEF Seg, Segs, Ops
<1> HIDE DEF first, last
<1>2. first \o body \in Seq(Segs) /\ Len(first \o body) = Len(body) + 1
      /\ (first \o body)[1] = first[1]
      /\ \A k \in 1 .. Len(body) : (first \o body)[k + 1] = body[k]
  <2>1. /\ first \o body \in Seq(Segs) /\ Len(first \o body) = Len(first) + Len(body)
        /\ \A i \in 1 .. Len(first) + Len(body) :
             (first \o body)[i] = IF i <= Len(first) THEN first[i] ELSE body[i - Len(first)]
    BY <1>1, ConcatProperties
  <2>2. Len(body) \in Nat
    OBVIOUS
  <2>3. ASSUME NEW k \in 1 .. Len(body) PROVE (first \o body)[k + 1] = body[k]
    <3>1. k + 1 \in 1 .. Len(first) + Len(body) /\ ~(k + 1 <= Len(first)) /\ (k + 1) - Len(first) = k
      BY <1>1, <2>2
    <3> QED  BY <2>1, <3>1
  <2>4. (first \o body)[1] = first[1]
    BY <1>1, <2>1, <2>2
  <2>5. Len(first \o body) = Len(body) + 1
    BY <1>1, <2>1, <2>2
  <2> QED  BY <2>1, <2>3, <2>4, <2>5
<1>3. Framed(body) = (first \o body) \o last
  BY DEF Framed, first, last
<1> DEFINE front == first \o body
<1>4. Len(body) \in Nat /\ front \in Seq(Segs) /\ Len(front) = Len(body) + 1
  BY <1>2
<1>5. /\ Len(front \o last) = Len(front) + Len(last)
      /\ \A i \in 1 .. Len(front) + Len(last) :
           (front \o last)[i] = IF i <= Len(front) THEN front[i] ELSE last[i - Len(front)]
  <2> HIDE DEF front
  <2> QED  BY <1>1, <1>4, ConcatProperties
<1>6. Framed(body) = front \o last
  BY <1>3
<1>7. front[1] = first[1] /\ \A k \in 1 .. Len(body) : front[k + 1] = body[k]
  BY <1>2
<1> HIDE DEF front
<1>8. Len(Framed(body)) = Len(body) + 2
  BY <1>1, <1>4, <1>5, <1>6
<1>9. Framed(body)[1] = Seg("load", 0)
  BY <1>1, <1>4, <1>5, <1>6, <1>7
<1>10. ASSUME NEW k \in 1 .. Len(body) PROVE Framed(body)[k + 1] = body[k]
  BY <1>1, <1>4, <1>5, <1>6, <1>7
<1>11. Framed(body)[Len(body) + 2] = Seg("store", 0)
  <2>1. Len(body) + 2 \in 1 .. Len(front) + Len(last) /\ ~(Len(body) + 2 <= Len(front))
        /\ (Len(body) + 2) - Len(front) = 1
    BY <1>1, <1>4
  <2> QED  BY <1>1, <1>5, <1>6, <2>1
<1> QED  BY <1>8, <1>9, <1>10, <1>11

(* The folds halve the width down to 1.                                    *)
LEMMA HalvingsSteps ==
  ASSUME Launched
  PROVE  \E b \in Nat : /\ Width = Pow2[b] /\ Len(Halvings) = b
                        /\ \A k \in 1 .. b : Halvings[k] = Seg("fold", Pow2[b - k])
<1>1. PICK b \in Nat : Width = Pow2[b]
  BY GridIsSound DEF Powers
<1> DEFINE bits == Cardinality({p \in PowersOfTwo(Width) : 1 < p /\ p <= Width})
<1>2. bits = b
  BY <1>1, PowersUpTo
<1>3. Halvings = [k \in 1 .. bits |-> Seg("fold", Width \div Pow2[k])]
  BY DEF Halvings
<1> HIDE DEF bits
<1>4. Halvings = [k \in 1 .. b |-> Seg("fold", Width \div Pow2[k])]
  BY <1>2, <1>3
<1>5. ASSUME NEW k \in 1 .. b PROVE Halvings[k] = Seg("fold", Pow2[b - k])
  <2>1. Width \div Pow2[k] = Pow2[b - k]
    BY <1>1, PowersHalve
  <2> QED  BY <1>4, <2>1
<1>6. Len(Halvings) = b
  BY <1>4
<1> QED  BY <1>1, <1>5, <1>6

(* The strides of a scan double from 1 until they reach the limit.         *)
LEMMA DoublingsSteps ==
  ASSUME NEW limit \in Nat
  PROVE  \E b \in Nat : /\ Len(Doublings(limit)) = 2 * b /\ Pow2[b] >= limit /\ (b = 0 => limit <= 1)
                        /\ \A j \in 1 .. b :
                             /\ Doublings(limit)[2 * j - 1] = Seg("read", Pow2[j - 1])
                             /\ Doublings(limit)[2 * j] = Seg("add", Pow2[j - 1])
<1> DEFINE Reach == {k \in Nat : Pow2[k] >= limit}
<1>1. limit \in Reach
  BY PowersExceed, PowersGrow
<1>2. PICK b \in Reach : \A k \in Reach : b <= k
  BY <1>1, LeastElement
<1>3. b \in Nat /\ Pow2[b] >= limit
  BY <1>2
<1>4. \A k \in 0 .. b - 1 : Pow2[k] < limit
  <2>1. ASSUME NEW k \in 0 .. b - 1 PROVE Pow2[k] < limit
    <3>1. k \in Nat /\ k \notin Reach
      BY <1>2
    <3> QED  BY <3>1, PowersGrow
  <2> QED  BY <2>1
<1> DEFINE bits == Cardinality({p \in PowersOfTwo(limit) : p < limit})
<1>5. bits = b
  <2> HIDE DEF Reach
  <2> QED  BY <1>3, <1>4, PowersBelow
<1>6. Doublings(limit) = [k \in 1 .. 2 * bits |->
        Seg(IF k % 2 = 1 THEN "read" ELSE "add", Pow2[(k - 1) \div 2])]
  BY DEF Doublings
<1> HIDE DEF bits, Reach
<1>7. Doublings(limit) = [k \in 1 .. 2 * b |->
        Seg(IF k % 2 = 1 THEN "read" ELSE "add", Pow2[(k - 1) \div 2])]
  BY <1>5, <1>6
<1>8. ASSUME NEW j \in 1 .. b
      PROVE  /\ Doublings(limit)[2 * j - 1] = Seg("read", Pow2[j - 1])
             /\ Doublings(limit)[2 * j] = Seg("add", Pow2[j - 1])
  <2>1. /\ 2 * j - 1 \in 1 .. 2 * b /\ 2 * j \in 1 .. 2 * b
        /\ (2 * j - 1) % 2 = 1 /\ (2 * j) % 2 = 0
        /\ ((2 * j - 1) - 1) \div 2 = j - 1 /\ (2 * j - 1) \div 2 = j - 1
    BY <1>3
  <2> QED  BY <1>7, <2>1
<1>9. Len(Doublings(limit)) = 2 * b
  BY <1>3, <1>7
<1>10. b = 0 => limit <= 1
  BY <1>3, PowersDouble
<1> QED  BY <1>3, <1>8, <1>9, <1>10

(* A segment has its operation and its stride.                             *)
LEMMA SegFields == \A op, s : Seg(op, s).op = op /\ Seg(op, s).s = s
BY DEF Seg

(* A program begins with a load, ends with its only store, and every other *)
(* segment is one that may follow the one before.                          *)
Ordered(program) ==
  /\ Len(program) \in Nat /\ Len(program) >= 2
  /\ program[1] = Seg("load", 0) /\ program[Len(program)] = Seg("store", 0)
  /\ \A k \in 2 .. Len(program) : Follows(program[k - 1], program[k])
  /\ \A k \in 1 .. Len(program) - 1 : program[k].op # "store"

(* A body is ordered between a load and a store if its segments are.       *)
LEMMA FramesOrder ==
  ASSUME NEW body \in Seq(Segs), \A k \in 1 .. Len(body) : body[k].op # "store",
         Len(body) = 0 => Follows(Seg("load", 0), Seg("store", 0)),
         Len(body) > 0 => /\ Follows(Seg("load", 0), body[1])
                          /\ Follows(body[Len(body)], Seg("store", 0)),
         \A k \in 2 .. Len(body) : Follows(body[k - 1], body[k])
  PROVE  Ordered(Framed(body))
<1> DEFINE p == Framed(body)
<1>1. /\ Len(p) = Len(body) + 2 /\ p[1] = Seg("load", 0) /\ p[Len(body) + 2] = Seg("store", 0)
      /\ \A k \in 1 .. Len(body) : p[k + 1] = body[k]
      /\ Len(body) \in Nat
  BY FrameSteps
<1> HIDE DEF p
<1>2. ASSUME NEW k \in 2 .. Len(p) PROVE Follows(p[k - 1], p[k])
  <2>1. CASE k = 2 /\ Len(body) = 0
    BY <1>1, <2>1
  <2>2. CASE k = 2 /\ Len(body) > 0
    <3>1. p[2] = body[1]
      <4>1. 1 \in 1 .. Len(body) /\ 1 + 1 = 2
        BY <1>1, <2>2
      <4> QED  BY <1>1, <4>1
    <3> QED  BY <1>1, <2>2, <3>1
  <2>3. CASE k > 2 /\ k = Len(p)
    <3>1. Len(body) \in 1 .. Len(body) /\ Len(body) + 1 = k - 1 /\ k = Len(body) + 2
      BY <1>1, <2>3
    <3>2. p[k - 1] = body[Len(body)] /\ p[k] = Seg("store", 0)
      BY <1>1, <3>1
    <3> QED  BY <1>1, <3>1, <3>2
  <2>4. CASE k > 2 /\ k < Len(p)
    <3>1. k - 1 \in 2 .. Len(body) /\ k - 1 \in 1 .. Len(body) /\ k - 2 \in 1 .. Len(body)
          /\ (k - 1) + 1 = k /\ (k - 2) + 1 = k - 1 /\ (k - 1) - 1 = k - 2
      BY <1>1, <2>4
    <3>2. p[k] = body[k - 1] /\ p[k - 1] = body[k - 2]
      BY <1>1, <3>1
    <3>3. Follows(body[k - 2], body[k - 1])
      BY <3>1
    <3> QED  BY <3>2, <3>3
  <2> QED  BY <1>1, <2>1, <2>2, <2>3, <2>4
<1>3. ASSUME NEW k \in 1 .. Len(p) - 1 PROVE p[k].op # "store"
  <2>1. CASE k = 1
    BY <1>1, <2>1 DEF Seg
  <2>2. CASE k # 1
    <3>1. k - 1 \in 1 .. Len(body) /\ (k - 1) + 1 = k
      BY <1>1, <2>2
    <3> QED  BY <1>1, <3>1
  <2> QED  BY <2>1, <2>2
<1> QED  BY <1>1, <1>2, <1>3 DEF Ordered, p

(* The folds of a reduction are in order.                                  *)
LEMMA FoldsOrdered ==
  ASSUME Launched, TreeFolds
  PROVE  Ordered(Framed(Halvings))
<1>1. Width \in Nat \ {0} /\ Halvings \in Seq(Segs)
  BY GridIsSound, HalvingsType
<1>2. PICK b \in Nat : /\ Width = Pow2[b] /\ Len(Halvings) = b
                       /\ \A k \in 1 .. b : Halvings[k] = Seg("fold", Pow2[b - k])
  BY HalvingsSteps
<1>3. ASSUME NEW k \in 1 .. b
      PROVE  /\ Halvings[k].op = "fold" /\ Halvings[k].s = Pow2[b - k]
             /\ Pow2[b - k] \in Nat \ {0} /\ b - k \in Nat /\ Pow2[(b - k) + 1] = 2 * Pow2[b - k]
             /\ Pow2[(b - k) + 1] <= Width
  <2>1. b - k \in Nat
    OBVIOUS
  <2>1a. Pow2[(b - k) + 1] <= Width
    <3>1. (b - k) + 1 \in Nat /\ ((b - k) + 1 < b \/ (b - k) + 1 = b)
      OBVIOUS
    <3>2. Pow2[b] \in Nat /\ Pow2[(b - k) + 1] \in Nat
      BY <3>1, PowersGrow
    <3>3. CASE (b - k) + 1 < b
      <4>1. Pow2[(b - k) + 1] < Pow2[b]
        BY <3>1, <3>3, PowersGrow
      <4> QED  BY <1>2, <3>2, <4>1
    <3>4. CASE (b - k) + 1 = b
      BY <1>2, <3>2, <3>4
    <3> QED  BY <3>1, <3>3, <3>4
  <2>2. Pow2[b - k] \in Nat \ {0} /\ Pow2[(b - k) + 1] = 2 * Pow2[b - k]
    BY <2>1, PowersDouble
  <2>3. Halvings[k] = Seg("fold", Pow2[b - k])
    BY <1>2
  <2> QED  BY <2>1, <2>1a, <2>2, <2>3, SegFields
<1>4. \A k \in 1 .. Len(Halvings) : Halvings[k].op # "store"
  BY <1>2, <1>3
<1>5. CASE b = 0
  <2>1. Width = 1
    BY <1>2, <1>5, PowersDouble
  <2>2. Follows(Seg("load", 0), Seg("store", 0))
    BY <2>1, SegFields DEF Follows
  <2>3. Len(Halvings) = 0 /\ \A k \in 2 .. Len(Halvings) : Follows(Halvings[k - 1], Halvings[k])
    BY <1>2, <1>5
  <2>4. ~(Len(Halvings) > 0)
    BY <2>3
  <2> QED  BY <1>1, <1>4, <2>2, <2>3, <2>4, FramesOrder
<1>6. CASE b # 0
  <2>1. Follows(Seg("load", 0), Halvings[1])
    <3>1. 1 \in 1 .. b /\ (b - 1) + 1 = b
      BY <1>6
    <3>2. Halvings[1].op = "fold" /\ Halvings[1].s \in Nat \ {0} /\ Width = 2 * Halvings[1].s
          /\ 2 * Halvings[1].s <= Width
      BY <1>2, <1>3, <3>1
    <3> QED  BY <3>2 DEF Follows, Seg
  <2>2. Follows(Halvings[Len(Halvings)], Seg("store", 0))
    <3>1. b \in 1 .. b /\ b - b = 0
      BY <1>6
    <3>2. Halvings[b].op = "fold" /\ Halvings[b].s = 1
      BY <1>3, <3>1, PowersDouble
    <3> QED  BY <1>2, <3>2 DEF Follows, Seg
  <2>3. ASSUME NEW k \in 2 .. Len(Halvings) PROVE Follows(Halvings[k - 1], Halvings[k])
    <3>1. k \in 1 .. b /\ k - 1 \in 1 .. b /\ (b - k) + 1 = b - (k - 1)
      BY <1>2
    <3>2. /\ Halvings[k].op = "fold" /\ Halvings[k].s \in Nat \ {0}
          /\ Halvings[k - 1].op = "fold" /\ Halvings[k - 1].s = 2 * Halvings[k].s
          /\ 2 * Halvings[k].s <= Width
      BY <1>3, <3>1
    <3> QED  BY <3>2 DEF Follows
  <2>4. Len(Halvings) > 0
    BY <1>2, <1>6
  <2> QED  BY <1>1, <1>4, <2>1, <2>2, <2>3, <2>4, FramesOrder
<1> QED  BY <1>5, <1>6

(* So are the reads and additions of a scan, up to what comes after them.  *)
ScanSteps(limit) ==
  LET d == Doublings(limit)
  IN /\ \A k \in 1 .. Len(d) : d[k].op \in {"read", "add"}
     /\ Len(d) > 0 => Follows(Seg("load", 0), d[1]) /\ d[Len(d)].op = "add" /\ 2 * d[Len(d)].s >= limit
     /\ Len(d) = 0 => limit <= 1
     /\ \A k \in 2 .. Len(d) : Follows(d[k - 1], d[k])

(* The steps of a scan come in the order Follows names.                    *)
LEMMA DoublingsOrdered ==
  ASSUME Scanning, NEW limit \in Nat
  PROVE  ScanSteps(limit)
<1> DEFINE d == Doublings(limit)
<1>1. PICK b \in Nat : /\ Len(d) = 2 * b /\ Pow2[b] >= limit /\ (b = 0 => limit <= 1)
                       /\ \A j \in 1 .. b : /\ d[2 * j - 1] = Seg("read", Pow2[j - 1])
                                            /\ d[2 * j] = Seg("add", Pow2[j - 1])
  BY DoublingsSteps
<1> HIDE DEF d
<1>2. ASSUME NEW j \in 1 .. b
      PROVE  /\ d[2 * j - 1].op = "read" /\ d[2 * j - 1].s = Pow2[j - 1]
             /\ d[2 * j].op = "add" /\ d[2 * j].s = Pow2[j - 1]
             /\ Pow2[j - 1] \in Nat \ {0} /\ Pow2[j] = 2 * Pow2[j - 1]
  <2>1. j - 1 \in Nat /\ (j - 1) + 1 = j
    OBVIOUS
  <2>2. Pow2[j - 1] \in Nat \ {0} /\ Pow2[j] = 2 * Pow2[j - 1]
    BY <2>1, PowersDouble
  <2>3. d[2 * j - 1] = Seg("read", Pow2[j - 1]) /\ d[2 * j] = Seg("add", Pow2[j - 1])
    BY <1>1
  <2> QED  BY <2>2, <2>3, SegFields
<1>3. ASSUME NEW k \in 1 .. Len(d)
      PROVE  \E j \in 1 .. b : k = 2 * j - 1 \/ k = 2 * j
  <2>1. CASE k % 2 = 1
    <3>1. (k + 1) \div 2 \in 1 .. b /\ k = 2 * ((k + 1) \div 2) - 1
      BY <1>1, <2>1
    <3> QED  BY <3>1
  <2>2. CASE k % 2 = 0
    <3>1. k \div 2 \in 1 .. b /\ k = 2 * (k \div 2)
      BY <1>1, <2>2
    <3> QED  BY <3>1
  <2> QED  BY <1>1, <2>1, <2>2
<1>4. ASSUME NEW k \in 1 .. Len(d) PROVE d[k].op \in {"read", "add"}
  <2>1. PICK j \in 1 .. b : k = 2 * j - 1 \/ k = 2 * j
    BY <1>3
  <2>2. d[2 * j - 1].op = "read" /\ d[2 * j].op = "add"
    BY <1>2
  <2> QED  BY <2>1, <2>2
<1>5. ASSUME Len(d) > 0
      PROVE  Follows(Seg("load", 0), d[1]) /\ d[Len(d)].op = "add" /\ 2 * d[Len(d)].s >= limit
  <2>1. 1 \in 1 .. b /\ b \in 1 .. b /\ 2 * 1 - 1 = 1 /\ 1 - 1 = 0
    BY <1>1, <1>5
  <2>2. d[1].op = "read" /\ d[1].s = 1
    BY <1>2, <2>1, PowersDouble
  <2>3. Follows(Seg("load", 0), d[1])
    BY <2>2 DEF Follows, Seg
  <2>4. d[2 * b].op = "add" /\ 2 * d[2 * b].s = Pow2[b]
    BY <1>2, <2>1
  <2> QED  BY <1>1, <2>3, <2>4
<1>6. Len(d) = 0 => limit <= 1
  BY <1>1
<1>7. ASSUME NEW k \in 2 .. Len(d) PROVE Follows(d[k - 1], d[k])
  <2>1. k \in 1 .. Len(d)
    BY <1>1
  <2>2. PICK j \in 1 .. b : k = 2 * j - 1 \/ k = 2 * j
    BY <1>3, <2>1
  <2>3. CASE k = 2 * j
    <3>1. k - 1 = 2 * j - 1
      BY <2>3
    <3>2. d[k].op = "add" /\ d[k - 1].op = "read" /\ d[k - 1].s = d[k].s /\ d[k].s \in Nat \ {0}
      BY <1>2, <2>3, <3>1
    <3> QED  BY <3>2 DEF Follows
  <2>4. CASE k = 2 * j - 1
    <3>1. j - 1 \in 1 .. b /\ k - 1 = 2 * (j - 1)
      BY <2>4
    <3>2. /\ d[k].op = "read" /\ d[k].s = Pow2[j - 1] /\ d[k].s \in Nat \ {0}
          /\ d[k - 1].op = "add" /\ d[k - 1].s = Pow2[(j - 1) - 1]
          /\ Pow2[j - 1] = 2 * Pow2[(j - 1) - 1]
      BY <1>2, <2>4, <3>1
    <3>3. d[k].s = 2 * d[k - 1].s
      BY <3>2
    <3> QED  BY <3>2, <3>3 DEF Follows
  <2> QED  BY <2>2, <2>3, <2>4
<1> QED  BY <1>4, <1>5, <1>6, <1>7 DEF ScanSteps, d

(* The kernels' bodies do what they should between a load and a store.     *)
LEMMA ScansOrdered ==
  ASSUME Launched
  PROVE  /\ launch.kernel \in Scans => Ordered(Framed(Append(Doublings(Planes), Seg("carry", 0))))
         /\ launch.kernel = "segmented_scan" => Ordered(Framed(Doublings(Width)))
<1>1. Planes \in Nat /\ Width \in Nat
  BY GridIsSound DEF Planes, CeilDiv
<1>2. ASSUME launch.kernel = "segmented_scan" PROVE Ordered(Framed(Doublings(Width)))
  <2> DEFINE d == Doublings(Width)
  <2>1. d \in Seq(Segs)
    BY <1>1, DoublingsType
  <2>2. Scanning
    BY <1>2 DEF Scanning
  <2>3. /\ \A k \in 1 .. Len(d) : d[k].op \in {"read", "add"}
        /\ Len(d) > 0 => Follows(Seg("load", 0), d[1]) /\ d[Len(d)].op = "add" /\ 2 * d[Len(d)].s >= Width
        /\ Len(d) = 0 => Width <= 1
        /\ \A k \in 2 .. Len(d) : Follows(d[k - 1], d[k])
    BY <1>1, <2>2, DoublingsOrdered DEF ScanSteps
  <2> HIDE DEF d
  <2>4. Len(d) = 0 => Follows(Seg("load", 0), Seg("store", 0))
    BY <1>2, <2>3, SegFields DEF Follows
  <2>5. Len(d) > 0 => Follows(d[Len(d)], Seg("store", 0))
    BY <1>2, <2>3, SegFields DEF Follows
  <2>6. \A k \in 1 .. Len(d) : d[k].op # "store"
    BY <2>3
  <2>7. Ordered(Framed(d))
    BY <2>1, <2>3, <2>4, <2>5, <2>6, FramesOrder
  <2> QED  BY <2>7 DEF d
<1>3. ASSUME launch.kernel \in Scans
      PROVE  Ordered(Framed(Append(Doublings(Planes), Seg("carry", 0))))
  <2> DEFINE d == Doublings(Planes)
             c == Seg("carry", 0)
             body == Append(d, c)
  <2>1. d \in Seq(Segs) /\ c \in Segs
    <3>1. c \in Segs
      BY DEF Seg, Segs, Ops
    <3> QED  BY <1>1, <3>1, DoublingsType
  <2>2. Scanning
    BY <1>3 DEF Scanning
  <2>3. /\ \A k \in 1 .. Len(d) : d[k].op \in {"read", "add"}
        /\ Len(d) > 0 => Follows(Seg("load", 0), d[1]) /\ d[Len(d)].op = "add" /\ 2 * d[Len(d)].s >= Planes
        /\ Len(d) = 0 => Planes <= 1
        /\ \A k \in 2 .. Len(d) : Follows(d[k - 1], d[k])
    BY <1>1, <2>2, DoublingsOrdered DEF ScanSteps
  <2>4. c.op = "carry"
    BY SegFields
  <2> HIDE DEF d, c
  <2>5. /\ body \in Seq(Segs) /\ Len(body) = Len(d) + 1 /\ Len(d) \in Nat
        /\ body[Len(d) + 1] = c
    BY <2>1
  <2>5a. ASSUME NEW k \in 1 .. Len(d) PROVE body[k] = d[k]
    BY <2>1
  <2> HIDE DEF body
  <2>6. Len(d) = 0 => Follows(Seg("load", 0), c)
    BY <1>3, <2>3, <2>4, SegFields DEF Follows
  <2>7. Len(d) > 0 => Follows(d[Len(d)], c)
    BY <1>3, <2>3, <2>4, SegFields DEF Follows
  <2>8. Follows(body[Len(body)], Seg("store", 0))
    BY <1>3, <2>4, <2>5, SegFields DEF Follows
  <2>9. ASSUME NEW k \in 2 .. Len(body) PROVE Follows(body[k - 1], body[k])
    <3>1. CASE k = Len(body)
      <4>1. k - 1 = Len(d) /\ k - 1 \in 1 .. Len(d) /\ Len(d) > 0
        BY <2>5, <3>1
      <4>2. body[k - 1] = d[Len(d)] /\ body[k] = c
        BY <2>5, <2>5a, <3>1, <4>1
      <4> QED  BY <2>7, <4>1, <4>2
    <3>2. CASE k # Len(body)
      <4>1. k \in 2 .. Len(d) /\ k - 1 \in 1 .. Len(d) /\ k \in 1 .. Len(d)
        BY <2>5, <3>2
      <4>2. body[k - 1] = d[k - 1] /\ body[k] = d[k]
        BY <2>5a, <4>1
      <4> QED  BY <2>3, <4>1, <4>2
    <3> QED  BY <3>1, <3>2
  <2>10. Follows(Seg("load", 0), body[1])
    <3>1. CASE Len(d) = 0
      BY <2>5, <2>6, <3>1
    <3>2. CASE Len(d) > 0
      <4>1. 1 \in 1 .. Len(d)
        BY <2>5, <3>2
      <4> QED  BY <2>3, <2>5a, <3>2, <4>1
    <3> QED  BY <2>5, <3>1, <3>2
  <2>11. ASSUME NEW k \in 1 .. Len(body) PROVE body[k].op # "store"
    <3>1. CASE k = Len(d) + 1
      BY <2>4, <2>5, <3>1
    <3>2. CASE k # Len(d) + 1
      <4>1. k \in 1 .. Len(d)
        BY <2>5, <3>2
      <4> QED  BY <2>3, <2>5a, <4>1
    <3> QED  BY <3>1, <3>2
  <2>12. Len(body) # 0
    BY <2>5
  <2>13. Ordered(Framed(body))
    BY <2>5, <2>8, <2>9, <2>10, <2>11, <2>12, FramesOrder
  <2> QED  BY <2>13 DEF body, d, c
<1> QED  BY <1>2, <1>3

(* Every kernel's program is in order.                                     *)
LEMMA ProgramsAreOrdered ==
  ASSUME Launched
  PROVE  Ordered(Program)
<1>1. launch.kernel \in Kernels
  BY RunsAssumption DEF Launched
<1> DEFINE body ==
        CASE launch.kernel \in Scans -> Append(Doublings(Planes), Seg("carry", 0))
          [] launch.kernel = "segmented_scan" -> Doublings(Width)
          [] launch.kernel = "partition_update_lds" -> <<Seg("scatter", 0)>>
          [] UsesPlanes -> <<>>
          [] OTHER -> Halvings
<1>2. Program = Framed(body)
  BY DEF Program, Framed
<1> HIDE DEF body
<1>3. CASE launch.kernel \in Scans
  <2>1. body = Append(Doublings(Planes), Seg("carry", 0))
    BY <1>3 DEF body, Scans, BinScans, PrefixSums, UsesPlanes, PlaneFolds
  <2> QED  BY <1>2, <1>3, <2>1, ScansOrdered
<1>4. CASE launch.kernel = "segmented_scan"
  <2>1. body = Doublings(Width)
    BY <1>4 DEF body, Scans, BinScans, PrefixSums, UsesPlanes, PlaneFolds
  <2> QED  BY <1>2, <1>4, <2>1, ScansOrdered
<1>5. CASE launch.kernel = "partition_update_lds"
  <2>1. body = <<Seg("scatter", 0)>>
    BY <1>5 DEF body, Scans, BinScans, PrefixSums, UsesPlanes, PlaneFolds
  <2>2. Follows(Seg("load", 0), Seg("scatter", 0)) /\ Follows(Seg("scatter", 0), Seg("store", 0))
    BY <1>5, SegFields DEF Follows, Merging
  <2> DEFINE b == <<Seg("scatter", 0)>>
  <2>3. b \in Seq(Segs) /\ Len(b) = 1 /\ b[1] = Seg("scatter", 0)
    BY DEF Seg, Segs, Ops
  <2> HIDE DEF b
  <2>4. \A k \in 1 .. Len(b) : b[k].op # "store"
    BY <2>3, SegFields
  <2>5. \A k \in 2 .. Len(b) : Follows(b[k - 1], b[k])
    BY <2>3
  <2>6. Len(b) # 0 /\ Follows(Seg("load", 0), b[1]) /\ Follows(b[Len(b)], Seg("store", 0))
    BY <2>2, <2>3
  <2>7. Ordered(Framed(b))
    BY <2>3, <2>4, <2>5, <2>6, FramesOrder
  <2> QED  BY <1>2, <2>1, <2>7 DEF b
<1>6. CASE UsesPlanes
  <2>1. body = <<>>
    BY <1>6 DEF body, Scans, BinScans, PrefixSums, UsesPlanes, PlaneFolds
  <2>2. Follows(Seg("load", 0), Seg("store", 0))
    BY <1>6, SegFields DEF Follows
  <2> DEFINE b == <<>>
  <2>3. b \in Seq(Segs) /\ Len(b) = 0
    OBVIOUS
  <2> HIDE DEF b
  <2>4. /\ \A k \in 1 .. Len(b) : b[k].op # "store"
        /\ \A k \in 2 .. Len(b) : Follows(b[k - 1], b[k])
        /\ ~(Len(b) > 0)
    BY <2>3
  <2>5. Ordered(Framed(b))
    BY <2>2, <2>3, <2>4, FramesOrder
  <2> QED  BY <1>2, <2>1, <2>5 DEF b
<1>7. CASE /\ launch.kernel \notin Scans /\ launch.kernel # "segmented_scan"
           /\ launch.kernel # "partition_update_lds" /\ ~UsesPlanes
  <2>1. body = Halvings
    BY <1>7 DEF body
  <2>2. TreeFolds
    BY <1>1, <1>7 DEF TreeFolds, UnitFolds
  <2> QED  BY <1>2, <2>1, <2>2, FoldsOrdered
<1> QED  BY <1>3, <1>4, <1>5, <1>6, <1>7

-----------------------------------------------------------------------------
(* What a launch has computed at every moment. *)

(* The items of the input a unit stands for, and those of several units.   *)
Item(cube, u) == IF launch.kernel \in BinScans THEN BinCell(cube, u) ELSE Abs(cube, u)
Stands(cube, u) == IF launch.kernel \in BinScans THEN u < launch.bins ELSE Abs(cube, u) < Items
Covers(cube, u) ==
  IF launch.kernel \in Searches THEN GridItems(cube, u)
  ELSE IF launch.kernel \in SegmentFolds THEN SegmentItems(cube, u)
  ELSE {i \in {Item(cube, u)} : Stands(cube, u)}
Covered(cube, V) == UNION {Covers(cube, v) : v \in V}

(* The fold of a set of items.                                             *)
Folding(C) == IF launch.kernel \in Searches THEN BestOf(C) ELSE SumOver(C)

(* A fold of stride s leaves in slot u the units that are u modulo s.      *)
Class(u, s) == {v \in Units : v % s = u}

(* A scan of stride s leaves in slot p the last s lanes of the scan up to  *)
(* p: planes, or units for the segmented scan, which forgets what lies     *)
(* before the last head.                                                   *)
LaneOf(v) == IF SegmentedScan THEN v ELSE PlaneOf(v)
Behind(p, w) == {v \in Units : p - w < LaneOf(v) /\ LaneOf(v) <= p}
Begins(cube, u) == Abs(cube, u) < Items /\ launch.heads[Abs(cube, u)]
SinceHead(cube, p, w) == {v \in Behind(p, w) : \A h \in v + 1 .. p : ~Begins(cube, h)}
Window(cube, p, w) ==
  IF SegmentedScan
  THEN [val |-> SumOver(Covered(cube, SinceHead(cube, p, w))),
        head |-> \E v \in Behind(p, w) : Begins(cube, v)]
  ELSE SumOver(Covered(cube, Behind(p, w)))

(* The slots a scan may read: those of planes with a last lane.            *)
Whole(p) == IF launch.kernel \in Scans THEN (p + 1) * Plane <= Width ELSE p < Width

(* What a slot and a register of a cube hold after a segment.              *)
Right(cube, seg, s, x) ==
  CASE seg.op = "load" -> \A w \in Units : OwnsSlot(w) /\ SlotOf(w) = s => x = Loaded(cube, w)
    [] seg.op = "fold" -> s < seg.s => x = Folding(Covered(cube, Class(s, seg.s)))
    [] seg.op = "read" -> Whole(s) => x = Window(cube, s, seg.s)
    [] seg.op = "add" -> Whole(s) => x = Window(cube, s, 2 * seg.s)
    [] OTHER -> TRUE
RightReg(cube, seg, u, x) ==
  CASE seg.op = "read" -> Drives(u, seg.s) => x = Window(cube, u - seg.s, seg.s)
    [] seg.op = "carry" -> x = SumOver(Covered(cube, {v \in Units : PlaneOf(v) < PlaneOf(u)}))
    [] OTHER -> TRUE

(* A slot holds what the segment makes of it once the unit that writes it  *)
(* has run, and what the segment before made of it until then.             *)
Written(places, s) ==
  \E w \in Units : places[w].waits /\ s \in Writes(places[w].cube, w, Program[places[w].stage])
SlotsRight(places, slots) ==
  \A s \in Units :
    LET p == places[0]
    IN IF Written(places, s) THEN Right(p.cube, Program[p.stage], s, slots[s])
       ELSE p.stage > 1 => Right(p.cube, Program[p.stage - 1], s, slots[s])
RegsRight(places) ==
  \A u \in Units :
    LET p == places[u]
    IN IF p.waits THEN RightReg(p.cube, Program[p.stage], u, p.reg)
       ELSE p.stage > 1 => RightReg(p.cube, Program[p.stage - 1], u, p.reg)

(* The partition update: a cell is zeroed by its owner, then holds what    *)
(* the units that have run have scattered to it.                           *)
Scatters(p) == p.stage = 3 \/ (p.stage = 2 /\ p.waits)
Scattered(places) == UNION {GridItems(places[v].cube, v) : v \in {w \in Units : Scatters(places[w])}}
CellsRight(places, slots) ==
  \A c \in 0 .. Cells - 1 :
    places[0].stage > 1 \/ places[c % Width].waits =>
      slots[c] = SumFunctionOnSet(Encoded, {i \in Scattered(places) : launch.part[i] = c}) % FixedRange

SharedIsRight(places, slots) ==
  IF Merging THEN CellsRight(places, slots) ELSE SlotsRight(places, slots) /\ RegsRight(places)
SharedRight == \A m \in Slices : Running(m, 0) => SharedIsRight(at[m], mem[m])

(* Unit u has stored its results of cube c.                                *)
SliceOf(c) == IF has_planes(device) THEN c ELSE 0
Stored(c, u) ==
  LET p == at[SliceOf(c)][u]
  IN p.cube > c \/ (p.cube = c /\ p.stage = Len(Program) /\ p.waits)

(* The outputs a unit stores for a cube.                                   *)
OutKeysOf(c, u) ==
  IF launch.kernel \in BinScans \union PrefixSums \union {"segmented_scan"}
  THEN {i \in {Item(c, u)} : Stands(c, u)}
  ELSE {i \in {c} : launch.kernel = "reduce_by_key" /\ u = 0}
TotalKeysOf(c, u) ==
  IF launch.kernel = "block_scan_total" THEN {k \in {c} : LastValid(c, u)}
  ELSE {k \in {c} : u = 0 /\ launch.kernel \in SegmentFolds \union Searches \union {"block_reduce"}}
OutputsRight ==
  \A c \in 0 .. Cubes - 1, u \in Units : Stored(c, u) =>
    /\ \A i \in OutKeysOf(c, u) : out[i] = SerialOut(i)
    /\ \A k \in TotalKeysOf(c, u) : totals[k] = SerialTotal(k)

(* The accumulators hold the cubes that have been stored.                  *)
CubeOf(i) == (i % (Cubes * Width)) \div Width
Rounded == [i \in DOMAIN launch.in |-> Round(launch.in[i])]
CubeRounded == [k \in 0 .. Cubes - 1 |-> Round(SumOver(InCube(k)))]
StoredCubes(u) == {k \in 0 .. Cubes - 1 : Stored(k, u)}
InStored(stored) == {i \in DOMAIN launch.in : i \div Width \in stored}
InMerged(stored, c) == {i \in DOMAIN launch.in : launch.part[i] = c /\ CubeOf(i) \in stored}
AccumulatorsRight ==
  /\ launch.kernel = "block_reduce_atomic" => totals[0] = SumOver(InStored(StoredCubes(0)))
  /\ launch.kernel = "block_reduce_fixedpoint" =>
       totals[0] = SumFunctionOnSet(CubeRounded, StoredCubes(0)) % FixedRange
  /\ Merging => \A c \in 0 .. Cells - 1 :
       totals[c] = SumFunctionOnSet(Rounded, InMerged(StoredCubes(c % Width), c))

(* Where the units and the buffers are.                                    *)
Sited(m, p) ==
  /\ p.waits \in BOOLEAN
  /\ p.cube \in (IF has_planes(device) THEN {m, Cubes} ELSE 0 .. Cubes)
  /\ p.cube = Cubes => p.stage = 1 /\ ~p.waits
Placed ==
  /\ \A m \in Slices, u \in Units : Sited(m, at[m][u])
  /\ mem = [m \in Slices |-> [s \in 0 .. CubeDim - 1 |-> mem[m][s]]]
  /\ out = [i \in OutKeys |-> out[i]]
  /\ totals = [k \in TotalKeys |-> totals[k]]

KernelBook == Lockstep /\ Placed /\ SharedRight /\ OutputsRight /\ AccumulatorsRight

(* What a launch is made of.                                               *)
Index == 0 .. Items - 1

(* Every launch has the buffers its kernel's wrapper checks for.           *)
LEMMA LaunchIsShaped ==
  ASSUME Launched
  PROVE  /\ launch.kernel \in Kernels /\ Items \in Nat /\ DOMAIN launch.in = Index /\ IsFiniteSet(Index)
         /\ launch.kernel \notin Searches => \A i \in Index : launch.in[i] \in Int
         /\ launch.kernel \in Searches => \A i \in Index : launch.in[i] \in Int \/ launch.in[i] = NoScore
         /\ launch.kernel \in SingleCube \union PrefixSums => launch.inclusive \in BOOLEAN
         /\ launch.kernel = "segmented_scan" => launch.heads \in [Index -> BOOLEAN]
         /\ launch.kernel \in BinScans =>
              /\ launch.bins \in Nat \ {0} /\ launch.channels \in Nat \ {0}
              /\ Items % (launch.bins * launch.channels) = 0
         /\ launch.kernel \in SegmentFolds =>
              /\ Cubes \in Nat /\ launch.offsets \in [0 .. Cubes -> 0 .. Items]
              /\ \A s \in 1 .. Cubes : launch.offsets[s - 1] <= launch.offsets[s]
         /\ Merging => /\ launch.cells \in 0 .. CubeDim /\ launch.cubes \in Nat \ {0}
                       /\ launch.part \in [Index -> 0 .. launch.cells - 1]
                       /\ InRange(launch)
<1>1. /\ launch.kernel \in Kernels /\ Shaped(launch)
      /\ Merging => InRange(launch)
  BY RunsAssumption, RangeAssumption DEF Launched, Merging
<1>2. Items \in Nat
  BY GridIsSound
<1>3. launch.in \in [Index -> IF launch.kernel \in Searches THEN Int \union {NoScore} ELSE Int]
  BY <1>1 DEF Shaped, Items, Index
<1>4. DOMAIN launch.in = Index /\ IsFiniteSet(Index)
  <2>1. IsFiniteSet(0 .. Items - 1)
    BY <1>2, FS_Interval
  <2> QED  BY <1>3, <2>1 DEF Index
<1>5. launch.kernel \notin Searches => \A i \in Index : launch.in[i] \in Int
  BY <1>3
<1>6. launch.kernel \in Searches => \A i \in Index : launch.in[i] \in Int \/ launch.in[i] = NoScore
  BY <1>3
<1>7. launch.kernel \in SegmentFolds =>
         /\ Cubes \in Nat /\ launch.offsets \in [0 .. Cubes -> 0 .. Items]
         /\ \A s \in 1 .. Cubes : launch.offsets[s - 1] <= launch.offsets[s]
  <2> SUFFICES ASSUME launch.kernel \in SegmentFolds
               PROVE  /\ Cubes \in Nat /\ launch.offsets \in [0 .. Cubes -> 0 .. Items]
                      /\ \A s \in 1 .. Cubes : launch.offsets[s - 1] <= launch.offsets[s]
    OBVIOUS
  <2>1. Cubes = Cardinality(DOMAIN launch.offsets) - 1
    BY DEF Cubes, SegmentFolds, BinScans, SingleCube
  <2> QED  BY <1>1, <2>1 DEF Shaped, Items
<1>8. launch.kernel \in SingleCube \union PrefixSums => launch.inclusive \in BOOLEAN
  BY <1>1 DEF Shaped
<1>9. launch.kernel = "segmented_scan" => launch.heads \in [Index -> BOOLEAN]
  BY <1>1 DEF Shaped, Items, Index
<1>10. launch.kernel \in BinScans => /\ launch.bins \in Nat \ {0} /\ launch.channels \in Nat \ {0}
                                     /\ Items % (launch.bins * launch.channels) = 0
  BY <1>1, CubeDimAssumption DEF Shaped, Items
<1>11. Merging => /\ launch.cells \in 0 .. CubeDim /\ launch.cubes \in Nat \ {0}
                  /\ launch.part \in [Index -> 0 .. launch.cells - 1]
                  /\ InRange(launch)
  BY <1>1 DEF Shaped, Items, Index, Merging
<1> QED  BY <1>1, <1>2, <1>4, <1>5, <1>6, <1>7, <1>8, <1>9, <1>10, <1>11

(* A number under a product is a quotient under the one factor and a       *)
(* remainder under the other.                                              *)
LEMMA ProductBound ==
  ASSUME NEW m \in Nat, NEW n \in Nat \ {0}, NEW q \in 0 .. m - 1, NEW r \in 0 .. n - 1
  PROVE  n * q + r \in 0 .. m * n - 1
<1>1. q + 1 <= m /\ q \in Nat /\ r \in Nat
  OBVIOUS
<1>2. n * (q + 1) <= n * m
  <2>1. m - (q + 1) \in Nat
    BY <1>1
  <2>2. n * (m - (q + 1)) >= 0
    BY <2>1
  <2>3. n * (m - (q + 1)) = n * m - n * (q + 1)
    BY <1>1
  <2>4. n * m \in Nat /\ n * (q + 1) \in Nat
    BY <1>1
  <2> QED  BY <2>2, <2>3, <2>4
<1>3. n * (q + 1) = n * q + n /\ n * q \in Nat /\ n * m = m * n
  BY <1>1
<1> QED  BY <1>1, <1>2, <1>3

(* The quotient of an index below a product is below the other factor.     *)
LEMMA QuotientBound ==
  ASSUME NEW m \in Nat, NEW n \in Nat \ {0}, NEW x \in 0 .. m * n - 1
  PROVE  x \div n \in 0 .. m - 1
<1>1. x = n * (x \div n) + (x % n) /\ x % n \in 0 .. n - 1 /\ x \div n \in Int
  BY DivisionHolds
<1>2. m * n \in Nat /\ x < m * n /\ x >= 0
  OBVIOUS
<1>3. x \div n >= 0
  <2> SUFFICES ASSUME x \div n <= -1 PROVE FALSE
    BY <1>1
  <2>1. n * (x \div n) <= n * (-1)
    BY <1>1
  <2> QED  BY <1>1, <1>2, <2>1
<1>4. x \div n < m
  <2> SUFFICES ASSUME m <= x \div n PROVE FALSE
    BY <1>1
  <2>1. n * m <= n * (x \div n)
    BY <1>1
  <2>2. n * m = m * n /\ n * (x \div n) \in Int
    BY <1>1
  <2> QED  BY <1>1, <1>2, <2>1, <2>2
<1> QED  BY <1>1, <1>3, <1>4

(* The cells of a histogram: which axis and which bin a cell is of.        *)
LEMMA CellsOfBins ==
  ASSUME Launched, launch.kernel \in BinScans
  PROVE  /\ Cubes \in Nat
         /\ \A cube \in 0 .. Cubes - 1, bin \in 0 .. launch.bins - 1 :
              /\ BinCell(cube, bin) \in Index
              /\ Axis(BinCell(cube, bin)) = <<cube % launch.channels, cube \div launch.channels>>
              /\ Bin(BinCell(cube, bin)) = bin
         /\ \A i \in Index : \E cube \in 0 .. Cubes - 1, bin \in 0 .. launch.bins - 1 :
              i = BinCell(cube, bin)
<1> DEFINE ch == launch.channels
           bins == launch.bins
           line == bins * ch
           features == Items \div line
<1>1. bins \in Nat \ {0} /\ ch \in Nat \ {0} /\ Items \in Nat /\ Items % line = 0
  BY LaunchIsShaped
<1>2. Cubes = Items \div bins
  BY DEF Cubes, BinScans, SegmentFolds, SingleCube
<1>3. line \in Nat \ {0}
  BY <1>1
<1>4. features \in Nat /\ Items = features * line
  <2> HIDE DEF line
  <2>1. Items = line * features + (Items % line) /\ features \in Int
    BY <1>1, <1>3, DivisionHolds
  <2>2. Items = line * features
    BY <1>1, <1>3, <2>1
  <2>3. features >= 0
    <3> SUFFICES ASSUME features <= -1 PROVE FALSE
      BY <2>1
    <3>1. line * features <= line * (-1)
      BY <1>3, <2>1
    <3> QED  BY <1>1, <1>3, <2>2, <3>1
  <2> QED  BY <1>3, <2>1, <2>2, <2>3
<1> HIDE DEF features
<1>5. Cubes = features * ch
  <2> DEFINE q == features * ch
  <2>1. Items = bins * q + 0
    BY <1>1, <1>4
  <2>2. q \in Int /\ 0 \in 0 .. bins - 1
    BY <1>1, <1>4
  <2> HIDE DEF q
  <2>3. (bins * q + 0) \div bins = q
    BY <1>1, <2>2, Remainder
  <2>4. Cubes = q
    BY <1>2, <2>1, <2>3
  <2> QED  BY <2>4 DEF q
<1>6. Index = 0 .. features * (bins * ch) - 1
  BY <1>4 DEF Index
<1>7. ASSUME NEW cube \in 0 .. Cubes - 1, NEW bin \in 0 .. bins - 1
      PROVE  /\ BinCell(cube, bin) \in Index
             /\ Axis(BinCell(cube, bin)) = <<cube % ch, cube \div ch>>
             /\ Bin(BinCell(cube, bin)) = bin
  <2> DEFINE f == cube \div ch
             r == cube % ch
             i == BinCell(cube, bin)
  <2>1. f \in 0 .. features - 1 /\ r \in 0 .. ch - 1 /\ f \in Int
    <3>1. cube \in 0 .. features * ch - 1 /\ cube \in Int
      BY <1>5
    <3>2. f \in 0 .. features - 1
      BY <1>1, <1>4, <3>1, QuotientBound
    <3> QED  BY <1>1, <3>1, <3>2, DivisionHolds
  <2>2. i = (f * bins + bin) * ch + r
    BY DEF BinCell
  <2> HIDE DEF f, r, i
  <2>3. bins * f + bin \in 0 .. features * bins - 1
    BY <1>1, <1>4, <2>1, ProductBound
  <2>4. i = ch * (bins * f + bin) + r
    BY <1>1, <2>1, <2>2, <2>3
  <2>5. features * bins \in Nat
    BY <1>1, <1>4
  <2>6. i \in 0 .. (features * bins) * ch - 1
    BY <1>1, <2>1, <2>3, <2>4, <2>5, ProductBound
  <2>7. (features * bins) * ch = features * (bins * ch)
    BY <1>1, <1>4
  <2>8. bins * f + bin \in Int
    BY <2>3
  <2>9. i % ch = r /\ i \div ch = bins * f + bin
    <3> DEFINE q == bins * f + bin
    <3>1. q \in Int /\ i = ch * q + r
      BY <2>4, <2>8
    <3> HIDE DEF q, ch
    <3>2. ch \in Nat \ {0} /\ r \in 0 .. ch - 1 /\ q \in Int
      BY <1>1, <2>1, <3>1
    <3>2a. (ch * q + r) % ch = r /\ (ch * q + r) \div ch = q
      BY <3>2, Remainder
    <3>3. i % ch = r /\ i \div ch = q
      BY <3>1, <3>2a
    <3> QED  BY <3>3 DEF q
  <2>10. (bins * f + bin) % bins = bin
    <3>1. bin \in 0 .. bins - 1 /\ bins \in Nat \ {0} /\ f \in Int
      BY <1>1, <2>1
    <3> HIDE DEF bins
    <3> QED  BY <3>1, Remainder
  <2>11. ch * bin + r \in 0 .. bins * ch - 1
    BY <1>1, <2>1, ProductBound
  <2>12. i = (ch * bins) * f + (ch * bin + r)
    <3>1. ch * (bins * f + bin) = (ch * bins) * f + ch * bin
      BY <1>1, <2>1
    <3>2. ch * bin \in Int /\ (ch * bins) * f \in Int
      BY <1>1, <2>1
    <3> QED  BY <2>1, <2>4, <3>1, <3>2
  <2>13. ch * bins \in Nat \ {0} /\ ch * bins = bins * ch
    BY <1>1
  <2>14. i \div (ch * bins) = f
    BY <2>1, <2>11, <2>12, <2>13, Remainder
  <2>15. Axis(i) = <<r, f>> /\ Bin(i) = bin
    BY <2>9, <2>10, <2>14 DEF Axis, Bin
  <2>16. i \in Index
    BY <1>6, <2>6, <2>7
  <2> QED  BY <2>15, <2>16 DEF i, f, r
<1>8. ASSUME NEW i \in Index
      PROVE  \E cube \in 0 .. Cubes - 1, bin \in 0 .. bins - 1 : i = BinCell(cube, bin)
  <2> DEFINE q == i \div ch
             r == i % ch
             f == q \div bins
             bin == q % bins
             cube == ch * f + r
  <2>1. i \in Int /\ i \in 0 .. (features * bins) * ch - 1
    <3>1. (features * bins) * ch = features * (bins * ch)
      BY <1>1, <1>4
    <3> QED  BY <1>6, <3>1
  <2>2. features * bins \in Nat
    BY <1>1, <1>4
  <2>3. i = ch * q + r /\ r \in 0 .. ch - 1 /\ q \in 0 .. features * bins - 1
    <3>1. q \in 0 .. features * bins - 1
      BY <1>1, <2>1, <2>2, QuotientBound
    <3> QED  BY <1>1, <2>1, <3>1, DivisionHolds
  <2> HIDE DEF q, r
  <2>4. q \in Int
    BY <2>3
  <2>5. q = bins * f + bin /\ bin \in 0 .. bins - 1 /\ f \in 0 .. features - 1
    <3>1. f \in 0 .. features - 1
      BY <1>1, <1>4, <2>3, QuotientBound
    <3> QED  BY <1>1, <2>4, <3>1, DivisionHolds
  <2> HIDE DEF f, bin
  <2>6. cube \in 0 .. features * ch - 1
    BY <1>1, <1>4, <2>3, <2>5, ProductBound
  <2>7. cube % ch = r /\ cube \div ch = f
    <3>1. f \in Int
      BY <2>5
    <3> QED  BY <1>1, <2>3, <3>1, Remainder
  <2> HIDE DEF cube
  <2>8. BinCell(cube, bin) = (f * bins + bin) * ch + r
    BY <2>7 DEF BinCell
  <2>9. (f * bins + bin) * ch + r = ch * (bins * f + bin) + r
    BY <1>1, <2>3, <2>5
  <2>10. i = BinCell(cube, bin)
    BY <2>3, <2>5, <2>8, <2>9
  <2> QED  BY <1>5, <2>5, <2>6, <2>10
<1>9. Cubes \in Nat
  BY <1>1, <1>4, <1>5
<1> QED  BY <1>7, <1>8, <1>9

(* Numbers of one quotient and one remainder are equal.                    *)
LEMMA PlacesApart ==
  ASSUME NEW n \in Nat \ {0}, NEW c \in Int, NEW d \in Int, NEW u \in 0 .. n - 1, NEW v \in 0 .. n - 1,
         c * n + u = d * n + v
  PROVE  c = d /\ u = v
<1>1. n * c + u = n * d + v
  OBVIOUS
<1>2. (n * c + u) % n = u /\ (n * c + u) \div n = c
  BY Remainder
<1>3. (n * d + v) % n = v /\ (n * d + v) \div n = d
  BY Remainder
<1> QED  BY <1>1, <1>2, <1>3

(* The item of a unit that stands for one is an item of the input.         *)
LEMMA ItemsStand ==
  ASSUME Launched, NEW cube \in 0 .. Cubes - 1, Cubes \in Nat, NEW u \in Units, Stands(cube, u)
  PROVE  Item(cube, u) \in Index /\ Element(cube, u) = launch.in[Item(cube, u)]
<1>1. Width \in Nat \ {0} /\ Items \in Nat /\ u \in Nat
  BY GridIsSound DEF Units
<1>2. CASE launch.kernel \in BinScans
  <2>1. u \in 0 .. launch.bins - 1
    BY <1>1, <1>2, LaunchIsShaped DEF Stands
  <2>2. BinCell(cube, u) \in Index
    BY <1>2, <2>1, CellsOfBins
  <2>3. Item(cube, u) = BinCell(cube, u) /\ Element(cube, u) = launch.in[BinCell(cube, u)]
    BY <1>2 DEF Item, Element, Stands
  <2> QED  BY <2>2, <2>3
<1>3. CASE launch.kernel \notin BinScans
  <2>1. Abs(cube, u) < Items /\ Abs(cube, u) = cube * Width + u
    BY <1>3 DEF Stands, Abs
  <2>2. cube * Width \in Nat
    BY <1>1
  <2> QED  BY <1>1, <1>3, <2>1, <2>2 DEF Item, Element, Index
<1> QED  BY <1>2, <1>3

(* How many cubes there are is a number.                                   *)
LEMMA CubesCount ==
  ASSUME Launched
  PROVE  Cubes \in Nat
<1>1. Width \in Nat \ {0} /\ Items \in Nat
  BY GridIsSound
<1>2. CASE launch.kernel \in SegmentFolds
  BY <1>2, LaunchIsShaped
<1>3. CASE launch.kernel \in BinScans
  BY <1>3, CellsOfBins
<1>4. CASE launch.kernel = "partition_update_lds"
  BY <1>4, LaunchIsShaped DEF Cubes, SegmentFolds, BinScans, SingleCube, Merging
<1>5. CASE launch.kernel \in SingleCube \union {"select_best_split"}
  BY <1>5 DEF Cubes, SegmentFolds, BinScans, SingleCube
<1>6. CASE launch.kernel \notin SegmentFolds \union BinScans \union {"partition_update_lds"} \union SingleCube \union {"select_best_split"}
  <2>1. Cubes = (Items + Width - 1) \div Width
    BY <1>6 DEF Cubes, SegmentFolds, BinScans, SingleCube, CeilDiv
  <2> QED  BY <1>1, <2>1
<1> QED  BY <1>2, <1>3, <1>4, <1>5, <1>6

(* No two units of a cube stand for one item.                              *)
LEMMA CoversApart ==
  ASSUME Launched, NEW cube \in 0 .. Cubes - 1, NEW u \in Units
  PROVE  /\ Covers(cube, u) \subseteq Index
         /\ \A v \in Units : u # v => Covers(cube, u) \intersect Covers(cube, v) = {}
<1>1. Width \in Nat \ {0} /\ Items \in Nat /\ Cubes \in Nat /\ cube \in Nat
      /\ \A v \in Units : v \in 0 .. Width - 1
  BY GridIsSound, CubesCount DEF Units
<1>2. CASE launch.kernel \in Searches
  <2>1. \A v \in Units : Covers(cube, v) = GridItems(cube, v)
    BY <1>2 DEF Covers
  <2>2. ASSUME NEW v \in Units, u # v PROVE Abs(cube, u) # Abs(cube, v)
    <3>1. cube * Width \in Int
      BY <1>1
    <3> QED  BY <1>1, <2>2, <3>1 DEF Abs
  <2> QED  BY <2>1, <2>2 DEF GridItems, Index
<1>3. CASE launch.kernel \in SegmentFolds
  <2>1. \A v \in Units : Covers(cube, v) = SegmentItems(cube, v)
    BY <1>3 DEF Covers, SegmentFolds, Searches
  <2>2. launch.offsets[cube] \in 0 .. Items /\ launch.offsets[cube + 1] \in 0 .. Items
    BY <1>1, <1>3, LaunchIsShaped
  <2> QED  BY <1>1, <2>1, <2>2 DEF SegmentItems, Index
<1>4. CASE launch.kernel \notin Searches \union SegmentFolds
  <2>1. \A v \in Units : Covers(cube, v) = {i \in {Item(cube, v)} : Stands(cube, v)}
    BY <1>4 DEF Covers
  <2>2. ASSUME NEW v \in Units, u # v, Stands(cube, u), Stands(cube, v) PROVE Item(cube, u) # Item(cube, v)
    <3>1. CASE launch.kernel \in BinScans
      <4>1. u \in 0 .. launch.bins - 1 /\ v \in 0 .. launch.bins - 1
        BY <1>1, <2>2, <3>1, LaunchIsShaped DEF Stands
      <4>2. Bin(BinCell(cube, u)) = u /\ Bin(BinCell(cube, v)) = v
        BY <3>1, <4>1, CellsOfBins
      <4> QED  BY <2>2, <3>1, <4>2 DEF Item
    <3>2. CASE launch.kernel \notin BinScans
      <4>1. cube * Width \in Int
        BY <1>1
      <4> QED  BY <1>1, <2>2, <3>2, <4>1 DEF Item, Abs
    <3> QED  BY <3>1, <3>2
  <2>3. Covers(cube, u) \subseteq Index
    BY <1>1, <2>1, ItemsStand
  <2>4. ASSUME NEW v \in Units, u # v PROVE Covers(cube, u) \intersect Covers(cube, v) = {}
    BY <2>1, <2>2, <2>4
  <2> QED  BY <2>3, <2>4
<1> QED  BY <1>2, <1>3, <1>4

(* What two sets of units without a common unit stand for has no common    *)
(* item.                                                                   *)
LEMMA CoveredApart ==
  ASSUME Launched, NEW cube \in 0 .. Cubes - 1, NEW V \in SUBSET Units, NEW W \in SUBSET Units
  PROVE  /\ Covered(cube, V) \subseteq Index /\ IsFiniteSet(Covered(cube, V))
         /\ Covered(cube, V \union W) = Covered(cube, V) \union Covered(cube, W)
         /\ V \intersect W = {} => Covered(cube, V) \intersect Covered(cube, W) = {}
<1>1. Covered(cube, V) \subseteq Index
  BY CoversApart DEF Covered
<1>2. IsFiniteSet(Covered(cube, V))
  BY <1>1, LaunchIsShaped, FS_Subset
<1>3. Covered(cube, V \union W) = Covered(cube, V) \union Covered(cube, W)
  BY DEF Covered
<1>4. ASSUME V \intersect W = {} PROVE Covered(cube, V) \intersect Covered(cube, W) = {}
  <2> SUFFICES ASSUME NEW i, i \in Covered(cube, V), i \in Covered(cube, W) PROVE FALSE
    OBVIOUS
  <2>1. PICK v \in V : i \in Covers(cube, v)
    BY DEF Covered
  <2>2. PICK w \in W : i \in Covers(cube, w)
    BY DEF Covered
  <2>3. v \in Units /\ w \in Units /\ v # w
    BY <1>4, <2>1, <2>2
  <2> QED  BY <2>1, <2>2, <2>3, CoversApart
<1> QED  BY <1>1, <1>2, <1>3, <1>4

(* The sum of the elements of some units is that of the items they stand   *)
(* for.                                                                    *)
LEMMA ElementsSum ==
  ASSUME Launched, NEW cube \in 0 .. Cubes - 1, NEW V \in SUBSET Units,
         launch.kernel \notin Searches \union SegmentFolds
  PROVE  SumFunctionOnSet(Elements(cube), V) = SumOver(Covered(cube, V))
<1> DEFINE e == Elements(cube)
           A == {v \in V : Stands(cube, v)}
           B == V \ A
           b == [v \in A |-> Item(cube, v)]
<1>1. Cubes \in Nat /\ Width \in Nat /\ Items \in Nat
  BY GridIsSound, CubesCount
<1>2. IsFiniteSet(A) /\ IsFiniteSet(B) /\ A \union B = V /\ A \intersect B = {}
  <2>1. IsFiniteSet(Units)
    BY <1>1, FS_Interval DEF Units
  <2> QED  BY <2>1, FS_Subset
<1>3. \A v \in A : Item(cube, v) \in Index /\ e[v] = launch.in[Item(cube, v)] /\ launch.in[Item(cube, v)] \in Int
  BY <1>1, ItemsStand, LaunchIsShaped DEF Elements
<1>4. \A v \in B : e[v] = 0
  BY DEF Elements, Element, Stands
<1>5. Covered(cube, V) = {b[v] : v \in A}
  BY DEF Covered, Covers
<1>6. \A v, w \in A : b[v] = b[w] => v = w
  <2> SUFFICES ASSUME NEW v \in A, NEW w \in A, v # w PROVE Item(cube, v) # Item(cube, w)
    OBVIOUS
  <2>1. Covers(cube, v) = {Item(cube, v)} /\ Covers(cube, w) = {Item(cube, w)}
    BY DEF Covers
  <2> QED  BY <2>1, CoversApart
<1>7. \A v \in A : e[v] \in Int /\ launch.in[b[v]] = e[v]
  BY <1>3
<1> HIDE DEF e, A, B, b
<1>8. SumFunctionOnSet(e, V) = SumFunctionOnSet(e, A) + SumFunctionOnSet(e, B)
  <2>1. \A v \in A \union B : e[v] \in Int
    BY <1>3, <1>4
  <2> QED  BY <1>2, <2>1, SumOfUnion
<1>9. SumFunctionOnSet(e, B) = 0
  BY <1>2, <1>4, SumOfZeros
<1>10. SumFunctionOnSet(e, A) = SumFunctionOnSet(launch.in, {b[v] : v \in A})
  BY <1>2, <1>6, <1>7, SumOfImage
<1>11. SumFunctionOnSet(e, A) \in Int
  BY <1>2, <1>7, SumLaws
<1> QED  BY <1>5, <1>8, <1>9, <1>10, <1>11 DEF SumOver, e

(* x is the first of the best scores of the items of C.                    *)
Scored(C) == {c \in C : launch.in[c] # NoScore}
Wins(c, d) == launch.in[d] < launch.in[c] \/ (launch.in[d] = launch.in[c] /\ c <= d)
Entry(c) == [gain |-> launch.in[c], idx |-> c]
IsBest(C, x) ==
  IF Scored(C) = {} THEN x = Unseen
  ELSE \E c \in Scored(C) : x = Entry(c) /\ \A d \in Scored(C) : Wins(c, d)

(* The better of the best scores of two sets is the best of both.          *)
LEMMA BestsJoin ==
  ASSUME Launched, launch.kernel \in Searches, NEW C \in SUBSET Index, NEW D \in SUBSET Index,
         NEW x, NEW y, IsBest(C, x), IsBest(D, y)
  PROVE  IsBest(C \union D, Combine(x, y))
<1>1. /\ Combine(x, y) = IF Beats(y, x) THEN y ELSE x
      /\ Scored(C \union D) = Scored(C) \union Scored(D)
  BY DEF Combine, Scored
<1>2. /\ \A c \in Scored(C) \union Scored(D) : launch.in[c] \in Int /\ launch.in[c] # NoScore /\ c \in Int
      /\ Unseen.gain = NoScore /\ \A c : Entry(c).gain = launch.in[c] /\ Entry(c).idx = c
  BY LaunchIsShaped DEF Scored, Index, Unseen, Entry
<1>3. CASE Scored(D) = {}
  <2>1. y = Unseen
    BY <1>3 DEF IsBest
  <2>2. ~Beats(y, x)
    BY <1>2, <2>1 DEF Beats
  <2> QED  BY <1>1, <1>3, <2>2 DEF IsBest
<1>4. CASE Scored(D) # {} /\ Scored(C) = {}
  <2>1. x = Unseen /\ y.gain # NoScore
    BY <1>2, <1>4 DEF IsBest
  <2>2. Beats(y, x)
    BY <1>2, <2>1 DEF Beats
  <2> QED  BY <1>1, <1>4, <2>2 DEF IsBest
<1>5. CASE Scored(D) # {} /\ Scored(C) # {}
  <2>1. PICK c \in Scored(C) : x = Entry(c) /\ \A d \in Scored(C) : Wins(c, d)
    BY <1>5 DEF IsBest
  <2>2. PICK d \in Scored(D) : y = Entry(d) /\ \A k \in Scored(D) : Wins(d, k)
    BY <1>5 DEF IsBest
  <2>3. Beats(y, x) <=> launch.in[d] > launch.in[c] \/ (launch.in[d] = launch.in[c] /\ d < c)
    BY <1>2, <2>1, <2>2 DEF Beats
  <2>4. CASE Beats(y, x)
    <3>1. Wins(d, c)
      BY <1>2, <2>3, <2>4 DEF Wins
    <3>2. ASSUME NEW k \in Scored(C) PROVE Wins(d, k)
      <4>1. Wins(c, k)
        BY <2>1
      <4> QED  BY <1>2, <3>1, <4>1 DEF Wins
    <3>3. \A k \in Scored(C) \union Scored(D) : Wins(d, k)
      BY <2>2, <3>2
    <3> QED  BY <1>1, <2>2, <2>4, <3>3 DEF IsBest
  <2>5. CASE ~Beats(y, x)
    <3>1. Wins(c, d)
      BY <1>2, <2>3, <2>5 DEF Wins
    <3>2. ASSUME NEW k \in Scored(D) PROVE Wins(c, k)
      <4>1. Wins(d, k)
        BY <2>2
      <4> QED  BY <1>2, <3>1, <4>1 DEF Wins
    <3>3. \A k \in Scored(C) \union Scored(D) : Wins(c, k)
      BY <2>1, <3>2
    <3> QED  BY <1>1, <2>1, <2>5, <3>3 DEF IsBest
  <2> QED  BY <2>4, <2>5
<1> QED  BY <1>3, <1>4, <1>5

(* Every set of items has a best score.                                    *)
LEMMA BestsExist ==
  ASSUME Launched, launch.kernel \in Searches, NEW C \in SUBSET Index
  PROVE  \E x : IsBest(C, x)
<1> DEFINE P == {T \in SUBSET Index : \E x : IsBest(T, x)}
<1>1. IsFiniteSet(C)
  BY LaunchIsShaped, FS_Subset
<1>2. {} \in P
  BY DEF IsBest, Scored
<1>3. ASSUME NEW T \in SUBSET C, NEW c \in C, T \in P PROVE T \union {c} \in P
  <2>1. PICK x : IsBest(T, x)
    BY <1>3
  <2>2. \E y : IsBest({c}, y)
    <3>1. CASE launch.in[c] = NoScore
      BY <3>1 DEF IsBest, Scored
    <3>2. CASE launch.in[c] # NoScore
      <4>1. Scored({c}) = {c} /\ c \in Int
        BY <3>2, LaunchIsShaped DEF Scored, Index
      <4> QED  BY <4>1 DEF IsBest, Wins
    <3> QED  BY <3>1, <3>2
  <2>3. PICK y : IsBest({c}, y)
    BY <2>2
  <2>4. T \in SUBSET Index /\ {c} \in SUBSET Index
    OBVIOUS
  <2>5. IsBest(T \union {c}, Combine(x, y))
    BY <2>1, <2>3, <2>4, BestsJoin
  <2> QED  BY <2>4, <2>5
<1> HIDE DEF P
<1>4. C \in P
  BY <1>1, <1>2, <1>3, SubsetInduction
<1> QED  BY <1>4 DEF P

(* It is the one the units and the serial loop choose.                     *)
LEMMA BestIsChosen ==
  ASSUME Launched, launch.kernel \in Searches, NEW C \in SUBSET Index, NEW x, IsBest(C, x)
  PROVE  BestOf(C) = x /\ FirstBest(C) = x
<1> DEFINE S == {[gain |-> launch.in[c], idx |-> c] : c \in {d \in C : launch.in[d] # NoScore}}
<1>1. /\ S = {Entry(c) : c \in Scored(C)}
      /\ BestOf(C) = IF S = {} THEN Unseen ELSE CHOOSE z \in S : \A y \in S \ {z} : Beats(z, y)
  BY DEF BestOf, Scored, Entry
<1> HIDE DEF S
<1>2. /\ \A c \in Scored(C) : launch.in[c] \in Int /\ launch.in[c] # NoScore /\ c \in Int
      /\ \A c : Entry(c).gain = launch.in[c] /\ Entry(c).idx = c
  <2>1. \A c \in Scored(C) : launch.in[c] \in Int /\ launch.in[c] # NoScore /\ c \in Int
    BY LaunchIsShaped DEF Scored, Index
  <2>2. \A c : Entry(c).gain = launch.in[c] /\ Entry(c).idx = c
    BY DEF Entry
  <2> QED  BY <2>1, <2>2
<1> DEFINE best == Max({launch.in[c] : c \in Scored(C)})
           first == Min({c \in Scored(C) : launch.in[c] = best})
<1>3. FirstBest(C) = IF Scored(C) = {} THEN Unseen ELSE [gain |-> best, idx |-> first]
  BY DEF FirstBest, Scored
<1>4. CASE Scored(C) = {}
  BY <1>1, <1>3, <1>4 DEF IsBest
<1>5. CASE Scored(C) # {}
  <2>1. PICK c \in Scored(C) : x = Entry(c) /\ \A d \in Scored(C) : Wins(c, d)
    BY <1>5 DEF IsBest
  <2>2. x \in S /\ \A y \in S \ {x} : Beats(x, y)
    <3>1. ASSUME NEW d \in Scored(C), d # c PROVE Beats(Entry(c), Entry(d))
      <4>1. Wins(c, d)
        BY <2>1
      <4> QED  BY <1>2, <3>1, <4>1 DEF Wins, Beats
    <3> QED  BY <1>1, <2>1, <3>1
  <2>3. ASSUME NEW z \in S, \A y \in S \ {z} : Beats(z, y) PROVE z = x
    <3> SUFFICES ASSUME z # x PROVE FALSE
      OBVIOUS
    <3>1. Beats(z, x) /\ Beats(x, z)
      BY <2>2, <2>3
    <3>2. PICK d \in Scored(C) : z = Entry(d)
      BY <1>1
    <3> QED  BY <1>2, <2>1, <3>1, <3>2 DEF Beats
  <2>4. BestOf(C) = x
    BY <1>1, <2>2, <2>3
  <2>5. best = launch.in[c]
    <3> DEFINE G == {launch.in[k] : k \in Scored(C)}
    <3>1. launch.in[c] \in G /\ \A g \in G : launch.in[c] >= g
      <4>1. ASSUME NEW k \in Scored(C) PROVE launch.in[c] >= launch.in[k]
        <5>1. Wins(c, k)
          BY <2>1
        <5> QED  BY <1>2, <5>1 DEF Wins
      <4> QED  BY <4>1
    <3>2. G \subseteq Int
      BY <1>2
    <3> HIDE DEF G
    <3>3. Max(G) = CHOOSE g \in G : \A h \in G : g >= h
      BY DEF Max
    <3>4. Max(G) \in G /\ \A h \in G : Max(G) >= h
      BY <3>1, <3>3
    <3>5. Max(G) = launch.in[c]
      <4>1. \A g, h \in G : g >= h /\ h >= g => g = h
        BY <3>2
      <4> QED  BY <3>1, <3>4, <4>1
    <3> QED  BY <3>5 DEF G
  <2> HIDE DEF best
  <2>6. first = c
    <3> DEFINE G == {k \in Scored(C) : launch.in[k] = best}
    <3>1. c \in G /\ \A g \in G : c <= g
      <4>1. ASSUME NEW k \in Scored(C), launch.in[k] = launch.in[c] PROVE c <= k
        <5>1. Wins(c, k)
          BY <2>1
        <5> QED  BY <1>2, <4>1, <5>1 DEF Wins
      <4> QED  BY <2>5, <4>1
    <3>2. G \subseteq Int
      BY <1>2
    <3> HIDE DEF G
    <3>3. Min(G) = CHOOSE g \in G : \A h \in G : g <= h
      BY DEF Min
    <3>4. Min(G) \in G /\ \A h \in G : Min(G) <= h
      BY <3>1, <3>3
    <3>5. Min(G) = c
      <4>1. \A g, h \in G : g <= h /\ h <= g => g = h
        BY <3>2
      <4> QED  BY <3>1, <3>4, <4>1
    <3> QED  BY <3>5 DEF G
  <2> QED  BY <1>3, <1>5, <2>1, <2>4, <2>5, <2>6 DEF Entry
<1> QED  BY <1>4, <1>5

(* Folding two sets without a common item and combining the results is     *)
(* folding both.                                                           *)
LEMMA FoldingJoins ==
  ASSUME Launched, NEW C \in SUBSET Index, NEW D \in SUBSET Index, C \intersect D = {}
  PROVE  Combine(Folding(C), Folding(D)) = Folding(C \union D)
<1>1. CASE launch.kernel \in Searches
  <2>1. PICK x : IsBest(C, x)
    BY <1>1, BestsExist
  <2>2. PICK y : IsBest(D, y)
    BY <1>1, BestsExist
  <2>3. IsBest(C \union D, Combine(x, y))
    BY <1>1, <2>1, <2>2, BestsJoin
  <2>4. BestOf(C) = x /\ BestOf(D) = y /\ BestOf(C \union D) = Combine(x, y)
    <3>1. C \union D \in SUBSET Index
      OBVIOUS
    <3> QED  BY <1>1, <2>1, <2>2, <2>3, <3>1, BestIsChosen
  <2> QED  BY <1>1, <2>4 DEF Folding
<1>2. CASE launch.kernel \notin Searches
  <2>1. IsFiniteSet(C) /\ IsFiniteSet(D) /\ \A i \in C \union D : launch.in[i] \in Int
    BY <1>2, LaunchIsShaped, FS_Subset
  <2>2. SumOver(C \union D) = SumOver(C) + SumOver(D)
    BY <2>1, SumOfUnion DEF SumOver
  <2> QED  BY <1>2, <2>2 DEF Folding, Combine
<1> QED  BY <1>1, <1>2

(* The sum of the items of no unit, and of one.                            *)
LEMMA SumOfUnits ==
  ASSUME Launched, NEW cube \in 0 .. Cubes - 1, launch.kernel \notin Searches
  PROVE  /\ SumOver(Covered(cube, {})) = 0
         /\ \A V \in SUBSET Units : SumOver(Covered(cube, V)) \in Int
         /\ \A V, W \in SUBSET Units : V \intersect W = {} =>
              SumOver(Covered(cube, V \union W)) = SumOver(Covered(cube, V)) + SumOver(Covered(cube, W))
         /\ launch.kernel \notin SegmentFolds =>
              \A u \in Units : /\ Element(cube, u) = SumOver(Covered(cube, {u}))
                               /\ Element(cube, u) \in Int
<1>1. \A i \in Index : launch.in[i] \in Int
  BY LaunchIsShaped
<1>2. ASSUME NEW V \in SUBSET Units PROVE SumOver(Covered(cube, V)) \in Int
  <2>1. Covered(cube, V) \subseteq Index /\ IsFiniteSet(Covered(cube, V))
    BY CoveredApart
  <2>2. \A i \in Covered(cube, V) : launch.in[i] \in Int
    BY <1>1, <2>1
  <2> QED  BY <2>1, <2>2, SumLaws DEF SumOver
<1>3. SumOver(Covered(cube, {})) = 0
  <2>1. Covered(cube, {}) = {} /\ IsFiniteSet({})
    BY FS_EmptySet DEF Covered
  <2>2. \A i \in {} : launch.in[i] = 0
    OBVIOUS
  <2>3. SumFunctionOnSet(launch.in, {}) = 0
    BY <2>1, <2>2, SumOfZeros
  <2> QED  BY <2>1, <2>3 DEF SumOver
<1>4. ASSUME NEW V \in SUBSET Units, NEW W \in SUBSET Units, V \intersect W = {}
      PROVE  SumOver(Covered(cube, V \union W)) = SumOver(Covered(cube, V)) + SumOver(Covered(cube, W))
  <2> DEFINE C == Covered(cube, V)
             D == Covered(cube, W)
  <2>1. /\ C \subseteq Index /\ IsFiniteSet(C) /\ D \subseteq Index /\ IsFiniteSet(D)
        /\ Covered(cube, V \union W) = C \union D /\ C \intersect D = {}
    BY <1>4, CoveredApart
  <2> HIDE DEF C, D
  <2>2. \A i \in C \union D : launch.in[i] \in Int
    BY <1>1, <2>1
  <2>3. SumOver(C \union D) = SumOver(C) + SumOver(D)
    BY <2>1, <2>2, SumOfUnion DEF SumOver
  <2> QED  BY <2>1, <2>3 DEF C, D
<1>5. ASSUME launch.kernel \notin SegmentFolds, NEW u \in Units
      PROVE  Element(cube, u) = SumOver(Covered(cube, {u})) /\ Element(cube, u) \in Int
  <2>1. Elements(cube)[u] = Element(cube, u)
    BY DEF Elements
  <2>2. Element(cube, u) \in Int
    <3>1. CASE Stands(cube, u)
      BY <1>1, <3>1, CubesCount, ItemsStand
    <3>2. CASE ~Stands(cube, u)
      BY <3>2 DEF Element, Stands
    <3> QED  BY <3>1, <3>2
  <2>3. SumFunctionOnSet(Elements(cube), {u}) = Element(cube, u)
    BY <2>1, <2>2, SumOfOne
  <2>4. SumFunctionOnSet(Elements(cube), {u}) = SumOver(Covered(cube, {u}))
    BY <1>5, ElementsSum
  <2> QED  BY <2>2, <2>3, <2>4
<1> QED  BY <1>2, <1>3, <1>4, <1>5

(* What a unit of a tree fold loads is the fold of its items.              *)
LEMMA LoadsFold ==
  ASSUME Launched, TreeFolds, NEW cube \in 0 .. Cubes - 1, NEW u \in Units
  PROVE  Loaded(cube, u) = Folding(Covered(cube, {u})) /\ OwnsSlot(u) /\ SlotOf(u) = u
<1>1. /\ launch.kernel \notin Scans /\ launch.kernel # "segmented_scan" /\ ~UsesPlanes
      /\ launch.kernel \notin {"partition_update_lds"}
  BY DEF TreeFolds, UnitFolds
<1>2. Covered(cube, {u}) = Covers(cube, u)
  BY DEF Covered
<1>3. Loaded(cube, u) = Folding(Covered(cube, {u}))
  <2>1. CASE launch.kernel \in Searches
    BY <1>1, <1>2, <2>1 DEF Loaded, Covers, Folding, SegmentFolds, Searches
  <2>2. CASE launch.kernel \in SegmentFolds
    <3>1. launch.kernel \notin Searches
      BY <2>2 DEF SegmentFolds, Searches
    <3>2. Loaded(cube, u) = SumFunctionOnSet(launch.in, SegmentItems(cube, u))
      BY <1>1, <2>2, <3>1 DEF Loaded
    <3> QED  BY <1>2, <2>2, <3>1, <3>2 DEF Covers, Folding, SumOver
  <2>3. CASE launch.kernel \notin Searches \union SegmentFolds
    <3>1. Loaded(cube, u) = Element(cube, u)
      BY <1>1, <2>3 DEF Loaded
    <3> QED  BY <2>3, <3>1, SumOfUnits DEF Folding
  <2> QED  BY <2>1, <2>2, <2>3
<1> QED  BY <1>1, <1>3 DEF OwnsSlot, SlotOf

(* A fold joins the two classes of the wider stride.                       *)
LEMMA ClassesJoin ==
  ASSUME Launched, NEW s \in Nat \ {0}, NEW u \in 0 .. s - 1
  PROVE  /\ Class(u, 2 * s) \union Class(u + s, 2 * s) = Class(u, s)
         /\ Class(u, 2 * s) \intersect Class(u + s, 2 * s) = {}
         /\ Class(u, 2 * s) \in SUBSET Units /\ Class(u + s, 2 * s) \in SUBSET Units
<1>1. ASSUME NEW v \in Units
      PROVE  (v % (2 * s) = u \/ v % (2 * s) = u + s) <=> v % s = u
  <2> DEFINE t == 2 * s
             q == v \div t
             r == v % t
  <2>1. v \in Int /\ t \in Nat \ {0}
    BY GridIsSound DEF Units
  <2>2. v = t * q + r /\ r \in 0 .. t - 1 /\ q \in Int
    <3> HIDE DEF t
    <3> QED  BY <2>1, DivisionHolds
  <2> HIDE DEF q, r
  <2>3. t * q = s * (2 * q)
    BY <2>2
  <2>4. CASE r < s
    <3>1. v = s * (2 * q) + r /\ 2 * q \in Int /\ r \in 0 .. s - 1
      BY <2>2, <2>3, <2>4
    <3>2. v % s = r
      BY <3>1, Remainder
    <3> QED  BY <2>2, <2>4, <3>2 DEF r
  <2>5. CASE r >= s
    <3>1. v = s * (2 * q + 1) + (r - s) /\ 2 * q + 1 \in Int /\ r - s \in 0 .. s - 1
      <4>1. s * (2 * q + 1) = s * (2 * q) + s /\ s * (2 * q) \in Int
        BY <2>2
      <4> QED  BY <2>2, <2>3, <2>5, <4>1
    <3>2. v % s = r - s
      BY <3>1, Remainder
    <3> QED  BY <2>2, <2>5, <3>2 DEF r
  <2> QED  BY <2>2, <2>4, <2>5
<1>2. Class(u, 2 * s) \union Class(u + s, 2 * s) = Class(u, s)
  BY <1>1 DEF Class
<1>3. Class(u, 2 * s) \intersect Class(u + s, 2 * s) = {}
  BY DEF Class
<1> QED  BY <1>2, <1>3 DEF Class

(* Before the first fold every unit is in a class of its own, after the    *)
(* last all are in one.                                                    *)
LEMMA ClassesEnd ==
  ASSUME Launched
  PROVE  /\ \A u \in Units : Class(u, Width) = {u}
         /\ Class(0, 1) = Units
<1>1. Width \in Nat \ {0} /\ Units = 0 .. Width - 1
  BY GridIsSound DEF Units
<1>2. \A u \in Units : u % Width = u
  <2> SUFFICES ASSUME NEW u \in Units PROVE u % Width = u
    OBVIOUS
  <2>1. (Width * 0 + u) % Width = u
    BY <1>1, Remainder
  <2>2. Width * 0 + u = u
    BY <1>1
  <2> QED  BY <2>1, <2>2
<1>3. \A u \in Units : u % 1 = 0
  BY <1>1
<1> QED  BY <1>2, <1>3 DEF Class

(* One fold of two right slots makes a right slot.                         *)
LEMMA FoldsAreRight ==
  ASSUME Launched, NEW cube \in 0 .. Cubes - 1, NEW s \in Nat \ {0}, NEW u \in 0 .. s - 1,
         NEW x, x = Folding(Covered(cube, Class(u, 2 * s))),
         NEW y, y = Folding(Covered(cube, Class(u + s, 2 * s)))
  PROVE  Combine(x, y) = Folding(Covered(cube, Class(u, s)))
<1> DEFINE V == Class(u, 2 * s)
           W == Class(u + s, 2 * s)
           C == Covered(cube, V)
           D == Covered(cube, W)
<1>1. V \union W = Class(u, s) /\ V \intersect W = {} /\ V \in SUBSET Units /\ W \in SUBSET Units
  BY ClassesJoin
<1> HIDE DEF V, W
<1>2. C \in SUBSET Index /\ D \in SUBSET Index /\ C \intersect D = {}
      /\ Covered(cube, V \union W) = C \union D
  BY <1>1, CoveredApart
<1> HIDE DEF C, D
<1>3. Combine(Folding(C), Folding(D)) = Folding(C \union D)
  BY <1>2, FoldingJoins
<1> QED  BY <1>1, <1>2, <1>3 DEF C, D, V, W

(* The lanes of a scan are numbered.                                       *)
LEMMA LanesAreNumbers ==
  ASSUME Launched
  PROVE  /\ \A u \in Units : /\ u \in Nat /\ PlaneOf(u) \in Nat /\ LaneOf(u) \in Nat
                             /\ u = Plane * PlaneOf(u) + (u % Plane) /\ u % Plane \in 0 .. Plane - 1
         /\ Plane \in Nat \ {0} /\ Width \in Nat \ {0} /\ Planes \in Nat
<1>1. Plane \in Nat \ {0} /\ Width \in Nat \ {0}
  BY GridIsSound
<1>2. Planes \in Nat
  BY <1>1 DEF Planes, CeilDiv
<1>3. ASSUME NEW u \in Units
      PROVE  /\ u \in Nat /\ PlaneOf(u) \in Nat /\ LaneOf(u) \in Nat
             /\ u = Plane * PlaneOf(u) + (u % Plane) /\ u % Plane \in 0 .. Plane - 1
  <2>1. u \in Nat
    BY <1>1 DEF Units
  <2>2. u = Plane * PlaneOf(u) + (u % Plane) /\ u % Plane \in 0 .. Plane - 1 /\ PlaneOf(u) \in Int
    BY <1>1, <2>1, DivisionHolds DEF PlaneOf
  <2>3. PlaneOf(u) \in Nat
    <3> SUFFICES ASSUME PlaneOf(u) <= -1 PROVE FALSE
      BY <2>2
    <3>1. Plane * PlaneOf(u) <= Plane * (-1)
      BY <1>1, <2>2
    <3>2. Plane * PlaneOf(u) \in Int /\ Plane * (-1) = -Plane
      BY <1>1, <2>2
    <3> QED  BY <1>1, <2>1, <2>2, <3>1, <3>2
  <2> QED  BY <2>1, <2>2, <2>3 DEF LaneOf
<1> QED  BY <1>1, <1>2, <1>3

(* Two windows side by side make one of twice the size.                    *)
LEMMA BehindJoins ==
  ASSUME Launched, NEW p \in Nat, NEW s \in Nat \ {0}
  PROVE  /\ Behind(p, 2 * s) = Behind(p, s) \union Behind(p - s, s)
         /\ Behind(p, s) \intersect Behind(p - s, s) = {}
         /\ Behind(p, s) \in SUBSET Units /\ Behind(p - s, s) \in SUBSET Units
         /\ p < s => Behind(p, 2 * s) = Behind(p, s)
BY LanesAreNumbers DEF Behind

(* A window that reaches past the first lane is as wide as it gets.        *)
LEMMA WindowsFill ==
  ASSUME Launched, NEW cube, NEW p \in Nat, NEW s \in Nat \ {0}, p < s
  PROVE  Window(cube, p, 2 * s) = Window(cube, p, s)
<1>1. Behind(p, 2 * s) = Behind(p, s)
  BY BehindJoins
<1> QED  BY <1>1 DEF Window, SinceHead

(* A slot that absorbs its neighbour's window doubles its own.             *)
LEMMA WindowsJoin ==
  ASSUME Launched, Scanning, NEW cube \in 0 .. Cubes - 1, NEW p \in Nat, NEW s \in Nat \ {0},
         p >= s, SegmentedScan => p < Width
  PROVE  Absorb(Window(cube, p, s), Window(cube, p - s, s)) = Window(cube, p, 2 * s)
<1> DEFINE V == Behind(p, s)
           W == Behind(p - s, s)
<1>1. /\ Behind(p, 2 * s) = V \union W /\ V \intersect W = {} /\ V \in SUBSET Units /\ W \in SUBSET Units
  BY BehindJoins
<1>2. launch.kernel \notin Searches
  BY DEF Scanning, Scans, PrefixSums, BinScans, Searches
<1>3. CASE ~SegmentedScan
  <2>1. SumOver(Covered(cube, V \union W)) = SumOver(Covered(cube, V)) + SumOver(Covered(cube, W))
    <3> HIDE DEF V, W
    <3> QED  BY <1>1, <1>2, SumOfUnits
  <2> QED  BY <1>1, <1>3, <2>1 DEF Window, Absorb, SegmentedScan
<1>4. CASE SegmentedScan
  <2> DEFINE own == Window(cube, p, s)
             left == Window(cube, p - s, s)
             both == Window(cube, p, 2 * s)
             A == SinceHead(cube, p, s)
             B == SinceHead(cube, p - s, s)
             C == SinceHead(cube, p, 2 * s)
             f == \E v \in V : Begins(cube, v)
             g == \E v \in W : Begins(cube, v)
             e == \E v \in V \union W : Begins(cube, v)
             a == SumOver(Covered(cube, A))
             b == SumOver(Covered(cube, B))
             c == SumOver(Covered(cube, C))
  <2>1. /\ own = [val |-> a, head |-> f]
        /\ left = [val |-> b, head |-> g]
        /\ both = [val |-> c, head |-> e]
    BY <1>1, <1>4 DEF Window
  <2>1a. f \in BOOLEAN /\ g \in BOOLEAN /\ e = (f \/ g)
    OBVIOUS
  <2>2. /\ A = {v \in V : \A h \in v + 1 .. p : ~Begins(cube, h)}
        /\ B = {v \in W : \A h \in v + 1 .. p - s : ~Begins(cube, h)}
        /\ C = {v \in V \union W : \A h \in v + 1 .. p : ~Begins(cube, h)}
    BY <1>1 DEF SinceHead
  <2>3. /\ \A v \in Units : v \in V <=> p - s < v /\ v <= p
        /\ \A v \in Units : v \in W <=> p - 2 * s < v /\ v <= p - s
    BY <1>4, LanesAreNumbers DEF Behind, LaneOf
  <2>4. \A h : h \in p - s + 1 .. p => h \in V
    <3> SUFFICES ASSUME NEW h \in p - s + 1 .. p PROVE h \in V
      OBVIOUS
    <3>1. h \in Units
      BY <1>4, GridIsSound DEF Units
    <3> QED  BY <2>3, <3>1
  <2>4a. \A v \in V \union W : v \in Units /\ v \in Nat
    BY <1>1, LanesAreNumbers
  <2> HIDE DEF V, W, A, B, C, own, left, both, f, g, e, a, b, c
  <2>4b. Absorb(own, left) = [val |-> IF f THEN a ELSE a + b, head |-> f \/ g]
    <3>1. Absorb([val |-> a, head |-> f], [val |-> b, head |-> g])
            = [val |-> IF f THEN a ELSE a + b, head |-> f \/ g]
      BY <1>4 DEF Absorb, SegmentedScan
    <3> QED  BY <2>1, <3>1
  <2>4c. c = (IF f THEN a ELSE a + b) => Absorb(own, left) = both
    BY <2>1, <2>1a, <2>4b
  <2>5. CASE \E h \in V : Begins(cube, h)
    <3>1. C = A
      <4>1. PICK h \in V : Begins(cube, h)
        BY <2>5
      <4>2. ASSUME NEW v \in W PROVE h \in v + 1 .. p
        BY <2>3, <2>4a, <4>1
      <4> QED  BY <2>2, <4>1, <4>2
    <3>2. f /\ c = a
      BY <2>5, <3>1 DEF f, a, c
    <3> QED  BY <2>4c, <3>2 DEF own, left, both
  <2>6. CASE ~(\E h \in V : Begins(cube, h))
    <3>1. A = V
      <4>1. ASSUME NEW v \in V, NEW h \in v + 1 .. p PROVE h \in V
        <5>1. h \in p - s + 1 .. p
          BY <2>3, <2>4a, <4>1
        <5> QED  BY <2>4, <5>1
      <4> QED  BY <2>2, <2>6, <4>1
    <3>2. C = V \union B
      <4>1. ASSUME NEW v \in W PROVE v \in C <=> v \in B
        <5>1. v \in Nat /\ v <= p - s
          BY <2>3, <2>4a
        <5>2. ASSUME NEW h \in v + 1 .. p, Begins(cube, h) PROVE h \in v + 1 .. p - s
          <6>1. h \notin p - s + 1 .. p
            BY <2>4, <2>6, <5>2
          <6> QED  BY <5>1, <5>2, <6>1
        <5>3. v + 1 .. p - s \subseteq v + 1 .. p
          BY <5>1
        <5> QED  BY <2>2, <5>2, <5>3
      <4>2. V \subseteq C
        <5>1. A \subseteq C
          BY <2>2
        <5> QED  BY <3>1, <5>1
      <4>3. B \subseteq W /\ C \subseteq V \union W
        BY <2>2
      <4> QED  BY <4>1, <4>2, <4>3
    <3>3. V \intersect B = {} /\ V \in SUBSET Units /\ B \in SUBSET Units
      BY <1>1, <2>2
    <3>4. SumOver(Covered(cube, V \union B)) = SumOver(Covered(cube, V)) + SumOver(Covered(cube, B))
      BY <1>2, <3>3, SumOfUnits
    <3>5. ~f /\ c = a + b
      BY <2>6, <3>1, <3>2, <3>4 DEF f, a, b, c
    <3> QED  BY <2>4c, <3>5 DEF own, left, both
  <2> QED  BY <2>5, <2>6
<1> QED  BY <1>3, <1>4

(* Planes follow one another.                                              *)
LEMMA PlanesFollow ==
  ASSUME Launched, NEW u \in Units
  PROVE  /\ PlaneOf(u) < Planes
         /\ PlaneOf(u) * Plane <= u /\ u < (PlaneOf(u) + 1) * Plane
         /\ \A v \in Units : /\ v <= u => PlaneOf(v) <= PlaneOf(u)
                             /\ PlaneOf(v) < PlaneOf(u) => v < u
<1> DEFINE p == PlaneOf(u)
           r == u % Plane
           n == Plane
<1>1. /\ n \in Nat \ {0} /\ u \in Nat /\ u < Width /\ p \in Nat /\ Planes \in Nat /\ Width \in Nat \ {0}
      /\ u = n * p + r /\ r \in 0 .. n - 1
  BY LanesAreNumbers DEF Units
<1> HIDE DEF p, r, n
<1>2. n * (p + 1) = n * p + n /\ n * p \in Nat /\ p * n = n * p /\ (p + 1) * n = n * (p + 1)
  BY <1>1
<1>3. p < Planes
  <2> DEFINE x == Width + n - 1
             k == x % n
  <2>1. x \in Int
    BY <1>1
  <2>2. Planes = x \div n
    BY DEF Planes, CeilDiv, n
  <2>3. x = n * Planes + k /\ k \in 0 .. n - 1
    <3> HIDE DEF x
    <3> QED  BY <1>1, <2>1, <2>2, DivisionHolds
  <2>4. Width + n - 1 = n * Planes + k
    BY <2>3
  <2> HIDE DEF x, k
  <2> SUFFICES ASSUME Planes <= p PROVE FALSE
    BY <1>1
  <2>5. n * Planes <= n * p
    BY <1>1
  <2>6. n * Planes \in Nat
    BY <1>1
  <2> QED  BY <1>1, <1>2, <2>3, <2>4, <2>5, <2>6
<1>4. ASSUME NEW v \in Units
      PROVE  (v <= u => PlaneOf(v) <= p) /\ (PlaneOf(v) < p => v < u)
  <2> DEFINE q == PlaneOf(v)
             t == v % Plane
  <2>1. v \in Nat /\ q \in Nat /\ v = n * q + t /\ t \in 0 .. n - 1
    BY LanesAreNumbers DEF n
  <2> HIDE DEF q, t
  <2>2. q < p => v < u
    <3> SUFFICES ASSUME q < p PROVE v < u
      OBVIOUS
    <3>1. n * (q + 1) <= n * p
      BY <1>1, <2>1
    <3>2. n * (q + 1) = n * q + n /\ n * q \in Nat
      BY <1>1, <2>1
    <3> QED  BY <1>1, <1>2, <2>1, <3>1, <3>2
  <2>3. p < q => u < v
    <3> SUFFICES ASSUME p < q PROVE u < v
      OBVIOUS
    <3>1. n * (p + 1) <= n * q
      BY <1>1, <2>1
    <3>2. n * q \in Nat
      BY <1>1, <2>1
    <3> QED  BY <1>1, <1>2, <2>1, <3>1, <3>2
  <2> QED  BY <1>1, <2>1, <2>2, <2>3 DEF q
<1> QED  BY <1>1, <1>2, <1>3, <1>4 DEF p, n

(* The last lane of a whole plane.                                         *)
LEMMA LastLane ==
  ASSUME Launched, NEW p \in Nat, (p + 1) * Plane <= Width
  PROVE  \E w \in Units : /\ w % Plane = Plane - 1 /\ PlaneOf(w) = p
                          /\ \A v \in Units : PlaneOf(v) = p => v <= w
<1> DEFINE n == Plane
           w == n * p + (n - 1)
<1>1. n \in Nat \ {0} /\ Width \in Nat \ {0}
  BY GridIsSound
<1>2. n * p \in Nat /\ (p + 1) * n = n * p + n
  BY <1>1
<1>3. w % n = n - 1 /\ w \div n = p
  <2>1. n - 1 \in 0 .. n - 1
    BY <1>1
  <2> HIDE DEF n
  <2>2. (n * p + (n - 1)) % n = n - 1 /\ (n * p + (n - 1)) \div n = p
    <3>1. \A r \in 0 .. n - 1 : (n * p + r) % n = r /\ (n * p + r) \div n = p
      <4>1. p \in Int
        OBVIOUS
      <4> QED  BY <1>1, <4>1, Remainder
    <3> QED  BY <2>1, <3>1, Zenon
  <2> QED  BY <2>2
<1>4. w \in Units
  BY <1>1, <1>2 DEF Units
<1>5. ASSUME NEW v \in Units, PlaneOf(v) = p PROVE v <= w
  <2>1. v < (PlaneOf(v) + 1) * Plane /\ v \in Nat
    BY PlanesFollow, LanesAreNumbers
  <2> QED  BY <1>1, <1>2, <1>5, <2>1
<1> QED  BY <1>3, <1>4, <1>5 DEF PlaneOf

(* A loaded slot holds a window of one lane.                               *)
LEMMA LoadsWindow ==
  ASSUME Launched, Scanning, NEW cube \in 0 .. Cubes - 1, NEW p \in Units, Whole(p),
         NEW x, \A w \in Units : OwnsSlot(w) /\ SlotOf(w) = p => x = Loaded(cube, w)
  PROVE  x = Window(cube, p, 1)
<1>0. launch.kernel \notin Searches \union SegmentFolds /\ ~UsesPlanes /\ p \in Nat
  BY LanesAreNumbers DEF Scanning, Scans, PrefixSums, BinScans, Searches, SegmentFolds, UsesPlanes, PlaneFolds
<1>1. CASE launch.kernel \in Scans
  <2>1. PICK w \in Units : /\ w % Plane = Plane - 1 /\ PlaneOf(w) = p
                           /\ \A v \in Units : PlaneOf(v) = p => v <= w
    <3>1. (p + 1) * Plane <= Width
      BY <1>1 DEF Whole
    <3> QED  BY <1>0, <3>1, LastLane
  <2>2. OwnsSlot(w) /\ SlotOf(w) = p
    BY <1>1, <2>1 DEF OwnsSlot, SlotOf
  <2>3. Loaded(cube, w) = PlaneInclusive(cube, w)
    BY <1>0, <1>1 DEF Loaded, Scans, PrefixSums, BinScans, Searches, SegmentFolds
  <2> DEFINE V == {v \in Units : PlaneOf(v) = PlaneOf(w) /\ v <= w}
  <2>4. V = Behind(p, 1)
    <3>1. ~SegmentedScan
      BY <1>1 DEF SegmentedScan, Scans, PrefixSums, BinScans
    <3>2. ASSUME NEW v \in Units PROVE (p - 1 < PlaneOf(v) /\ PlaneOf(v) <= p) <=> PlaneOf(v) = p
      BY <1>0, LanesAreNumbers
    <3> QED  BY <2>1, <3>1, <3>2 DEF Behind, LaneOf
  <2>5. PlaneInclusive(cube, w) = SumOver(Covered(cube, V))
    <3>1. PlaneInclusive(cube, w) = SumFunctionOnSet(Elements(cube), V) /\ V \in SUBSET Units
      BY DEF PlaneInclusive
    <3> HIDE DEF V
    <3> QED  BY <1>0, <3>1, ElementsSum
  <2>6. Window(cube, p, 1) = SumOver(Covered(cube, Behind(p, 1)))
    BY <1>1 DEF Window, SegmentedScan, Scans, PrefixSums, BinScans
  <2> QED  BY <2>2, <2>3, <2>4, <2>5, <2>6
<1>2. CASE launch.kernel = "segmented_scan"
  <2>1. OwnsSlot(p) /\ SlotOf(p) = p
    BY <1>0, <1>2 DEF OwnsSlot, SlotOf, Scans, PrefixSums, BinScans
  <2>2. Loaded(cube, p) = [val |-> Element(cube, p), head |-> Begins(cube, p)]
    BY <1>0, <1>2 DEF Loaded, Scans, PrefixSums, BinScans, Searches, SegmentFolds, Begins
  <2>3. Behind(p, 1) = {p} /\ SinceHead(cube, p, 1) = {p}
    <3>1. \A v \in Units : (p - 1 < v /\ v <= p) <=> v = p
      BY <1>0, LanesAreNumbers
    <3>2. Behind(p, 1) = {p}
      BY <1>2, <3>1 DEF Behind, LaneOf, SegmentedScan
    <3> QED  BY <1>0, <3>2 DEF SinceHead
  <2>4. Element(cube, p) = SumOver(Covered(cube, {p}))
    BY <1>0, SumOfUnits
  <2>5. Window(cube, p, 1) = [val |-> SumOver(Covered(cube, SinceHead(cube, p, 1))),
                              head |-> \E v \in Behind(p, 1) : Begins(cube, v)]
    BY <1>2 DEF Window, SegmentedScan
  <2>6. (\E v \in Behind(p, 1) : Begins(cube, v)) = Begins(cube, p)
    <3>1. Begins(cube, p) \in BOOLEAN
      BY DEF Begins
    <3> QED  BY <2>3, <3>1
  <2> QED  BY <2>1, <2>2, <2>3, <2>4, <2>5, <2>6
<1> QED  BY <1>1, <1>2 DEF Scanning

(* A scan has a window's width when it stops.                              *)
LEMMA FullWindows ==
  ASSUME Launched, NEW p \in Nat, NEW w \in Nat, p < w
  PROVE  Behind(p, w) = {v \in Units : LaneOf(v) <= p}
BY LanesAreNumbers DEF Behind

(* The carry of a plane is the sum of the planes before it.                *)
LEMMA CarryIsRight ==
  ASSUME Launched, launch.kernel \in Scans, NEW cube \in 0 .. Cubes - 1, NEW u \in Units,
         PlaneOf(u) >= 1, NEW w \in Nat, w >= Planes
  PROVE  /\ PlaneOf(u) - 1 \in Units /\ Whole(PlaneOf(u) - 1) /\ Planes > 1
         /\ Window(cube, PlaneOf(u) - 1, w)
              = SumOver(Covered(cube, {v \in Units : PlaneOf(v) < PlaneOf(u)}))
<1> DEFINE p == PlaneOf(u) - 1
<1>1. /\ PlaneOf(u) \in Nat /\ p \in Nat /\ Planes \in Nat /\ PlaneOf(u) < Planes
      /\ PlaneOf(u) * Plane <= u /\ u \in Nat /\ u < Width /\ Plane \in Nat \ {0} /\ Width \in Nat
      /\ p + 1 = PlaneOf(u)
  BY LanesAreNumbers, PlanesFollow DEF Units
<1>2. (p + 1) * Plane <= Width
  <2>1. PlaneOf(u) * Plane \in Nat
    BY <1>1
  <2> QED  BY <1>1, <2>1
<1>3. p \in Units
  <2>1. PlaneOf(u) * 1 <= PlaneOf(u) * Plane
    BY <1>1
  <2>2. PlaneOf(u) * Plane \in Nat
    BY <1>1
  <2> QED  BY <1>1, <2>1, <2>2 DEF Units
<1>4. ~SegmentedScan
  BY DEF SegmentedScan, Scans, PrefixSums, BinScans
<1>5. Behind(p, w) = {v \in Units : PlaneOf(v) < PlaneOf(u)}
  <2>1. Behind(p, w) = {v \in Units : LaneOf(v) <= p}
    BY <1>1, FullWindows
  <2>2. \A v \in Units : LaneOf(v) <= p <=> PlaneOf(v) < PlaneOf(u)
    BY <1>1, <1>4, LanesAreNumbers DEF LaneOf
  <2> QED  BY <2>1, <2>2
<1>6. Whole(p) /\ Planes > 1
  BY <1>1, <1>2 DEF Whole
<1>7. Window(cube, p, w) = SumOver(Covered(cube, Behind(p, w)))
  BY <1>4 DEF Window
<1> QED  BY <1>3, <1>5, <1>6, <1>7

(* A plane's carry and its own prefix make the prefix of the cube.         *)
LEMMA PrefixIsRight ==
  ASSUME Launched, launch.kernel \in Scans, NEW cube \in 0 .. Cubes - 1, NEW u \in Units
  PROVE  PlaneInclusive(cube, u) + SumOver(Covered(cube, {v \in Units : PlaneOf(v) < PlaneOf(u)}))
           = SumOver(Covered(cube, {v \in Units : v <= u}))
<1> DEFINE V == {v \in Units : PlaneOf(v) = PlaneOf(u) /\ v <= u}
           W == {v \in Units : PlaneOf(v) < PlaneOf(u)}
<1>1. launch.kernel \notin Searches \union SegmentFolds
  BY DEF Scans, PrefixSums, BinScans, Searches, SegmentFolds
<1>2. V \in SUBSET Units /\ W \in SUBSET Units /\ V \intersect W = {}
  BY LanesAreNumbers
<1>3. V \union W = {v \in Units : v <= u}
  <2>1. ASSUME NEW v \in Units PROVE v <= u <=> v \in V \/ v \in W
    BY LanesAreNumbers, PlanesFollow
  <2> QED  BY <2>1
<1>4. PlaneInclusive(cube, u) = SumFunctionOnSet(Elements(cube), V)
  BY DEF PlaneInclusive
<1> HIDE DEF V, W
<1>5. PlaneInclusive(cube, u) = SumOver(Covered(cube, V))
  BY <1>1, <1>2, <1>4, ElementsSum
<1>6. SumOver(Covered(cube, V \union W)) = SumOver(Covered(cube, V)) + SumOver(Covered(cube, W))
  BY <1>1, <1>2, SumOfUnits
<1> QED  BY <1>3, <1>5, <1>6 DEF W

(* The cells of shared memory.                                             *)
Shared == 0 .. CubeDim - 1
SharedSlots(slots) == slots = [s \in Shared |-> slots[s]]

(* A slot that a unit owns is one of the cube's.                           *)
LEMMA SlotsAreUnits ==
  ASSUME Launched, NEW u \in Units
  PROVE  SlotOf(u) \in Units /\ Units \subseteq Shared /\ PlaneOf(u) \in Units
<1>1. /\ Width \in Nat \ {0} /\ Width <= CubeDim /\ CubeDim \in Nat
      /\ u \in Nat /\ PlaneOf(u) \in Nat /\ Plane \in Nat \ {0} /\ PlaneOf(u) * Plane <= u
  BY GridIsSound, LanesAreNumbers, PlanesFollow, CubeDimAssumption
<1>2. PlaneOf(u) \in Units
  <2>1. PlaneOf(u) * 1 <= PlaneOf(u) * Plane
    BY <1>1
  <2>2. PlaneOf(u) * Plane \in Nat
    BY <1>1
  <2> QED  BY <1>1, <2>1, <2>2 DEF Units
<1> QED  BY <1>1, <1>2 DEF SlotOf, Units, Shared

(* A unit changes the slots its segment writes and no other.               *)
ChangesOnly(W, slots, new) ==
  SharedSlots(new) /\ (\A s \in Shared \ W : new[s] = slots[s]) /\ W \subseteq Units

(* What a segment does to the slots changes only those it writes.          *)
LEMMA SlotsChange ==
  ASSUME Launched, ~Merging, NEW cube, NEW u \in Units, NEW seg, seg.op # "scatter", NEW reg,
         NEW slots, SharedSlots(slots)
  PROVE  ChangesOnly(Writes(cube, u, seg), slots, NewSlots(cube, u, seg, reg, slots))
<1> DEFINE new == NewSlots(cube, u, seg, reg, slots)
<1>0. new = NewSlots(cube, u, seg, reg, slots)
  OBVIOUS
<1> HIDE DEF new
<1> SUFFICES /\ SharedSlots(new)
             /\ \A s \in Shared \ Writes(cube, u, seg) : new[s] = slots[s]
             /\ Writes(cube, u, seg) \subseteq Units
  BY <1>0 DEF ChangesOnly
<1>1. launch.kernel # "partition_update_lds" /\ SlotOf(u) \in Shared /\ u \in Shared /\ SlotOf(u) \in Units
  BY SlotsAreUnits DEF Merging
<1>2. ASSUME NEW k \in Units, Writes(cube, u, seg) = {k}, NEW y, new = [slots EXCEPT ![k] = y]
      PROVE  /\ SharedSlots(new)
             /\ \A s \in Shared \ Writes(cube, u, seg) : new[s] = slots[s]
             /\ Writes(cube, u, seg) \subseteq Units
  <2>1. k \in Shared /\ slots = [s \in Shared |-> slots[s]]
    BY <1>1, SlotsAreUnits DEF SharedSlots
  <2>2. new = [s \in Shared |-> IF s = k THEN y ELSE slots[s]]
    BY <1>2, <2>1
  <2>3. \A s \in Shared : new[s] = IF s = k THEN y ELSE slots[s]
    BY <2>2
  <2>4. new = [s \in Shared |-> new[s]]
    BY <2>2
  <2> QED  BY <1>2, <2>3, <2>4 DEF SharedSlots
<1>3. CASE seg.op = "load"
  <2>1. CASE OwnsSlot(u)
    <3>1. Writes(cube, u, seg) = {SlotOf(u)}
      BY <1>1, <1>3, <2>1 DEF Writes
    <3>2. new = [slots EXCEPT ![SlotOf(u)] = Loaded(cube, u)]
      BY <1>0, <1>1, <1>3, <2>1 DEF NewSlots
    <3> QED  BY <1>1, <1>2, <3>1, <3>2
  <2>2. CASE ~OwnsSlot(u)
    <3>1. Writes(cube, u, seg) = {} /\ new = slots
      BY <1>0, <1>1, <1>3, <2>2 DEF Writes, NewSlots
    <3> QED  BY <3>1
  <2> QED  BY <2>1, <2>2
<1>4. CASE seg.op = "fold"
  <2>1. CASE u < seg.s
    <3>1. Writes(cube, u, seg) = {u}
      BY <1>1, <1>4, <2>1 DEF Writes
    <3>2. new = [slots EXCEPT ![u] = Combine(slots[u], slots[u + seg.s])]
      BY <1>0, <1>1, <1>4, <2>1 DEF NewSlots, SharedSlots
    <3> QED  BY <1>1, <1>2, <3>1, <3>2
  <2>2. CASE ~(u < seg.s)
    <3>1. Writes(cube, u, seg) = {} /\ new = slots
      BY <1>0, <1>1, <1>4, <2>2 DEF Writes, NewSlots
    <3> QED  BY <3>1
  <2> QED  BY <2>1, <2>2
<1>5. CASE seg.op = "add"
  <2>1. CASE Drives(u, seg.s)
    <3>1. Writes(cube, u, seg) = {u}
      BY <1>1, <1>5, <2>1 DEF Writes
    <3>2. new = [slots EXCEPT ![u] = Absorb(slots[u], reg)]
      BY <1>0, <1>1, <1>5, <2>1 DEF NewSlots, SharedSlots
    <3> QED  BY <1>1, <1>2, <3>1, <3>2
  <2>2. CASE ~Drives(u, seg.s)
    <3>1. Writes(cube, u, seg) = {} /\ new = slots
      BY <1>0, <1>1, <1>5, <2>2 DEF Writes, NewSlots
    <3> QED  BY <3>1
  <2> QED  BY <2>1, <2>2
<1>6. CASE seg.op \notin {"load", "fold", "add"}
  <2>1. Writes(cube, u, seg) = {} /\ new = slots
    BY <1>0, <1>1, <1>6 DEF Writes, NewSlots
  <2> QED  BY <2>1
<1> QED  BY <1>3, <1>4, <1>5, <1>6

(* What a unit reads and writes back is right from the segment before.     *)
Readable(cube, prev, u, seg, slots) ==
  \A s \in Reads(cube, u, seg) \union Writes(cube, u, seg) : Right(cube, prev, s, slots[s])
Prepared(cube, prev, u, seg, reg, slots) ==
  /\ Follows(prev, seg) /\ Readable(cube, prev, u, seg, slots) /\ RightReg(cube, prev, u, reg)

(* The loads of a kernel are right.                                        *)
LEMMA LoadsAreRight ==
  ASSUME Launched, ~Merging, NEW cube, NEW u \in Units, NEW seg, seg.op = "load", NEW reg,
         NEW slots, SharedSlots(slots), NEW s \in Writes(cube, u, seg)
  PROVE  Right(cube, seg, s, NewSlots(cube, u, seg, reg, slots)[s])
<1>1. launch.kernel # "partition_update_lds" /\ SlotOf(u) \in Shared
  BY SlotsAreUnits DEF Merging
<1>2. OwnsSlot(u) /\ s = SlotOf(u)
  BY <1>1 DEF Writes
<1>3. NewSlots(cube, u, seg, reg, slots) = [slots EXCEPT ![SlotOf(u)] = Loaded(cube, u)]
  BY <1>1, <1>2 DEF NewSlots
<1>4. NewSlots(cube, u, seg, reg, slots)[s] = Loaded(cube, u)
  BY <1>1, <1>2, <1>3 DEF SharedSlots
<1>5. \A w \in Units : OwnsSlot(w) /\ SlotOf(w) = s => w = u
  BY <1>2, SlotsAreOwnedOnce
<1> QED  BY <1>4, <1>5 DEF Right

(* So are the slots a fold makes.                                          *)
LEMMA FoldedSlotsAreRight ==
  ASSUME Launched, ~Merging, NEW cube \in 0 .. Cubes - 1, NEW u \in Units, NEW seg, seg.op = "fold", NEW reg,
         NEW slots, SharedSlots(slots), NEW prev \in Segs, Prepared(cube, prev, u, seg, reg, slots),
         NEW s \in Writes(cube, u, seg)
  PROVE  Right(cube, seg, s, NewSlots(cube, u, seg, reg, slots)[s])
<1> DEFINE h == seg.s
<1>1. /\ TreeFolds /\ h \in Nat \ {0} /\ 2 * h <= Width
      /\ \/ prev.op = "load" /\ Width = 2 * h
         \/ prev.op = "fold" /\ prev.s = 2 * h
  BY DEF Prepared, Follows
<1>2. /\ u < h /\ s = u /\ Writes(cube, u, seg) = {u} /\ Reads(cube, u, seg) = {u, u + h}
      /\ u \in 0 .. h - 1 /\ u + h \in Units /\ u \in Shared
  <2>1. u < h /\ s = u /\ Writes(cube, u, seg) = {u} /\ Reads(cube, u, seg) = {u, u + h}
    BY DEF Writes, Reads
  <2>2. u \in Nat /\ Width \in Nat
    BY LanesAreNumbers
  <2> QED  BY <1>1, <2>1, <2>2, SlotsAreUnits DEF Units
<1>3. Right(cube, prev, u, slots[u]) /\ Right(cube, prev, u + h, slots[u + h])
  BY <1>2 DEF Prepared, Readable
<1> HIDE DEF h
<1>4. ASSUME NEW k \in {u, u + h}, Right(cube, prev, k, slots[k])
      PROVE  slots[k] = Folding(Covered(cube, Class(k, 2 * h)))
  <2>0. k \in Units /\ k < 2 * h
    BY <1>1, <1>2
  <2>1. CASE prev.op = "load"
    <3>1. Class(k, 2 * h) = {k} /\ OwnsSlot(k) /\ SlotOf(k) = k /\ Loaded(cube, k) = Folding(Covered(cube, {k}))
      BY <1>1, <2>0, <2>1, ClassesEnd, LoadsFold
    <3> QED  BY <1>4, <2>0, <2>1, <3>1 DEF Right
  <2>2. CASE prev.op = "fold"
    BY <1>1, <1>4, <2>0, <2>2 DEF Right
  <2> QED  BY <1>1, <2>1, <2>2
<1>5. Combine(slots[u], slots[u + h]) = Folding(Covered(cube, Class(u, h)))
  BY <1>1, <1>2, <1>3, <1>4, FoldsAreRight
<1>6. NewSlots(cube, u, seg, reg, slots)[u] = Combine(slots[u], slots[u + h])
  <2>1. launch.kernel # "partition_update_lds"
    BY DEF Merging
  <2>2. NewSlots(cube, u, seg, reg, slots) = [slots EXCEPT ![u] = Combine(slots[u], slots[u + h])]
    BY <1>2, <2>1 DEF NewSlots, SharedSlots, h
  <2> QED  BY <1>2, <2>2 DEF SharedSlots
<1> QED  BY <1>2, <1>5, <1>6 DEF Right, h

(* The slots a scan reads are whole.                                       *)
LEMMA SlotsBehindAreWhole ==
  ASSUME Launched, Scanning, NEW s \in Nat \ {0}, NEW u \in Units, Drives(u, s)
  PROVE  Whole(u - s) /\ u - s \in Units /\ u - s \in Nat /\ u \in Nat /\ u < Width
<1> DEFINE n == Plane
<1>1. u \in Nat /\ u < Width /\ n \in Nat \ {0} /\ Width \in Nat \ {0} /\ Planes \in Nat /\ u >= s
  BY LanesAreNumbers DEF Units, Drives
<1> HIDE DEF n
<1>2. u - s \in Units /\ u - s \in Nat /\ u - s < Width
  BY <1>1 DEF Units
<1>3. launch.kernel \in Scans => (u - s + 1) * n <= Width
  <2> SUFFICES ASSUME u < Planes PROVE (u - s + 1) * n <= Width
    BY DEF Drives
  <2> DEFINE x == Width + n - 1
             k == x % n
  <2>1. x \in Int /\ Planes = x \div n
    BY <1>1 DEF Planes, CeilDiv, n
  <2>2. x = n * Planes + k /\ k \in 0 .. n - 1
    <3> HIDE DEF x
    <3> QED  BY <1>1, <2>1, DivisionHolds
  <2>3. Width + n - 1 = n * Planes + k
    BY <2>2
  <2> HIDE DEF x, k
  <2>4. n * (Planes - 1) = n * Planes - n /\ n * Planes \in Nat
    BY <1>1
  <2>5. n * (u - s + 1) <= n * (Planes - 1)
    <3>1. u - s + 1 <= Planes - 1 /\ u - s + 1 \in Nat /\ Planes - 1 \in Nat
      BY <1>1
    <3> QED  BY <1>1, <3>1
  <2>6. (u - s + 1) * n = n * (u - s + 1) /\ n * (u - s + 1) \in Int
    BY <1>1
  <2> QED  BY <1>1, <2>2, <2>3, <2>4, <2>5, <2>6
<1> QED  BY <1>1, <1>2, <1>3 DEF Whole, n

(* What a driver of a scan reads is a window of the stage's width.         *)
LEMMA WindowsAreRead ==
  ASSUME Launched, Scanning, NEW cube \in 0 .. Cubes - 1, NEW seg, seg.op = "read", NEW prev, Follows(prev, seg),
         NEW s \in Units, Whole(s), NEW x, Right(cube, prev, s, x)
  PROVE  x = Window(cube, s, seg.s)
<1>1. (prev.op = "load" /\ seg.s = 1) \/ (prev.op = "add" /\ seg.s = 2 * prev.s)
  BY DEF Follows
<1>2. CASE prev.op = "load" /\ seg.s = 1
  BY <1>2, LoadsWindow DEF Right
<1>3. CASE prev.op = "add" /\ seg.s = 2 * prev.s
  BY <1>3 DEF Right
<1> QED  BY <1>1, <1>2, <1>3

(* So are the slots a scan makes.                                          *)
LEMMA ScannedSlotsAreRight ==
  ASSUME Launched, ~Merging, NEW cube \in 0 .. Cubes - 1, NEW u \in Units, NEW seg, seg.op = "add", NEW reg,
         NEW slots, SharedSlots(slots), NEW prev \in Segs, Prepared(cube, prev, u, seg, reg, slots),
         NEW s \in Writes(cube, u, seg)
  PROVE  Right(cube, seg, s, NewSlots(cube, u, seg, reg, slots)[s])
<1>1. Scanning /\ seg.s \in Nat \ {0} /\ prev.op = "read" /\ prev.s = seg.s
  BY DEF Prepared, Follows
<1>2. Drives(u, seg.s) /\ s = u /\ Writes(cube, u, seg) = {u} /\ Reads(cube, u, seg) = {u} /\ u \in Shared
  BY SlotsAreUnits DEF Writes, Reads
<1>3. u - seg.s \in Nat /\ u \in Nat /\ u < Width /\ u >= seg.s
  BY <1>1, <1>2, SlotsBehindAreWhole DEF Drives
<1>4. reg = Window(cube, u - seg.s, seg.s)
  BY <1>1, <1>2 DEF Prepared, RightReg
<1>5. Whole(u) => slots[u] = Window(cube, u, seg.s)
  BY <1>1, <1>2 DEF Prepared, Readable, Right
<1>6. NewSlots(cube, u, seg, reg, slots)[u] = Absorb(slots[u], reg)
  <2>1. launch.kernel # "partition_update_lds"
    BY DEF Merging
  <2>2. NewSlots(cube, u, seg, reg, slots) = [slots EXCEPT ![u] = Absorb(slots[u], reg)]
    BY <1>2, <2>1 DEF NewSlots, SharedSlots
  <2> QED  BY <1>2, <2>2 DEF SharedSlots
<1>7. Absorb(Window(cube, u, seg.s), Window(cube, u - seg.s, seg.s)) = Window(cube, u, 2 * seg.s)
  BY <1>1, <1>3, WindowsJoin
<1>8. Whole(u) => NewSlots(cube, u, seg, reg, slots)[u] = Window(cube, u, 2 * seg.s)
  BY <1>4, <1>5, <1>6, <1>7
<1> QED  BY <1>2, <1>8 DEF Right

(* So are the registers.                                                   *)
LEMMA RegistersAreRight ==
  ASSUME Launched, ~Merging, NEW cube \in 0 .. Cubes - 1, NEW u \in Units, NEW seg, seg.op \in {"read", "carry"}, NEW reg,
         NEW slots, NEW prev \in Segs, Prepared(cube, prev, u, seg, reg, slots)
  PROVE  RightReg(cube, seg, u, NewReg(u, seg, reg, slots))
<1>1. CASE seg.op = "read"
  <2> SUFFICES ASSUME Drives(u, seg.s) PROVE NewReg(u, seg, reg, slots) = Window(cube, u - seg.s, seg.s)
    BY <1>1 DEF RightReg
  <2>1. Scanning /\ seg.s \in Nat \ {0} /\ Follows(prev, seg)
    BY <1>1 DEF Prepared, Follows
  <2>2. Whole(u - seg.s) /\ u - seg.s \in Units
    BY <2>1, SlotsBehindAreWhole
  <2>3. Right(cube, prev, u - seg.s, slots[u - seg.s])
    BY <1>1 DEF Prepared, Readable, Reads
  <2>4. NewReg(u, seg, reg, slots) = slots[u - seg.s]
    BY <1>1 DEF NewReg
  <2> QED  BY <1>1, <2>1, <2>2, <2>3, <2>4, WindowsAreRead
<1>2. CASE seg.op = "carry"
  <2>1. /\ launch.kernel \in Scans
        /\ \/ prev.op = "load" /\ Planes <= 1
           \/ prev.op = "add" /\ 2 * prev.s >= Planes
    BY <1>2 DEF Prepared, Follows
  <2>2. PlaneOf(u) \in Nat /\ Planes \in Nat
    BY LanesAreNumbers
  <2>3. CASE PlaneOf(u) >= 1
    <3> DEFINE p == PlaneOf(u) - 1
    <3>1. p \in Units /\ Whole(p) /\ Planes > 1
      <4>1. Planes >= Planes
        BY <2>2
      <4> QED  BY <2>1, <2>2, <2>3, <4>1, CarryIsRight
    <3>2. prev.op = "add" /\ 2 * prev.s >= Planes
      BY <2>1, <2>2, <3>1
    <3>3. Right(cube, prev, p, slots[p])
      BY <1>2, <2>3 DEF Prepared, Readable, Reads
    <3>4. slots[p] = Window(cube, p, 2 * prev.s)
      BY <3>1, <3>2, <3>3 DEF Right
    <3>5. NewReg(u, seg, reg, slots) = slots[p]
      BY <1>2, <2>3 DEF NewReg
    <3>6. 2 * prev.s \in Nat
      BY DEF Segs
    <3>7. Window(cube, p, 2 * prev.s) = SumOver(Covered(cube, {v \in Units : PlaneOf(v) < PlaneOf(u)}))
      BY <2>1, <2>3, <3>2, <3>6, CarryIsRight
    <3> QED  BY <1>2, <3>4, <3>5, <3>7 DEF RightReg
  <2>4. CASE ~(PlaneOf(u) >= 1)
    <3>1. {v \in Units : PlaneOf(v) < PlaneOf(u)} = {}
      BY <2>2, <2>4, LanesAreNumbers
    <3>2. launch.kernel \notin Searches
      BY <2>1 DEF Scans, PrefixSums, BinScans, Searches
    <3>3. SumOver(Covered(cube, {})) = 0
      BY <3>2, SumOfUnits
    <3>4. NewReg(u, seg, reg, slots) = 0
      BY <1>2, <2>4 DEF NewReg
    <3> QED  BY <1>2, <3>1, <3>3, <3>4 DEF RightReg
  <2> QED  BY <2>3, <2>4
<1> QED  BY <1>1, <1>2

(* A slot no unit writes is already what the segment makes of it.          *)
LEMMA UnwrittenIsRight ==
  ASSUME Launched, ~Merging, NEW cube \in 0 .. Cubes - 1, NEW seg, NEW s \in Units, NEW x,
         \A w \in Units : s \notin Writes(cube, w, seg),
         seg.op = "load" \/ \E prev \in Segs : Follows(prev, seg) /\ Right(cube, prev, s, x)
  PROVE  Right(cube, seg, s, x)
<1>0. launch.kernel # "partition_update_lds" /\ s \in Nat
  BY LanesAreNumbers DEF Merging
<1>1. CASE seg.op = "load"
  <2>1. \A w \in Units : OwnsSlot(w) => SlotOf(w) # s
    BY <1>0, <1>1 DEF Writes
  <2> QED  BY <1>1, <2>1 DEF Right
<1>2. CASE seg.op # "load"
  <2>1. PICK prev \in Segs : Follows(prev, seg) /\ Right(cube, prev, s, x)
    BY <1>2
  <2>2. CASE seg.op = "fold"
    <3>1. ~(s < seg.s)
      BY <1>0, <2>2 DEF Writes
    <3> QED  BY <2>2, <3>1 DEF Right
  <2>3. CASE seg.op = "read"
    <3>1. Scanning
      BY <2>1, <2>3 DEF Follows
    <3>2. Whole(s) => x = Window(cube, s, seg.s)
      BY <2>1, <2>3, <3>1, WindowsAreRead
    <3> QED  BY <2>3, <3>2 DEF Right
  <2>4. CASE seg.op = "add"
    <3>1. Scanning /\ seg.s \in Nat \ {0} /\ prev.op = "read" /\ prev.s = seg.s
      BY <2>1, <2>4 DEF Follows
    <3>2. Whole(s) => x = Window(cube, s, seg.s)
      BY <2>1, <3>1 DEF Right
    <3>3. ~Drives(s, seg.s)
      BY <1>0, <2>4 DEF Writes
    <3>4. Whole(s) => s < seg.s
      <4> SUFFICES ASSUME Whole(s), launch.kernel \in Scans PROVE s < Planes
        BY <1>0, <3>1, <3>3 DEF Drives
      <4>1. (s + 1) * Plane <= Width
        BY DEF Whole
      <4>2. PICK w \in Units : PlaneOf(w) = s
        BY <1>0, <4>1, LastLane
      <4> QED  BY <4>2, PlanesFollow
    <3>5. Whole(s) => x = Window(cube, s, 2 * seg.s)
      BY <1>0, <3>1, <3>2, <3>4, WindowsFill
    <3> QED  BY <2>4, <3>5 DEF Right
  <2>5. CASE seg.op \notin {"fold", "read", "add"}
    BY <1>2, <2>5 DEF Right
  <2> QED  BY <2>2, <2>3, <2>4, <2>5
<1> QED  BY <1>1, <1>2

(* What a segment writes is right if what it reads is.                     *)
LEMMA SegmentsAreRight ==
  ASSUME Launched, ~Merging, NEW cube \in 0 .. Cubes - 1, NEW u \in Units, NEW seg, seg.op # "scatter", NEW reg,
         NEW slots, SharedSlots(slots),
         seg.op = "load" \/ \E prev \in Segs : Prepared(cube, prev, u, seg, reg, slots)
  PROVE  /\ \A s \in Writes(cube, u, seg) : Right(cube, seg, s, NewSlots(cube, u, seg, reg, slots)[s])
         /\ RightReg(cube, seg, u, NewReg(u, seg, reg, slots))
<1>1. ASSUME NEW s \in Writes(cube, u, seg)
      PROVE  Right(cube, seg, s, NewSlots(cube, u, seg, reg, slots)[s])
  <2>1. CASE seg.op = "load"
    BY <2>1, LoadsAreRight
  <2>2. CASE seg.op # "load"
    <3>1. PICK prev \in Segs : Prepared(cube, prev, u, seg, reg, slots)
      BY <2>2
    <3>2. CASE seg.op = "fold"
      BY <3>1, <3>2, FoldedSlotsAreRight
    <3>3. CASE seg.op = "add"
      BY <3>1, <3>3, ScannedSlotsAreRight
    <3>4. CASE seg.op \notin {"fold", "add"}
      BY <2>2, <3>4 DEF Writes
    <3> QED  BY <3>2, <3>3, <3>4
  <2> QED  BY <2>1, <2>2
<1>2. RightReg(cube, seg, u, NewReg(u, seg, reg, slots))
  <2>1. CASE seg.op \in {"read", "carry"}
    <3>1. PICK prev \in Segs : Prepared(cube, prev, u, seg, reg, slots)
      BY <2>1
    <3> QED  BY <2>1, <3>1, RegistersAreRight
  <2>2. CASE seg.op \notin {"read", "carry"}
    BY <2>2 DEF RightReg
  <2> QED  BY <2>1, <2>2
<1> QED  BY <1>1, <1>2

(* The first lane of a plane.                                              *)
LEMMA FirstLane ==
  ASSUME Launched, NEW p \in 0 .. Planes - 1
  PROVE  \E w \in Units : w % Plane = 0 /\ PlaneOf(w) = p
<1> DEFINE n == Plane
           w == n * p + 0
<1>1. n \in Nat \ {0} /\ Width \in Nat \ {0} /\ Planes \in Nat /\ p \in Nat
  BY LanesAreNumbers
<1>2. w % n = 0 /\ w \div n = p
  <2>1. 0 \in 0 .. n - 1 /\ p \in Int
    BY <1>1
  <2> HIDE DEF n
  <2> QED  BY <1>1, <2>1, Remainder
<1>3. n * p < Width
  <2> HIDE DEF n
  <2> DEFINE x == Width + n - 1
             k == x % n
  <2>1. x \in Int /\ Planes = x \div n
    BY <1>1 DEF Planes, CeilDiv, n
  <2>2. x = n * Planes + k /\ k \in 0 .. n - 1
    <3> HIDE DEF x
    <3> QED  BY <1>1, <2>1, DivisionHolds
  <2>3. Width + n - 1 = n * Planes + k
    BY <2>2
  <2> HIDE DEF x, k
  <2>4. n * (p + 1) <= n * Planes
    <3>1. p + 1 <= Planes /\ p + 1 \in Nat
      BY <1>1
    <3> QED  BY <1>1, <3>1
  <2>5. n * (p + 1) = n * p + n /\ n * p \in Nat /\ n * Planes \in Nat
    BY <1>1
  <2> QED  BY <1>1, <2>2, <2>3, <2>4, <2>5
<1>4. w \in Units
  <2>1. n * p \in Nat
    BY <1>1
  <2> QED  BY <1>1, <1>3, <2>1 DEF Units
<1> QED  BY <1>2, <1>4 DEF PlaneOf

(* Where planes fold, their sums add up to that of the cube.               *)
LEMMA PlanesAddUp ==
  ASSUME Launched, UsesPlanes, NEW cube \in 0 .. Cubes - 1, NEW slots,
         \A p \in 0 .. Planes - 1, w \in Units : OwnsSlot(w) /\ SlotOf(w) = p => slots[p] = Loaded(cube, w)
  PROVE  Folded(slots) = SumOver(Covered(cube, Units))
<1>0. /\ launch.kernel \notin Searches \union SegmentFolds \union Scans
      /\ launch.kernel # "segmented_scan" /\ Planes \in Nat
  BY LanesAreNumbers DEF UsesPlanes, PlaneFolds, Searches, SegmentFolds, Scans, PrefixSums, BinScans
<1> DEFINE V(k) == {v \in Units : PlaneOf(v) < k}
           W(k) == {v \in Units : PlaneOf(v) = k}
           G == {k \in Nat : k <= Planes => SumFunctionOnSet(slots, 0 .. k - 1) = SumOver(Covered(cube, V(k)))}
<1>1. ASSUME NEW p \in 0 .. Planes - 1 PROVE slots[p] = SumOver(Covered(cube, W(p))) /\ slots[p] \in Int
  <2>1. PICK w \in Units : w % Plane = 0 /\ PlaneOf(w) = p
    BY FirstLane
  <2>2. OwnsSlot(w) /\ SlotOf(w) = p
    BY <1>0, <2>1 DEF OwnsSlot, SlotOf
  <2>3. Loaded(cube, w) = PlaneSum(cube, w)
    BY <1>0 DEF Loaded
  <2>4. PlaneSum(cube, w) = SumFunctionOnSet(Elements(cube), W(p)) /\ W(p) \in SUBSET Units
    BY <2>1 DEF PlaneSum
  <2> HIDE DEF W
  <2>5. PlaneSum(cube, w) = SumOver(Covered(cube, W(p)))
    BY <1>0, <2>4, ElementsSum
  <2>6. SumOver(Covered(cube, W(p))) \in Int
    BY <1>0, <2>4, SumOfUnits
  <2> QED  BY <2>2, <2>3, <2>5, <2>6
<1>2. 0 \in G
  <2>1. V(0) = {} /\ 0 .. 0 - 1 = {}
    BY LanesAreNumbers
  <2>2. SumOver(Covered(cube, {})) = 0
    BY <1>0, SumOfUnits
  <2>3. SumFunctionOnSet(slots, {}) = 0
    <3>1. IsFiniteSet({}) /\ \A x \in {} : slots[x] = 0
      BY FS_EmptySet
    <3> QED  BY <3>1, SumOfZeros
  <2> HIDE DEF V
  <2> QED  BY <2>1, <2>2, <2>3
<1>3. ASSUME NEW k \in Nat, k \in G PROVE k + 1 \in G
  <2> SUFFICES ASSUME k + 1 <= Planes
               PROVE  SumFunctionOnSet(slots, 0 .. (k + 1) - 1) = SumOver(Covered(cube, V(k + 1)))
    OBVIOUS
  <2>1. SumFunctionOnSet(slots, 0 .. k - 1) = SumOver(Covered(cube, V(k))) /\ k \in 0 .. Planes - 1
    BY <1>0, <1>3
  <2>2. V(k + 1) = V(k) \union W(k) /\ V(k) \intersect W(k) = {} /\ V(k) \in SUBSET Units /\ W(k) \in SUBSET Units
    <3>1. \A v \in Units : PlaneOf(v) \in Nat
      BY LanesAreNumbers
    <3>2. \A q \in Nat : (q < k + 1 <=> (q < k \/ q = k)) /\ ~(q < k /\ q = k)
      OBVIOUS
    <3> QED  BY <3>1, <3>2
  <2>2a. slots[k] = SumOver(Covered(cube, W(k))) /\ \A p \in 0 .. Planes - 1 : slots[p] \in Int
    BY <1>1, <2>1
  <2> HIDE DEF V, W, G
  <2>3. SumOver(Covered(cube, V(k + 1))) = SumOver(Covered(cube, V(k))) + SumOver(Covered(cube, W(k)))
    BY <1>0, <2>2, SumOfUnits
  <2>4. SumFunctionOnSet(slots, (0 .. k - 1) \union {k}) = SumFunctionOnSet(slots, 0 .. k - 1) + slots[k]
    <3> DEFINE S == 0 .. k - 1
               K == {k}
    <3>0. IsFiniteSet(S) /\ IsFiniteSet(K)
      <4>1. 0 \in Int /\ k - 1 \in Int
        OBVIOUS
      <4>2. IsFiniteSet(0 .. k - 1)
        BY <4>1, FS_Interval
      <4> QED  BY <4>2, FS_Singleton
    <3>1. IsFiniteSet(S) /\ IsFiniteSet(K) /\ S \intersect K = {} /\ \A p \in S \union K : slots[p] \in Int
      <4>1. S \union K \subseteq 0 .. Planes - 1 /\ S \intersect K = {}
        BY <1>0, <2>1
      <4> QED  BY <2>2a, <3>0, <4>1
    <3>2. slots[k] \in Int
      BY <2>1, <2>2a
    <3>3. SumFunctionOnSet(slots, K) = slots[k]
      BY <3>2, SumOfOne
    <3> HIDE DEF S, K
    <3>4. SumFunctionOnSet(slots, S \union K) = SumFunctionOnSet(slots, S) + SumFunctionOnSet(slots, K)
      BY <3>1, SumOfUnion
    <3> QED  BY <3>3, <3>4 DEF S, K
  <2>5. 0 .. (k + 1) - 1 = (0 .. k - 1) \union {k}
    OBVIOUS
  <2> QED  BY <2>1, <2>2a, <2>3, <2>4, <2>5
<1>4. Planes \in G
  <2> HIDE DEF G
  <2> QED  BY <1>0, <1>2, <1>3, SetInduction
<1>5. V(Planes) = Units
  BY PlanesFollow
<1>6. Folded(slots) = SumFunctionOnSet(slots, 0 .. Planes - 1)
  BY DEF Folded
<1>7. SumFunctionOnSet(slots, 0 .. Planes - 1) = SumOver(Covered(cube, V(Planes)))
  <2>1. Planes <= Planes
    BY <1>0
  <2> HIDE DEF V
  <2> QED  BY <1>4, <2>1
<1> HIDE DEF V, W, G
<1> QED  BY <1>5, <1>6, <1>7

(* The last slot of a fold holds the fold of the cube.                     *)
LEMMA FoldedIsRight ==
  ASSUME Launched, launch.kernel \in UnitFolds, NEW cube \in 0 .. Cubes - 1, NEW seg, seg.op = "store", NEW reg,
         NEW slots, NEW prev \in Segs, Prepared(cube, prev, 0, seg, reg, slots)
  PROVE  Folded(slots) = Folding(Covered(cube, Units))
<1>0. /\ launch.kernel \notin Scans /\ launch.kernel # "segmented_scan"
      /\ launch.kernel # "partition_update_lds" /\ ~Scanning /\ ~Merging
      /\ Width \in Nat \ {0} /\ 0 \in Units
  BY GridIsSound DEF UnitFolds, Scanning, Merging, Units
<1>1. CASE UsesPlanes
  <2>1. prev.op = "load"
    BY <1>0, <1>1 DEF Prepared, Follows, TreeFolds
  <2>2. Reads(cube, 0, seg) = 0 .. Planes - 1
    BY <1>0, <1>1 DEF Reads
  <2>3. \A p \in 0 .. Planes - 1 : Right(cube, prev, p, slots[p])
    BY <2>2 DEF Prepared, Readable
  <2>4. \A p \in 0 .. Planes - 1, w \in Units : OwnsSlot(w) /\ SlotOf(w) = p => slots[p] = Loaded(cube, w)
    BY <2>1, <2>3 DEF Right
  <2>5. launch.kernel \notin Searches
    BY <1>1 DEF UsesPlanes, PlaneFolds, Searches
  <2> QED  BY <1>1, <2>4, <2>5, PlanesAddUp DEF Folding
<1>2. CASE ~UsesPlanes
  <2>0. TreeFolds
    BY <1>2 DEF TreeFolds
  <2>1. \/ prev.op = "load" /\ Width = 1
        \/ prev.op = "fold" /\ prev.s = 1
    BY <1>0, <1>2 DEF Prepared, Follows
  <2>2. Reads(cube, 0, seg) = {0}
    BY <1>0, <1>2 DEF Reads
  <2>3. Right(cube, prev, 0, slots[0]) /\ Folded(slots) = slots[0]
    BY <1>2, <2>2 DEF Prepared, Readable, Folded
  <2>4. CASE prev.op = "load" /\ Width = 1
    <3>1. Units = {0}
      BY <2>4 DEF Units
    <3>2. OwnsSlot(0) /\ SlotOf(0) = 0 /\ Loaded(cube, 0) = Folding(Covered(cube, {0}))
      BY <1>0, <2>0, LoadsFold
    <3> QED  BY <1>0, <2>3, <2>4, <3>1, <3>2 DEF Right
  <2>5. CASE prev.op = "fold" /\ prev.s = 1
    BY <2>3, <2>5, ClassesEnd DEF Right
  <2> QED  BY <2>1, <2>4, <2>5
<1> QED  BY <1>1, <1>2

(* An item and the unit that stands for it.                                *)
LEMMA ItemsOfACube ==
  ASSUME Launched, NEW cube \in 0 .. Cubes - 1, NEW V \in SUBSET Units,
         launch.kernel \notin SegmentFolds \union BinScans \union {"select_best_split"}
  PROVE  Covered(cube, V) = {i \in InCube(cube) : i % Width \in V}
<1>1. /\ Width \in Nat \ {0} /\ Items \in Nat /\ Cubes \in Nat /\ cube \in Nat
      /\ DOMAIN launch.in = Index /\ \A v \in V : v \in 0 .. Width - 1
  BY GridIsSound, CubesCount, LaunchIsShaped DEF Units
<1>2. ASSUME NEW i \in Index, NEW v \in V
      PROVE  i = Abs(cube, v) <=> i \div Width = cube /\ i % Width = v
  <2>1. i \in Int /\ i = Width * (i \div Width) + (i % Width)
    BY <1>1, DivisionHolds DEF Index
  <2>2. (Width * cube + v) % Width = v /\ (Width * cube + v) \div Width = cube
    BY <1>1, Remainder
  <2>3. Abs(cube, v) = Width * cube + v
    BY <1>1 DEF Abs
  <2> QED  BY <2>1, <2>2, <2>3
<1>3. CASE launch.kernel \in Searches
  <2>1. launch.kernel = "find_optimal_split"
    BY <1>3 DEF Searches
  <2>2. Cubes = (Items + Width - 1) \div Width
    BY <2>1 DEF Cubes, CeilDiv, SegmentFolds, BinScans, SingleCube
  <2>3. Items <= Cubes * Width
    <3> DEFINE x == Items + Width - 1
               k == x % Width
    <3>1. x \in Int /\ Cubes = x \div Width
      BY <1>1, <2>2
    <3>2. x = Width * Cubes + k /\ k \in 0 .. Width - 1
      <4> HIDE DEF x
      <4> QED  BY <1>1, <3>1, DivisionHolds
    <3>3. Items + Width - 1 = Width * Cubes + k
      BY <3>2
    <3> HIDE DEF x, k
    <3>4. Width * Cubes \in Nat /\ Cubes * Width = Width * Cubes
      BY <1>1
    <3> QED  BY <1>1, <3>2, <3>3, <3>4
  <2>4. ASSUME NEW i \in Index PROVE i % (Cubes * Width) = i
    <3> DEFINE n == Cubes * Width
    <3>1. i \in 0 .. n - 1 /\ n \in Nat \ {0}
      <4>1. n \in Nat
        BY <1>1
      <4> HIDE DEF n
      <4> QED  BY <1>1, <2>3, <4>1 DEF Index, n
    <3> HIDE DEF n
    <3>2. (n * 0 + i) % n = i
      BY <3>1, Remainder
    <3>3. n * 0 + i = i
      BY <3>1
    <3> QED  BY <3>2, <3>3 DEF n
  <2>5. \A v \in V : Covers(cube, v) = {i \in Index : i = Abs(cube, v)}
    BY <1>3, <2>4 DEF Covers, GridItems, Index
  <2> QED  BY <1>1, <1>2, <2>5 DEF Covered, InCube
<1>4. CASE launch.kernel \notin Searches
  <2>1. \A v \in V : Covers(cube, v) = {i \in Index : i = Abs(cube, v)}
    <3>1. ASSUME NEW v \in V PROVE Abs(cube, v) < Items <=> Abs(cube, v) \in Index
      <4>1. Abs(cube, v) \in Nat
        BY <1>1 DEF Abs
      <4> QED  BY <1>1, <4>1 DEF Index
    <3> QED  BY <1>4, <3>1 DEF Covers, Item, Stands
  <2> QED  BY <1>1, <1>2, <2>1 DEF Covered, InCube
<1> QED  BY <1>3, <1>4

(* All units of a cube stand for its items, its segment, or all items.     *)
LEMMA ItemsOfAllUnits ==
  ASSUME Launched, NEW cube \in 0 .. Cubes - 1
  PROVE  /\ launch.kernel \notin SegmentFolds \union BinScans \union {"select_best_split"} =>
              Covered(cube, Units) = InCube(cube)
         /\ launch.kernel \in SegmentFolds => Covered(cube, Units) = InSegment(cube)
         /\ launch.kernel = "select_best_split" => Covered(cube, Units) = DOMAIN launch.in
<1>1. /\ Width \in Nat \ {0} /\ Items \in Nat /\ Cubes \in Nat /\ cube \in Nat
      /\ DOMAIN launch.in = Index
  BY GridIsSound, CubesCount, LaunchIsShaped
<1>1a. \A x \in Int : x % Width \in Units
  BY <1>1 DEF Units
<1>2. ASSUME launch.kernel \notin SegmentFolds \union BinScans \union {"select_best_split"}
      PROVE  Covered(cube, Units) = InCube(cube)
  <2>1. Covered(cube, Units) = {i \in InCube(cube) : i % Width \in Units}
    BY <1>2, ItemsOfACube
  <2>2. \A i \in InCube(cube) : i \in Int
    BY <1>1 DEF InCube, Index
  <2> QED  BY <1>1a, <2>1, <2>2
<1>3. ASSUME launch.kernel \in SegmentFolds PROVE Covered(cube, Units) = InSegment(cube)
  <2>1. \A v \in Units : Covers(cube, v) = SegmentItems(cube, v)
    BY <1>3 DEF Covers, SegmentFolds, Searches
  <2>2. \A i \in InSegment(cube) : i - launch.offsets[cube] \in Int
    <3>1. launch.offsets[cube] \in Int
      BY <1>1, <1>3, LaunchIsShaped
    <3> QED  BY <3>1 DEF InSegment
  <2>3. \A i \in InSegment(cube) : (i - launch.offsets[cube]) % Width \in Units
    BY <1>1a, <2>2
  <2> QED  BY <2>1, <2>3 DEF Covered, InSegment, SegmentItems
<1>4. ASSUME launch.kernel = "select_best_split" PROVE Covered(cube, Units) = DOMAIN launch.in
  <2>1. Cubes = 1 /\ cube = 0
    <3>1. Cubes = 1
      BY <1>4 DEF Cubes, SegmentFolds, BinScans, SingleCube
    <3> QED  BY <3>1
  <2>2. Cubes * Width = Width /\ \A v \in Units : Abs(cube, v) = v
    BY <1>1, <2>1 DEF Abs, Units
  <2>3. \A v \in Units : Covers(cube, v) = {i \in Index : i % Width = v}
    BY <1>4, <2>2 DEF Covers, GridItems, Index, Searches
  <2>4. \A i \in Index : i % Width \in Units
    BY <1>1a, <1>1 DEF Index
  <2> QED  BY <1>1, <2>3, <2>4 DEF Covered
<1> QED  BY <1>2, <1>3, <1>4

(* The items of the units up to one, in the order of the input.            *)
LEMMA ItemsUpTo ==
  ASSUME Launched, NEW cube \in 0 .. Cubes - 1, NEW u \in Units, Stands(cube, u),
         launch.kernel \notin SegmentFolds \union BinScans \union {"select_best_split"}
  PROVE  /\ Abs(cube, u) \in Index /\ Abs(cube, u) \div Width = cube
         /\ Covered(cube, {v \in Units : v <= u}) = {j \in InCube(cube) : j <= Abs(cube, u)}
<1>1. /\ Width \in Nat \ {0} /\ Items \in Nat /\ Cubes \in Nat /\ cube \in Nat /\ u \in 0 .. Width - 1
      /\ DOMAIN launch.in = Index
  BY GridIsSound, CubesCount, LaunchIsShaped DEF Units
<1>2. Abs(cube, u) = Width * cube + u /\ Width * cube \in Nat
  BY <1>1 DEF Abs
<1>3. Abs(cube, u) \in Index
  BY <1>1, <1>2 DEF Index, Stands
<1>4. Abs(cube, u) \div Width = cube
  <2>1. (Width * cube + u) \div Width = cube
    BY <1>1, Remainder
  <2> QED  BY <1>2, <2>1
<1>5. ASSUME NEW j \in InCube(cube) PROVE j % Width \in {v \in Units : v <= u} <=> j <= Abs(cube, u)
  <2>1. j \in Int /\ j \div Width = cube
    BY <1>1 DEF InCube, Index
  <2>2. j = Width * cube + (j % Width) /\ j % Width \in 0 .. Width - 1
    BY <1>1, <2>1, DivisionHolds
  <2> QED  BY <1>1, <1>2, <2>2 DEF Units
<1>6. Covered(cube, {v \in Units : v <= u}) = {i \in InCube(cube) : i % Width \in {v \in Units : v <= u}}
  BY ItemsOfACube
<1> QED  BY <1>3, <1>4, <1>5, <1>6

(* The carry a scan stores with.                                           *)
Carried(cube, u) == SumOver(Covered(cube, {v \in Units : PlaneOf(v) < PlaneOf(u)}))

(* What a scan of prefixes stores.                                         *)
LEMMA PrefixesAreSerial ==
  ASSUME Launched, launch.kernel \in PrefixSums, NEW cube \in 0 .. Cubes - 1, NEW u \in Units, Stands(cube, u)
  PROVE  /\ Prefix(cube, u, Carried(cube, u)) = SerialOut(Abs(cube, u))
         /\ launch.kernel = "block_scan_total" /\ LastValid(cube, u) =>
              PlaneInclusive(cube, u) + Carried(cube, u) = SerialTotal(cube)
<1> DEFINE i == Abs(cube, u)
           V == {v \in Units : v < u}
           P == {v \in Units : v <= u}
<1>0. /\ launch.kernel \in Scans
      /\ launch.kernel \notin Searches \union SegmentFolds \union BinScans \union {"select_best_split"}
      /\ launch.inclusive \in BOOLEAN
  BY LaunchIsShaped DEF PrefixSums, Scans, Searches, SegmentFolds, BinScans
<1>1. /\ i \in Index /\ i \div Width = cube /\ Covered(cube, P) = {j \in InCube(cube) : j <= i}
      /\ InCube(cube) \subseteq Index /\ i \in Int
  <2>1. DOMAIN launch.in = Index
    BY LaunchIsShaped
  <2> QED  BY <1>0, <2>1, ItemsUpTo DEF InCube, Index
<1>2. PlaneInclusive(cube, u) + Carried(cube, u) = SumOver(Covered(cube, P))
  BY <1>0, PrefixIsRight DEF Carried
<1>3. SumOver(Covered(cube, P)) = SumOver(Covered(cube, V)) + Element(cube, u)
      /\ SumOver(Covered(cube, V)) \in Int /\ Element(cube, u) \in Int
  <2>1. P = V \union {u} /\ V \intersect {u} = {} /\ V \in SUBSET Units /\ {u} \in SUBSET Units
    <3>1. \A v \in Units : v \in Nat
      BY LanesAreNumbers
    <3> QED  BY <3>1
  <2> HIDE DEF V, P
  <2>2. SumOver(Covered(cube, V \union {u})) = SumOver(Covered(cube, V)) + SumOver(Covered(cube, {u}))
    BY <1>0, <2>1, SumOfUnits
  <2>3. SumOver(Covered(cube, {u})) = Element(cube, u) /\ Element(cube, u) \in Int
        /\ SumOver(Covered(cube, V)) \in Int
    BY <1>0, <2>1, SumOfUnits
  <2> QED  BY <2>1, <2>2, <2>3
<1>4. Covered(cube, V) = {j \in InCube(cube) : j < i}
  <2>1. Covered(cube, V) = {j \in InCube(cube) : j % Width \in V}
    BY <1>0, ItemsOfACube
  <2>2. Covered(cube, P) = {j \in InCube(cube) : j % Width \in P}
    BY <1>0, ItemsOfACube
  <2>3. ASSUME NEW j \in InCube(cube) PROVE j % Width \in V <=> j < i
    <3>0. /\ Width \in Nat \ {0} /\ cube \in Nat /\ u \in 0 .. Width - 1 /\ j \in Int /\ j \div Width = cube
      <4>1. DOMAIN launch.in = Index
        BY LaunchIsShaped
      <4> QED  BY <4>1, GridIsSound, CubesCount DEF InCube, Index, Units
    <3>1. j = Width * cube + (j % Width) /\ j % Width \in 0 .. Width - 1
      BY <3>0, DivisionHolds
    <3>2. i = Width * cube + u /\ Width * cube \in Int
      BY <3>0 DEF Abs
    <3> HIDE DEF i
    <3> QED  BY <3>0, <3>1, <3>2 DEF Units
  <2> QED  BY <2>1, <2>3
<1>5. SerialOut(i) = SumOver({j \in InCube(cube) : j < i \/ (j = i /\ launch.inclusive)})
  BY <1>0, <1>1 DEF SerialOut, PrefixSums, BinScans
<1>6. Prefix(cube, u, Carried(cube, u))
        = SumOver(Covered(cube, P)) - (IF launch.inclusive THEN 0 ELSE Element(cube, u))
  <2>1. Prefix(cube, u, Carried(cube, u))
          = (PlaneInclusive(cube, u) + Carried(cube, u)) - (IF launch.inclusive THEN 0 ELSE Element(cube, u))
    <3>1. Carried(cube, u) \in Int
      BY <1>0, SumOfUnits DEF Carried
    <3>2. PlaneInclusive(cube, u) \in Int
      <4> DEFINE S == {v \in Units : PlaneOf(v) = PlaneOf(u) /\ v <= u}
      <4>1. PlaneInclusive(cube, u) = SumFunctionOnSet(Elements(cube), S) /\ S \in SUBSET Units
        BY DEF PlaneInclusive
      <4> HIDE DEF S
      <4>2. PlaneInclusive(cube, u) = SumOver(Covered(cube, S))
        BY <1>0, <4>1, ElementsSum
      <4> QED  BY <1>0, <4>1, <4>2, SumOfUnits
    <3>3. \A a, b, c \in Int : a + (b - c) = (a + b) - c
      OBVIOUS
    <3>4. (IF launch.inclusive THEN 0 ELSE Element(cube, u)) \in Int
      BY <1>3
    <3>5. Prefix(cube, u, Carried(cube, u))
            = PlaneInclusive(cube, u) + (Carried(cube, u) - (IF launch.inclusive THEN 0 ELSE Element(cube, u)))
      BY DEF Prefix
    <3> QED  BY <3>1, <3>2, <3>3, <3>4, <3>5
  <2> QED  BY <1>2, <2>1
<1>7. Prefix(cube, u, Carried(cube, u)) = SerialOut(i)
  <2>1. CASE launch.inclusive
    <3>1. {j \in InCube(cube) : j < i \/ (j = i /\ launch.inclusive)} = {j \in InCube(cube) : j <= i}
      <4>1. \A j \in InCube(cube) : j \in Int
        BY <1>1 DEF Index
      <4> HIDE DEF i
      <4> QED  BY <1>1, <2>1, <4>1
    <3>2. SumOver(Covered(cube, P)) - 0 = SumOver(Covered(cube, P))
      BY <1>3
    <3>3. Prefix(cube, u, Carried(cube, u)) = SumOver(Covered(cube, P)) - 0
      BY <1>6, <2>1
    <3>4. SerialOut(i) = SumOver({j \in InCube(cube) : j <= i})
      BY <1>5, <3>1
    <3> QED  BY <1>1, <3>2, <3>3, <3>4
  <2>2. CASE ~launch.inclusive
    <3>1. {j \in InCube(cube) : j < i \/ (j = i /\ launch.inclusive)} = {j \in InCube(cube) : j < i}
      BY <2>2
    <3>2. SumOver(Covered(cube, P)) - Element(cube, u) = SumOver(Covered(cube, V))
      <4> HIDE DEF V, P
      <4> QED  BY <1>3
    <3>3. Prefix(cube, u, Carried(cube, u)) = SumOver(Covered(cube, P)) - Element(cube, u)
      BY <1>6, <2>2
    <3>4. SerialOut(i) = SumOver({j \in InCube(cube) : j < i})
      BY <1>5, <3>1
    <3> QED  BY <1>4, <3>2, <3>3, <3>4
  <2> QED  BY <2>1, <2>2
<1>8. ASSUME launch.kernel = "block_scan_total", LastValid(cube, u)
      PROVE  PlaneInclusive(cube, u) + Carried(cube, u) = SerialTotal(cube)
  <2>1. SerialTotal(cube) = SumOver(InCube(cube))
    BY <1>8 DEF SerialTotal, SegmentFolds
  <2>2. \A j \in InCube(cube) : j <= i
    <3> SUFFICES ASSUME NEW j \in InCube(cube) PROVE j <= i
      OBVIOUS
    <3>0. /\ Width \in Nat \ {0} /\ cube \in Nat /\ u \in 0 .. Width - 1 /\ j \in Index /\ j \in Int /\ j \div Width = cube
      <4>1. DOMAIN launch.in = Index
        BY LaunchIsShaped
      <4> QED  BY <4>1, GridIsSound, CubesCount DEF InCube, Index, Units
    <3>1. j = Width * cube + (j % Width) /\ j % Width \in 0 .. Width - 1
      BY <3>0, DivisionHolds
    <3>2. i = Width * cube + u /\ Width * cube \in Int
      BY <3>0 DEF Abs
    <3>3. u = Width - 1 \/ i = Items - 1
      BY <1>8 DEF LastValid
    <3>4. j <= Items - 1
      BY <3>0, GridIsSound DEF Index
    <3> HIDE DEF i
    <3> QED  BY <3>0, <3>1, <3>2, <3>3, <3>4
  <2>3. InCube(cube) = {j \in InCube(cube) : j <= i}
    BY <2>2
  <2> QED  BY <1>1, <1>2, <2>1, <2>3
<1> QED  BY <1>7, <1>8

(* What a scan along the bins stores.                                      *)
LEMMA BinScansAreSerial ==
  ASSUME Launched, launch.kernel \in BinScans, NEW cube \in 0 .. Cubes - 1, NEW u \in Units, Stands(cube, u)
  PROVE  PlaneInclusive(cube, u) + Carried(cube, u) = SerialOut(BinCell(cube, u)) /\ BinCell(cube, u) \in Index
<1> DEFINE i == BinCell(cube, u)
           P == {v \in Units : v <= u}
           S == {j \in DOMAIN launch.in : Axis(j) = Axis(i) /\ Bin(j) <= Bin(i)}
<1>0. /\ launch.kernel \in Scans /\ launch.kernel \notin Searches \union SegmentFolds
      /\ launch.channels \in Nat \ {0} /\ Cubes \in Nat /\ launch.bins \in Nat \ {0}
      /\ DOMAIN launch.in = Index /\ launch.bins <= Width
  BY GridIsSound, LaunchIsShaped, CubesCount DEF PrefixSums, Scans, Searches, SegmentFolds, BinScans
<1>0a. launch.kernel \notin PrefixSums
  BY DEF BinScans, PrefixSums
<1>1. u \in 0 .. launch.bins - 1 /\ u \in Nat /\ u < launch.bins
  BY <1>0, LanesAreNumbers DEF Stands
<1>2. /\ i \in Index /\ Axis(i) = <<cube % launch.channels, cube \div launch.channels>> /\ Bin(i) = u
  BY <1>1, CellsOfBins
<1>3. SerialOut(i) = SumOver(S)
  BY <1>0a DEF SerialOut, BinScans, PrefixSums
<1>4. PlaneInclusive(cube, u) + Carried(cube, u) = SumOver(Covered(cube, P))
  BY <1>0, PrefixIsRight DEF Carried
<1>5. \A v \in P : v \in 0 .. launch.bins - 1 /\ v <= u /\ Covers(cube, v) = {BinCell(cube, v)}
  <2> SUFFICES ASSUME NEW v \in P PROVE v \in 0 .. launch.bins - 1 /\ v <= u /\ Covers(cube, v) = {BinCell(cube, v)}
    OBVIOUS
  <2>1. v \in Nat /\ v <= u
    BY LanesAreNumbers
  <2>2. v < launch.bins /\ v \in 0 .. launch.bins - 1
    BY <1>0, <1>1, <2>1
  <2>3. Stands(cube, v) /\ Item(cube, v) = BinCell(cube, v)
    BY <2>2 DEF Stands, Item
  <2> QED  BY <1>0, <2>1, <2>2, <2>3 DEF Covers
<1>6. Covered(cube, P) = {BinCell(cube, v) : v \in P}
  BY <1>5 DEF Covered
<1>7. {BinCell(cube, v) : v \in P} \subseteq S
  <2> SUFFICES ASSUME NEW v \in P PROVE BinCell(cube, v) \in S
    OBVIOUS
  <2>1. v \in 0 .. launch.bins - 1 /\ v <= u
    BY <1>5
  <2>2. /\ BinCell(cube, v) \in Index /\ Bin(BinCell(cube, v)) = v
        /\ Axis(BinCell(cube, v)) = <<cube % launch.channels, cube \div launch.channels>>
    BY <2>1, CellsOfBins
  <2> QED  BY <1>0, <1>2, <2>1, <2>2
<1>8. S \subseteq {BinCell(cube, v) : v \in P}
  <2> SUFFICES ASSUME NEW j \in S PROVE \E v \in P : j = BinCell(cube, v)
    OBVIOUS
  <2>1. PICK c \in 0 .. Cubes - 1, b \in 0 .. launch.bins - 1 : j = BinCell(c, b)
    BY <1>0, CellsOfBins
  <2>2. Axis(j) = <<c % launch.channels, c \div launch.channels>> /\ Bin(j) = b
    BY <2>1, CellsOfBins
  <2>3. c % launch.channels = cube % launch.channels /\ c \div launch.channels = cube \div launch.channels
    BY <1>2, <2>2
  <2>4. c = cube
    <3> DEFINE n == launch.channels
    <3>1. c \in Int /\ cube \in Int /\ n \in Nat \ {0}
      BY <1>0
    <3>2. c % n = cube % n /\ c \div n = cube \div n
      BY <2>3
    <3> HIDE DEF n
    <3>3. c = n * (c \div n) + (c % n)
      BY <3>1, DivisionHolds
    <3>4. cube = n * (cube \div n) + (cube % n)
      BY <3>1, DivisionHolds
    <3> QED  BY <3>2, <3>3, <3>4
  <2>5. b <= u /\ b \in Units
    <3>1. b <= u
      BY <1>2, <2>2
    <3>2. Width \in Nat
      BY GridIsSound
    <3> QED  BY <1>0, <3>1, <3>2 DEF Units
  <2> QED  BY <2>1, <2>4, <2>5
<1>9. Covered(cube, P) = S
  BY <1>6, <1>7, <1>8
<1> HIDE DEF P, S, i
<1> QED  BY <1>2, <1>3, <1>4, <1>9 DEF i

(* The last head up to a position.                                         *)
LEMMA HeadsAreLast ==
  ASSUME Launched, launch.kernel = "segmented_scan", NEW i \in Index
  PROVE  /\ HeadOf(i) \in 0 .. i
         /\ \A j \in 0 .. i : j >= HeadOf(i) <=> \A h \in j + 1 .. i : ~launch.heads[h]
         /\ launch.heads[i] => HeadOf(i) = i
<1> DEFINE G == {0} \union {h \in 0 .. i : launch.heads[h]}
           m == HeadOf(i)
<1>1. i \in Nat /\ \A h \in 0 .. i : launch.heads[h] \in BOOLEAN
  <2>1. i \in Nat /\ 0 .. i \subseteq Index
    BY GridIsSound DEF Index
  <2> QED  BY <2>1, LaunchIsShaped
<1>2. G \subseteq 0 .. i /\ G # {}
  BY <1>1
<1>3. \E x \in G : \A y \in G : x >= y
  <2> DEFINE N == {k \in Nat : \A y \in G : y <= k}
  <2>1. i \in N
    BY <1>1, <1>2
  <2>2. N \subseteq Nat /\ N # {}
    BY <2>1
  <2>3. PICK k \in N : \A l \in N : k <= l
    <3> HIDE DEF N
    <3> QED  BY <2>2, LeastElement
  <2>4. k \in Nat /\ \A y \in G : y <= k
    BY <2>3
  <2>5. k \in G
    <3> SUFFICES ASSUME k \notin G PROVE FALSE
      OBVIOUS
    <3>1. k # 0 /\ k - 1 \in Nat
      <4>1. 0 \in G
        OBVIOUS
      <4>2. k # 0
        BY <4>1
      <4> QED  BY <2>4, <4>2
    <3>2. \A y \in G : y <= k - 1
      <4> SUFFICES ASSUME NEW y \in G PROVE y <= k - 1
        OBVIOUS
      <4>1. y <= k /\ y # k /\ y \in Int
        BY <1>2, <2>4
      <4> QED  BY <2>4, <4>1
    <3>3. k - 1 \in N
      BY <3>1, <3>2
    <3>4. k <= k - 1
      BY <2>3, <3>3
    <3> QED  BY <2>4, <3>4
  <2> HIDE DEF G
  <2> QED  BY <1>2, <2>4, <2>5
<1>4. m = Max(G)
  BY DEF HeadOf
<1> HIDE DEF m
<1>5. m \in G /\ \A y \in G : m >= y
  BY <1>3, <1>4 DEF Max
<1>6. m \in 0 .. i
  BY <1>2, <1>5
<1>7. ASSUME NEW j \in 0 .. i PROVE j >= m <=> \A h \in j + 1 .. i : ~launch.heads[h]
  <2>1. ASSUME j >= m, NEW h \in j + 1 .. i, launch.heads[h] PROVE FALSE
    <3>1. h \in G
      BY <1>1, <2>1
    <3>2. m >= h
      BY <1>5, <3>1
    <3> QED  BY <1>1, <1>6, <2>1, <3>2
  <2>2. ASSUME ~(j >= m) PROVE \E h \in j + 1 .. i : launch.heads[h]
    <3>1. m \in j + 1 .. i /\ m # 0
      BY <1>1, <1>6, <2>2
    <3> QED  BY <1>5, <3>1
  <2> QED  BY <2>1, <2>2
<1>8. ASSUME launch.heads[i] PROVE m = i
  <2>1. i \in G
    BY <1>1, <1>8
  <2>2. m >= i
    BY <1>5, <2>1
  <2> QED  BY <1>1, <1>6, <2>2
<1> QED  BY <1>6, <1>7, <1>8 DEF m

(* What the segmented scan stores.                                         *)
LEMMA SegmentsAreSerial ==
  ASSUME Launched, launch.kernel = "segmented_scan", NEW cube \in 0 .. Cubes - 1, NEW u \in Units, Stands(cube, u),
         NEW w \in Nat, w >= Width, NEW slots, slots[u] = Window(cube, u, w)
  PROVE  SegmentPrefix(u, slots) = SerialOut(u) /\ u \in Index /\ u < Items /\ Item(cube, u) = u
<1>0. Cubes = 1 /\ cube = 0
  <2>1. Cubes = 1
    BY DEF Cubes, SegmentFolds, BinScans, SingleCube
  <2> QED  BY <2>1
<1>1. /\ u \in Nat /\ u < Width /\ Width \in Nat /\ Items \in Nat /\ Items <= Width
      /\ DOMAIN launch.in = Index /\ launch.inclusive \in BOOLEAN
  BY GridIsSound, LaunchIsShaped DEF Units, SingleCube
<1>2. \A v \in Units : Abs(cube, v) = v /\ (Stands(cube, v) <=> v < Items) /\ Item(cube, v) = v
  <2> SUFFICES ASSUME NEW v \in Units PROVE Abs(cube, v) = v /\ (Stands(cube, v) <=> v < Items) /\ Item(cube, v) = v
    OBVIOUS
  <2>1. Abs(cube, v) = v
    BY <1>0, <1>1, LanesAreNumbers DEF Abs
  <2> QED  BY <2>1 DEF Stands, Item, BinScans
<1>3. u \in Index /\ u < Items
  BY <1>1, <1>2 DEF Index
<1>4. 0 .. u \subseteq Index /\ 0 .. u \subseteq Units
  BY <1>1, <1>3 DEF Index, Units
<1> DEFINE A == SinceHead(cube, u, w)
           B == HeadOf(u) .. u
<1>5. A = B
  <2>1. Behind(u, w) = 0 .. u
    <3>1. Behind(u, w) = {v \in Units : LaneOf(v) <= u}
      <4>1. u < w
        BY <1>1
      <4> QED  BY <1>1, <4>1, FullWindows
    <3>2. \A v \in Units : LaneOf(v) = v /\ v \in Nat
      BY LanesAreNumbers DEF LaneOf, SegmentedScan
    <3>3. \A v \in Units : LaneOf(v) <= u <=> v \in 0 .. u
      BY <1>1, <3>2
    <3> QED  BY <1>4, <3>1, <3>3
  <2>2. \A h \in 0 .. u : Begins(cube, h) <=> launch.heads[h]
    <3> SUFFICES ASSUME NEW h \in 0 .. u PROVE Begins(cube, h) <=> launch.heads[h]
      OBVIOUS
    <3>1. h \in Units /\ h < Items /\ Abs(cube, h) = h
      BY <1>1, <1>2, <1>3, <1>4
    <3> QED  BY <3>1 DEF Begins
  <2>3. A = {v \in 0 .. u : \A h \in v + 1 .. u : ~Begins(cube, h)}
    BY <2>1 DEF SinceHead
  <2>4. \A v \in 0 .. u : (\A h \in v + 1 .. u : ~Begins(cube, h)) <=> (\A h \in v + 1 .. u : ~launch.heads[h])
    <3> SUFFICES ASSUME NEW v \in 0 .. u
                 PROVE (\A h \in v + 1 .. u : ~Begins(cube, h)) <=> (\A h \in v + 1 .. u : ~launch.heads[h])
      OBVIOUS
    <3>1. \A h \in v + 1 .. u : h \in 0 .. u
      BY <1>1
    <3> QED  BY <2>2, <3>1
  <2>5. \A v \in 0 .. u : v \in A <=> v >= HeadOf(u)
    BY <1>3, <2>3, <2>4, HeadsAreLast
  <2>6. HeadOf(u) \in 0 .. u
    BY <1>3, HeadsAreLast
  <2>7. A \subseteq 0 .. u
    BY <2>3
  <2> HIDE DEF A
  <2>8. \A v \in 0 .. u : v >= HeadOf(u) <=> v \in HeadOf(u) .. u
    BY <1>1, <2>6
  <2>9. HeadOf(u) .. u \subseteq 0 .. u
    BY <1>1, <2>6
  <2> QED  BY <2>5, <2>7, <2>8, <2>9
<1>6. HeadOf(u) \in 0 .. u /\ (launch.heads[u] => HeadOf(u) = u)
  BY <1>3, HeadsAreLast
<1>7. \A V \in SUBSET (0 .. u) : Covered(cube, V) = V
  <2>1. \A v \in 0 .. u : Covers(cube, v) = {v}
    <3> SUFFICES ASSUME NEW v \in 0 .. u PROVE Covers(cube, v) = {v}
      OBVIOUS
    <3>1. v \in Units /\ v < Items
      BY <1>1, <1>3, <1>4
    <3>2. Stands(cube, v) /\ Item(cube, v) = v
      BY <1>2, <3>1
    <3>3. launch.kernel \notin Searches \union SegmentFolds
      BY DEF Searches, SegmentFolds
    <3> QED  BY <3>2, <3>3 DEF Covers
  <2> SUFFICES ASSUME NEW V \in SUBSET (0 .. u) PROVE UNION {Covers(cube, v) : v \in V} = V
    BY DEF Covered
  <2>2. \A v \in V : Covers(cube, v) = {v}
    BY <2>1
  <2>3. ASSUME NEW x \in UNION {Covers(cube, v) : v \in V} PROVE x \in V
    <3>1. PICK v \in V : x \in Covers(cube, v)
      OBVIOUS
    <3> QED  BY <2>2, <3>1
  <2>4. ASSUME NEW x \in V PROVE x \in UNION {Covers(cube, v) : v \in V}
    <3>1. x \in Covers(cube, x)
      BY <2>2
    <3> QED  BY <3>1
  <2> QED  BY <2>3, <2>4
<1>8. B \in SUBSET (0 .. u)
  BY <1>1, <1>6
<1>9. slots[u].val = SumOver(B)
  <2>1. Window(cube, u, w).val = SumOver(Covered(cube, A))
    BY DEF Window, SegmentedScan
  <2> QED  BY <1>5, <1>7, <1>8, <2>1
<1>10. SerialOut(u) = SumOver({j \in B : j < u \/ launch.inclusive})
  BY DEF SerialOut, PrefixSums, BinScans
<1>11. SegmentPrefix(u, slots) = SerialOut(u)
  <2>1. CASE launch.inclusive
    <3>1. {j \in B : j < u \/ launch.inclusive} = B
      BY <2>1
    <3> QED  BY <1>9, <1>10, <2>1, <3>1 DEF SegmentPrefix
  <2>2. CASE ~launch.inclusive
    <3> DEFINE C == {j \in B : j < u}
    <3>1. {j \in B : j < u \/ launch.inclusive} = C
      BY <2>2
    <3>1a. SerialOut(u) = SumOver(C)
      BY <1>10, <3>1
    <3>2. B = C \union {u} /\ C \intersect {u} = {} /\ C \subseteq Index /\ u \in Index
      BY <1>1, <1>3, <1>4, <1>6
    <3> HIDE DEF C, B
    <3>3. IsFiniteSet(C) /\ IsFiniteSet({u}) /\ \A j \in C \union {u} : launch.in[j] \in Int
      <4>1. launch.kernel \notin Searches
        BY DEF Searches
      <4>2. IsFiniteSet(Index) /\ \A j \in Index : launch.in[j] \in Int
        BY <4>1, LaunchIsShaped
      <4>3. IsFiniteSet(C)
        BY <3>2, <4>2, FS_Subset
      <4> QED  BY <3>2, <4>2, <4>3, FS_Singleton
    <3>4. SumOver(B) = SumOver(C) + SumOver({u}) /\ SumOver({u}) = launch.in[u]
          /\ SumOver(C) \in Int /\ launch.in[u] \in Int
      <4>1. SumFunctionOnSet(launch.in, C \union {u})
              = SumFunctionOnSet(launch.in, C) + SumFunctionOnSet(launch.in, {u})
        BY <3>2, <3>3, SumOfUnion
      <4>2. launch.in[u] \in Int /\ \A j \in C : launch.in[j] \in Int
        BY <3>3
      <4>3. SumFunctionOnSet(launch.in, {u}) = launch.in[u]
        BY <4>2, SumOfOne
      <4>4. SumFunctionOnSet(launch.in, C) \in Int
        BY <3>3, <4>2, SumLaws
      <4> QED  BY <3>2, <4>1, <4>2, <4>3, <4>4 DEF SumOver
    <3>5. CASE launch.heads[u]
      <4>1. C = {}
        BY <1>1, <1>6, <3>5 DEF B, C
      <4>2. SumOver({}) = 0
        <5>1. IsFiniteSet({}) /\ \A x \in {} : launch.in[x] = 0
          BY FS_EmptySet
        <5> QED  BY <5>1, SumOfZeros DEF SumOver
      <4>3. SegmentPrefix(u, slots) = 0
        BY <2>2, <3>5 DEF SegmentPrefix
      <4> QED  BY <3>1a, <4>1, <4>2, <4>3
    <3>6. CASE ~launch.heads[u]
      <4>1. SegmentPrefix(u, slots) = slots[u].val - launch.in[u]
        BY <2>2, <3>6 DEF SegmentPrefix
      <4>2. slots[u].val = SumOver(C) + launch.in[u]
        BY <1>9, <3>4
      <4> QED  BY <3>1a, <3>4, <4>1, <4>2
    <3> QED  BY <3>5, <3>6
  <2> QED  BY <2>1, <2>2
<1> QED  BY <1>2, <1>3, <1>11

(* What a fold stores of a cube.                                           *)
LEMMA FoldsAreSerial ==
  ASSUME Launched, NEW cube \in 0 .. Cubes - 1
  PROVE  /\ launch.kernel \in SegmentFolds \union Searches \union {"block_reduce"} =>
              Folding(Covered(cube, Units)) = SerialTotal(cube)
         /\ launch.kernel \in {"block_reduce_atomic", "block_reduce_fixedpoint"} =>
              Folding(Covered(cube, Units)) = SumOver(InCube(cube))
<1>1. CASE launch.kernel \in SegmentFolds
  <2>1. launch.kernel \notin Searches /\ Covered(cube, Units) = InSegment(cube)
    BY <1>1, ItemsOfAllUnits DEF SegmentFolds, Searches
  <2>2. SerialTotal(cube) = SumOver(InSegment(cube))
    BY <1>1 DEF SerialTotal, SegmentFolds
  <2> QED  BY <1>1, <2>1, <2>2 DEF Folding, SegmentFolds
<1>2. CASE launch.kernel \in Searches
  <2> DEFINE C == Covered(cube, Units)
  <2>1. C \in SUBSET Index
    BY CoveredApart
  <2>2. SerialTotal(cube) = FirstBest(C)
    <3>1. CASE launch.kernel = "find_optimal_split"
      <4>1. C = InCube(cube)
        BY <3>1, ItemsOfAllUnits DEF SegmentFolds, BinScans
      <4> QED  BY <3>1, <4>1 DEF SerialTotal, SegmentFolds
    <3>2. CASE launch.kernel = "select_best_split"
      <4>1. C = DOMAIN launch.in
        BY <3>2, ItemsOfAllUnits
      <4> QED  BY <3>2, <4>1 DEF SerialTotal, SegmentFolds
    <3> QED  BY <1>2, <3>1, <3>2 DEF Searches
  <2> HIDE DEF C
  <2>3. PICK x : IsBest(C, x)
    BY <1>2, <2>1, BestsExist
  <2>4. BestOf(C) = FirstBest(C)
    BY <1>2, <2>1, <2>3, BestIsChosen
  <2> QED  BY <1>2, <2>2, <2>4 DEF Folding, C, Searches
<1>3. CASE launch.kernel \in {"block_reduce", "block_reduce_atomic", "block_reduce_fixedpoint"}
  <2>1. launch.kernel \notin Searches /\ Covered(cube, Units) = InCube(cube)
    BY <1>3, ItemsOfAllUnits DEF SegmentFolds, Searches, BinScans
  <2>2. launch.kernel = "block_reduce" => SerialTotal(cube) = SumOver(InCube(cube))
    BY DEF SerialTotal, SegmentFolds
  <2> QED  BY <1>3, <2>1, <2>2 DEF Folding, SegmentFolds, Searches
<1> QED  BY <1>1, <1>2, <1>3

Outputs(o) == o = [i \in OutKeys |-> o[i]]
PerCube(t) == t = [k \in TotalKeys |-> t[k]]

(* The keys a unit stores to are keys of the buffers.                      *)
LEMMA KeysAreStored ==
  ASSUME Launched, NEW cube \in 0 .. Cubes - 1, NEW u \in Units
  PROVE  /\ OutKeysOf(cube, u) \subseteq OutKeys
         /\ launch.kernel \notin Accumulators => TotalKeysOf(cube, u) \subseteq TotalKeys
<1>1. DOMAIN launch.in = Index /\ Cubes \in Nat
  BY LaunchIsShaped, CubesCount
<1>2. CASE launch.kernel \in BinScans \union PrefixSums \union {"segmented_scan"}
  <2>1. OutKeys = Index
    BY <1>1, <1>2 DEF OutKeys, Scans, BinScans, PrefixSums
  <2>2. OutKeysOf(cube, u) \subseteq Index
    BY <1>1, <1>2, ItemsStand DEF OutKeysOf
  <2>3. launch.kernel \notin SegmentFolds \union Searches \union {"block_reduce"}
    BY <1>2 DEF SegmentFolds, Searches, BinScans, PrefixSums
  <2>4. TotalKeysOf(cube, u) \subseteq TotalKeys
    <3>1. CASE launch.kernel = "block_scan_total"
      <4>1. TotalKeys = 0 .. Cubes - 1
        BY <3>1 DEF TotalKeys, BinScans, SingleCube
      <4> QED  BY <3>1, <4>1 DEF TotalKeysOf
    <3>2. CASE launch.kernel # "block_scan_total"
      BY <2>3, <3>2 DEF TotalKeysOf
    <3> QED  BY <3>1, <3>2
  <2> QED  BY <2>1, <2>2, <2>4
<1>3. CASE launch.kernel \notin BinScans \union PrefixSums \union {"segmented_scan"}
  <2>1. launch.kernel = "reduce_by_key" => OutKeys = 0 .. Cubes - 1
    BY DEF OutKeys, Scans, BinScans, PrefixSums
  <2>2. OutKeysOf(cube, u) \subseteq OutKeys
    BY <1>3, <2>1 DEF OutKeysOf
  <2>3. launch.kernel \notin Accumulators => TotalKeysOf(cube, u) \subseteq TotalKeys
    <3> SUFFICES ASSUME launch.kernel \notin Accumulators, NEW k \in TotalKeysOf(cube, u) PROVE k \in TotalKeys
      OBVIOUS
    <3>0. launch.kernel # "block_scan_total"
      BY <1>3 DEF PrefixSums
    <3>1. k = cube /\ launch.kernel \in SegmentFolds \union Searches \union {"block_reduce"}
      BY <3>0 DEF TotalKeysOf
    <3>2. TotalKeys = 0 .. Cubes - 1
      BY <3>1 DEF TotalKeys, BinScans, SingleCube, SegmentFolds, Searches
    <3> QED  BY <3>1, <3>2
  <2> QED  BY <2>2, <2>3
<1> QED  BY <1>2, <1>3

(* A unit stores the serial results of its keys and changes no other.      *)
LEMMA OutputsAreSerial ==
  ASSUME Launched, NEW cube \in 0 .. Cubes - 1, NEW u \in Units, NEW seg, NEW reg, NEW slots, Outputs(out),
         seg.op = "store" /\ ~Merging => \E prev \in Segs : Prepared(cube, prev, u, seg, reg, slots),
         NEW o, o = NewOut(cube, u, seg, reg, slots)
  PROVE  /\ Outputs(o)
         /\ \A i \in OutKeys : o[i] = IF seg.op = "store" /\ i \in OutKeysOf(cube, u) THEN SerialOut(i) ELSE out[i]
<1> DEFINE Goal == /\ Outputs(o)
                   /\ \A i \in OutKeys :
                        o[i] = IF seg.op = "store" /\ i \in OutKeysOf(cube, u) THEN SerialOut(i) ELSE out[i]
<1>0. Width \in Nat \ {0} /\ Items \in Nat /\ cube \in Nat
  BY GridIsSound, CubesCount
<1>1. ASSUME o = out, seg.op = "store" => OutKeysOf(cube, u) = {} PROVE Goal
  BY <1>1
<1>2. ASSUME seg.op = "store", NEW k, OutKeysOf(cube, u) = {k}, o = [out EXCEPT ![k] = SerialOut(k)] PROVE Goal
  <2>1. k \in OutKeys
    BY <1>2, KeysAreStored
  <2>2. out = [i \in OutKeys |-> out[i]]
    BY DEF Outputs
  <2>3. o = [i \in OutKeys |-> IF i = k THEN SerialOut(k) ELSE out[i]]
    BY <1>2, <2>2
  <2>4. \A i \in OutKeys : o[i] = IF i = k THEN SerialOut(k) ELSE out[i]
    BY <2>3
  <2>5. o = [i \in OutKeys |-> o[i]]
    BY <2>3
  <2> QED  BY <1>2, <2>4, <2>5 DEF Outputs
<1> HIDE DEF Goal
<1> SUFFICES Goal
  BY DEF Goal
<1>3. CASE seg.op # "store"
  <2>1. NewOut(cube, u, seg, reg, slots) = out
    BY <1>3 DEF NewOut
  <2> QED  BY <1>1, <1>3, <2>1
<1>4. CASE seg.op = "store" /\ launch.kernel \in BinScans \union PrefixSums
  <2>0. launch.kernel \in Scans /\ ~Merging /\ launch.kernel # "segmented_scan" /\ launch.kernel # "reduce_by_key"
        /\ ~TreeFolds /\ ~UsesPlanes
    BY <1>4 DEF Scans, BinScans, PrefixSums, Merging, TreeFolds, UnitFolds, UsesPlanes, PlaneFolds
  <2>1. PICK prev \in Segs : Prepared(cube, prev, u, seg, reg, slots)
    BY <1>4, <2>0
  <2>2. prev.op = "carry"
    BY <1>4, <2>0, <2>1 DEF Prepared, Follows
  <2>3. reg = Carried(cube, u)
    BY <2>1, <2>2 DEF Prepared, RightReg, Carried
  <2>4. CASE Stands(cube, u) /\ launch.kernel \in BinScans
    <3>1. OutKeysOf(cube, u) = {BinCell(cube, u)}
      BY <2>4 DEF OutKeysOf, Item
    <3>2. o = [out EXCEPT ![BinCell(cube, u)] = PlaneInclusive(cube, u) + reg]
      BY <1>4, <2>0, <2>4 DEF NewOut, Stands, BinScans, PrefixSums, Merging, SegmentedScan, UnitFolds
    <3>3. PlaneInclusive(cube, u) + reg = SerialOut(BinCell(cube, u))
      BY <2>3, <2>4, BinScansAreSerial
    <3> QED  BY <1>2, <1>4, <3>1, <3>2, <3>3
  <2>5. CASE Stands(cube, u) /\ launch.kernel \in PrefixSums
    <3>0. launch.kernel \notin BinScans
      BY <2>5 DEF PrefixSums, BinScans
    <3>1. OutKeysOf(cube, u) = {Abs(cube, u)}
      BY <2>5, <3>0 DEF OutKeysOf, Item
    <3>2. o = [out EXCEPT ![Abs(cube, u)] = Prefix(cube, u, reg)]
      BY <1>4, <2>0, <2>5, <3>0 DEF NewOut, Stands, Merging, SegmentedScan, UnitFolds
    <3>3. Prefix(cube, u, reg) = SerialOut(Abs(cube, u))
      BY <2>3, <2>5, PrefixesAreSerial
    <3> QED  BY <1>2, <1>4, <3>1, <3>2, <3>3
  <2>6. CASE ~Stands(cube, u)
    <3>1. OutKeysOf(cube, u) = {}
      BY <1>4, <2>6 DEF OutKeysOf
    <3>2. o = out
      BY <1>4, <2>0, <2>6 DEF NewOut, Stands, BinScans, PrefixSums, Merging, SegmentedScan, UnitFolds
    <3> QED  BY <1>1, <3>1, <3>2
  <2> QED  BY <1>4, <2>4, <2>5, <2>6
<1>5. CASE seg.op = "store" /\ launch.kernel = "segmented_scan"
  <2>0. launch.kernel \notin Scans \union BinScans \union PrefixSums /\ ~Merging /\ ~TreeFolds /\ ~UsesPlanes
    BY <1>5 DEF Scans, BinScans, PrefixSums, Merging, TreeFolds, UnitFolds, UsesPlanes, PlaneFolds
  <2>00. cube = 0 /\ Abs(cube, u) = u
    <3>1. Cubes = 1
      BY <1>5 DEF Cubes, SegmentFolds, BinScans, SingleCube
    <3>2. cube = 0
      BY <3>1
    <3> QED  BY <1>0, <3>2, LanesAreNumbers DEF Abs
  <2>1. PICK prev \in Segs : Prepared(cube, prev, u, seg, reg, slots)
    BY <1>5, <2>0
  <2>2. CASE Stands(cube, u)
    <3>1. \/ prev.op = "load" /\ Width <= 1
          \/ prev.op = "add" /\ 2 * prev.s >= Width
      BY <1>5, <2>0, <2>1 DEF Prepared, Follows
    <3>2. Right(cube, prev, u, slots[u])
      <4>1. Reads(cube, u, seg) = {u}
        BY <1>5, <2>0 DEF Reads, Merging, SegmentedScan, UnitFolds
      <4> QED  BY <2>1, <4>1 DEF Prepared, Readable
    <3>3. Whole(u) /\ Scanning
      <4>1. u < Width
        BY <1>0 DEF Units
      <4> QED  BY <1>5, <2>0, <4>1 DEF Whole, Scanning
    <3>4. \E w \in Nat : w >= Width /\ slots[u] = Window(cube, u, w)
      <4>1. CASE prev.op = "load" /\ Width <= 1
        <5>1. slots[u] = Window(cube, u, 1)
          BY <3>2, <3>3, <4>1, LoadsWindow DEF Right
        <5> QED  BY <1>0, <4>1, <5>1
      <4>2. CASE prev.op = "add" /\ 2 * prev.s >= Width
        <5>1. slots[u] = Window(cube, u, 2 * prev.s) /\ 2 * prev.s \in Nat
          BY <3>2, <3>3, <4>2 DEF Right, Segs
        <5> QED  BY <4>2, <5>1
      <4> QED  BY <3>1, <4>1, <4>2
    <3>5. SegmentPrefix(u, slots) = SerialOut(u) /\ u < Items /\ Item(cube, u) = u
      BY <1>5, <2>2, <3>4, SegmentsAreSerial
    <3>6. OutKeysOf(cube, u) = {u}
      BY <1>5, <2>2, <3>5 DEF OutKeysOf
    <3>7. o = [out EXCEPT ![u] = SegmentPrefix(u, slots)]
      BY <1>5, <2>0, <3>5 DEF NewOut, Merging, SegmentedScan, UnitFolds
    <3> QED  BY <1>2, <1>5, <3>5, <3>6, <3>7
  <2>3. CASE ~Stands(cube, u)
    <3>1. OutKeysOf(cube, u) = {}
      BY <1>5, <2>3 DEF OutKeysOf
    <3>2. ~(u < Items)
      BY <2>0, <2>00, <2>3 DEF Stands
    <3>3. o = out
      BY <1>5, <2>0, <3>2 DEF NewOut
    <3> QED  BY <1>1, <3>1, <3>3
  <2> QED  BY <2>2, <2>3
<1>6. CASE seg.op = "store" /\ launch.kernel \notin BinScans \union PrefixSums \union {"segmented_scan"}
  <2>1. CASE launch.kernel = "reduce_by_key" /\ u = 0
    <3>1. OutKeysOf(cube, u) = {cube}
      BY <1>6, <2>1 DEF OutKeysOf
    <3>2. o = [out EXCEPT ![cube] = launch.keys[launch.offsets[cube]]]
      BY <1>6, <2>1 DEF NewOut, BinScans, PrefixSums
    <3>3. SerialOut(cube) = launch.keys[launch.offsets[cube]]
      BY <2>1 DEF SerialOut, BinScans, PrefixSums
    <3> QED  BY <1>2, <1>6, <3>1, <3>2, <3>3
  <2>2. CASE ~(launch.kernel = "reduce_by_key" /\ u = 0)
    <3>1. OutKeysOf(cube, u) = {}
      BY <1>6, <2>2 DEF OutKeysOf
    <3>2. o = out
      BY <1>6, <2>2 DEF NewOut, BinScans, PrefixSums, Merging, SegmentedScan, UnitFolds
    <3> QED  BY <1>1, <3>1, <3>2
  <2> QED  BY <2>1, <2>2
<1> QED  BY <1>3, <1>4, <1>5, <1>6

(* So it does with the totals, where they are not accumulated.             *)
LEMMA TotalsAreSerial ==
  ASSUME Launched, launch.kernel \notin Accumulators,
         NEW cube \in 0 .. Cubes - 1, NEW u \in Units, NEW seg, NEW reg, NEW slots, PerCube(totals),
         seg.op = "store" => \E prev \in Segs : Prepared(cube, prev, u, seg, reg, slots),
         NEW t, t = NewTotals(cube, u, seg, reg, slots)
  PROVE  /\ PerCube(t)
         /\ \A k \in TotalKeys :
              t[k] = IF seg.op = "store" /\ k \in TotalKeysOf(cube, u) THEN SerialTotal(k) ELSE totals[k]
<1> DEFINE Goal == /\ PerCube(t)
                   /\ \A k \in TotalKeys :
                        t[k] = IF seg.op = "store" /\ k \in TotalKeysOf(cube, u) THEN SerialTotal(k) ELSE totals[k]
<1>0. /\ Width \in Nat \ {0} /\ launch.kernel \in Kernels
      /\ launch.kernel \notin {"block_reduce_atomic", "block_reduce_fixedpoint", "partition_update_lds"}
  BY GridIsSound, LaunchIsShaped DEF Accumulators
<1>1. ASSUME t = totals, seg.op = "store" => TotalKeysOf(cube, u) = {} PROVE Goal
  BY <1>1
<1>2. ASSUME seg.op = "store", TotalKeysOf(cube, u) = {cube}, t = [totals EXCEPT ![cube] = SerialTotal(cube)] PROVE Goal
  <2>1. cube \in TotalKeys
    BY <1>2, KeysAreStored
  <2>2. totals = [i \in TotalKeys |-> totals[i]]
    BY DEF PerCube
  <2>3. t = [i \in TotalKeys |-> IF i = cube THEN SerialTotal(cube) ELSE totals[i]]
    BY <1>2, <2>2
  <2>4. \A i \in TotalKeys : t[i] = IF i = cube THEN SerialTotal(cube) ELSE totals[i]
    BY <2>3
  <2>5. t = [i \in TotalKeys |-> t[i]]
    BY <2>3
  <2> QED  BY <1>2, <2>4, <2>5 DEF PerCube
<1> HIDE DEF Goal
<1> SUFFICES Goal
  BY DEF Goal
<1>3. CASE seg.op # "store"
  <2>1. NewTotals(cube, u, seg, reg, slots) = totals
    BY <1>3 DEF NewTotals
  <2> QED  BY <1>1, <1>3, <2>1
<1>4. CASE seg.op = "store" /\ launch.kernel = "block_scan_total"
  <2>0. launch.kernel \in Scans /\ launch.kernel \in PrefixSums /\ ~TreeFolds /\ ~UsesPlanes /\ ~Merging
        /\ launch.kernel # "segmented_scan"
    BY <1>4 DEF Scans, PrefixSums, TreeFolds, UnitFolds, UsesPlanes, PlaneFolds, Merging
  <2>1. PICK prev \in Segs : Prepared(cube, prev, u, seg, reg, slots)
    BY <1>4
  <2>2. prev.op = "carry"
    BY <1>4, <2>0, <2>1 DEF Prepared, Follows
  <2>3. reg = Carried(cube, u)
    BY <2>1, <2>2 DEF Prepared, RightReg, Carried
  <2>4. CASE LastValid(cube, u)
    <3>1. Stands(cube, u)
      BY <1>4, <2>4 DEF LastValid, Stands, BinScans
    <3>2. PlaneInclusive(cube, u) + reg = SerialTotal(cube)
      BY <1>4, <2>0, <2>3, <2>4, <3>1, PrefixesAreSerial
    <3>3. NewTotals(cube, u, seg, reg, slots) = [totals EXCEPT ![cube] = PlaneInclusive(cube, u) + reg]
      BY <1>4, <2>0, <2>4 DEF NewTotals, Merging, SegmentedScan, UnitFolds
    <3>4. TotalKeysOf(cube, u) = {cube}
      BY <1>4, <2>4 DEF TotalKeysOf
    <3> QED  BY <1>2, <1>4, <3>2, <3>3, <3>4
  <2>5. CASE ~LastValid(cube, u)
    <3>1. t = totals
      BY <1>4, <2>0, <2>5 DEF NewTotals, Merging, SegmentedScan, UnitFolds
    <3>2. TotalKeysOf(cube, u) = {}
      BY <1>4, <2>5 DEF TotalKeysOf
    <3> QED  BY <1>1, <3>1, <3>2
  <2> QED  BY <2>4, <2>5
<1>5. CASE seg.op = "store" /\ launch.kernel # "block_scan_total" /\ launch.kernel \in Scans \union {"segmented_scan"}
  <2>1. t = totals
    BY <1>0, <1>5 DEF NewTotals, Merging, SegmentedScan, UnitFolds
  <2>2. TotalKeysOf(cube, u) = {}
    BY <1>5 DEF TotalKeysOf, Scans, PrefixSums, BinScans, SegmentFolds, Searches
  <2> QED  BY <1>1, <2>1, <2>2
<1>6. CASE seg.op = "store" /\ launch.kernel \notin Scans \union {"segmented_scan"}
  <2>0. /\ launch.kernel \in UnitFolds /\ launch.kernel # "block_scan_total"
        /\ launch.kernel \in SegmentFolds \union Searches \union {"block_reduce"}
    BY <1>0, <1>6 DEF UnitFolds, Kernels, Scans, PrefixSums, BinScans, Accumulators, SingleCube
  <2>1. CASE u = 0
    <3>1. PICK prev \in Segs : Prepared(cube, prev, 0, seg, reg, slots)
      BY <1>6, <2>1
    <3>2. Folded(slots) = Folding(Covered(cube, Units))
      BY <1>6, <2>0, <3>1, FoldedIsRight
    <3>3. Folding(Covered(cube, Units)) = SerialTotal(cube)
      BY <2>0, FoldsAreSerial
    <3>4. t = [totals EXCEPT ![cube] = Folded(slots)]
      BY <1>0, <1>6, <2>0, <2>1 DEF NewTotals
    <3>5. TotalKeysOf(cube, u) = {cube}
      BY <2>0, <2>1 DEF TotalKeysOf
    <3> QED  BY <1>2, <1>6, <3>2, <3>3, <3>4, <3>5
  <2>2. CASE u # 0
    <3>1. t = totals
      BY <1>0, <1>6, <2>0, <2>2 DEF NewTotals, Merging, SegmentedScan, UnitFolds
    <3>2. TotalKeysOf(cube, u) = {}
      BY <2>0, <2>2 DEF TotalKeysOf
    <3> QED  BY <1>1, <3>1, <3>2
  <2> QED  BY <2>1, <2>2
<1> QED  BY <1>3, <1>4, <1>5, <1>6

(* The units of a cube in one segment of it.                               *)
Together(places, cube, k) == \A w \in Units : places[w].cube = cube /\ places[w].stage = k

(* Unit u runs its segment, and nobody else does anything.                 *)
Moves(places, next, u, reg) ==
  /\ ~places[u].waits /\ next[u].waits /\ next[u].reg = reg
  /\ \A w \in Units : /\ next[w].cube = places[w].cube /\ next[w].stage = places[w].stage
                      /\ w # u => next[w] = places[w]

(* The segments around stage k.                                            *)
LEMMA StagesAreOrdered ==
  ASSUME Launched, NEW k \in 1 .. Len(Program)
  PROVE  /\ Program[k] \in Segs /\ k \in Nat
         /\ k = 1 <=> Program[k].op = "load"
         /\ k = Len(Program) <=> Program[k].op = "store"
         /\ k > 1 => k - 1 \in 1 .. Len(Program) /\ Program[k - 1] \in Segs /\ Follows(Program[k - 1], Program[k])
         /\ ~Merging => Program[k].op # "scatter"
<1>1. Ordered(Program) /\ Program \in Seq(Segs)
  BY ProgramsAreOrdered, ProgramType
<1>2. Len(Program) \in Nat /\ Len(Program) >= 2 /\ k \in Nat
  BY <1>1 DEF Ordered
<1>3. \A j \in 1 .. Len(Program) : Program[j] \in Segs
  BY <1>1
<1>4. k > 1 => k - 1 \in 1 .. Len(Program) /\ Program[k - 1] \in Segs /\ Follows(Program[k - 1], Program[k])
  <2> SUFFICES ASSUME k > 1
               PROVE  k - 1 \in 1 .. Len(Program) /\ Program[k - 1] \in Segs /\ Follows(Program[k - 1], Program[k])
    OBVIOUS
  <2>1. k \in 2 .. Len(Program) /\ k - 1 \in 1 .. Len(Program)
    BY <1>2
  <2> QED  BY <1>1, <1>3, <2>1 DEF Ordered
<1>5. Program[1].op = "load" /\ Program[Len(Program)].op = "store"
  BY <1>1, SegFields DEF Ordered
<1>6. k # Len(Program) => Program[k].op # "store"
  <2> SUFFICES ASSUME k # Len(Program) PROVE Program[k].op # "store"
    OBVIOUS
  <2>1. k \in 1 .. Len(Program) - 1
    BY <1>2
  <2> QED  BY <1>1, <2>1 DEF Ordered
<1>7. k > 1 => Program[k].op # "load" /\ (~Merging => Program[k].op # "scatter")
  BY <1>4 DEF Follows
<1> QED  BY <1>2, <1>3, <1>4, <1>5, <1>6, <1>7

(* A unit leaves the slots it does not write.                              *)
LEMMA SlotsStay ==
  ASSUME Launched, ~Merging, NEW cube, NEW u \in Units, NEW seg, seg.op # "scatter", NEW reg, NEW slots,
         SharedSlots(slots), NEW s \in Shared, s \notin Writes(cube, u, seg)
  PROVE  NewSlots(cube, u, seg, reg, slots)[s] = slots[s]
<1>1. ChangesOnly(Writes(cube, u, seg), slots, NewSlots(cube, u, seg, reg, slots))
  BY SlotsChange
<1> QED  BY <1>1 DEF ChangesOnly

(* What a unit reads is one of the cube's slots.                           *)
LEMMA ReadsAreUnits ==
  ASSUME Launched, ~Merging, NEW cube, NEW u \in Units, NEW prev \in Segs, NEW seg \in Segs, Follows(prev, seg)
  PROVE  Reads(cube, u, seg) \subseteq Units
<1>1. u \in Nat /\ u < Width /\ Width \in Nat \ {0} /\ seg.s \in Nat /\ 0 \in Units /\ Planes \in Nat
  BY GridIsSound, LanesAreNumbers DEF Units, Segs
<1>2. CASE seg.op = "fold"
  <2>1. 2 * seg.s <= Width
    BY <1>2 DEF Follows
  <2>2. u < seg.s => u \in Units /\ u + seg.s \in Units
    BY <1>1, <2>1 DEF Units
  <2> QED  BY <1>2, <2>2 DEF Reads
<1>3. CASE seg.op = "read"
  <2>1. Drives(u, seg.s) => u - seg.s \in Units
    BY <1>1 DEF Units, Drives
  <2> QED  BY <1>3, <2>1 DEF Reads
<1>4. CASE seg.op = "add"
  BY <1>4 DEF Reads
<1>5. CASE seg.op = "carry"
  <2>1. PlaneOf(u) >= 1 => PlaneOf(u) - 1 \in Units
    <3>1. PlaneOf(u) \in Units
      BY SlotsAreUnits
    <3> QED  BY <1>1, <3>1 DEF Units
  <2> QED  BY <1>5, <2>1 DEF Reads
<1>6. CASE seg.op = "store"
  <2>1. 0 .. Planes - 1 \subseteq Units
    <3> SUFFICES ASSUME NEW p \in 0 .. Planes - 1 PROVE p \in Units
      OBVIOUS
    <3>1. PICK w \in Units : PlaneOf(w) = p
      BY FirstLane
    <3> QED  BY <3>1, SlotsAreUnits
  <2>2. CASE SegmentedScan
    BY <1>6, <2>2 DEF Reads, SegmentedScan, Merging, UnitFolds
  <2>3. CASE launch.kernel \in UnitFolds
    <3>1. ~SegmentedScan
      BY <2>3 DEF SegmentedScan, UnitFolds
    <3> QED  BY <1>1, <1>6, <2>1, <2>3, <3>1 DEF Reads
  <2>4. CASE ~SegmentedScan /\ launch.kernel \notin UnitFolds
    BY <1>6, <2>4 DEF Reads
  <2> QED  BY <2>2, <2>3, <2>4
<1>7. CASE seg.op \in {"load", "scatter"}
  BY <1>7 DEF Reads
<1> QED  BY <1>2, <1>3, <1>4, <1>5, <1>6, <1>7 DEF Segs, Ops

(* A unit that runs its segment finds what the one before has left.        *)
LEMMA UnitsArePrepared ==
  ASSUME Launched, ~Merging, NEW cube, NEW k \in 1 .. Len(Program), k > 1,
         NEW places, Together(places, cube, k), NEW slots, SharedSlots(slots),
         SlotsRight(places, slots), RegsRight(places),
         NEW u \in Units, ~places[u].waits
  PROVE  Prepared(cube, Program[k - 1], u, Program[k], places[u].reg, slots)
<1> DEFINE seg == Program[k]
           prev == Program[k - 1]
<1>1. Follows(prev, seg) /\ seg \in Segs /\ prev \in Segs /\ seg.op # "scatter"
  BY StagesAreOrdered
<1>2. Reads(cube, u, seg) \subseteq Units
  <2> HIDE DEF seg, prev
  <2> QED  BY <1>1, ReadsAreUnits
<1>3. Writes(cube, u, seg) \subseteq Units
  <2> HIDE DEF seg
  <2>1. ChangesOnly(Writes(cube, u, seg), slots, NewSlots(cube, u, seg, 0, slots))
    BY <1>1, SlotsChange
  <2> QED  BY <2>1 DEF ChangesOnly
<1>4. 0 \in Units
  BY GridIsSound DEF Units
<1>5. ASSUME NEW s \in Reads(cube, u, seg) \union Writes(cube, u, seg)
      PROVE  Right(cube, prev, s, slots[s])
  <2>1. ~Written(places, s)
    <3> SUFFICES ASSUME NEW w \in Units, places[w].waits, s \in Writes(cube, w, seg) PROVE FALSE
      BY DEF Written, Together
    <3>1. w # u
      OBVIOUS
    <3>2. /\ Writes(cube, w, seg) \intersect Writes(cube, u, seg) = {}
          /\ Writes(cube, w, seg) \intersect Touches(cube, u, seg) = {}
      <4> HIDE DEF seg, prev
      <4> QED  BY <1>1, <3>1, SegmentsAreApart
    <3> QED  BY <3>2 DEF Touches
  <2>2. s \in Units
    BY <1>2, <1>3
  <2>3. places[0].cube = cube /\ places[0].stage = k
    BY <1>4 DEF Together
  <2> QED  BY <2>1, <2>2, <2>3 DEF SlotsRight
<1>6. RightReg(cube, prev, u, places[u].reg)
  BY DEF RegsRight, Together
<1> QED  BY <1>1, <1>5, <1>6 DEF Prepared, Readable

(* A unit that runs its segment leaves the cube's memory right.            *)
LEMMA UnitsKeepShared ==
  ASSUME Launched, ~Merging, NEW cube \in 0 .. Cubes - 1, NEW k \in 1 .. Len(Program),
         NEW places, Together(places, cube, k), NEW slots, SharedSlots(slots),
         SlotsRight(places, slots), RegsRight(places),
         NEW u \in Units, NEW next, Moves(places, next, u, NewReg(u, Program[k], places[u].reg, slots)),
         NEW new, new = NewSlots(cube, u, Program[k], places[u].reg, slots)
  PROVE  SlotsRight(next, new) /\ RegsRight(next)
<1> DEFINE seg == Program[k]
           reg == places[u].reg
<1>1. seg \in Segs /\ seg.op # "scatter" /\ ~places[u].waits /\ 0 \in Units
  BY StagesAreOrdered, GridIsSound DEF Moves, Units
<1>2. seg.op = "load" \/ \E prev \in Segs : Prepared(cube, prev, u, seg, reg, slots)
  <2>1. CASE k = 1
    BY <2>1, StagesAreOrdered
  <2>2. CASE k > 1
    <3>1. Program[k - 1] \in Segs
      BY <2>2, StagesAreOrdered
    <3>2. Prepared(cube, Program[k - 1], u, seg, reg, slots)
      BY <1>1, <2>2, UnitsArePrepared
    <3> QED  BY <3>1, <3>2
  <2> QED  BY <2>1, <2>2
<1>3. /\ \A s \in Writes(cube, u, seg) : Right(cube, seg, s, new[s])
      /\ RightReg(cube, seg, u, NewReg(u, seg, reg, slots))
  <2>1. new = NewSlots(cube, u, seg, reg, slots)
    OBVIOUS
  <2> HIDE DEF seg, reg
  <2>2. /\ \A s \in Writes(cube, u, seg) : Right(cube, seg, s, NewSlots(cube, u, seg, reg, slots)[s])
        /\ RightReg(cube, seg, u, NewReg(u, seg, reg, slots))
    BY <1>1, <1>2, SegmentsAreRight
  <2> QED  BY <2>1, <2>2
<1>4. \A s \in Units : s \notin Writes(cube, u, seg) => new[s] = slots[s]
  <2> SUFFICES ASSUME NEW s \in Units, s \notin Writes(cube, u, seg)
               PROVE  NewSlots(cube, u, seg, reg, slots)[s] = slots[s]
    OBVIOUS
  <2>1. s \in Shared
    BY SlotsAreUnits
  <2> HIDE DEF seg, reg
  <2> QED  BY <1>1, <2>1, SlotsStay
<1>5. \A w \in Units : places[w].cube = cube /\ places[w].stage = k /\ next[w].cube = cube /\ next[w].stage = k
  BY DEF Together, Moves
<1>6. \A s : Written(next, s) <=> Written(places, s) \/ s \in Writes(cube, u, seg)
  BY <1>5 DEF Written, Moves
<1>7. SlotsRight(next, new)
  <2> SUFFICES ASSUME NEW s \in Units
               PROVE  IF Written(next, s) THEN Right(cube, Program[k], s, new[s])
                      ELSE k > 1 => Right(cube, Program[k - 1], s, new[s])
    BY <1>1, <1>5 DEF SlotsRight
  <2>1. IF Written(places, s) THEN Right(cube, Program[k], s, slots[s])
        ELSE k > 1 => Right(cube, Program[k - 1], s, slots[s])
    BY <1>1, <1>5 DEF SlotsRight
  <2>2. CASE s \in Writes(cube, u, seg)
    BY <1>3, <1>6, <2>2
  <2>3. CASE s \notin Writes(cube, u, seg)
    BY <1>4, <1>6, <2>1, <2>3
  <2> QED  BY <2>2, <2>3
<1>8. RegsRight(next)
  <2> SUFFICES ASSUME NEW w \in Units
               PROVE  IF next[w].waits THEN RightReg(cube, Program[k], w, next[w].reg)
                      ELSE k > 1 => RightReg(cube, Program[k - 1], w, next[w].reg)
    BY <1>5 DEF RegsRight
  <2>1. CASE w = u
    BY <1>3, <2>1 DEF Moves
  <2>2. CASE w # u
    <3>1. next[w] = places[w]
      BY <2>2 DEF Moves
    <3> QED  BY <1>5, <3>1 DEF RegsRight
  <2> QED  BY <2>1, <2>2
<1> QED  BY <1>7, <1>8

(* The barrier lets the units of a cube into their next segment, or into   *)
(* the first one of another cube.                                          *)
Opens(places, next) ==
  \A w \in Units :
    /\ places[w].waits /\ ~next[w].waits
    /\ IF places[w].stage < Len(Program)
       THEN next[w].cube = places[w].cube /\ next[w].stage = places[w].stage + 1 /\ next[w].reg = places[w].reg
       ELSE next[w].stage = 1

(* It finds what the segments have left.                                   *)
LEMMA BarriersKeepShared ==
  ASSUME Launched, ~Merging, NEW cube \in 0 .. Cubes - 1, NEW k \in 1 .. Len(Program),
         NEW places, Together(places, cube, k), NEW slots, SlotsRight(places, slots), RegsRight(places),
         NEW next, Opens(places, next)
  PROVE  SlotsRight(next, slots) /\ RegsRight(next)
<1>0. 0 \in Units /\ k \in Nat /\ Len(Program) \in Nat
  BY GridIsSound, ProgramType DEF Units
<1>1. \A s : ~Written(next, s)
  BY DEF Written, Opens
<1>2. CASE k < Len(Program)
  <2>1. \A w \in Units : /\ next[w].cube = cube /\ next[w].stage = k + 1 /\ next[w].reg = places[w].reg
                         /\ ~next[w].waits /\ places[w].waits
    BY <1>2 DEF Together, Opens
  <2>2. (k + 1) - 1 = k
    BY <1>0
  <2>3. ASSUME NEW s \in Units PROVE Right(cube, Program[k], s, slots[s])
    <3>1. places[0].cube = cube /\ places[0].stage = k
      BY <1>0 DEF Together
    <3>2. CASE Written(places, s)
      BY <3>1, <3>2 DEF SlotsRight
    <3>3. CASE ~Written(places, s)
      <4> DEFINE seg == Program[k]
                 x == slots[s]
      <4>1. \A w \in Units : s \notin Writes(cube, w, seg)
        BY <2>1, <3>3 DEF Written, Together
      <4>2. seg.op = "load" \/ \E prev \in Segs : Follows(prev, seg) /\ Right(cube, prev, s, x)
        <5>1. CASE k = 1
          BY <5>1, StagesAreOrdered
        <5>2. CASE k > 1
          <6>1. Program[k - 1] \in Segs /\ Follows(Program[k - 1], seg)
            BY <5>2, StagesAreOrdered
          <6>2. Right(cube, Program[k - 1], s, x)
            BY <3>1, <3>3, <5>2 DEF SlotsRight
          <6> QED  BY <6>1, <6>2
        <5> QED  BY <1>0, <5>1, <5>2
      <4> HIDE DEF seg, x
      <4>3. Right(cube, seg, s, x)
        BY <4>1, <4>2, UnwrittenIsRight
      <4> QED  BY <4>3 DEF seg, x
    <3> QED  BY <3>2, <3>3
  <2>4. SlotsRight(next, slots)
    BY <1>0, <1>1, <2>1, <2>2, <2>3 DEF SlotsRight
  <2>5. RegsRight(next)
    <3>1. \A w \in Units : RightReg(cube, Program[k], w, places[w].reg)
      BY <2>1 DEF RegsRight, Together
    <3> QED  BY <2>1, <2>2, <3>1 DEF RegsRight
  <2> QED  BY <2>4, <2>5
<1>3. CASE ~(k < Len(Program))
  <2>1. \A w \in Units : next[w].stage = 1 /\ ~next[w].waits
    BY <1>3 DEF Together, Opens
  <2>2. ~(1 > 1)
    OBVIOUS
  <2> QED  BY <1>0, <1>1, <2>1, <2>2 DEF SlotsRight, RegsRight
<1> QED  BY <1>2, <1>3

-----------------------------------------------------------------------------
(* The partition update. *)

PartOf(S, c) == {i \in S : launch.part[i] = c}

(* A partition update loads, scatters and stores.                          *)
LEMMA MergingSteps ==
  ASSUME Launched, Merging
  PROVE  /\ Len(Program) = 3 /\ Program[1].op = "load" /\ Program[2].op = "scatter" /\ Program[3].op = "store"
         /\ Cubes = launch.cubes /\ Cubes \in Nat \ {0} /\ Cells = launch.cells /\ Cells \in 0 .. CubeDim
         /\ launch.kernel \notin Searches
<1>1. launch.kernel = "partition_update_lds"
  BY DEF Merging
<1>2. launch.kernel \notin Scans /\ launch.kernel # "segmented_scan"
  BY <1>1 DEF Scans, PrefixSums, BinScans
<1>3. Program = Framed(<<Seg("scatter", 0)>>)
  BY <1>1, <1>2 DEF Program, Framed, UsesPlanes, PlaneFolds
<1>4. <<Seg("scatter", 0)>> \in Seq(Segs) /\ Len(<<Seg("scatter", 0)>>) = 1
  BY DEF Seg, Segs, Ops
<1>5. Len(Program) = 3 /\ Program[1].op = "load" /\ Program[2].op = "scatter" /\ Program[3].op = "store"
  <2> DEFINE body == <<Seg("scatter", 0)>>
  <2>1. Len(body) = 1 /\ body \in Seq(Segs) /\ Program = Framed(body) /\ body[1] = Seg("scatter", 0)
    BY <1>3, <1>4
  <2> HIDE DEF body
  <2>2. /\ Len(Program) = Len(body) + 2 /\ Program[1] = Seg("load", 0)
        /\ \A k \in 1 .. Len(body) : Program[k + 1] = body[k]
        /\ Program[Len(body) + 2] = Seg("store", 0)
    <3>1. /\ Len(Framed(body)) = Len(body) + 2 /\ Framed(body)[1] = Seg("load", 0)
          /\ \A k \in 1 .. Len(body) : Framed(body)[k + 1] = body[k]
          /\ Framed(body)[Len(body) + 2] = Seg("store", 0)
      BY <2>1, FrameSteps
    <3> QED  BY <2>1, <3>1
  <2>3. Program[1 + 1] = body[1] /\ 1 + 1 = 2 /\ Len(body) + 2 = 3
    BY <2>1, <2>2
  <2>4. Len(Program) = 3 /\ Program[1] = Seg("load", 0) /\ Program[3] = Seg("store", 0)
    BY <2>2, <2>3
  <2>5. Program[2] = Seg("scatter", 0)
    BY <2>1, <2>3
  <2> HIDE DEF body
  <2> QED  BY <2>4, <2>5, SegFields
<1>6. Cubes = launch.cubes
  BY <1>1 DEF Cubes, SegmentFolds, BinScans, SingleCube
<1>7. launch.kernel \notin Searches
  BY <1>1 DEF Searches
<1> QED  BY <1>1, <1>5, <1>6, <1>7, LaunchIsShaped DEF Cells

(* The grid step nearest to a value, and its bits.                         *)
LEMMA RoundingType ==
  ASSUME NEW v \in Int
  PROVE  Round(v) \in Int /\ fixedpoint_encode(v) = Round(v) % FixedRange /\ fixedpoint_encode(v) \in Int
<1> DEFINE n == 2 * FixedCell
<1>1. n \in Nat \ {0} /\ FixedRange \in Nat \ {0}
  BY FixedAssumption
<1>2. (2 * v + FixedCell) \in Int /\ (FixedCell - 2 * v) \in Int
  BY FixedAssumption
<1> HIDE DEF n
<1>3. (2 * v + FixedCell) \div n \in Int /\ (FixedCell - 2 * v) \div n \in Int
  BY <1>1, <1>2, DivisionHolds
<1>4. Round(v) \in Int
  BY <1>3 DEF Round, n
<1>5. Round(v) % FixedRange \in Int
  BY <1>1, <1>4, DivisionHolds
<1> QED  BY <1>4, <1>5 DEF fixedpoint_encode

(* An item is encoded as its rounded value, reduced to the word.           *)
LEMMA ItemsAreEncoded ==
  ASSUME Launched, launch.kernel \notin Searches
  PROVE  \A i \in Index : /\ Encoded[i] \in Int /\ Rounded[i] \in Int
                          /\ Encoded[i] = Rounded[i] % FixedRange
<1> SUFFICES ASSUME NEW i \in Index
             PROVE  Encoded[i] \in Int /\ Rounded[i] \in Int /\ Encoded[i] = Rounded[i] % FixedRange
  OBVIOUS
<1>1. i \in DOMAIN launch.in /\ launch.in[i] \in Int
  BY LaunchIsShaped
<1>2. Encoded[i] = fixedpoint_encode(launch.in[i]) /\ Rounded[i] = Round(launch.in[i])
  BY <1>1 DEF Encoded, Rounded
<1> QED  BY <1>1, <1>2, RoundingType

(* A unit's walk of the grid.                                              *)
LEMMA GridItemsApart ==
  ASSUME Launched, Cubes \in Nat, NEW cube \in 0 .. Cubes - 1, NEW u \in Units
  PROVE  /\ GridItems(cube, u) \subseteq Index
         /\ \A v \in Units : u # v => GridItems(cube, u) \intersect GridItems(cube, v) = {}
<1>1. Width \in Nat /\ u \in Nat /\ \A v \in Units : v \in Nat
  BY GridIsSound, LanesAreNumbers
<1>2. cube * Width \in Nat
  BY <1>1
<1>3. \A v \in Units : Abs(cube, u) = Abs(cube, v) => u = v
  BY <1>1, <1>2 DEF Abs
<1> QED  BY <1>3 DEF GridItems, Index

(* The cells while the units of a cube zero them, scatter to them and      *)
(* store them.                                                             *)
LEMMA UnitsKeepCells ==
  ASSUME Launched, Merging, NEW cube \in 0 .. Cubes - 1, NEW k \in 1 .. Len(Program),
         NEW places, Together(places, cube, k), NEW slots, SharedSlots(slots), CellsRight(places, slots),
         NEW u \in Units, NEW next, NEW reg, Moves(places, next, u, reg),
         NEW new, new = NewSlots(cube, u, Program[k], places[u].reg, slots)
  PROVE  CellsRight(next, new) /\ SharedSlots(new)
<1>0. /\ Len(Program) = 3 /\ Program[1].op = "load" /\ Program[2].op = "scatter" /\ Program[3].op = "store"
      /\ Cubes \in Nat /\ Cells \in 0 .. CubeDim /\ CubeDim \in Nat /\ 0 \in Units /\ k \in 1 .. 3
      /\ Width \in Nat \ {0} /\ FixedRange \in Nat \ {0}
  <2>1. /\ Len(Program) = 3 /\ Program[1].op = "load" /\ Program[2].op = "scatter" /\ Program[3].op = "store"
        /\ Cubes \in Nat /\ Cells \in 0 .. CubeDim
    BY MergingSteps
  <2>2. Width \in Nat \ {0}
    BY GridIsSound
  <2> QED  BY <2>1, <2>2, CubeDimAssumption, FixedAssumption DEF Units
<1>1. \A w \in Units : /\ places[w].cube = cube /\ places[w].stage = k /\ next[w].cube = cube /\ next[w].stage = k
                       /\ w # u => next[w] = places[w]
  BY DEF Together, Moves
<1>2. \A c \in 0 .. Cells - 1 : c \in Shared /\ c % Width \in Units
  <2> SUFFICES ASSUME NEW c \in 0 .. Cells - 1 PROVE c \in Shared /\ c % Width \in Units
    OBVIOUS
  <2>1. c \in Int /\ c % Width \in 0 .. Width - 1
    BY <1>0, DivisionHolds
  <2> QED  BY <1>0, <2>1 DEF Shared, Units
<1>3. slots = [s \in Shared |-> slots[s]] /\ ~places[u].waits /\ next[u].waits
  BY DEF SharedSlots, Moves
<1>4. CASE k = 1
  <2>1. new = [s \in Shared |-> IF s \in OwnCells(u) THEN 0 ELSE slots[s]]
    BY <1>0, <1>3, <1>4 DEF NewSlots
  <2>2. SharedSlots(new)
    BY <2>1 DEF SharedSlots
  <2>3. Scattered(next) = {} /\ Scattered(places) = {}
    BY <1>1, <1>4 DEF Scattered, Scatters
  <2>4. SumFunctionOnSet(Encoded, {}) % FixedRange = 0
    <3>1. SumFunctionOnSet(Encoded, {}) = 0
      BY FS_EmptySet, SumOfZeros
    <3>2. (FixedRange * 0 + 0) % FixedRange = 0
      <4>1. 0 \in 0 .. FixedRange - 1 /\ 0 \in Int
        BY <1>0
      <4> QED  BY <1>0, <4>1, Remainder
    <3>3. FixedRange * 0 + 0 = 0
      BY <1>0
    <3> QED  BY <3>1, <3>2, <3>3
  <2>5. CellsRight(next, new)
    <3> SUFFICES ASSUME NEW c \in 0 .. Cells - 1, next[c % Width].waits
                 PROVE  new[c] = SumFunctionOnSet(Encoded, {}) % FixedRange
      BY <1>0, <1>1, <1>4, <2>3 DEF CellsRight
    <3>1. CASE c % Width = u
      <4>1. c \in OwnCells(u)
        BY <3>1 DEF OwnCells
      <4> QED  BY <1>2, <2>1, <2>4, <4>1
    <3>2. CASE c % Width # u
      <4>1. c \notin OwnCells(u) /\ places[c % Width].waits
        BY <1>1, <1>2, <3>2 DEF OwnCells
      <4>2. slots[c] = SumFunctionOnSet(Encoded, {}) % FixedRange
        BY <2>3, <4>1 DEF CellsRight
      <4> QED  BY <1>2, <2>1, <4>1, <4>2
    <3> QED  BY <3>1, <3>2
  <2> QED  BY <2>2, <2>5
<1>5. CASE k = 2
  <2> DEFINE Old == Scattered(places)
             Mine == GridItems(cube, u)
  <2>1. new = [s \in Shared |->
                 IF s \notin ScatterCells(cube, u) THEN slots[s]
                 ELSE (slots[s] + SumFunctionOnSet(Encoded, PartOf(Mine, s))) % FixedRange]
    BY <1>0, <1>3, <1>5 DEF NewSlots, PartOf
  <2>2. SharedSlots(new)
    BY <2>1 DEF SharedSlots
  <2>3. Old = UNION {GridItems(cube, v) : v \in {w \in Units : places[w].waits}}
    BY <1>1, <1>5 DEF Scattered, Scatters
  <2>4. Scattered(next) = Old \union Mine
    <3>1. Scattered(next) = UNION {GridItems(cube, v) : v \in {w \in Units : next[w].waits}}
      BY <1>1, <1>5 DEF Scattered, Scatters
    <3>2. {w \in Units : next[w].waits} = {w \in Units : places[w].waits} \union {u}
      BY <1>1, <1>3
    <3> QED  BY <2>3, <3>1, <3>2
  <2>5. Old \subseteq Index /\ Mine \subseteq Index /\ Old \intersect Mine = {}
    BY <1>0, <1>3, <2>3, GridItemsApart
  <2> HIDE DEF Old, Mine
  <2>6. ASSUME NEW c \in 0 .. Cells - 1
        PROVE  new[c] = SumFunctionOnSet(Encoded, PartOf(Scattered(next), c)) % FixedRange
    <3> DEFINE A == PartOf(Old, c)
               B == PartOf(Mine, c)
               a == SumFunctionOnSet(Encoded, A)
               b == SumFunctionOnSet(Encoded, B)
    <3>1. A \subseteq Index /\ B \subseteq Index /\ A \intersect B = {} /\ PartOf(Scattered(next), c) = A \union B
      BY <2>4, <2>5 DEF PartOf
    <3>2. slots[c] = a % FixedRange
      BY <1>0, <1>1, <1>5 DEF CellsRight, PartOf, Old
    <3>3. new[c] = IF c \notin ScatterCells(cube, u) THEN slots[c] ELSE (slots[c] + b) % FixedRange
      BY <1>2, <2>1
    <3>4. c \notin ScatterCells(cube, u) => B = {}
      BY DEF ScatterCells, PartOf, Mine
    <3> HIDE DEF A, B
    <3>5. IsFiniteSet(A) /\ IsFiniteSet(B) /\ \A i \in A \union B : Encoded[i] \in Int
      BY <3>1, LaunchIsShaped, ItemsAreEncoded, MergingSteps, FS_Subset
    <3>6. SumFunctionOnSet(Encoded, A \union B) = a + b
      BY <3>1, <3>5, SumOfUnion
    <3>7. a \in Int /\ b \in Int
      BY <3>5, SumLaws
    <3> HIDE DEF a, b
    <3>8. CASE c \notin ScatterCells(cube, u)
      BY <3>1, <3>2, <3>3, <3>4, <3>8 DEF a
    <3>9. CASE c \in ScatterCells(cube, u)
      <4>1. (b + (a % FixedRange)) % FixedRange = (b + a) % FixedRange
        BY <1>0, <3>7, ModAdds
      <4>2. a % FixedRange \in Int
        BY <1>0, <3>7, DivisionHolds
      <4>3. (a % FixedRange) + b = b + (a % FixedRange) /\ a + b = b + a
        BY <3>7, <4>2
      <4> QED  BY <3>1, <3>2, <3>3, <3>6, <3>9, <4>1, <4>3
    <3> QED  BY <3>8, <3>9
  <2>7. CellsRight(next, new)
    BY <2>6 DEF CellsRight, PartOf
  <2> QED  BY <2>2, <2>7
<1>6. CASE k = 3
  <2>1. new = slots
    BY <1>0, <1>6 DEF NewSlots
  <2>2. Scattered(next) = Scattered(places)
    BY <1>1, <1>6 DEF Scattered, Scatters
  <2>3. \A c \in 0 .. Cells - 1 : places[0].stage > 1
    BY <1>0, <1>1, <1>6
  <2> QED  BY <2>1, <2>2, <2>3 DEF CellsRight
<1> QED  BY <1>0, <1>4, <1>5, <1>6

(* The barrier leaves the cells as they are.                               *)
LEMMA BarriersKeepCells ==
  ASSUME Launched, Merging, NEW cube \in 0 .. Cubes - 1, NEW k \in 1 .. Len(Program),
         NEW places, Together(places, cube, k), NEW slots, CellsRight(places, slots), NEW next, Opens(places, next)
  PROVE  CellsRight(next, slots)
<1>0. Len(Program) = 3 /\ 0 \in Units /\ k \in 1 .. 3 /\ Width \in Nat \ {0}
  <2>1. Len(Program) = 3
    BY MergingSteps
  <2>2. Width \in Nat \ {0}
    BY GridIsSound
  <2> QED  BY <2>1, <2>2 DEF Units
<1>1. \A w \in Units : places[w].cube = cube /\ places[w].stage = k /\ places[w].waits /\ ~next[w].waits
  BY DEF Together, Opens
<1>2. \A c \in 0 .. Cells - 1 : c % Width \in Units
  <2> SUFFICES ASSUME NEW c \in 0 .. Cells - 1 PROVE c % Width \in Units
    OBVIOUS
  <2>1. Cells \in Int
    BY MergingSteps
  <2>2. c \in Int /\ c % Width \in 0 .. Width - 1
    BY <1>0, <2>1, DivisionHolds
  <2> QED  BY <1>0, <2>2 DEF Units
<1>3. CASE k < 3
  <2>1. \A w \in Units : next[w].cube = cube /\ next[w].stage = k + 1
    BY <1>0, <1>1, <1>3 DEF Opens
  <2>2. Scattered(next) = Scattered(places)
    <3>1. CASE k = 1
      <4>1. \A w \in Units : ~Scatters(places[w]) /\ ~Scatters(next[w])
        BY <1>1, <2>1, <3>1 DEF Scatters
      <4> QED  BY <4>1 DEF Scattered
    <3>2. CASE k = 2
      <4>1. \A w \in Units : Scatters(places[w]) /\ Scatters(next[w]) /\ next[w].cube = places[w].cube
        BY <1>1, <2>1, <3>2 DEF Scatters
      <4> QED  BY <4>1 DEF Scattered
    <3> QED  BY <1>0, <1>3, <3>1, <3>2
  <2>3. \A c \in 0 .. Cells - 1 : places[c % Width].waits
    BY <1>1, <1>2
  <2> QED  BY <2>2, <2>3 DEF CellsRight
<1>4. CASE k = 3
  <2>1. \A w \in Units : next[w].stage = 1
    BY <1>0, <1>1, <1>4 DEF Opens
  <2>2. ~(1 > 1)
    OBVIOUS
  <2> QED  BY <1>0, <1>1, <1>2, <2>1, <2>2 DEF CellsRight
<1> QED  BY <1>0, <1>3, <1>4

(* The units of a cube walk the items of its partial sum.                  *)
LEMMA CubesWalkTheirItems ==
  ASSUME Launched, Merging, NEW cube \in 0 .. Cubes - 1, NEW places, Together(places, cube, 3)
  PROVE  Scattered(places) = {i \in Index : CubeOf(i) = cube}
<1> DEFINE n == Cubes * Width
<1>1. Cubes \in Nat \ {0} /\ Width \in Nat \ {0} /\ cube \in Nat /\ n \in Nat \ {0}
  <2>1. Cubes \in Nat \ {0} /\ Width \in Nat \ {0} /\ cube \in Nat
    BY MergingSteps, GridIsSound
  <2>2. n \in Nat
    BY <2>1
  <2>3. Cubes * Width # 0
    BY <2>1
  <2> QED  BY <2>1, <2>2, <2>3
<1>2. Scattered(places) = UNION {GridItems(cube, v) : v \in Units}
  BY DEF Scattered, Scatters, Together
<1>3. ASSUME NEW i \in Index PROVE CubeOf(i) = cube <=> \E v \in Units : i % n = Abs(cube, v)
  <2> DEFINE x == i % n
  <2>1. x \in Int
    <3>1. i \in Int
      BY DEF Index
    <3> HIDE DEF n
    <3> QED  BY <1>1, <3>1, DivisionHolds
  <2>2. CubeOf(i) = x \div Width
    BY DEF CubeOf
  <2> HIDE DEF x, n
  <2>3. ASSUME x \div Width = cube PROVE \E v \in Units : x = Abs(cube, v)
    <3>1. x = Width * cube + (x % Width) /\ x % Width \in Units
      BY <1>1, <2>1, <2>3, DivisionHolds DEF Units
    <3>2. Abs(cube, x % Width) = x
      <4>1. Width * cube = cube * Width /\ Width * cube \in Int
        BY <1>1
      <4> QED  BY <3>1, <4>1 DEF Abs
    <3> QED  BY <3>1, <3>2
  <2>4. ASSUME NEW v \in Units, x = Abs(cube, v) PROVE x \div Width = cube
    <3>1. v \in 0 .. Width - 1
      BY DEF Units
    <3>2. (Width * cube + v) \div Width = cube
      BY <1>1, <3>1, Remainder
    <3>3. Width * cube = cube * Width
      BY <1>1
    <3> QED  BY <2>4, <3>2, <3>3 DEF Abs
  <2> QED  BY <2>2, <2>3, <2>4 DEF x
<1>4. \A v \in Units : GridItems(cube, v) = {i \in Index : i % n = Abs(cube, v)}
  BY DEF GridItems, Index
<1> HIDE DEF n
<1> QED  BY <1>2, <1>3, <1>4

(* Sums of bits are sums of grid steps, modulo the range.                  *)
LEMMA EncodedSums ==
  ASSUME Launched, launch.kernel \notin Searches, NEW S \in SUBSET Index
  PROVE  /\ SumFunctionOnSet(Encoded, S) \in Int /\ SumFunctionOnSet(Rounded, S) \in Int
         /\ SumFunctionOnSet(Encoded, S) % FixedRange = SumFunctionOnSet(Rounded, S) % FixedRange
<1> DEFINE enc(T) == SumFunctionOnSet(Encoded, T)
           rnd(T) == SumFunctionOnSet(Rounded, T)
           P == {T \in SUBSET S : enc(T) % FixedRange = rnd(T) % FixedRange}
<1>0. FixedRange \in Nat \ {0}
  BY FixedAssumption
<1>1. IsFiniteSet(S) /\ \A i \in S : Encoded[i] \in Int /\ Rounded[i] \in Int /\ Encoded[i] = Rounded[i] % FixedRange
  BY LaunchIsShaped, ItemsAreEncoded, FS_Subset
<1>2. \A T \in SUBSET S : IsFiniteSet(T) /\ enc(T) \in Int /\ rnd(T) \in Int
  <2> SUFFICES ASSUME NEW T \in SUBSET S PROVE IsFiniteSet(T) /\ enc(T) \in Int /\ rnd(T) \in Int
    OBVIOUS
  <2>1. IsFiniteSet(T)
    BY <1>1, FS_Subset
  <2>2. \A i \in T : Encoded[i] \in Int /\ Rounded[i] \in Int
    BY <1>1
  <2> QED  BY <2>1, <2>2, SumLaws
<1>3. {} \in P
  <2>1. enc({}) = 0 /\ rnd({}) = 0
    BY FS_EmptySet, SumOfZeros
  <2> QED  BY <2>1
<1>4. ASSUME NEW T \in SUBSET S, NEW x \in S, T \in P, x \notin T PROVE T \union {x} \in P
  <2> DEFINE R == FixedRange
             e == Encoded[x]
             r == Rounded[x]
             a == enc(T)
             b == rnd(T)
  <2>1. a \in Int /\ b \in Int /\ e \in Int /\ r \in Int /\ e = r % R /\ a % R = b % R
    BY <1>1, <1>2, <1>4
  <2>2. enc(T \union {x}) = a + e /\ rnd(T \union {x}) = b + r
    <3>1. IsFiniteSet(T) /\ IsFiniteSet({x}) /\ T \intersect {x} = {}
      BY <1>2, <1>4, FS_Singleton
    <3>2. \A i \in T \union {x} : Encoded[i] \in Int /\ Rounded[i] \in Int
      BY <1>1
    <3>3. enc(T \union {x}) = enc(T) + enc({x}) /\ rnd(T \union {x}) = rnd(T) + rnd({x})
      BY <3>1, <3>2, SumOfUnion
    <3>4. enc({x}) = e /\ rnd({x}) = r
      BY <3>2, SumOfOne
    <3> QED  BY <3>3, <3>4
  <2> HIDE DEF e, r, a, b, R
  <2>3. R \in Nat \ {0}
    BY <1>0 DEF R
  <2>4. (a + e) % R = (a + r) % R
    BY <2>1, <2>3, ModAdds
  <2>5. (r + (a % R)) % R = (r + a) % R
    BY <2>1, <2>3, ModAdds
  <2>6. (r + (b % R)) % R = (r + b) % R
    BY <2>1, <2>3, ModAdds
  <2>7. (a + r) % R = (b + r) % R
    <3>1. a + r = r + a /\ b + r = r + b
      BY <2>1
    <3> QED  BY <2>1, <2>5, <2>6, <3>1
  <2> QED  BY <2>2, <2>4, <2>7 DEF R
<1>5. S \in P
  <2> HIDE DEF P, enc, rnd
  <2> QED  BY <1>1, <1>3, <1>4, SubsetInduction
<1> QED  BY <1>2, <1>5

(* A number in the range is decoded from its bits.                         *)
LEMMA DecodingInverts ==
  ASSUME NEW x \in Int, -FixedRange <= 2 * x, 2 * x < FixedRange
  PROVE  fixedpoint_decode(x % FixedRange) = x
<1> DEFINE R == FixedRange
<1>1. R \in Nat \ {0}
  BY FixedAssumption
<1>2. CASE x >= 0
  <2>1. x \in 0 .. R - 1 /\ 0 \in Int
    BY <1>1, <1>2
  <2> HIDE DEF R
  <2>2. (R * 0 + x) % R = x
    BY <1>1, <2>1, Remainder
  <2>3. R * 0 + x = x
    BY <1>1
  <2>4. x % R = x
    BY <2>2, <2>3
  <2>5. fixedpoint_decode(x) = x
    BY <1>1 DEF fixedpoint_decode, R
  <2> QED  BY <2>4, <2>5 DEF R
<1>3. CASE x < 0
  <2>1. x + R \in 0 .. R - 1 /\ -1 \in Int
    BY <1>1, <1>3
  <2> HIDE DEF R
  <2>2. (R * (-1) + (x + R)) % R = x + R
    BY <1>1, <2>1, Remainder
  <2>3. R * (-1) + (x + R) = x
    BY <1>1
  <2>4. x % R = x + R
    BY <2>2, <2>3
  <2>5. fixedpoint_decode(x + R) = x
    BY <1>1, <1>3 DEF fixedpoint_decode, R
  <2> QED  BY <2>4, <2>5 DEF R
<1> QED  BY <1>2, <1>3

(* What a cube merges into a global cell.                                  *)
LEMMA CellsAreSerial ==
  ASSUME Launched, Merging, NEW cube \in 0 .. Cubes - 1, NEW places, Together(places, cube, 3),
         NEW slots, CellsRight(places, slots), NEW c \in 0 .. Cells - 1
  PROVE  fixedpoint_decode(slots[c]) = SumFunctionOnSet(Rounded, {i \in Index : CubeOf(i) = cube /\ launch.part[i] = c})
<1> DEFINE S == {i \in Index : CubeOf(i) = cube /\ launch.part[i] = c}
           x == SumFunctionOnSet(Rounded, S)
<1>1. 0 \in Units /\ Width \in 1 .. CubeDim /\ launch.kernel \notin Searches /\ Cubes = launch.cubes /\ Cells = launch.cells
  <2>1. Width \in Nat \ {0} /\ Width <= CubeDim
    BY GridIsSound
  <2> QED  BY <2>1, CubeDimAssumption, MergingSteps DEF Units
<1>2. slots[c] = SumFunctionOnSet(Encoded, S) % FixedRange
  <2>1. places[0].stage > 1
    BY <1>1 DEF Together
  <2>2. {i \in Scattered(places) : launch.part[i] = c} = S
    BY CubesWalkTheirItems
  <2> QED  BY <2>1, <2>2 DEF CellsRight
<1>3. S \in SUBSET Index
  OBVIOUS
<1>4. -FixedRange <= 2 * x /\ 2 * x < FixedRange
  <2>1. InRange(launch) /\ DOMAIN launch.in = Index
    BY LaunchIsShaped
  <2>2. S = {i \in DOMAIN launch.in : /\ (i % (launch.cubes * Width)) \div Width = cube
                                      /\ launch.part[i] = c}
    BY <1>1, <2>1 DEF CubeOf
  <2>3. cube \in 0 .. launch.cubes - 1 /\ c \in 0 .. launch.cells - 1
    BY <1>1
  <2> HIDE DEF S
  <2> QED  BY <1>1, <2>1, <2>2, <2>3 DEF InRange, Rounded
<1> HIDE DEF S
<1>5. x \in Int /\ SumFunctionOnSet(Encoded, S) % FixedRange = x % FixedRange
  BY <1>1, <1>3, EncodedSums
<1> HIDE DEF x
<1> QED  BY <1>2, <1>4, <1>5, DecodingInverts DEF x, S

-----------------------------------------------------------------------------
(* What the steps of a launch do to its state. *)

(* A slice over which a cube runs is the one of that cube.                 *)
LEMMA RunningCubes ==
  ASSUME Lockstep, Placed, NEW m \in Slices, NEW u \in Units, Running(m, u)
  PROVE  /\ at[m][u].cube \in 0 .. Cubes - 1 /\ SliceOf(at[m][u].cube) = m
         /\ Together(at[m], at[m][u].cube, at[m][u].stage) /\ at[m][u].stage \in 1 .. Len(Program)
         /\ SharedSlots(mem[m])
<1>1. Cubes \in Nat
  BY CubesCount DEF Lockstep
<1>2. Sited(m, at[m][u]) /\ at[m][u].cube < Cubes
  BY DEF Placed, Running
<1>3. CASE has_planes(device)
  <2>1. m \in 0 .. Cubes - 1
    BY <1>3 DEF Slices
  <2>2. at[m][u].cube = m
    BY <1>1, <1>2, <1>3 DEF Sited
  <2> QED  BY <1>3, <2>1, <2>2 DEF SliceOf, Lockstep, InStep, Together, Placed, SharedSlots, Shared
<1>4. CASE ~has_planes(device)
  <2>1. m = 0
    BY <1>4 DEF Slices
  <2>2. at[m][u].cube \in 0 .. Cubes - 1
    <3>1. at[m][u].cube \in (IF has_planes(device) THEN {m, Cubes} ELSE 0 .. Cubes)
      BY <1>2, Zenon DEF Sited
    <3>2. at[m][u].cube \in 0 .. Cubes
      BY <1>4, <3>1, Zenon
    <3> QED  BY <1>1, <1>2, <3>2
  <2> QED  BY <1>4, <2>1, <2>2 DEF SliceOf, Lockstep, InStep, Together, Placed, SharedSlots, Shared
<1> QED  BY <1>3, <1>4

(* A unit runs its segment.                                                *)
Ran(m, u) ==
  LET p == at[m][u]
      seg == Program[p.stage]
  IN /\ UNCHANGED <<device, launch>>
     /\ Running(m, u) /\ ~p.waits
     /\ \A n \in Slices : n # m => at'[n] = at[n] /\ mem'[n] = mem[n]
     /\ Moves(at[m], at'[m], u, NewReg(u, seg, p.reg, mem[m]))
     /\ mem'[m] = NewSlots(p.cube, u, seg, p.reg, mem[m])
     /\ mem' = [n \in Slices |-> mem'[n]]
     /\ out' = NewOut(p.cube, u, seg, p.reg, mem[m])
     /\ totals' = NewTotals(p.cube, u, seg, p.reg, mem[m])

(* A step is one unit's segment.                                           *)
LEMMA UnitsRun ==
  ASSUME Lockstep, Placed, NEW m \in Slices, NEW u \in Units, Step(m, u)
  PROVE  Ran(m, u)
<1> DEFINE p == at[m][u]
           seg == Program[p.stage]
           r == NewReg(u, seg, p.reg, mem[m])
           done == [p EXCEPT !.reg = r]
           moved == [done EXCEPT !.waits = TRUE]
           new == NewSlots(p.cube, u, seg, p.reg, mem[m])
<1>1. /\ UNCHANGED <<device, launch>> /\ Running(m, u) /\ ~p.waits
      /\ at' = [at EXCEPT ![m][u] = moved] /\ mem' = [mem EXCEPT ![m] = new]
      /\ out' = NewOut(p.cube, u, seg, p.reg, mem[m]) /\ totals' = NewTotals(p.cube, u, seg, p.reg, mem[m])
  BY DEF Step, Synced, Ready, Segment
<1>2. p = [cube |-> p.cube, stage |-> p.stage, waits |-> p.waits, reg |-> p.reg]
  BY DEF Lockstep, InStep
<1>3. moved.cube = p.cube /\ moved.stage = p.stage /\ moved.waits /\ moved.reg = r
  <2>1. moved = [[p EXCEPT !.reg = r] EXCEPT !.waits = TRUE]
    OBVIOUS
  <2> HIDE DEF p, moved, done, r
  <2>2. moved = [cube |-> p.cube, stage |-> p.stage, waits |-> TRUE, reg |-> r]
    BY <1>2, <2>1
  <2> QED  BY <2>2
<1>4. at = [n \in Slices |-> [v \in Units |-> at[n][v]]] /\ mem = [n \in Slices |-> mem[n]]
  BY DEF Lockstep, InStep, Placed
<1> HIDE DEF moved, new, r
<1>5. at' = [n \in Slices |-> [v \in Units |-> IF n = m /\ v = u THEN moved ELSE at[n][v]]]
  BY <1>1, <1>4
<1>6. mem' = [n \in Slices |-> IF n = m THEN new ELSE mem[n]]
  BY <1>1, <1>4
<1>7. \A n \in Slices : n # m => at'[n] = at[n]
  BY <1>4, <1>5
<1>8. Moves(at[m], at'[m], u, r)
  BY <1>1, <1>3, <1>5 DEF Moves
<1>9. \A n \in Slices : n # m => mem'[n] = mem[n]
  BY <1>6
<1>10. mem'[m] = new /\ mem' = [n \in Slices |-> mem'[n]]
  BY <1>6
<1> QED  BY <1>1, <1>7, <1>8, <1>9, <1>10 DEF Ran, r, new

(* The barrier opens.                                                      *)
Opened(m) ==
  /\ UNCHANGED <<device, launch, mem, out, totals>>
  /\ \A n \in Slices : n # m => at'[n] = at[n]
  /\ Opens(at[m], at'[m])
  /\ \A w \in Units : at[m][w].stage = Len(Program) =>
       at'[m][w].cube = IF has_planes(device) THEN Cubes ELSE at[m][w].cube + 1

(* A barrier is passed by all units of a running cube together.            *)
LEMMA BarriersOpen ==
  ASSUME Lockstep, Placed, NEW m \in Slices, sync_cube(m)
  PROVE  Opened(m) /\ \A w \in Units : Running(m, w)
<1>1. /\ UNCHANGED <<device, launch, mem, out, totals>> /\ \A w \in Units : at[m][w].waits
      /\ at' = [at EXCEPT ![m] = [u \in Units |-> Past(at[m][u])]]
  BY DEF sync_cube
<1>2. at = [n \in Slices |-> [v \in Units |-> at[n][v]]]
  BY DEF Lockstep, InStep
<1>3. Len(Program) \in Nat \ {0}
  BY ProgramType DEF Lockstep
<1> DEFINE past == [u \in Units |-> Past(at[m][u])]
<1>4. \A u \in Units : past[u] = Past(at[m][u])
  OBVIOUS
<1>5. at' = [at EXCEPT ![m] = past]
  BY <1>1
<1> HIDE DEF past
<1>6. at' = [n \in Slices |-> IF n = m THEN past ELSE at[n]]
  BY <1>2, <1>5
<1>7. \A n \in Slices : n # m => at'[n] = at[n]
  BY <1>6
<1>8. \A w \in Units : at'[m][w] = Past(at[m][w])
  BY <1>4, <1>6
<1>9. ASSUME NEW w \in Units
      PROVE  /\ ~at'[m][w].waits
             /\ IF at[m][w].stage < Len(Program)
                THEN at'[m][w].cube = at[m][w].cube /\ at'[m][w].stage = at[m][w].stage + 1 /\ at'[m][w].reg = at[m][w].reg
                ELSE at'[m][w].stage = 1 /\ at'[m][w].cube = IF has_planes(device) THEN Cubes ELSE at[m][w].cube + 1
  <2> DEFINE p == at[m][w]
  <2>1. p = [cube |-> p.cube, stage |-> p.stage, waits |-> p.waits, reg |-> p.reg] /\ p.stage \in 1 .. Len(Program)
    BY DEF Lockstep, InStep
  <2>2. at'[m][w] = Past(p)
    BY <1>8
  <2> HIDE DEF p
  <2>3. CASE p.stage < Len(Program)
    <3>1. Past(p) = [cube |-> p.cube, stage |-> p.stage + 1, waits |-> FALSE, reg |-> p.reg]
      BY <2>1, <2>3 DEF Past
    <3> QED  BY <2>2, <2>3, <3>1 DEF p
  <2>4. CASE ~(p.stage < Len(Program))
    <3>1. Past(p) = [cube |-> IF has_planes(device) THEN Cubes ELSE p.cube + 1,
                     stage |-> 1, waits |-> FALSE, reg |-> 0]
      BY <2>1, <2>4 DEF Past
    <3>2. /\ Past(p).stage = 1 /\ Past(p).waits = FALSE
          /\ Past(p).cube = IF has_planes(device) THEN Cubes ELSE p.cube + 1
      BY <3>1
    <3> QED  BY <2>2, <2>4, <3>2 DEF p
  <2> QED  BY <2>3, <2>4
<1>10. Opens(at[m], at'[m])
  BY <1>1, <1>9 DEF Opens
<1>11. \A w \in Units : at[m][w].stage = Len(Program) =>
         at'[m][w].cube = IF has_planes(device) THEN Cubes ELSE at[m][w].cube + 1
  BY <1>3, <1>9
<1>12. \A w \in Units : Running(m, w)
  <2> SUFFICES ASSUME NEW w \in Units PROVE at[m][w].cube < Cubes
    BY DEF Running
  <2>1. Sited(m, at[m][w]) /\ at[m][w].waits
    BY <1>1 DEF Placed
  <2>2. Cubes \in Nat
    BY CubesCount DEF Lockstep
  <2>3. at[m][w].cube # Cubes
    BY <2>1 DEF Sited
  <2>4. CASE has_planes(device)
    BY <2>1, <2>2, <2>3, <2>4 DEF Sited, Slices
  <2>5. CASE ~has_planes(device)
    BY <2>1, <2>2, <2>3, <2>5 DEF Sited
  <2> QED  BY <2>4, <2>5
<1> QED  BY <1>1, <1>7, <1>10, <1>11, <1>12 DEF Opened

(* What depends on the launch and its device alone never changes.          *)
LEMMA GeometryStays ==
  ASSUME UNCHANGED <<device, launch>>
  PROVE  /\ Items' = Items /\ Index' = Index /\ Cubes' = Cubes /\ Width' = Width /\ Units' = Units /\ Slices' = Slices
         /\ Program' = Program /\ Plane' = Plane /\ Planes' = Planes /\ UsesPlanes' = UsesPlanes /\ Cells' = Cells
         /\ OutKeys' = OutKeys /\ TotalKeys' = TotalKeys /\ Merging' = Merging /\ SegmentedScan' = SegmentedScan
         /\ \A u : PlaneOf(u)' = PlaneOf(u)
         /\ \A c, u : Abs(c, u)' = Abs(c, u)
         /\ \A c : SliceOf(c)' = SliceOf(c)
<1>1. Items' = Items /\ Plane' = Plane /\ \A u : PlaneOf(u)' = PlaneOf(u)
  BY DEF Items, Plane, PlaneOf
<1>2. Cubes' = Cubes /\ Width' = Width /\ Units' = Units /\ Slices' = Slices /\ Program' = Program
  BY GridStays
<1>3. Planes' = Planes /\ UsesPlanes' = UsesPlanes
  BY <1>1, <1>2 DEF Planes, UsesPlanes
<1>4. Index' = Index /\ Cells' = Cells /\ Merging' = Merging /\ SegmentedScan' = SegmentedScan
  BY <1>1 DEF Index, Cells, Merging, SegmentedScan
<1>5. OutKeys' = OutKeys /\ TotalKeys' = TotalKeys
  BY <1>2 DEF OutKeys, TotalKeys
<1>6. \A c, u : Abs(c, u)' = Abs(c, u)
  BY <1>2 DEF Abs
<1>7. \A c : SliceOf(c)' = SliceOf(c)
  BY DEF SliceOf
<1> QED  BY <1>1, <1>2, <1>3, <1>4, <1>5, <1>6, <1>7

(* Nor does what a unit loads.                                             *)
LEMMA LoadsStay ==
  ASSUME UNCHANGED <<device, launch>>
  PROVE  /\ \A S : SumOver(S)' = SumOver(S)
         /\ \A C : BestOf(C)' = BestOf(C)
         /\ \A c, u : GridItems(c, u)' = GridItems(c, u)
         /\ \A c, u : Covers(c, u)' = Covers(c, u)
         /\ \A c, V : Covered(c, V)' = Covered(c, V)
         /\ \A c, u : Loaded(c, u)' = Loaded(c, u)
         /\ \A C : Folding(C)' = Folding(C)
         /\ Encoded' = Encoded /\ Rounded' = Rounded
<1>0. /\ Items' = Items /\ Cubes' = Cubes /\ Width' = Width /\ Units' = Units /\ UsesPlanes' = UsesPlanes
      /\ \A u : PlaneOf(u)' = PlaneOf(u)
      /\ \A c, u : Abs(c, u)' = Abs(c, u)
  BY GeometryStays
<1>1. \A S : SumOver(S)' = SumOver(S)
  BY DEF SumOver
<1>2. \A C : BestOf(C)' = BestOf(C)
  BY <1>0 DEF BestOf, Unseen
<1>3. \A c, u : GridItems(c, u)' = GridItems(c, u) /\ SegmentItems(c, u)' = SegmentItems(c, u)
  BY <1>0 DEF GridItems, SegmentItems
<1>4. \A c, u : BinCell(c, u)' = BinCell(c, u)
  BY DEF BinCell
<1>5. \A c, u : Element(c, u)' = Element(c, u)
  BY <1>0, <1>4 DEF Element
<1>6. \A c : Elements(c)' = Elements(c)
  BY <1>0, <1>5 DEF Elements
<1>7. \A c, u : PlaneSum(c, u)' = PlaneSum(c, u) /\ PlaneInclusive(c, u)' = PlaneInclusive(c, u)
  BY <1>0, <1>6 DEF PlaneSum, PlaneInclusive
<1>8. \A c, u : Item(c, u)' = Item(c, u) /\ (Stands(c, u)' <=> Stands(c, u))
  BY <1>0, <1>4 DEF Item, Stands
<1>9. \A c, u : Covers(c, u)' = Covers(c, u)
  BY <1>3, <1>8 DEF Covers
<1>10. \A c, V : Covered(c, V)' = Covered(c, V)
  BY <1>9 DEF Covered
<1>11. \A c, u : Loaded(c, u)' = Loaded(c, u)
  BY <1>0, <1>2, <1>3, <1>5, <1>7 DEF Loaded
<1>12. \A C : Folding(C)' = Folding(C)
  BY <1>1, <1>2 DEF Folding
<1>13. Encoded' = Encoded /\ Rounded' = Rounded
  BY DEF Encoded, Rounded
<1> QED  BY <1>1, <1>2, <1>3, <1>9, <1>10, <1>11, <1>12, <1>13

(* Nor what a segment writes and leaves.                                   *)
LEMMA MeaningStays ==
  ASSUME UNCHANGED <<device, launch>>
  PROVE  /\ \A c, u, seg : Writes(c, u, seg)' = Writes(c, u, seg)
         /\ \A c, seg, s, x : Right(c, seg, s, x)' <=> Right(c, seg, s, x)
         /\ \A c, seg, u, x : RightReg(c, seg, u, x)' <=> RightReg(c, seg, u, x)
<1>0. /\ Units' = Units /\ UsesPlanes' = UsesPlanes /\ Plane' = Plane /\ Planes' = Planes /\ Cells' = Cells
      /\ Width' = Width /\ Merging' = Merging /\ SegmentedScan' = SegmentedScan /\ Items' = Items
      /\ \A u : PlaneOf(u)' = PlaneOf(u)
      /\ \A c, u : Abs(c, u)' = Abs(c, u)
  BY GeometryStays
<1>1. \A u : SlotOf(u)' = SlotOf(u) /\ (OwnsSlot(u)' <=> OwnsSlot(u)) /\ OwnCells(u)' = OwnCells(u)
  BY <1>0 DEF SlotOf, OwnsSlot, OwnCells
<1>2. \A u, s : Drives(u, s)' <=> Drives(u, s)
  BY <1>0 DEF Drives
<1>3. \A c, u, seg : Writes(c, u, seg)' = Writes(c, u, seg)
  BY <1>0, <1>1, <1>2 DEF Writes
<1>4. \A v : LaneOf(v)' = LaneOf(v)
  BY <1>0 DEF LaneOf
<1>5. \A p, w : Behind(p, w)' = Behind(p, w)
  BY <1>0, <1>4 DEF Behind
<1>6. \A c, u : Begins(c, u)' <=> Begins(c, u)
  BY <1>0 DEF Begins
<1>7. \A c, p, w : SinceHead(c, p, w)' = SinceHead(c, p, w)
  BY <1>5, <1>6 DEF SinceHead
<1>8. \A c, p, w : Window(c, p, w)' = Window(c, p, w)
  <2>1. (\A c, V : Covered(c, V)' = Covered(c, V)) /\ (\A S : SumOver(S)' = SumOver(S))
    BY LoadsStay
  <2> QED  BY <1>0, <1>5, <1>6, <1>7, <2>1 DEF Window
<1>9. \A p : Whole(p)' <=> Whole(p)
  BY <1>0 DEF Whole
<1>10. \A u, s : Class(u, s)' = Class(u, s)
  BY <1>0 DEF Class
<1>11. \A c, seg, s, x : Right(c, seg, s, x)' <=> Right(c, seg, s, x)
  <2>1. /\ \A c, u : Loaded(c, u)' = Loaded(c, u)
        /\ \A c, V : Covered(c, V)' = Covered(c, V)
        /\ \A C : Folding(C)' = Folding(C)
    BY LoadsStay
  <2> QED  BY <1>0, <1>1, <1>8, <1>9, <1>10, <2>1 DEF Right
<1>12. \A c, seg, u, x : RightReg(c, seg, u, x)' <=> RightReg(c, seg, u, x)
  <2>1. (\A c, V : Covered(c, V)' = Covered(c, V)) /\ (\A S : SumOver(S)' = SumOver(S))
    BY LoadsStay
  <2> QED  BY <1>0, <1>2, <1>8, <2>1 DEF RightReg
<1> QED  BY <1>3, <1>11, <1>12

(* Nor what shared memory has to hold.                                     *)
LEMMA SharedStays ==
  ASSUME UNCHANGED <<device, launch>>
  PROVE  \A places, slots : SharedIsRight(places, slots)' <=> SharedIsRight(places, slots)
<1>0. Units' = Units /\ Cells' = Cells /\ Program' = Program /\ Merging' = Merging /\ Width' = Width
  BY GeometryStays
<1>1. /\ \A c, u, seg : Writes(c, u, seg)' = Writes(c, u, seg)
      /\ \A c, seg, s, x : Right(c, seg, s, x)' <=> Right(c, seg, s, x)
      /\ \A c, seg, u, x : RightReg(c, seg, u, x)' <=> RightReg(c, seg, u, x)
  BY MeaningStays
<1>2. \A places, s : Written(places, s)' <=> Written(places, s)
  BY <1>0, <1>1 DEF Written
<1>3. \A places, slots : SlotsRight(places, slots)' <=> SlotsRight(places, slots)
  BY <1>0, <1>1, <1>2 DEF SlotsRight
<1>4. \A places : RegsRight(places)' <=> RegsRight(places)
  BY <1>0, <1>1 DEF RegsRight
<1>5. \A places : Scattered(places)' = Scattered(places)
  <2>1. \A c, u : GridItems(c, u)' = GridItems(c, u)
    BY LoadsStay
  <2> QED  BY <1>0, <2>1 DEF Scattered, Scatters
<1>6. \A places, slots : CellsRight(places, slots)' <=> CellsRight(places, slots)
  <2>1. Encoded' = Encoded
    BY LoadsStay
  <2> QED  BY <1>0, <1>5, <2>1 DEF CellsRight
<1> QED  BY <1>0, <1>3, <1>4, <1>6 DEF SharedIsRight

(* Nor the serial results.                                                 *)
LEMMA ResultsStay ==
  ASSUME UNCHANGED <<device, launch>>
  PROVE  /\ \A c, u : OutKeysOf(c, u)' = OutKeysOf(c, u) /\ TotalKeysOf(c, u)' = TotalKeysOf(c, u)
         /\ \A i : SerialOut(i)' = SerialOut(i)
         /\ \A c : SerialTotal(c)' = SerialTotal(c)
         /\ CubeRounded' = CubeRounded
         /\ \A i : CubeOf(i)' = CubeOf(i)
<1>0. /\ Units' = Units /\ Width' = Width /\ Cubes' = Cubes /\ Items' = Items
      /\ \A c, u : Abs(c, u)' = Abs(c, u)
  BY GeometryStays
<1>1. \A S : SumOver(S)' = SumOver(S)
  BY LoadsStay
<1>2. \A c : InCube(c)' = InCube(c) /\ InSegment(c)' = InSegment(c)
  BY <1>0 DEF InCube, InSegment
<1>3. CubeRounded' = CubeRounded /\ \A i : CubeOf(i)' = CubeOf(i)
  BY <1>0, <1>1, <1>2 DEF CubeRounded, CubeOf
<1>4. \A c, u : OutKeysOf(c, u)' = OutKeysOf(c, u) /\ TotalKeysOf(c, u)' = TotalKeysOf(c, u)
  <2>1. \A c, u : BinCell(c, u)' = BinCell(c, u)
    BY DEF BinCell
  <2>2. \A c, u : Item(c, u)' = Item(c, u) /\ (Stands(c, u)' <=> Stands(c, u)) /\ (LastValid(c, u)' <=> LastValid(c, u))
    BY <1>0, <2>1 DEF Item, Stands, LastValid
  <2> QED  BY <2>2 DEF OutKeysOf, TotalKeysOf
<1>5. \A i : SerialOut(i)' = SerialOut(i)
  <2>1. \A i : HeadOf(i)' = HeadOf(i)
    BY DEF HeadOf
  <2>2. \A i : Axis(i)' = Axis(i) /\ Bin(i)' = Bin(i)
    BY DEF Axis, Bin
  <2> QED  BY <1>0, <1>1, <1>2, <2>1, <2>2 DEF SerialOut
<1>6. \A c : SerialTotal(c)' = SerialTotal(c)
  <2>1. \A C : FirstBest(C)' = FirstBest(C)
    BY <1>0 DEF FirstBest, Unseen
  <2> QED  BY <1>0, <1>1, <1>2, <2>1 DEF SerialTotal
<1> QED  BY <1>3, <1>4, <1>5, <1>6

-----------------------------------------------------------------------------
(* What holds of every launch. *)

SlotsPlaced == mem = [m \in Slices |-> [s \in Shared |-> mem[m][s]]]

(* Before a cube has begun, its memory may hold anything.                  *)
LEMMA FreshIsRight ==
  ASSUME Launched, NEW places, \A w \in Units : places[w].stage = 1 /\ ~places[w].waits, NEW slots
  PROVE  SharedIsRight(places, slots)
<1>1. 0 \in Units /\ ~(1 > 1)
  BY GridIsSound DEF Units
<1>2. \A s : ~Written(places, s)
  BY DEF Written
<1>3. SlotsRight(places, slots) /\ RegsRight(places)
  BY <1>1, <1>2 DEF SlotsRight, RegsRight
<1>4. Merging => CellsRight(places, slots)
  <2> SUFFICES ASSUME Merging, NEW c \in 0 .. Cells - 1 PROVE ~(places[0].stage > 1 \/ places[c % Width].waits)
    BY DEF CellsRight
  <2>1. Cells \in Int
    BY MergingSteps
  <2>2. Width \in Nat \ {0} /\ c \in Int
    BY <2>1, GridIsSound
  <2>3. c % Width \in Units
    BY <2>2, DivisionHolds DEF Units
  <2> QED  BY <1>1, <2>3
<1> QED  BY <1>3, <1>4 DEF SharedIsRight

(* The units of a cube keep its memory right.                              *)
LEMMA StepsKeepShared ==
  ASSUME Lockstep, Placed, SharedRight, NEW m \in Slices, NEW u \in Units, Ran(m, u)
  PROVE  SharedRight' /\ SlotsPlaced'
<1> DEFINE p == at[m][u]
           c == p.cube
           k == p.stage
           new == NewSlots(c, u, Program[k], p.reg, mem[m])
<1>0. Launched /\ 0 \in Units
  BY GridIsSound DEF Lockstep, Units
<1>1. UNCHANGED <<device, launch>> /\ Running(m, u) /\ mem'[m] = new
  BY DEF Ran
<1>2. /\ c \in 0 .. Cubes - 1 /\ SliceOf(c) = m /\ Together(at[m], c, k) /\ k \in 1 .. Len(Program)
      /\ SharedSlots(mem[m])
  BY <1>1, RunningCubes
<1>3. SharedIsRight(at[m], mem[m])
  <2>1. at[m][0].cube = c /\ Cubes \in Nat
    BY <1>0, <1>2, CubesCount DEF Together
  <2>2. Running(m, 0)
    BY <1>2, <2>1 DEF Running
  <2> QED  BY <2>2 DEF SharedRight
<1>4. Moves(at[m], at'[m], u, NewReg(u, Program[k], p.reg, mem[m]))
  BY DEF Ran
<1>5. SharedIsRight(at'[m], mem'[m]) /\ SharedSlots(mem'[m])
  <2>1. CASE Merging
    <3>1. CellsRight(at[m], mem[m])
      BY <1>3, <2>1 DEF SharedIsRight
    <3>2. CellsRight(at'[m], mem'[m]) /\ SharedSlots(mem'[m])
      <4> DEFINE places == at[m]
                 next == at'[m]
                 slots == mem[m]
                 now == mem'[m]
                 reg == NewReg(u, Program[k], p.reg, mem[m])
      <4>1. /\ Together(places, c, k) /\ SharedSlots(slots) /\ CellsRight(places, slots)
            /\ Moves(places, next, u, reg) /\ now = NewSlots(c, u, Program[k], places[u].reg, slots)
        BY <1>1, <1>2, <1>4, <3>1
      <4> HIDE DEF c, k, places, next, slots, now, reg
      <4>2. CellsRight(next, now) /\ SharedSlots(now)
        BY <1>0, <1>2, <2>1, <4>1, UnitsKeepCells
      <4> QED  BY <4>2 DEF next, now
    <3> QED  BY <2>1, <3>2 DEF SharedIsRight
  <2>2. CASE ~Merging
    <3>1. SlotsRight(at[m], mem[m]) /\ RegsRight(at[m])
      BY <1>3, <2>2 DEF SharedIsRight
    <3> DEFINE places == at[m]
               next == at'[m]
               slots == mem[m]
               now == mem'[m]
    <3>2. /\ Together(places, c, k) /\ SharedSlots(slots) /\ SlotsRight(places, slots) /\ RegsRight(places)
          /\ Moves(places, next, u, NewReg(u, Program[k], places[u].reg, slots))
          /\ now = NewSlots(c, u, Program[k], places[u].reg, slots)
      BY <1>1, <1>2, <1>4, <3>1
    <3> HIDE DEF c, k, places, next, slots, now
    <3>3. SlotsRight(next, now) /\ RegsRight(next)
      BY <1>0, <1>2, <2>2, <3>2, UnitsKeepShared
    <3>4. SharedSlots(now)
      <4>1. Program[k].op # "scatter"
        BY <1>0, <1>2, <2>2, StagesAreOrdered
      <4> DEFINE reg == places[u].reg
                 seg == Program[k]
      <4> HIDE DEF reg, seg
      <4>2. ChangesOnly(Writes(c, u, seg), slots, NewSlots(c, u, seg, reg, slots))
        BY <1>0, <2>2, <3>2, <4>1, SlotsChange DEF seg
      <4> QED  BY <3>2, <4>2 DEF ChangesOnly, seg, reg
    <3> QED  BY <2>2, <3>3, <3>4 DEF SharedIsRight, next, now
  <2> QED  BY <2>1, <2>2
<1> HIDE DEF new
<1>6. \A n \in Slices : Running(n, 0)' => SharedIsRight(at'[n], mem'[n])
  <2> SUFFICES ASSUME NEW n \in Slices, Running(n, 0)' PROVE SharedIsRight(at'[n], mem'[n])
    OBVIOUS
  <2>1. CASE n = m
    BY <1>5, <2>1
  <2>2. CASE n # m
    <3>1. at'[n] = at[n] /\ mem'[n] = mem[n] /\ Cubes' = Cubes
      BY <1>1, <2>2, GeometryStays DEF Ran
    <3>2. Running(n, 0)
      BY <3>1 DEF Running
    <3> QED  BY <3>1, <3>2 DEF SharedRight
  <2> QED  BY <2>1, <2>2
<1>7. SharedRight'
  <2>1. Slices' = Slices /\ \A places, slots : SharedIsRight(places, slots)' <=> SharedIsRight(places, slots)
    BY <1>1, GeometryStays, SharedStays
  <2> QED  BY <1>6, <2>1 DEF SharedRight
<1>8. SlotsPlaced'
  <2>1. Slices' = Slices /\ mem' = [n \in Slices |-> mem'[n]]
    BY <1>1, GeometryStays DEF Ran
  <2>2. \A n \in Slices : mem'[n] = [s \in Shared |-> mem'[n][s]]
    <3> SUFFICES ASSUME NEW n \in Slices PROVE mem'[n] = [s \in Shared |-> mem'[n][s]]
      OBVIOUS
    <3>1. CASE n = m
      BY <1>5, <3>1 DEF SharedSlots
    <3>2. CASE n # m
      <4>1. mem'[n] = mem[n]
        BY <3>2 DEF Ran
      <4>2. mem[n] = [s \in Shared |-> mem[n][s]]
        BY DEF Placed, Shared
      <4> QED  BY <4>1, <4>2
    <3> QED  BY <3>1, <3>2
  <2> QED  BY <2>1, <2>2 DEF SlotsPlaced
<1> QED  BY <1>7, <1>8

(* So does the barrier.                                                    *)
LEMMA OpeningsKeepShared ==
  ASSUME Lockstep, Placed, SharedRight, NEW m \in Slices, Opened(m), \A w \in Units : Running(m, w)
  PROVE  SharedRight'
<1> DEFINE p == at[m][0]
           c == p.cube
           k == p.stage
<1>0. Launched /\ 0 \in Units
  BY GridIsSound DEF Lockstep, Units
<1>1. UNCHANGED <<device, launch, mem>> /\ Running(m, 0)
  BY <1>0 DEF Opened
<1>2. /\ c \in 0 .. Cubes - 1 /\ Together(at[m], c, k) /\ k \in 1 .. Len(Program)
  BY <1>0, <1>1, RunningCubes
<1>3. SharedIsRight(at[m], mem[m])
  BY <1>1 DEF SharedRight
<1>4. SharedIsRight(at'[m], mem[m])
  <2> DEFINE places == at[m]
             next == at'[m]
             slots == mem[m]
  <2>1. Together(places, c, k) /\ Opens(places, next) /\ SharedIsRight(places, slots)
    BY <1>2, <1>3 DEF Opened
  <2> HIDE DEF places, next, slots, c, k
  <2>2. CASE Merging
    <3>1. CellsRight(next, slots)
      BY <1>0, <1>2, <2>1, <2>2, BarriersKeepCells DEF SharedIsRight
    <3> QED  BY <2>2, <3>1 DEF SharedIsRight, next, slots
  <2>3. CASE ~Merging
    <3>1. SlotsRight(next, slots) /\ RegsRight(next)
      BY <1>0, <1>2, <2>1, <2>3, BarriersKeepShared DEF SharedIsRight
    <3> QED  BY <2>3, <3>1 DEF SharedIsRight, next, slots
  <2> QED  BY <2>2, <2>3
<1>5. \A n \in Slices : Running(n, 0)' => SharedIsRight(at'[n], mem'[n])
  <2> SUFFICES ASSUME NEW n \in Slices, Running(n, 0)' PROVE SharedIsRight(at'[n], mem'[n])
    OBVIOUS
  <2>1. CASE n = m
    BY <1>1, <1>4, <2>1
  <2>2. CASE n # m
    <3>1. at'[n] = at[n] /\ Cubes' = Cubes
      BY <1>1, <2>2, GeometryStays DEF Opened
    <3>2. Running(n, 0)
      BY <3>1 DEF Running
    <3> QED  BY <1>1, <3>1, <3>2 DEF SharedRight
  <2> QED  BY <2>1, <2>2
<1>6. Slices' = Slices /\ \A places, slots : SharedIsRight(places, slots)' <=> SharedIsRight(places, slots)
  BY <1>1, GeometryStays, SharedStays
<1> QED  BY <1>5, <1>6 DEF SharedRight

(* A cube runs over a slice.                                               *)
LEMMA CubesHaveSlices ==
  ASSUME Launched, NEW c \in 0 .. Cubes - 1
  PROVE  SliceOf(c) \in Slices
BY DEF SliceOf, Slices

(* A unit stores its results in the last segment of a cube, once.          *)
LEMMA UnitsStore ==
  ASSUME Lockstep, Placed, NEW m \in Slices, NEW u \in Units, Ran(m, u)
  PROVE  /\ ~Stored(at[m][u].cube, u)
         /\ \A c \in 0 .. Cubes - 1, v \in Units :
              Stored(c, v)' <=> \/ Stored(c, v)
                                \/ c = at[m][u].cube /\ v = u /\ Program[at[m][u].stage].op = "store"
<1> DEFINE p == at[m][u]
<1>0. Launched /\ UNCHANGED <<device, launch>> /\ Running(m, u) /\ ~p.waits
  BY DEF Lockstep, Ran
<1>1. /\ p.cube \in 0 .. Cubes - 1 /\ SliceOf(p.cube) = m /\ p.stage \in 1 .. Len(Program)
  BY <1>0, RunningCubes
<1>2. p.stage = Len(Program) <=> Program[p.stage].op = "store"
  BY <1>0, <1>1, StagesAreOrdered
<1>3. Program' = Program /\ \A c : SliceOf(c)' = SliceOf(c)
  BY <1>0, GeometryStays
<1>4. ~Stored(p.cube, u)
  BY <1>0, <1>1 DEF Stored
<1>5. ASSUME NEW c \in 0 .. Cubes - 1, NEW v \in Units
      PROVE  Stored(c, v)' <=> Stored(c, v) \/ (c = p.cube /\ v = u /\ Program[p.stage].op = "store")
  <2> DEFINE n == SliceOf(c)
  <2>0. n \in Slices
    BY <1>0, CubesHaveSlices
  <2>1. Stored(c, v)' <=> LET q == at'[n][v] IN q.cube > c \/ (q.cube = c /\ q.stage = Len(Program) /\ q.waits)
    BY <1>3 DEF Stored
  <2>2. CASE n = m /\ v = u
    <3>1. at'[n][v].cube = p.cube /\ at'[n][v].stage = p.stage /\ at'[n][v].waits
      BY <2>2 DEF Ran, Moves
    <3>2. Stored(c, v) <=> p.cube > c
      BY <1>0, <2>2 DEF Stored
    <3> QED  BY <1>2, <2>1, <2>2, <3>1, <3>2
  <2>3. CASE ~(n = m /\ v = u)
    <3>1. at'[n][v] = at[n][v]
      BY <2>0, <2>3 DEF Ran, Moves
    <3>2. ~(c = p.cube /\ v = u)
      BY <1>1, <2>3
    <3>3. Stored(c, v) <=> LET q == at[n][v] IN q.cube > c \/ (q.cube = c /\ q.stage = Len(Program) /\ q.waits)
      BY DEF Stored
    <3> QED  BY <2>1, <3>1, <3>2, <3>3
  <2> QED  BY <2>2, <2>3
<1> QED  BY <1>4, <1>5

(* No unit stores anything at a barrier.                                   *)
LEMMA BarriersStoreNothing ==
  ASSUME Lockstep, Placed, NEW m \in Slices, Opened(m), \A w \in Units : Running(m, w)
  PROVE  \A c \in 0 .. Cubes - 1, v \in Units : Stored(c, v)' <=> Stored(c, v)
<1>0. Launched /\ UNCHANGED <<device, launch>> /\ Len(Program) \in Nat /\ Len(Program) >= 2 /\ Cubes \in Nat
  BY ProgramsAreOrdered, CubesCount DEF Lockstep, Opened, Ordered
<1>1. Program' = Program /\ \A c : SliceOf(c)' = SliceOf(c)
  BY <1>0, GeometryStays
<1> SUFFICES ASSUME NEW c \in 0 .. Cubes - 1, NEW v \in Units PROVE Stored(c, v)' <=> Stored(c, v)
  OBVIOUS
<1> DEFINE n == SliceOf(c)
           q == at'[n][v]
           p == at[n][v]
<1>2. n \in Slices
  BY <1>0, CubesHaveSlices
<1>3. Stored(c, v)' <=> q.cube > c \/ (q.cube = c /\ q.stage = Len(Program) /\ q.waits)
  BY <1>1 DEF Stored
<1>4. Stored(c, v) <=> p.cube > c \/ (p.cube = c /\ p.stage = Len(Program) /\ p.waits)
  BY DEF Stored
<1>5. CASE n # m
  <2>1. q = p
    BY <1>2, <1>5 DEF Opened
  <2> QED  BY <1>3, <1>4, <2>1
<1>6. CASE n = m
  <2>1. /\ p.cube \in 0 .. Cubes - 1 /\ SliceOf(p.cube) = m /\ p.stage \in 1 .. Len(Program)
    BY <1>6, RunningCubes
  <2>2. p.waits /\ ~q.waits
    BY <1>6 DEF Opened, Opens
  <2>3. CASE p.stage < Len(Program)
    <3>1. q.cube = p.cube
      BY <1>6, <2>3 DEF Opened, Opens
    <3> QED  BY <1>0, <1>3, <1>4, <2>1, <2>2, <2>3, <3>1
  <2>4. CASE p.stage = Len(Program)
    <3>1. q.cube = IF has_planes(device) THEN Cubes ELSE p.cube + 1
      BY <1>6, <2>4 DEF Opened
    <3>2. CASE has_planes(device)
      <4>1. p.cube = c
        BY <1>6, <2>1, <3>2 DEF SliceOf
      <4> QED  BY <1>0, <1>3, <1>4, <2>1, <2>2, <2>4, <3>1, <3>2, <4>1
    <3>3. CASE ~has_planes(device)
      BY <1>0, <1>3, <1>4, <2>1, <2>2, <2>4, <3>1, <3>3
    <3> QED  BY <3>2, <3>3
  <2> QED  BY <1>0, <2>1, <2>3, <2>4
<1> QED  BY <1>5, <1>6

(* A unit that stores is prepared.                                         *)
LEMMA StoresArePrepared ==
  ASSUME Lockstep, Placed, SharedRight, NEW m \in Slices, NEW u \in Units, Ran(m, u),
         Program[at[m][u].stage].op = "store", ~Merging
  PROVE  \E prev \in Segs : Prepared(at[m][u].cube, prev, u, Program[at[m][u].stage], at[m][u].reg, mem[m])
<1> DEFINE p == at[m][u]
           c == p.cube
           k == p.stage
<1>0. Launched /\ 0 \in Units /\ Running(m, u) /\ ~p.waits
  BY GridIsSound DEF Lockstep, Units, Ran
<1>1. /\ c \in 0 .. Cubes - 1 /\ Together(at[m], c, k) /\ k \in 1 .. Len(Program)
      /\ SharedSlots(mem[m])
  BY <1>0, RunningCubes
<1>2. at[m][0].cube = c /\ Cubes \in Nat
  BY <1>0, <1>1, CubesCount DEF Together
<1>3. SharedIsRight(at[m], mem[m])
  BY <1>1, <1>2 DEF SharedRight, Running
<1>4. SlotsRight(at[m], mem[m]) /\ RegsRight(at[m])
  BY <1>3 DEF SharedIsRight
<1>5. k # 1 /\ k > 1
  <2>1. k # 1
    BY <1>0, <1>1, StagesAreOrdered
  <2> QED  BY <1>1, <2>1
<1>6. Program[k - 1] \in Segs
  BY <1>0, <1>1, <1>5, StagesAreOrdered
<1> DEFINE places == at[m]
           slots == mem[m]
<1>7. Together(places, c, k) /\ SharedSlots(slots) /\ SlotsRight(places, slots) /\ RegsRight(places) /\ ~places[u].waits
  BY <1>0, <1>1, <1>4
<1> HIDE DEF places, slots, c, k
<1>8. Prepared(c, Program[k - 1], u, Program[k], places[u].reg, slots)
  BY <1>0, <1>1, <1>5, <1>7, UnitsArePrepared
<1> QED  BY <1>6, <1>8 DEF places, slots, c, k

(* What a unit stores is serial, and what was stored stays.                *)
LEMMA StepsKeepOutputs ==
  ASSUME Lockstep, Placed, SharedRight, OutputsRight, NEW m \in Slices, NEW u \in Units, Ran(m, u)
  PROVE  /\ OutputsRight' /\ Outputs(out)'
         /\ launch.kernel \notin Accumulators => PerCube(totals)'
<1> DEFINE p == at[m][u]
           c == p.cube
           seg == Program[p.stage]
<1>0. Launched /\ UNCHANGED <<device, launch>> /\ Running(m, u)
  BY DEF Lockstep, Ran
<1>1. c \in 0 .. Cubes - 1
  BY <1>0, RunningCubes
<1>2. Outputs(out) /\ PerCube(totals)
  BY DEF Placed, Outputs, PerCube
<1>3. seg.op = "store" /\ ~Merging => \E prev \in Segs : Prepared(c, prev, u, seg, p.reg, mem[m])
  BY StoresArePrepared
<1>4. out' = NewOut(c, u, seg, p.reg, mem[m]) /\ totals' = NewTotals(c, u, seg, p.reg, mem[m])
  BY DEF Ran
<1>5. /\ Outputs(out')
      /\ \A i \in OutKeys : out'[i] = IF seg.op = "store" /\ i \in OutKeysOf(c, u) THEN SerialOut(i) ELSE out[i]
  <2> DEFINE o == out'
             reg == p.reg
             slots == mem[m]
  <2>1. o = NewOut(c, u, seg, reg, slots) /\ (seg.op = "store" /\ ~Merging => \E prev \in Segs : Prepared(c, prev, u, seg, reg, slots))
    BY <1>3, <1>4
  <2> HIDE DEF o, reg, slots, c, seg
  <2>2. /\ Outputs(o)
        /\ \A i \in OutKeys : o[i] = IF seg.op = "store" /\ i \in OutKeysOf(c, u) THEN SerialOut(i) ELSE out[i]
    BY <1>0, <1>1, <1>2, <2>1, OutputsAreSerial
  <2> QED  BY <2>2 DEF o
<1>6. launch.kernel \notin Accumulators =>
        /\ PerCube(totals')
        /\ \A k \in TotalKeys : totals'[k] = IF seg.op = "store" /\ k \in TotalKeysOf(c, u) THEN SerialTotal(k) ELSE totals[k]
  <2> SUFFICES ASSUME launch.kernel \notin Accumulators
               PROVE  /\ PerCube(totals')
                      /\ \A k \in TotalKeys :
                           totals'[k] = IF seg.op = "store" /\ k \in TotalKeysOf(c, u) THEN SerialTotal(k) ELSE totals[k]
    OBVIOUS
  <2> DEFINE t == totals'
             reg == p.reg
             slots == mem[m]
  <2>0. ~Merging
    BY DEF Merging, Accumulators
  <2>1. t = NewTotals(c, u, seg, reg, slots) /\ (seg.op = "store" => \E prev \in Segs : Prepared(c, prev, u, seg, reg, slots))
    BY <1>3, <1>4, <2>0
  <2> HIDE DEF t, reg, slots, c, seg
  <2>2. /\ PerCube(t)
        /\ \A k \in TotalKeys : t[k] = IF seg.op = "store" /\ k \in TotalKeysOf(c, u) THEN SerialTotal(k) ELSE totals[k]
    BY <1>0, <1>1, <1>2, <2>1, TotalsAreSerial
  <2> QED  BY <2>2 DEF t
<1>7. Outputs(out)' /\ (launch.kernel \notin Accumulators => PerCube(totals)')
  <2>1. OutKeys' = OutKeys /\ TotalKeys' = TotalKeys
    BY <1>0, GeometryStays
  <2> QED  BY <1>5, <1>6, <2>1 DEF Outputs, PerCube
<1>8. OutputsRight'
  <2>1. Cubes' = Cubes /\ Units' = Units
    BY <1>0, GeometryStays
  <2>2. /\ \A d, v : OutKeysOf(d, v)' = OutKeysOf(d, v) /\ TotalKeysOf(d, v)' = TotalKeysOf(d, v)
        /\ \A i : SerialOut(i)' = SerialOut(i)
        /\ \A i : SerialTotal(i)' = SerialTotal(i)
    BY <1>0, ResultsStay
  <2>3. ASSUME NEW d \in 0 .. Cubes - 1, NEW v \in Units, Stored(d, v)'
        PROVE  /\ \A i \in OutKeysOf(d, v) : out'[i] = SerialOut(i)
               /\ \A k \in TotalKeysOf(d, v) : totals'[k] = SerialTotal(k)
    <3>1. Stored(d, v) \/ (d = c /\ v = u /\ seg.op = "store")
      BY <2>3, UnitsStore
    <3>2. OutKeysOf(d, v) \subseteq OutKeys /\ (launch.kernel \notin Accumulators => TotalKeysOf(d, v) \subseteq TotalKeys)
      BY <1>0, KeysAreStored
    <3>3. launch.kernel \in Accumulators => TotalKeysOf(d, v) = {}
      BY DEF TotalKeysOf, Accumulators, SegmentFolds, Searches
    <3>4. CASE Stored(d, v)
      BY <1>5, <1>6, <3>2, <3>3, <3>4 DEF OutputsRight
    <3>5. CASE d = c /\ v = u /\ seg.op = "store"
      BY <1>5, <1>6, <3>2, <3>3, <3>5
    <3> QED  BY <3>1, <3>4, <3>5
  <2> QED  BY <2>1, <2>2, <2>3 DEF OutputsRight
<1> QED  BY <1>7, <1>8

(* What was stored stays at a barrier.                                     *)
LEMMA OpeningsKeepOutputs ==
  ASSUME Lockstep, Placed, OutputsRight, NEW m \in Slices, Opened(m), \A w \in Units : Running(m, w)
  PROVE  OutputsRight'
<1>0. Launched /\ UNCHANGED <<device, launch, out, totals>>
  BY DEF Lockstep, Opened
<1>1. Cubes' = Cubes /\ Units' = Units
  BY <1>0, GeometryStays
<1>2. /\ \A d, v : OutKeysOf(d, v)' = OutKeysOf(d, v) /\ TotalKeysOf(d, v)' = TotalKeysOf(d, v)
      /\ \A i : SerialOut(i)' = SerialOut(i)
      /\ \A i : SerialTotal(i)' = SerialTotal(i)
  BY <1>0, ResultsStay
<1>3. \A c \in 0 .. Cubes - 1, v \in Units : Stored(c, v)' <=> Stored(c, v)
  BY BarriersStoreNothing
<1> QED  BY <1>0, <1>1, <1>2, <1>3 DEF OutputsRight

(* Every item is in a cube of a grid that is as wide as its items need.    *)
LEMMA ItemsHaveCubes ==
  ASSUME Launched, launch.kernel \notin SegmentFolds \union BinScans \union SingleCube
                     \union {"select_best_split", "partition_update_lds"},
         NEW i \in Index
  PROVE  i \div Width \in 0 .. Cubes - 1
<1>1. Width \in Nat \ {0} /\ Items \in Nat /\ Cubes \in Nat
  BY GridIsSound, CubesCount
<1>2. Cubes = (Items + Width - 1) \div Width
  BY DEF Cubes, CeilDiv
<1>3. Items <= Cubes * Width
  <2> DEFINE x == Items + Width - 1
             k == x % Width
  <2>1. x \in Int /\ Cubes = x \div Width
    BY <1>1, <1>2
  <2>2. x = Width * Cubes + k /\ k \in 0 .. Width - 1
    <3> HIDE DEF x
    <3> QED  BY <1>1, <2>1, DivisionHolds
  <2>3. Items + Width - 1 = Width * Cubes + k
    BY <2>2
  <2> HIDE DEF x, k
  <2>4. Width * Cubes \in Nat /\ Cubes * Width = Width * Cubes
    BY <1>1
  <2> QED  BY <1>1, <2>2, <2>3, <2>4
<1>4. i \in 0 .. Cubes * Width - 1
  <2> DEFINE n == Cubes * Width
  <2>1. n \in Nat /\ Items <= n
    BY <1>1, <1>3
  <2> HIDE DEF n
  <2>2. i \in 0 .. n - 1
    BY <1>1, <2>1 DEF Index
  <2> QED  BY <2>2 DEF n
<1> QED  BY <1>1, <1>4, QuotientBound

(* Every item is in the partial sum of a cube.                             *)
LEMMA ItemsArePartial ==
  ASSUME Launched, Merging, NEW i \in Index
  PROVE  CubeOf(i) \in 0 .. Cubes - 1
<1> DEFINE n == Cubes * Width
           x == i % n
<1>1. Cubes \in Nat \ {0} /\ Width \in Nat \ {0}
  BY MergingSteps, GridIsSound
<1>2. n \in Nat \ {0}
  <2>1. Cubes * Width \in Nat /\ Cubes * Width # 0
    BY <1>1
  <2> QED  BY <2>1
<1>3. x \in 0 .. n - 1
  <2>1. i \in Int
    BY DEF Index
  <2> HIDE DEF n
  <2> QED  BY <1>2, <2>1, DivisionHolds
<1>4. CubeOf(i) = x \div Width
  BY DEF CubeOf
<1> HIDE DEF x
<1> QED  BY <1>1, <1>3, <1>4, QuotientBound

(* The sum of the cubes that have been stored.                             *)
LEMMA SumsAreAtomic ==
  ASSUME Launched, launch.kernel = "block_reduce_atomic", NEW stored \in SUBSET (0 .. Cubes - 1),
         NEW cube \in 0 .. Cubes - 1, cube \notin stored
  PROVE  SumOver(InStored(stored)) + SumOver(InCube(cube)) = SumOver(InStored(stored \union {cube}))
<1> DEFINE A == InStored(stored)
           B == InCube(cube)
<1>1. DOMAIN launch.in = Index /\ IsFiniteSet(Index) /\ \A i \in Index : launch.in[i] \in Int
  <2>1. launch.kernel \notin Searches
    BY DEF Searches
  <2> QED  BY <2>1, LaunchIsShaped
<1>2. InStored(stored \union {cube}) = A \union B /\ A \intersect B = {} /\ A \subseteq Index /\ B \subseteq Index
  BY <1>1 DEF InStored, InCube
<1> HIDE DEF A, B
<1>3. IsFiniteSet(A) /\ IsFiniteSet(B) /\ \A i \in A \union B : launch.in[i] \in Int
  BY <1>1, <1>2, FS_Subset
<1>4. SumFunctionOnSet(launch.in, A \union B) = SumFunctionOnSet(launch.in, A) + SumFunctionOnSet(launch.in, B)
  BY <1>2, <1>3, SumOfUnion
<1> QED  BY <1>2, <1>4 DEF SumOver, A, B

(* Adding the encoded sum of one more cube to the word keeps it the sum of *)
(* the cubes stored, reduced to the word.                                  *)
LEMMA SumsAreFixed ==
  ASSUME Launched, launch.kernel = "block_reduce_fixedpoint", NEW stored \in SUBSET (0 .. Cubes - 1),
         NEW cube \in 0 .. Cubes - 1, cube \notin stored
  PROVE  ((SumFunctionOnSet(CubeRounded, stored) % FixedRange) + fixedpoint_encode(SumOver(InCube(cube)))) % FixedRange
           = SumFunctionOnSet(CubeRounded, stored \union {cube}) % FixedRange
<1> DEFINE R == FixedRange
           a == SumFunctionOnSet(CubeRounded, stored)
           r == CubeRounded[cube]
<1>1. R \in Nat \ {0} /\ Cubes \in Nat
  BY FixedAssumption, CubesCount
<1>2. \A k \in 0 .. Cubes - 1 : CubeRounded[k] = Round(SumOver(InCube(k))) /\ SumOver(InCube(k)) \in Int
                                /\ CubeRounded[k] \in Int
  <2> SUFFICES ASSUME NEW k \in 0 .. Cubes - 1
               PROVE  CubeRounded[k] = Round(SumOver(InCube(k))) /\ SumOver(InCube(k)) \in Int /\ CubeRounded[k] \in Int
    OBVIOUS
  <2>1. IsFiniteSet(InCube(k)) /\ \A i \in InCube(k) : launch.in[i] \in Int
    <3>1. launch.kernel \notin Searches
      BY DEF Searches
    <3>2. DOMAIN launch.in = Index /\ IsFiniteSet(Index) /\ \A i \in Index : launch.in[i] \in Int
      BY <3>1, LaunchIsShaped
    <3>3. InCube(k) \subseteq Index
      BY <3>2 DEF InCube
    <3> QED  BY <3>2, <3>3, FS_Subset
  <2>2. SumOver(InCube(k)) \in Int
    BY <2>1, SumLaws DEF SumOver
  <2>3. CubeRounded[k] = Round(SumOver(InCube(k)))
    BY DEF CubeRounded
  <2> QED  BY <2>2, <2>3, RoundingType
<1>3. IsFiniteSet(stored) /\ \A k \in stored : CubeRounded[k] \in Int
  <2>1. IsFiniteSet(0 .. Cubes - 1)
    BY <1>1, FS_Interval
  <2> QED  BY <1>2, <2>1, FS_Subset
<1>4. SumFunctionOnSet(CubeRounded, stored \union {cube}) = a + r
  <2>1. IsFiniteSet({cube}) /\ stored \intersect {cube} = {} /\ \A k \in stored \union {cube} : CubeRounded[k] \in Int
    BY <1>2, FS_Singleton
  <2>2. SumFunctionOnSet(CubeRounded, stored \union {cube})
          = SumFunctionOnSet(CubeRounded, stored) + SumFunctionOnSet(CubeRounded, {cube})
    BY <1>3, <2>1, SumOfUnion
  <2>3. SumFunctionOnSet(CubeRounded, {cube}) = r
    BY <1>2, SumOfOne
  <2> QED  BY <2>2, <2>3
<1>5. a \in Int /\ r \in Int
  BY <1>2, <1>3, SumLaws
<1>6. fixedpoint_encode(SumOver(InCube(cube))) = r % R
  BY <1>2, RoundingType
<1> HIDE DEF R, a, r
<1>7. ((a % R) + (r % R)) % R = (a + r) % R
  <2>1. a % R \in Int /\ r % R \in Int
    BY <1>1, <1>5, DivisionHolds
  <2>2. ((a % R) + (r % R)) % R = ((a % R) + r) % R
    BY <1>1, <1>5, <2>1, ModAdds
  <2>3. (r + (a % R)) % R = (r + a) % R
    BY <1>1, <1>5, ModAdds
  <2>4. (a % R) + r = r + (a % R) /\ r + a = a + r
    BY <1>5, <2>1
  <2> QED  BY <2>2, <2>3, <2>4
<1> QED  BY <1>4, <1>6, <1>7 DEF R, a

(* The sum of a cell over the cubes whose unit has stored it.              *)
LEMMA SumsAreMerged ==
  ASSUME Launched, Merging, NEW stored \in SUBSET (0 .. Cubes - 1), NEW cube \in 0 .. Cubes - 1, cube \notin stored, NEW c
  PROVE  SumFunctionOnSet(Rounded, InMerged(stored, c))
           + SumFunctionOnSet(Rounded, {i \in Index : CubeOf(i) = cube /\ launch.part[i] = c})
           = SumFunctionOnSet(Rounded, InMerged(stored \union {cube}, c))
<1> DEFINE A == InMerged(stored, c)
           B == {i \in Index : CubeOf(i) = cube /\ launch.part[i] = c}
<1>1. DOMAIN launch.in = Index /\ IsFiniteSet(Index) /\ \A i \in Index : Rounded[i] \in Int
  BY LaunchIsShaped, MergingSteps, ItemsAreEncoded
<1>2. InMerged(stored \union {cube}, c) = A \union B /\ A \intersect B = {} /\ A \subseteq Index /\ B \subseteq Index
  BY <1>1 DEF InMerged
<1> HIDE DEF A, B
<1>3. IsFiniteSet(A) /\ IsFiniteSet(B) /\ \A i \in A \union B : Rounded[i] \in Int
  BY <1>1, <1>2, FS_Subset
<1>4. SumFunctionOnSet(Rounded, A \union B) = SumFunctionOnSet(Rounded, A) + SumFunctionOnSet(Rounded, B)
  BY <1>2, <1>3, SumOfUnion
<1> QED  BY <1>2, <1>4 DEF A, B

(* A unit adds what it stores to the accumulators.                         *)
LEMMA StepsKeepAccumulators ==
  ASSUME Lockstep, Placed, SharedRight, AccumulatorsRight, launch.kernel \in Accumulators,
         NEW m \in Slices, NEW u \in Units, Ran(m, u)
  PROVE  AccumulatorsRight' /\ PerCube(totals)'
<1> DEFINE p == at[m][u]
           c == p.cube
           seg == Program[p.stage]
           slots == mem[m]
           stores == seg.op = "store"
<1>0. Launched /\ UNCHANGED <<device, launch>> /\ Running(m, u) /\ 0 \in Units /\ Width \in Nat \ {0}
  <2>1. Launched
    BY DEF Lockstep
  <2>2. Width \in Nat \ {0}
    BY <2>1, GridIsSound
  <2> QED  BY <2>1, <2>2 DEF Ran, Units
<1>1. /\ c \in 0 .. Cubes - 1 /\ Together(at[m], c, p.stage) /\ p.stage \in 1 .. Len(Program)
      /\ SharedSlots(mem[m])
  BY <1>0, RunningCubes
<1>2. totals = [k \in TotalKeys |-> totals[k]] /\ totals' = NewTotals(c, u, seg, p.reg, slots)
  BY DEF Placed, Ran
<1>3. ASSUME NEW v \in Units
      PROVE  /\ StoredCubes(v) \in SUBSET (0 .. Cubes - 1)
             /\ StoredCubes(v)' = IF v = u /\ stores THEN StoredCubes(v) \union {c} ELSE StoredCubes(v)
             /\ v = u => c \notin StoredCubes(v)
  <2>1. Cubes' = Cubes
    BY <1>0, GeometryStays
  <2>2. \A k \in 0 .. Cubes - 1 : Stored(k, v)' <=> Stored(k, v) \/ (k = c /\ v = u /\ stores)
    BY UnitsStore
  <2>3. ~Stored(c, u)
    BY UnitsStore
  <2> HIDE DEF c, stores
  <2> QED  BY <1>1, <2>1, <2>2, <2>3 DEF StoredCubes
<1>4. /\ Cells' = Cells /\ Width' = Width /\ Merging' = Merging /\ TotalKeys' = TotalKeys /\ Index' = Index
      /\ \A S : SumOver(S)' = SumOver(S)
      /\ CubeRounded' = CubeRounded /\ Rounded' = Rounded /\ \A i : CubeOf(i)' = CubeOf(i)
  BY <1>0, GeometryStays, LoadsStay, ResultsStay
<1>5. (\A S : InStored(S)' = InStored(S)) /\ (\A S, k : InMerged(S, k)' = InMerged(S, k))
  BY <1>0, <1>4 DEF InStored, InMerged
<1>6. CASE launch.kernel \in {"block_reduce_atomic", "block_reduce_fixedpoint"}
  <2>0. /\ TotalKeys = {0} /\ ~Merging /\ launch.kernel \in UnitFolds /\ launch.kernel # "block_scan_total"
        /\ launch.kernel \notin Searches /\ launch.kernel \notin UnitFolds \ Accumulators
    BY <1>6 DEF TotalKeys, Merging, UnitFolds, Kernels, Accumulators, Searches, Scans, PrefixSums, BinScans, SingleCube
  <2>1. CASE stores /\ u = 0
    <3>1. \E prev \in Segs : Prepared(c, prev, u, seg, p.reg, slots)
      BY <2>0, <2>1, StoresArePrepared
    <3>2. Folded(slots) = SumOver(InCube(c))
      <4> DEFINE reg == p.reg
      <4>1. PICK prev \in Segs : Prepared(c, prev, 0, seg, reg, slots)
        BY <2>1, <3>1
      <4>2. seg.op = "store"
        BY <2>1
      <4> HIDE DEF c, seg, reg, slots
      <4>3. Folded(slots) = Folding(Covered(c, Units))
        BY <1>0, <1>1, <2>0, <4>1, <4>2, FoldedIsRight
      <4>4. Folding(Covered(c, Units)) = SumOver(InCube(c))
        BY <1>0, <1>1, <1>6, FoldsAreSerial
      <4> QED  BY <4>3, <4>4
    <3>3. StoredCubes(0)' = StoredCubes(0) \union {c} /\ c \notin StoredCubes(0) /\ StoredCubes(0) \in SUBSET (0 .. Cubes - 1)
      BY <1>0, <1>3, <2>1
    <3> DEFINE f == Folded(slots)
    <3>4. CASE launch.kernel = "block_reduce_atomic"
      <4>1. totals' = [totals EXCEPT ![0] = totals[0] + f]
        BY <1>2, <2>0, <2>1, <3>4 DEF NewTotals
      <4> HIDE DEF f, c
      <4>2. PerCube(totals') /\ totals'[0] = totals[0] + f
        <5>1. totals' = [k \in {0} |-> IF k = 0 THEN totals[0] + f ELSE totals[k]]
          BY <1>2, <2>0, <4>1
        <5> QED  BY <2>0, <5>1 DEF PerCube
      <4>3. totals[0] = SumOver(InStored(StoredCubes(0)))
        BY <3>4 DEF AccumulatorsRight
      <4> DEFINE stored == StoredCubes(0)
      <4>4. SumOver(InStored(stored)) + SumOver(InCube(c)) = SumOver(InStored(stored \union {c}))
        <5>1. stored \in SUBSET (0 .. Cubes - 1) /\ c \notin stored
          BY <3>3
        <5> HIDE DEF stored
        <5> QED  BY <1>0, <1>1, <3>4, <5>1, SumsAreAtomic
      <4>5. totals'[0] = SumOver(InStored(StoredCubes(0)))'
        <5>1. totals'[0] = SumOver(InStored(stored \union {c}))
          BY <3>2, <4>2, <4>3, <4>4 DEF f
        <5> QED  BY <1>4, <1>5, <3>3, <5>1
      <4> QED  BY <1>0, <1>4, <2>0, <3>4, <4>2, <4>5 DEF AccumulatorsRight, PerCube
    <3>5. CASE launch.kernel = "block_reduce_fixedpoint"
      <4>1. totals' = [totals EXCEPT ![0] = (totals[0] + fixedpoint_encode(f)) % FixedRange]
        BY <1>2, <2>0, <2>1, <3>5 DEF NewTotals
      <4> HIDE DEF f, c
      <4>2. PerCube(totals') /\ totals'[0] = (totals[0] + fixedpoint_encode(f)) % FixedRange
        <5>1. totals' = [k \in {0} |-> IF k = 0 THEN (totals[0] + fixedpoint_encode(f)) % FixedRange ELSE totals[k]]
          BY <1>2, <2>0, <4>1
        <5> QED  BY <2>0, <5>1 DEF PerCube
      <4>3. totals[0] = SumFunctionOnSet(CubeRounded, StoredCubes(0)) % FixedRange
        BY <3>5 DEF AccumulatorsRight
      <4> DEFINE stored == StoredCubes(0)
      <4>4. ((SumFunctionOnSet(CubeRounded, stored) % FixedRange) + fixedpoint_encode(SumOver(InCube(c)))) % FixedRange
              = SumFunctionOnSet(CubeRounded, stored \union {c}) % FixedRange
        <5>1. stored \in SUBSET (0 .. Cubes - 1) /\ c \notin stored
          BY <3>3
        <5> HIDE DEF stored
        <5> QED  BY <1>0, <1>1, <3>5, <5>1, SumsAreFixed
      <4>5. totals'[0] = (SumFunctionOnSet(CubeRounded, StoredCubes(0)) % FixedRange)'
        <5>1. totals'[0] = SumFunctionOnSet(CubeRounded, stored \union {c}) % FixedRange
          BY <3>2, <4>2, <4>3, <4>4 DEF f
        <5> QED  BY <1>4, <3>3, <5>1
      <4> QED  BY <1>0, <1>4, <2>0, <3>5, <4>2, <4>5 DEF AccumulatorsRight, PerCube
    <3> QED  BY <1>6, <3>4, <3>5
  <2>2. CASE ~(stores /\ u = 0)
    <3>1. totals' = totals
      BY <1>2, <1>6, <2>0, <2>2 DEF NewTotals
    <3>2. StoredCubes(0)' = StoredCubes(0)
      BY <1>0, <1>3, <2>2
    <3> QED  BY <1>0, <1>2, <1>4, <1>5, <2>0, <3>1, <3>2 DEF AccumulatorsRight, PerCube
  <2> QED  BY <2>1, <2>2
<1>7. CASE Merging
  <2>0. /\ TotalKeys = 0 .. Cells - 1 /\ Cells \in 0 .. CubeDim
        /\ launch.kernel = "partition_update_lds" /\ Len(Program) = 3 /\ Program[3].op = "store"
    <3>1. launch.kernel = "partition_update_lds"
      BY <1>7 DEF Merging
    <3>2. TotalKeys = 0 .. Cells - 1
      BY <3>1 DEF TotalKeys, Cells, BinScans, SingleCube
    <3> QED  BY <1>0, <1>7, <3>1, <3>2, MergingSteps
  <2>1. \A k \in 0 .. Cells - 1 : k % Width \in Units /\ (k \in OwnCells(u) <=> k % Width = u)
    <3> SUFFICES ASSUME NEW k \in 0 .. Cells - 1 PROVE k % Width \in Units /\ (k \in OwnCells(u) <=> k % Width = u)
      OBVIOUS
    <3>1. k \in Int
      BY <2>0
    <3>2. k % Width \in 0 .. Width - 1
      BY <1>0, <3>1, DivisionHolds
    <3> QED  BY <3>2 DEF Units, OwnCells
  <2>2. /\ PerCube(totals')
        /\ \A k \in 0 .. Cells - 1 :
             totals'[k] = IF stores /\ k % Width = u THEN totals[k] + fixedpoint_decode(slots[k]) ELSE totals[k]
    <3>1. CASE stores
      <4>1. totals' = [k \in DOMAIN totals |-> IF k \in OwnCells(u) THEN totals[k] + fixedpoint_decode(slots[k]) ELSE totals[k]]
        BY <1>2, <1>7, <2>0, <3>1 DEF NewTotals
      <4> HIDE DEF stores, slots
      <4>2. DOMAIN totals = 0 .. Cells - 1
        BY <1>2, <2>0
      <4>3. totals' = [k \in 0 .. Cells - 1 |-> IF k \in OwnCells(u) THEN totals[k] + fixedpoint_decode(slots[k]) ELSE totals[k]]
        BY <4>1, <4>2
      <4>4. PerCube(totals')
        BY <2>0, <4>3 DEF PerCube
      <4> QED  BY <2>1, <3>1, <4>3, <4>4
    <3>2. CASE ~stores
      BY <1>2, <2>0, <3>2 DEF NewTotals, PerCube
    <3> QED  BY <3>1, <3>2
  <2>3. ASSUME NEW k \in 0 .. Cells - 1
        PROVE  totals'[k] = SumFunctionOnSet(Rounded, InMerged(StoredCubes(k % Width), k))'
    <3> DEFINE v == k % Width
               stored == StoredCubes(v)
    <3>1. v \in Units /\ totals[k] = SumFunctionOnSet(Rounded, InMerged(stored, k))
      BY <1>7, <2>1 DEF AccumulatorsRight
    <3>2. /\ stored \in SUBSET (0 .. Cubes - 1)
          /\ StoredCubes(v)' = IF v = u /\ stores THEN stored \union {c} ELSE stored
          /\ v = u => c \notin stored
      <4>1. /\ StoredCubes(v) \in SUBSET (0 .. Cubes - 1)
            /\ v = u => c \notin StoredCubes(v)
        BY <1>3, <3>1
      <4>2. \A w \in Units : StoredCubes(w)' = IF w = u /\ stores THEN StoredCubes(w) \union {c} ELSE StoredCubes(w)
        BY <1>3
      <4>3. v' = v
        BY <1>4
      <4> HIDE DEF v, c, stores
      <4>4. StoredCubes(v)' = IF v = u /\ stores THEN StoredCubes(v) \union {c} ELSE StoredCubes(v)
        BY <3>1, <4>2, <4>3
      <4> QED  BY <4>1, <4>4
    <3>3. (k % Width)' = v
      BY <1>4
    <3>4. CASE v = u /\ stores
      <4>1. p.stage = 3
        BY <1>0, <1>1, <2>0, <3>4, StagesAreOrdered
      <4>2. CellsRight(at[m], slots)
        <5>1. at[m][0].cube = c /\ Cubes \in Nat
          BY <1>0, <1>1, CubesCount DEF Together
        <5>2. SharedIsRight(at[m], mem[m])
          BY <1>1, <5>1 DEF SharedRight, Running
        <5> QED  BY <1>7, <5>2 DEF SharedIsRight
      <4>3. fixedpoint_decode(slots[k]) = SumFunctionOnSet(Rounded, {i \in Index : CubeOf(i) = c /\ launch.part[i] = k})
        <5> DEFINE places == at[m]
        <5>1. Together(places, c, 3) /\ CellsRight(places, slots)
          BY <1>1, <4>1, <4>2
        <5> HIDE DEF places, c, slots
        <5> QED  BY <1>0, <1>1, <1>7, <5>1, CellsAreSerial
      <4>4. SumFunctionOnSet(Rounded, InMerged(stored, k))
              + SumFunctionOnSet(Rounded, {i \in Index : CubeOf(i) = c /\ launch.part[i] = k})
              = SumFunctionOnSet(Rounded, InMerged(stored \union {c}, k))
        <5>1. c \notin stored
          BY <3>2, <3>4
        <5> HIDE DEF stored, c
        <5> QED  BY <1>0, <1>1, <1>7, <3>2, <5>1, SumsAreMerged
      <4>5. totals'[k] = totals[k] + fixedpoint_decode(slots[k])
        BY <2>2, <3>4
      <4>6. totals'[k] = SumFunctionOnSet(Rounded, InMerged(stored \union {c}, k))
        BY <3>1, <4>3, <4>4, <4>5
      <4> HIDE DEF c, stores
      <4> QED  BY <1>4, <1>5, <3>2, <3>3, <3>4, <4>6
    <3>5. CASE ~(v = u /\ stores)
      <4>1. totals'[k] = totals[k] /\ StoredCubes(v)' = stored
        BY <2>2, <3>2, <3>5
      <4> QED  BY <1>4, <1>5, <3>1, <3>3, <4>1
    <3> QED  BY <3>4, <3>5
  <2> QED  BY <1>0, <1>4, <1>7, <2>0, <2>2, <2>3 DEF AccumulatorsRight, PerCube
<1> QED  BY <1>6, <1>7 DEF Accumulators, Merging

(* The barrier leaves them alone.                                          *)
LEMMA OpeningsKeepAccumulators ==
  ASSUME Lockstep, Placed, AccumulatorsRight, NEW m \in Slices, Opened(m), \A w \in Units : Running(m, w)
  PROVE  AccumulatorsRight'
<1>0. Launched /\ UNCHANGED <<device, launch, totals>> /\ 0 \in Units /\ Width \in Nat \ {0}
  <2>1. Launched
    BY DEF Lockstep
  <2>2. Width \in Nat \ {0}
    BY <2>1, GridIsSound
  <2> QED  BY <2>1, <2>2 DEF Opened, Units
<1>1. /\ Cells' = Cells /\ Width' = Width /\ Merging' = Merging /\ Cubes' = Cubes
      /\ \A S : SumOver(S)' = SumOver(S)
      /\ CubeRounded' = CubeRounded /\ Rounded' = Rounded /\ \A i : CubeOf(i)' = CubeOf(i)
  BY <1>0, GeometryStays, LoadsStay, ResultsStay
<1>2. (\A S : InStored(S)' = InStored(S)) /\ (\A S, k : InMerged(S, k)' = InMerged(S, k))
  BY <1>0, <1>1 DEF InStored, InMerged
<1>3. \A v \in Units : StoredCubes(v)' = StoredCubes(v)
  BY <1>1, BarriersStoreNothing DEF StoredCubes
<1>4. Merging => \A k \in 0 .. Cells - 1 : k % Width \in Units
  <2> SUFFICES ASSUME Merging, NEW k \in 0 .. Cells - 1 PROVE k % Width \in Units
    OBVIOUS
  <2>1. Cells \in Int
    BY <1>0, MergingSteps
  <2>2. k \in Int
    BY <2>1
  <2> QED  BY <1>0, <2>2, DivisionHolds DEF Units
<1> QED  BY <1>0, <1>1, <1>2, <1>3, <1>4 DEF AccumulatorsRight

(* Some unit stands for every item of a scan.                              *)
LEMMA ItemsAreStood ==
  ASSUME Launched, launch.kernel \in Scans \union {"segmented_scan"}, NEW i \in Index
  PROVE  \E c \in 0 .. Cubes - 1, u \in Units : Item(c, u) = i /\ Stands(c, u)
<1>1. Width \in Nat \ {0} /\ Items \in Nat /\ Cubes \in Nat /\ i \in Nat /\ i < Items
  BY GridIsSound, CubesCount DEF Index
<1>2. CASE launch.kernel \in BinScans
  <2>1. PICK c \in 0 .. Cubes - 1, b \in 0 .. launch.bins - 1 : i = BinCell(c, b)
    BY <1>2, CellsOfBins
  <2>2. launch.bins \in Nat /\ launch.bins <= Width
    BY <1>2, GridIsSound, LaunchIsShaped
  <2>3. b \in Units /\ b < launch.bins
    BY <1>1, <2>2 DEF Units
  <2> QED  BY <1>2, <2>1, <2>3 DEF Item, Stands
<1>3. CASE launch.kernel \notin BinScans
  <2> DEFINE c == i \div Width
             u == i % Width
  <2>1. u \in 0 .. Width - 1 /\ i = Width * c + u /\ c \in Int
    BY <1>1, DivisionHolds
  <2>2. c \in 0 .. Cubes - 1
    <3>1. CASE launch.kernel \in SingleCube
      <4>1. Cubes = 1 /\ Items <= Width
        BY <3>1, GridIsSound DEF Cubes, SingleCube, SegmentFolds, BinScans
      <4>2. i \in 0 .. Width - 1 /\ 0 \in Int
        BY <1>1, <4>1
      <4>3. (Width * 0 + i) \div Width = 0
        BY <1>1, <4>2, Remainder
      <4>4. Width * 0 + i = i
        BY <1>1
      <4> QED  BY <4>1, <4>3, <4>4
    <3>2. CASE launch.kernel \notin SingleCube
      <4>1. launch.kernel = "block_scan_total"
        BY <1>3, <3>2 DEF Scans, PrefixSums, SingleCube
      <4> QED  BY <4>1, ItemsHaveCubes DEF SegmentFolds, BinScans, SingleCube
    <3> QED  BY <3>1, <3>2
  <2> HIDE DEF c, u
  <2>3. Abs(c, u) = i
    <3>1. Width * c = c * Width /\ Width * c \in Int
      BY <1>1, <2>1
    <3> QED  BY <2>1, <3>1 DEF Abs
  <2> QED  BY <1>1, <1>3, <2>1, <2>2, <2>3 DEF Item, Stands, Units
<1> QED  BY <1>2, <1>3

(* Every cube of a chained scan has a last item.                           *)
LEMMA CubesHaveLastItems ==
  ASSUME Launched, launch.kernel = "block_scan_total", NEW c \in 0 .. Cubes - 1
  PROVE  \E u \in Units : LastValid(c, u)
<1> DEFINE W == Width
           N == Items
<1>1. W \in Nat \ {0} /\ N \in Nat /\ Cubes \in Nat /\ c \in Nat
  BY GridIsSound, CubesCount
<1>2. Cubes = (N + W - 1) \div W
  BY DEF Cubes, CeilDiv, SegmentFolds, BinScans, SingleCube
<1> HIDE DEF W, N
<1>3. c * W < N /\ c * W \in Nat
  <2> DEFINE x == N + W - 1
             k == x % W
  <2>1. x \in Int /\ Cubes = x \div W
    BY <1>1, <1>2
  <2>2. x = W * Cubes + k /\ k \in 0 .. W - 1
    <3> HIDE DEF x
    <3> QED  BY <1>1, <2>1, DivisionHolds
  <2>3. N + W - 1 = W * Cubes + k
    BY <2>2
  <2> HIDE DEF x, k
  <2>4. W * (c + 1) <= W * Cubes
    <3>1. c + 1 <= Cubes /\ c + 1 \in Nat
      BY <1>1
    <3> QED  BY <1>1, <3>1
  <2>5. W * (c + 1) = W * c + W /\ W * c = c * W /\ W * c \in Nat /\ W * Cubes \in Nat
    BY <1>1
  <2> QED  BY <1>1, <2>2, <2>3, <2>4, <2>5
<1> DEFINE base == c * W
           last == N - 1 - base
           u == IF W - 1 <= last THEN W - 1 ELSE last
<1>4. base \in Nat /\ base < N
  BY <1>3
<1> HIDE DEF base
<1>5. u \in 0 .. W - 1 /\ base + u < N /\ (u = W - 1 \/ base + u = N - 1)
  BY <1>1, <1>4
<1> HIDE DEF u
<1> QED  BY <1>5 DEF LastValid, Abs, Units, W, N, base

(* A unit stores every output.                                             *)
LEMMA OutputsAreStored ==
  ASSUME Launched
  PROVE  /\ \A i \in OutKeys : \E c \in 0 .. Cubes - 1, u \in Units : i \in OutKeysOf(c, u)
         /\ launch.kernel \notin Accumulators =>
              \A k \in TotalKeys : \E c \in 0 .. Cubes - 1, u \in Units : k \in TotalKeysOf(c, u)
<1>0. 0 \in Units /\ DOMAIN launch.in = Index /\ launch.kernel \in Kernels
  BY GridIsSound, LaunchIsShaped DEF Units
<1>1. ASSUME NEW i \in OutKeys PROVE \E c \in 0 .. Cubes - 1, u \in Units : i \in OutKeysOf(c, u)
  <2>1. CASE launch.kernel \in Scans \union {"segmented_scan"}
    <3>1. i \in Index
      BY <1>0, <2>1 DEF OutKeys, Scans, BinScans, PrefixSums
    <3>2. PICK c \in 0 .. Cubes - 1, u \in Units : Item(c, u) = i /\ Stands(c, u)
      BY <2>1, <3>1, ItemsAreStood
    <3>3. i \in OutKeysOf(c, u)
      BY <2>1, <3>2 DEF OutKeysOf, Scans
    <3> QED  BY <3>3
  <2>2. CASE launch.kernel \notin Scans \union {"segmented_scan"}
    <3>1. launch.kernel = "reduce_by_key" /\ i \in 0 .. Cubes - 1
      BY <2>2 DEF OutKeys
    <3>2. i \in OutKeysOf(i, 0)
      BY <2>2, <3>1 DEF OutKeysOf, Scans
    <3> QED  BY <1>0, <3>1, <3>2
  <2> QED  BY <2>1, <2>2
<1>2. ASSUME launch.kernel \notin Accumulators, NEW k \in TotalKeys
      PROVE  \E c \in 0 .. Cubes - 1, u \in Units : k \in TotalKeysOf(c, u)
  <2>1. launch.kernel \notin BinScans \union SingleCube
    BY DEF TotalKeys, BinScans, SingleCube
  <2>2. k \in 0 .. Cubes - 1
    BY <1>2, <2>1 DEF TotalKeys, Accumulators
  <2>3. CASE launch.kernel = "block_scan_total"
    <3>1. PICK u \in Units : LastValid(k, u)
      BY <2>2, <2>3, CubesHaveLastItems
    <3>2. k \in TotalKeysOf(k, u)
      BY <2>3, <3>1 DEF TotalKeysOf
    <3> QED  BY <2>2, <3>2
  <2>4. CASE launch.kernel # "block_scan_total"
    <3>1. launch.kernel \in SegmentFolds \union Searches \union {"block_reduce"}
      BY <1>0, <1>2, <2>1, <2>4 DEF Kernels, PrefixSums, SingleCube
    <3>2. k \in TotalKeysOf(k, 0)
      BY <2>4, <3>1 DEF TotalKeysOf
    <3> QED  BY <1>0, <2>2, <3>2
  <2> QED  BY <2>3, <2>4
<1> QED  BY <1>1, <1>2

(* When the launch has finished, every unit has stored every cube.         *)
LEMMA FinishedStores ==
  ASSUME Lockstep, Placed, Finished
  PROVE  \A c \in 0 .. Cubes - 1, u \in Units : Stored(c, u)
<1> SUFFICES ASSUME NEW c \in 0 .. Cubes - 1, NEW u \in Units PROVE Stored(c, u)
  OBVIOUS
<1>1. Launched /\ Cubes \in Nat /\ SliceOf(c) \in Slices
  <2>1. Launched
    BY DEF Lockstep
  <2> QED  BY <2>1, CubesCount, CubesHaveSlices
<1> DEFINE p == at[SliceOf(c)][u]
<1>2. Sited(SliceOf(c), p) /\ ~(p.cube < Cubes)
  BY <1>1 DEF Placed, Finished, Running
<1>3. p.cube \in Int
  BY <1>1, <1>2 DEF Sited, SliceOf
<1>4. p.cube > c
  BY <1>1, <1>2, <1>3
<1> QED  BY <1>4 DEF Stored

(* The book of a finished launch is its serial result.                     *)
LEMMA FinishedIsSerial ==
  ASSUME KernelBook, Finished
  PROVE  /\ \A i \in OutKeys : out[i] = SerialOut(i)
         /\ \A c \in TotalKeys : totals[c] = SerialTotal(c)
<1>0. /\ Lockstep /\ Placed /\ OutputsRight /\ AccumulatorsRight /\ Launched /\ DOMAIN launch.in = Index
      /\ \A c \in 0 .. Cubes - 1, u \in Units : Stored(c, u)
  <2>1. Lockstep /\ Placed /\ OutputsRight /\ AccumulatorsRight /\ Launched
    BY DEF KernelBook, Lockstep
  <2> QED  BY <2>1, FinishedStores, LaunchIsShaped
<1>1. \A i \in OutKeys : out[i] = SerialOut(i)
  BY <1>0, OutputsAreStored DEF OutputsRight
<1>2. CASE launch.kernel \notin Accumulators
  BY <1>0, <1>1, <1>2, OutputsAreStored DEF OutputsRight
<1>3. \A u \in Units : StoredCubes(u) = 0 .. Cubes - 1
  BY <1>0 DEF StoredCubes
<1>4. 0 \in Units /\ Width \in Nat \ {0}
  <2>1. Width \in Nat \ {0}
    BY <1>0, GridIsSound
  <2> QED  BY <2>1 DEF Units
<1>5. CASE launch.kernel = "block_reduce_atomic"
  <2>1. TotalKeys = {0} /\ SerialTotal(0) = SumOver(DOMAIN launch.in)
    BY <1>5 DEF TotalKeys, SerialTotal, SegmentFolds, BinScans, SingleCube
  <2>2. InStored(0 .. Cubes - 1) = DOMAIN launch.in
    <3>1. \A i \in Index : i \div Width \in 0 .. Cubes - 1
      BY <1>0, <1>5, ItemsHaveCubes DEF SegmentFolds, BinScans, SingleCube
    <3> QED  BY <1>0, <3>1 DEF InStored
  <2>3. totals[0] = SumOver(InStored(0 .. Cubes - 1))
    BY <1>0, <1>3, <1>4, <1>5 DEF AccumulatorsRight
  <2> QED  BY <1>1, <2>1, <2>2, <2>3
<1>6. CASE launch.kernel = "block_reduce_fixedpoint"
  <2>1. TotalKeys = {0} /\ SerialTotal(0) = SumFunction(CubeRounded) % FixedRange
    BY <1>6 DEF TotalKeys, SerialTotal, SegmentFolds, CubeRounded, BinScans, SingleCube
  <2>2. SumFunction(CubeRounded) = SumFunctionOnSet(CubeRounded, 0 .. Cubes - 1)
    BY DEF SumFunction, CubeRounded
  <2>3. totals[0] = SumFunctionOnSet(CubeRounded, 0 .. Cubes - 1) % FixedRange
    BY <1>0, <1>3, <1>4, <1>6 DEF AccumulatorsRight
  <2> QED  BY <1>1, <2>1, <2>2, <2>3
<1>7. CASE Merging
  <2>1. TotalKeys = 0 .. Cells - 1 /\ Cells \in Nat
    <3>1. launch.kernel = "partition_update_lds"
      BY <1>7 DEF Merging
    <3>2. TotalKeys = 0 .. Cells - 1
      BY <3>1 DEF TotalKeys, Cells, BinScans, SingleCube
    <3> QED  BY <1>0, <1>7, <3>2, MergingSteps
  <2> SUFFICES ASSUME NEW c \in 0 .. Cells - 1 PROVE totals[c] = SerialTotal(c)
    BY <1>1, <2>1
  <2>2. c % Width \in Units
    <3>1. c \in Int
      BY <2>1
    <3> QED  BY <1>4, <3>1, DivisionHolds DEF Units
  <2>3. totals[c] = SumFunctionOnSet(Rounded, InMerged(0 .. Cubes - 1, c))
    BY <1>0, <1>3, <1>7, <2>2 DEF AccumulatorsRight
  <2>4. InMerged(0 .. Cubes - 1, c) = {i \in DOMAIN launch.in : launch.part[i] = c}
    <3>1. \A i \in Index : CubeOf(i) \in 0 .. Cubes - 1
      BY <1>0, <1>7, ItemsArePartial
    <3> QED  BY <1>0, <3>1 DEF InMerged
  <2>5. SerialTotal(c) = SumFunctionOnSet(Rounded, {i \in DOMAIN launch.in : launch.part[i] = c})
    BY <1>7 DEF SerialTotal, Merging, SegmentFolds, Rounded
  <2> QED  BY <2>3, <2>4, <2>5
<1> QED  BY <1>2, <1>5, <1>6, <1>7 DEF Accumulators, Merging

-----------------------------------------------------------------------------
(* The book is kept. *)

(* A unit's place is sited by the launch, which does not change.           *)
LEMMA SitedStays ==
  ASSUME UNCHANGED <<device, launch>>
  PROVE  \A m, p : Sited(m, p)' <=> Sited(m, p)
<1>1. Cubes' = Cubes /\ device' = device
  BY GeometryStays
<1> QED  BY <1>1 DEF Sited

(* A launch begins with its book in order: nothing is stored yet.          *)
LEMMA InitKernelBook ==
  ASSUME Init
  PROVE  KernelBook
<1>1. Lockstep /\ Launched
  BY InitLockstep DEF Lockstep
<1>2. /\ at = [m \in Slices |-> [u \in Units |-> Start(m)]]
      /\ mem = [m \in Slices |-> [s \in 0 .. CubeDim - 1 |-> Garbage]]
      /\ out = [i \in OutKeys |-> Garbage]
      /\ totals = [c \in TotalKeys |-> IF launch.kernel \in Accumulators THEN 0 ELSE Garbage]
  BY DEF Init
<1>3. \A m \in Slices, u \in Units : at[m][u] = Start(m)
  BY <1>2
<1>4. \A m : Start(m).cube = m /\ Start(m).stage = 1 /\ Start(m).waits = FALSE
  BY DEF Start
<1>5. Cubes \in Nat /\ Len(Program) \in Nat /\ Len(Program) >= 2 /\ Width \in Nat \ {0}
  BY <1>1, CubesCount, ProgramsAreOrdered, GridIsSound DEF Ordered
<1>6. Placed
  <2>1. ASSUME NEW m \in Slices, NEW u \in Units PROVE Sited(m, at[m][u])
    <3>1. m \in (IF has_planes(device) THEN {m, Cubes} ELSE 0 .. Cubes)
      BY <1>5 DEF Slices
    <3>2. at[m][u] = Start(m)
      BY <1>3
    <3>3. Start(m).waits \in BOOLEAN
      BY DEF Start
    <3> QED  BY <1>4, <3>1, <3>2, <3>3 DEF Sited
  <2>2. mem = [m \in Slices |-> [s \in 0 .. CubeDim - 1 |-> mem[m][s]]]
    BY <1>2
  <2>3. out = [i \in OutKeys |-> out[i]] /\ totals = [k \in TotalKeys |-> totals[k]]
    BY <1>2
  <2> QED  BY <2>1, <2>2, <2>3 DEF Placed
<1>7. SharedRight
  <2> SUFFICES ASSUME NEW m \in Slices PROVE SharedIsRight(at[m], mem[m])
    BY DEF SharedRight
  <2>1. \A w \in Units : at[m][w].stage = 1 /\ ~at[m][w].waits
    BY <1>3, <1>4
  <2> QED  BY <1>1, <2>1, FreshIsRight
<1>8. \A c \in 0 .. Cubes - 1, u \in Units : ~Stored(c, u)
  <2> SUFFICES ASSUME NEW c \in 0 .. Cubes - 1, NEW u \in Units PROVE ~Stored(c, u)
    OBVIOUS
  <2>1. SliceOf(c) \in Slices
    BY <1>1, CubesHaveSlices
  <2>2. at[SliceOf(c)][u].cube = SliceOf(c) /\ at[SliceOf(c)][u].stage = 1
    BY <1>3, <1>4, <2>1
  <2>3. SliceOf(c) <= c /\ SliceOf(c) \in Int
    BY <1>5 DEF SliceOf
  <2> DEFINE p == at[SliceOf(c)][u]
  <2>4. p.cube = SliceOf(c) /\ p.stage = 1
    BY <2>2
  <2>5. c \in Int
    BY <1>5
  <2> HIDE DEF p
  <2>6. ~(p.cube > c)
    BY <2>3, <2>4, <2>5
  <2>7. 1 # Len(Program)
    <3> DEFINE l == Len(Program)
    <3>1. l \in Nat /\ l >= 2
      BY <1>5
    <3> HIDE DEF l
    <3>2. 1 # l
      BY <3>1
    <3> QED  BY <3>2 DEF l
  <2> QED  BY <2>4, <2>6, <2>7 DEF Stored, p
<1>9. OutputsRight
  BY <1>8 DEF OutputsRight
<1>10. AccumulatorsRight
  <2>1. \A u \in Units : StoredCubes(u) = {}
    BY <1>8 DEF StoredCubes
  <2>2. InStored({}) = {} /\ \A c : InMerged({}, c) = {}
    BY DEF InStored, InMerged
  <2>3. \A f : SumFunctionOnSet(f, {}) = 0
    <3> SUFFICES ASSUME NEW f PROVE SumFunctionOnSet(f, {}) = 0
      OBVIOUS
    <3>1. IsFiniteSet({}) /\ \A x \in {} : f[x] = 0
      BY FS_EmptySet
    <3> QED  BY <3>1, SumOfZeros
  <2>4. 0 % FixedRange = 0
    <3>1. FixedRange \in Nat \ {0} /\ 0 \in 0 .. FixedRange - 1 /\ 0 \in Int
      BY FixedAssumption
    <3>2. (FixedRange * 0 + 0) % FixedRange = 0
      BY <3>1, Remainder
    <3>3. FixedRange * 0 + 0 = 0
      BY <3>1
    <3> QED  BY <3>2, <3>3
  <2>5. 0 \in Units
    BY <1>5 DEF Units
  <2>6. launch.kernel \in {"block_reduce_atomic", "block_reduce_fixedpoint"} => totals[0] = 0
    <3> SUFFICES ASSUME launch.kernel \in {"block_reduce_atomic", "block_reduce_fixedpoint"} PROVE totals[0] = 0
      OBVIOUS
    <3>1. TotalKeys = {0} /\ launch.kernel \in Accumulators
      BY DEF TotalKeys, Accumulators, BinScans, SingleCube
    <3> QED  BY <1>2, <3>1
  <2>7. Merging => \A c \in 0 .. Cells - 1 : totals[c] = 0 /\ c % Width \in Units
    <3> SUFFICES ASSUME Merging, NEW c \in 0 .. Cells - 1 PROVE totals[c] = 0 /\ c % Width \in Units
      OBVIOUS
    <3>1. launch.kernel = "partition_update_lds" /\ launch.kernel \in Accumulators
      BY DEF Merging, Accumulators
    <3>2. TotalKeys = 0 .. Cells - 1
      BY <3>1 DEF TotalKeys, Cells, BinScans, SingleCube
    <3>3. Cells \in Int
      BY <1>1, MergingSteps
    <3>4. c \in Int
      BY <3>3
    <3>5. c % Width \in Units
      BY <1>5, <3>4, DivisionHolds DEF Units
    <3> QED  BY <1>2, <3>1, <3>2, <3>5
  <2> QED  BY <2>1, <2>2, <2>3, <2>4, <2>5, <2>6, <2>7 DEF AccumulatorsRight, SumOver
<1> QED  BY <1>1, <1>6, <1>7, <1>9, <1>10 DEF KernelBook

(* A unit that runs a segment keeps the book.                              *)
LEMMA StepKeepsKernelBook ==
  ASSUME KernelBook, NEW m \in Slices, NEW u \in Units, Step(m, u)
  PROVE  KernelBook'
<1>1. Lockstep /\ Placed /\ SharedRight /\ OutputsRight /\ AccumulatorsRight /\ Lockstep'
  BY StepKeepsPace DEF KernelBook
<1>2. Ran(m, u)
  BY <1>1, UnitsRun
<1>3. UNCHANGED <<device, launch>>
  BY <1>2 DEF Ran
<1>4. SharedRight' /\ SlotsPlaced'
  BY <1>1, <1>2, StepsKeepShared
<1>5. OutputsRight' /\ Outputs(out)' /\ (launch.kernel \notin Accumulators => PerCube(totals)')
  BY <1>1, <1>2, StepsKeepOutputs
<1>6. AccumulatorsRight' /\ PerCube(totals)'
  <2>1. CASE launch.kernel \in Accumulators
    BY <1>1, <1>2, <2>1, StepsKeepAccumulators
  <2>2. CASE launch.kernel \notin Accumulators
    BY <1>3, <1>5, <2>2 DEF AccumulatorsRight, Accumulators, Merging
  <2> QED  BY <2>1, <2>2
<1>7. Placed'
  <2>1. Slices' = Slices /\ Units' = Units /\ Cubes' = Cubes
    BY <1>3, GeometryStays
  <2>2. ASSUME NEW n \in Slices, NEW v \in Units PROVE Sited(n, at[n][v])'
    <3>1. Sited(n, at[n][v])
      BY <1>1 DEF Placed
    <3>2. CASE n = m /\ v = u
      <4>1. at'[n][v].cube = at[n][v].cube /\ at'[n][v].waits = TRUE /\ at[n][v].cube < Cubes /\ Cubes \in Nat
        <5>1. at'[n][v].cube = at[n][v].cube /\ at[n][v].cube < Cubes
          BY <1>2, <3>2 DEF Ran, Moves, Running
        <5>2. at' = [at EXCEPT ![m][u] = [[at[m][u] EXCEPT !.reg = NewReg(u, Segment(m, u), @, mem[m])] EXCEPT !.waits = TRUE]]
          BY DEF Step, Synced
        <5>3. at = [k \in Slices |-> [w \in Units |-> at[k][w]]]
          BY <1>1 DEF Lockstep, InStep
        <5>4. at[m][u] = [cube |-> at[m][u].cube, stage |-> at[m][u].stage, waits |-> at[m][u].waits, reg |-> at[m][u].reg]
          BY <1>1 DEF Lockstep, InStep
        <5> DEFINE moved == [[at[m][u] EXCEPT !.reg = NewReg(u, Segment(m, u), @, mem[m])] EXCEPT !.waits = TRUE]
        <5>5. moved.waits = TRUE
          BY <5>4
        <5> HIDE DEF moved
        <5>6. at'[m][u] = moved
          BY <5>2, <5>3 DEF moved
        <5>7. Cubes \in Nat
          BY <1>1, CubesCount DEF Lockstep
        <5> QED  BY <3>2, <5>1, <5>5, <5>6, <5>7
      <4>2. at'[n][v].waits \in BOOLEAN
        <5>1. TRUE \in BOOLEAN
          OBVIOUS
        <5> QED  BY <4>1, <5>1
      <4>3. at'[n][v].cube # Cubes
        BY <3>1, <4>1 DEF Sited
      <4>4. Sited(n, at'[n][v])
        BY <3>1, <4>1, <4>2, <4>3 DEF Sited
      <4> QED  BY <1>3, <4>4, SitedStays
    <3>3. CASE ~(n = m /\ v = u)
      <4>1. at'[n][v] = at[n][v]
        BY <1>2, <3>3 DEF Ran, Moves
      <4> QED  BY <1>3, <2>1, <3>1, <4>1 DEF Sited
    <3> QED  BY <3>2, <3>3
  <2> QED  BY <1>4, <1>5, <1>6, <2>1, <2>2 DEF Placed, SlotsPlaced, Shared, Outputs, PerCube
<1> QED  BY <1>1, <1>4, <1>5, <1>6, <1>7 DEF KernelBook

(* A barrier that opens keeps the book.                                    *)
LEMMA BarrierKeepsKernelBook ==
  ASSUME KernelBook, NEW m \in Slices, sync_cube(m)
  PROVE  KernelBook'
<1>1. Lockstep /\ Placed /\ SharedRight /\ OutputsRight /\ AccumulatorsRight /\ Lockstep'
  BY BarrierKeepsPace DEF KernelBook
<1>2. Opened(m) /\ \A w \in Units : Running(m, w)
  BY <1>1, BarriersOpen
<1>3. UNCHANGED <<device, launch, mem, out, totals>>
  BY <1>2 DEF Opened
<1>4. SharedRight'
  BY <1>1, <1>2, OpeningsKeepShared
<1>5. OutputsRight'
  BY <1>1, <1>2, OpeningsKeepOutputs
<1>6. AccumulatorsRight'
  BY <1>1, <1>2, OpeningsKeepAccumulators
<1>7. Placed'
  <2>1. /\ Slices' = Slices /\ Units' = Units /\ Cubes' = Cubes /\ OutKeys' = OutKeys /\ TotalKeys' = TotalKeys
    BY <1>3, GeometryStays
  <2>2. ASSUME NEW n \in Slices, NEW v \in Units PROVE Sited(n, at[n][v])'
    <3>1. Sited(n, at[n][v])
      BY <1>1 DEF Placed
    <3>2. CASE n = m
      <4> DEFINE p == at[m][v]
                 q == at'[m][v]
      <4>1. Launched /\ p.cube \in 0 .. Cubes - 1 /\ SliceOf(p.cube) = m /\ p.stage \in 1 .. Len(Program)
        BY <1>1, <1>2, RunningCubes DEF Lockstep
      <4>2. q.waits = FALSE
        <5>1. at' = [at EXCEPT ![m] = [w \in Units |-> Past(at[m][w])]]
          BY DEF sync_cube
        <5>2. at = [k \in Slices |-> [w \in Units |-> at[k][w]]]
          BY <1>1 DEF Lockstep, InStep
        <5>3. at[m][v] = [cube |-> p.cube, stage |-> p.stage, waits |-> p.waits, reg |-> p.reg]
          BY <1>1 DEF Lockstep, InStep
        <5>4. q = Past(at[m][v])
          BY <5>1, <5>2
        <5> HIDE DEF q
        <5>5. Past(at[m][v]).waits = FALSE
          BY <5>3 DEF Past
        <5> QED  BY <5>4, <5>5
      <4>3. CASE p.stage < Len(Program)
        <5>1. q.cube = p.cube
          BY <1>2, <4>3 DEF Opened, Opens
        <5>2. q.waits \in BOOLEAN
          <6>1. FALSE \in BOOLEAN
            OBVIOUS
          <6> QED  BY <4>2, <6>1
        <5>3. q.cube # Cubes
          <6>1. Cubes \in Nat
            BY <4>1, CubesCount
          <6> QED  BY <4>1, <5>1, <6>1
        <5>4. Sited(n, q)
          BY <3>1, <3>2, <5>1, <5>2, <5>3 DEF Sited
        <5> QED  BY <1>3, <3>2, <5>4, SitedStays
      <4>4. CASE ~(p.stage < Len(Program))
        <5>1. Len(Program) \in Nat /\ Cubes \in Nat
          BY <4>1, ProgramType, CubesCount
        <5>2. p.stage = Len(Program)
          BY <4>1, <4>4, <5>1
        <5>3. q.stage = 1 /\ q.cube = IF has_planes(device) THEN Cubes ELSE p.cube + 1
          BY <1>2, <4>4, <5>2 DEF Opened, Opens
        <5>4. q.waits \in BOOLEAN
          <6>1. FALSE \in BOOLEAN
            OBVIOUS
          <6> QED  BY <4>2, <6>1
        <5>5. q.cube \in (IF has_planes(device) THEN {m, Cubes} ELSE 0 .. Cubes)
          <6>1. p.cube + 1 \in 0 .. Cubes
            BY <4>1, <5>1
          <6> QED  BY <5>3, <6>1
        <5>6. Sited(n, q)
          BY <3>2, <4>2, <5>3, <5>4, <5>5 DEF Sited
        <5> QED  BY <1>3, <3>2, <5>6, SitedStays
      <4> QED  BY <4>3, <4>4
    <3>3. CASE n # m
      <4>1. at'[n] = at[n]
        BY <1>2, <3>3 DEF Opened
      <4> QED  BY <1>3, <2>1, <3>1, <4>1 DEF Sited
    <3> QED  BY <3>2, <3>3
  <2> QED  BY <1>1, <1>3, <2>1, <2>2 DEF Placed
<1> QED  BY <1>1, <1>4, <1>5, <1>6, <1>7 DEF KernelBook

(* The book is about the state alone.                                      *)
LEMMA StutterKeepsKernelBook ==
  ASSUME KernelBook, UNCHANGED vars
  PROVE  KernelBook'
<1>1. UNCHANGED <<device, launch>> /\ at' = at /\ mem' = mem /\ out' = out /\ totals' = totals
  BY DEF vars
<1>2. Lockstep'
  <2>1. Launched' /\ Slices' = Slices /\ Units' = Units /\ Program' = Program
    BY <1>1, GridStays DEF KernelBook, Lockstep
  <2> QED  BY <1>1, <2>1 DEF KernelBook, Lockstep, InStep
<1>3. /\ Slices' = Slices /\ Units' = Units /\ Cubes' = Cubes /\ OutKeys' = OutKeys /\ TotalKeys' = TotalKeys
      /\ Program' = Program /\ Cells' = Cells /\ Width' = Width /\ Merging' = Merging
      /\ \A c : SliceOf(c)' = SliceOf(c)
  BY <1>1, GeometryStays
<1>4. Placed'
  <2>1. \A m, p : Sited(m, p)' <=> Sited(m, p)
    BY <1>1, <1>3 DEF Sited
  <2> QED  BY <1>1, <1>3, <2>1 DEF KernelBook, Placed
<1>5. SharedRight'
  <2>1. \A places, slots : SharedIsRight(places, slots)' <=> SharedIsRight(places, slots)
    BY <1>1, SharedStays
  <2>2. \A m \in Slices : Running(m, 0)' <=> Running(m, 0)
    BY <1>1, <1>3 DEF Running
  <2> QED  BY <1>1, <1>3, <2>1, <2>2 DEF KernelBook, SharedRight
<1>6. \A c, u : Stored(c, u)' <=> Stored(c, u)
  BY <1>1, <1>3 DEF Stored
<1>7. OutputsRight'
  <2>1. /\ \A d, v : OutKeysOf(d, v)' = OutKeysOf(d, v) /\ TotalKeysOf(d, v)' = TotalKeysOf(d, v)
        /\ \A i : SerialOut(i)' = SerialOut(i)
        /\ \A i : SerialTotal(i)' = SerialTotal(i)
    BY <1>1, ResultsStay
  <2> QED  BY <1>1, <1>3, <1>6, <2>1 DEF KernelBook, OutputsRight
<1>8. AccumulatorsRight'
  <2>1. /\ \A S : SumOver(S)' = SumOver(S)
        /\ CubeRounded' = CubeRounded /\ Rounded' = Rounded /\ \A i : CubeOf(i)' = CubeOf(i)
    BY <1>1, LoadsStay, ResultsStay
  <2>2. (\A S : InStored(S)' = InStored(S)) /\ (\A S, k : InMerged(S, k)' = InMerged(S, k))
    BY <1>1, <1>3, <2>1 DEF InStored, InMerged
  <2>3. \A u : StoredCubes(u)' = StoredCubes(u)
    BY <1>3, <1>6 DEF StoredCubes
  <2> QED  BY <1>1, <1>3, <2>1, <2>2, <2>3 DEF KernelBook, AccumulatorsRight
<1> QED  BY <1>2, <1>4, <1>5, <1>7, <1>8 DEF KernelBook

(* Whatever the order in which the units run, on every device, at every    *)
(* width the host may choose and for every launch, a launch that finishes  *)
(* returns what its serial loop does.                                      *)
THEOREM KernelsAreSerial == Spec => []LaunchesAreSerial
<1>1. Init => KernelBook
  BY InitKernelBook
<1>2. KernelBook /\ [Next]_vars => KernelBook'
  <2> SUFFICES ASSUME KernelBook, [Next]_vars PROVE KernelBook'
    OBVIOUS
  <2>1. ASSUME NEW m \in Slices, NEW u \in Units, Step(m, u) PROVE KernelBook'
    BY <2>1, StepKeepsKernelBook
  <2>2. ASSUME NEW m \in Slices, sync_cube(m) PROVE KernelBook'
    BY <2>2, BarrierKeepsKernelBook
  <2>3. CASE UNCHANGED vars
    BY <2>3, StutterKeepsKernelBook
  <2> QED  BY <2>1, <2>2, <2>3 DEF Next, Return
<1>3. KernelBook => LaunchesAreSerial
  BY FinishedIsSerial DEF LaunchesAreSerial
<1> QED  BY <1>1, <1>2, <1>3, PTL DEF Spec

=============================================================================
