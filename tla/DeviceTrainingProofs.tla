-------------------------- MODULE DeviceTrainingProofs --------------------------
(***************************************************************************)
(* Theorems about DeviceTraining, for every set of configurations and any  *)
(* number of fits, trees, objects and features: who grows an ensemble, who *)
(* samples its trees, whose session is resident, and that the learn stream *)
(* stands at each tree where the CPU trainer's would.                      *)
(***************************************************************************)
EXTENDS DeviceTraining, Induction, FiniteSetTheorems, SequenceTheorems

DeviceSteps == {"sample", "grow", "replay"}
CpuSteps == {"cpu_sample", "search", "leaves", "post"}
SetupSteps == {"raw", "host", "commit"}
Steps == GrowSteps \cup SetupSteps \cup {"idle", "tree", "drop"}

Shape ==
  /\ pc \in Steps
  /\ active \in BOOLEAN
  /\ trees \in Seq({"cpu", "device"})
  /\ pc # "idle" => fit \in Configurations

(* Which branch a step belongs to, and what reached it.                    *)
Branches ==
  /\ pc \in DeviceSteps => active
  /\ pc \in CpuSteps => ~active
  /\ pc \in SetupSteps \cup {"idle"} => trees = <<>>
  /\ active \/ pc \in {"raw", "host"} => HostEligible(fit)
  /\ pc = "grow" => sample = (IF HostDraws(fit) THEN "full" ELSE "empty")
  /\ pc = "tree" \/ MidTree => (fit.bootstrap = "Poisson" => active)

IInv == Shape /\ SessionIsTheFits /\ Branches /\ OneGrower

(* The initial state has no fit, no session and no tree.                   *)
LEMMA InitInductive == Init => IInv
<1> SUFFICES ASSUME Init PROVE IInv
  OBVIOUS
<1>1. Shape
  <2>1. pc \in Steps /\ active \in BOOLEAN /\ pc = "idle"
    BY DEF Init, Steps
  <2>2. trees \in Seq({"cpu", "device"})
    BY EmptySeq DEF Init
  <2> QED
    BY <2>1, <2>2 DEF Shape
<1>2. SessionIsTheFits
  BY DEF Init, SessionIsTheFits
<1>3. Branches
  BY DEF Init, Branches, DeviceSteps, CpuSteps, SetupSteps, MidTree, GrowSteps
<1>4. OneGrower
  BY DEF Init, OneGrower, InFit
<1> QED
  BY <1>1, <1>2, <1>3, <1>4 DEF IInv

(* A session opened for a fit is one.                                      *)
LEMMA OpenedIsASession == ASSUME NEW c PROVE Opened(c) # NoSession
  BY FitsAssumption DEF Opened, sample_from_host

(* Every step keeps pc, the ensemble and the fit what they are.            *)
LEMMA ShapeInductive == IInv /\ Next => Shape'
<1> SUFFICES ASSUME IInv, Next PROVE Shape'
  OBVIOUS
<1> USE DEF IInv, Shape, Steps, Branches
<1> USE DEF DeviceSteps, CpuSteps, SetupSteps, GrowSteps, rng, tree
<1>1. CASE Begin
  BY <1>1, FitsAssumption DEF Begin
<1>2. CASE OfferRaw
  BY <1>2 DEF OfferRaw
<1>3. CASE OfferHost
  BY <1>3 DEF OfferHost
<1>4. CASE OfferFails
  BY <1>4, EmptySeq DEF OfferFails, Leave
<1>5. CASE Commit
  BY <1>5 DEF Commit
<1>6. CASE NextTree
  BY <1>6 DEF NextTree
<1>7. CASE SampleForDevice
  BY <1>7 DEF SampleForDevice
<1>8. CASE GrowOnDevice
  BY <1>8 DEF GrowOnDevice
<1>9. CASE Replay
  BY <1>9 DEF Replay
<1>10. CASE CpuSample
  BY <1>10 DEF CpuSample
<1>11. CASE SearchLevel
  BY <1>11 DEF SearchLevel
<1>12. CASE SearchEnds
  BY <1>12 DEF SearchEnds
<1>13. CASE EstimateLeaves
  BY <1>13 DEF EstimateLeaves
<1>14. CASE PostTree
  BY <1>14 DEF PostTree
<1>15. CASE Fail
  BY <1>15 DEF Fail
<1>16. CASE Drop
  BY <1>16, EmptySeq DEF Drop, Leave
<1> QED
  BY <1>1, <1>2, <1>3, <1>4, <1>5, <1>6, <1>7, <1>8, <1>9, <1>10,
     <1>11, <1>12, <1>13, <1>14, <1>15, <1>16
    DEF Next, Running, Setup, DeviceBranch, CpuBranch

(* The session changes hands only where the guard does: a commit takes     *)
(* what the offer stored, a drop ends what was committed.                  *)
LEMMA SessionInductive == IInv /\ Next => SessionIsTheFits'
<1> SUFFICES ASSUME IInv, Next PROVE SessionIsTheFits'
  OBVIOUS
<1> USE DEF IInv, Shape, Branches, SessionIsTheFits
<1> USE DEF DeviceSteps, CpuSteps, SetupSteps, GrowSteps, rng, tree
<1>1. CASE Begin
  BY <1>1 DEF Begin
<1>2. CASE OfferRaw
  BY <1>2, OpenedIsASession DEF OfferRaw
<1>3. CASE OfferHost
  BY <1>3, OpenedIsASession DEF OfferHost
<1>4. CASE OfferFails
  BY <1>4 DEF OfferFails, Leave
<1>5. CASE Commit
  BY <1>5 DEF Commit
<1>6. CASE NextTree
  BY <1>6 DEF NextTree
<1>7. CASE SampleForDevice
  BY <1>7 DEF SampleForDevice
<1>8. CASE GrowOnDevice
  BY <1>8 DEF GrowOnDevice
<1>9. CASE Replay
  BY <1>9 DEF Replay
<1>10. CASE CpuSample
  BY <1>10 DEF CpuSample
<1>11. CASE SearchLevel
  BY <1>11 DEF SearchLevel
<1>12. CASE SearchEnds
  BY <1>12 DEF SearchEnds
<1>13. CASE EstimateLeaves
  BY <1>13 DEF EstimateLeaves
<1>14. CASE PostTree
  BY <1>14 DEF PostTree
<1>15. CASE Fail
  BY <1>15 DEF Fail
<1>16. CASE Drop
  BY <1>16 DEF Drop, Leave
<1> QED
  BY <1>1, <1>2, <1>3, <1>4, <1>5, <1>6, <1>7, <1>8, <1>9, <1>10,
     <1>11, <1>12, <1>13, <1>14, <1>15, <1>16
    DEF Next, Running, Setup, DeviceBranch, CpuBranch

(* The branch a step is in was decided by the commit, and the sample it    *)
(* carries by the configuration.                                           *)
LEMMA BranchesInductive == IInv /\ Next => Branches'
<1> SUFFICES ASSUME IInv, Next PROVE Branches'
  OBVIOUS
<1> USE DEF IInv, Shape, Branches, SessionIsTheFits, MidTree
<1> USE DEF DeviceSteps, CpuSteps, SetupSteps, GrowSteps, rng, tree
<1>1. CASE Begin
  BY <1>1, FitsAssumption DEF Begin
<1>2. CASE OfferRaw
  BY <1>2 DEF OfferRaw
<1>3. CASE OfferHost
  BY <1>3 DEF OfferHost
<1>4. CASE OfferFails
  BY <1>4 DEF OfferFails, Leave
<1>5. CASE Commit
  BY <1>5 DEF Commit
<1>6. CASE NextTree
  BY <1>6 DEF NextTree
<1>7. CASE SampleForDevice
  BY <1>7 DEF SampleForDevice, DrawSample
<1>8. CASE GrowOnDevice
  BY <1>8 DEF GrowOnDevice
<1>9. CASE Replay
  BY <1>9 DEF Replay
<1>10. CASE CpuSample
  BY <1>10 DEF CpuSample, DrawSample
<1>11. CASE SearchLevel
  BY <1>11 DEF SearchLevel
<1>12. CASE SearchEnds
  BY <1>12 DEF SearchEnds
<1>13. CASE EstimateLeaves
  BY <1>13 DEF EstimateLeaves
<1>14. CASE PostTree
  BY <1>14 DEF PostTree
<1>15. CASE Fail
  BY <1>15 DEF Fail
<1>16. CASE Drop
  BY <1>16 DEF Drop, Leave
<1> QED
  BY <1>1, <1>2, <1>3, <1>4, <1>5, <1>6, <1>7, <1>8, <1>9, <1>10,
     <1>11, <1>12, <1>13, <1>14, <1>15, <1>16
    DEF Next, Running, Setup, DeviceBranch, CpuBranch

(* A tree joins an ensemble all of whose trees its own side grew.          *)
LEMMA OneGrowerInductive == IInv /\ Next => OneGrower'
<1> SUFFICES ASSUME IInv, Next PROVE OneGrower'
  OBVIOUS
<1> USE DEF IInv, Shape, Branches, OneGrower, InFit
<1> USE DEF DeviceSteps, CpuSteps, SetupSteps, GrowSteps, rng, tree
<1>1. CASE Begin
  BY <1>1 DEF Begin
<1>2. CASE OfferRaw
  BY <1>2 DEF OfferRaw
<1>3. CASE OfferHost
  BY <1>3 DEF OfferHost
<1>4. CASE OfferFails
  BY <1>4 DEF OfferFails, Leave
<1>5. CASE Commit
  BY <1>5 DEF Commit
<1>6. CASE NextTree
  BY <1>6 DEF NextTree
<1>7. CASE SampleForDevice
  BY <1>7 DEF SampleForDevice
<1>8. CASE GrowOnDevice
  BY <1>8 DEF GrowOnDevice
<1>9. CASE Replay
  BY <1>9 DEF Replay
<1>10. CASE CpuSample
  BY <1>10 DEF CpuSample
<1>11. CASE SearchLevel
  BY <1>11 DEF SearchLevel
<1>12. CASE SearchEnds
  BY <1>12 DEF SearchEnds
<1>13. CASE EstimateLeaves
  BY <1>13 DEF EstimateLeaves
<1>14. CASE PostTree
  BY <1>14 DEF PostTree
<1>15. CASE Fail
  BY <1>15 DEF Fail
<1>16. CASE Drop
  BY <1>16 DEF Drop, Leave
<1> QED
  BY <1>1, <1>2, <1>3, <1>4, <1>5, <1>6, <1>7, <1>8, <1>9, <1>10,
     <1>11, <1>12, <1>13, <1>14, <1>15, <1>16
    DEF Next, Running, Setup, DeviceBranch, CpuBranch

(* Together: the invariant the four theorems below rest on.                *)
THEOREM Inductive == Spec => []IInv
<1>1. IInv /\ [Next]_vars => IInv'
  <2>1. IInv /\ Next => IInv'
    BY ShapeInductive, SessionInductive, BranchesInductive, OneGrowerInductive DEF IInv
  <2>2. IInv /\ UNCHANGED vars => IInv'
    BY DEF IInv, vars, rng, tree, Shape, SessionIsTheFits, Branches, OneGrower, InFit, MidTree
  <2> QED
    BY <2>1, <2>2
<1> QED
  BY InitInductive, <1>1, PTL DEF Spec

(* The session resident on the backend is always the running fit's, for    *)
(* any sequence of fits, errors and declines on it.                        *)
THEOREM SessionOwned == Spec => []SessionIsTheFits
<1>1. IInv => SessionIsTheFits
  BY DEF IInv
<1> QED
  BY Inductive, <1>1, PTL

(* No ensemble mixes trees of the two growers, of any number of trees.     *)
THEOREM GrowersNeverMix == Spec => []OneGrower
<1>1. IInv => OneGrower
  BY DEF IInv
<1> QED
  BY Inductive, <1>1, PTL

(* The device is never handed a sample its session would refuse, and never *)
(* draws a second one of its own: of what the gate lets through, the host  *)
(* draws exactly what sample_from_host says.                               *)
THEOREM DeviceSamplesOnce == Spec => []SampledOnce
<1>1. IInv => SampledOnce
  <2> SUFFICES ASSUME IInv, pc = "grow" PROVE SampledOnce
    BY DEF SampledOnce
  <2>1. session = Opened(fit) /\ session # NoSession
    BY DEF IInv, SessionIsTheFits, Branches, DeviceSteps
  <2>2. fit \in Configurations /\ HostEligible(fit)
    BY DEF IInv, Shape, Branches, DeviceSteps
  <2>3. HostDraws(fit) <=> fit.bootstrap \notin {"No", "Poisson"}
    BY <2>2 DEF HostDraws, draws_active, HostEligible
  <2>4. sample = "full" <=> fit.bootstrap \notin {"No", "Poisson"}
    BY <2>3 DEF IInv, Branches
  <2>5. /\ session.hostSample <=> fit.bootstrap \notin {"No", "Poisson"}
        /\ session.resident <=> fit.bootstrap = "Poisson"
    BY <2>1 DEF Opened, sample_from_host
  <2> QED
    BY <2>1, <2>4, <2>5 DEF SampledOnce, SampleFits
<1> QED
  BY Inductive, <1>1, PTL

(* A declined Poisson fit never reaches a tree.                            *)
THEOREM NoPoissonOnCpu == Spec => []PoissonOnDeviceOnly
<1>1. IInv => PoissonOnDeviceOnly
  BY DEF IInv, Branches, PoissonOnDeviceOnly
<1> QED
  BY Inductive, <1>1, PTL

(* A normal takes a whole number of draws.                                 *)
Costs == \A p \in Nat : NormalCost(p) \in Nat

(* What k normals leave: a position, and the same one whoever counts.      *)
LEMMA NormalsWalk ==
  ASSUME Costs
  PROVE  \A k \in Nat : \A p \in Nat : normalsEnd[k][p] \in Nat
<1> DEFINE step == [p \in Nat |-> p + NormalCost(p)]
           never == [p \in Nat |-> FALSE]
<1>1. step \in [Nat -> Nat] /\ never \in [Nat -> BOOLEAN]
  BY DEF Costs
<1>2. PICK f : Walk(Nat, step, never, f)
  <2> HIDE DEF step, never
  <2> QED  BY <1>1, WalkExists
<1>3. f = [k \in Nat |-> [p \in Nat |-> IF k = 0 THEN p ELSE f[k - 1][p + NormalCost(p)]]]
  BY <1>2 DEF Walk
<1>4. normalsEnd = [k \in Nat |-> [p \in Nat |->
                      IF k = 0 THEN p ELSE normalsEnd[k - 1][p + NormalCost(p)]]]
  BY <1>3 DEF normalsEnd
<1>5. normalsEnd = [k \in Nat |-> [p \in Nat |->
                      IF k = 0 THEN p ELSE IF never[p] THEN step[p]
                      ELSE normalsEnd[k - 1][step[p]]]]
  BY <1>4
<1>6. Walk(Nat, step, never, normalsEnd)
  <2> HIDE DEF step, never
  <2> QED  BY <1>5 DEF Walk
<1> HIDE DEF step, never
<1> QED  BY <1>1, <1>6, WalkSteps

(* A level ends at a position.                                             *)
LEMMA LevelEnds ==
  ASSUME Costs, NEW c \in Configurations, NEW p \in Nat
  PROVE  LevelEnd(c, p) \in Nat /\ LevelStops(c, p) \in BOOLEAN
<1>1. Listed \in Nat
  BY DrawsAssumption
<1>2. IsFiniteSet(1 .. Listed)
  BY <1>1, FS_Interval
<1>3. Selected(c, p) \subseteq 1 .. Listed
  BY DEF Selected
<1>4. Cardinality(Selected(c, p)) \in Nat
  BY <1>2, <1>3, FS_Subset, FS_CardinalityType
<1>5. p + Listed + 1 \in Nat
  BY <1>1
<1>6. LevelEnd(c, p) \in Nat
  BY <1>4, <1>5, NormalsWalk DEF LevelEnd, InstancesEnd
<1> QED  BY <1>6 DEF LevelStops

(* What at most k more levels leave.                                       *)
LEMMA LevelsWalk ==
  ASSUME Costs, NEW c \in Configurations
  PROVE  /\ \A p \in Nat : levelsEnd(c)[0][p] = p
         /\ \A k \in Nat : \A p \in Nat :
              levelsEnd(c)[k + 1][p] = IF LevelStops(c, p) THEN LevelEnd(c, p)
                                       ELSE levelsEnd(c)[k][LevelEnd(c, p)]
         /\ \A k \in Nat : \A p \in Nat : levelsEnd(c)[k][p] \in Nat
<1> DEFINE step == [p \in Nat |-> LevelEnd(c, p)]
           stop == [p \in Nat |-> LevelStops(c, p)]
<1>1. step \in [Nat -> Nat] /\ stop \in [Nat -> BOOLEAN]
  BY LevelEnds
<1>2. PICK f : Walk(Nat, step, stop, f)
  <2> HIDE DEF step, stop
  <2> QED  BY <1>1, WalkExists
<1>3. f = [k \in Nat |-> [p \in Nat |-> IF k = 0 THEN p
                                        ELSE IF LevelStops(c, p) THEN LevelEnd(c, p)
                                        ELSE f[k - 1][LevelEnd(c, p)]]]
  BY <1>2 DEF Walk
<1> DEFINE after == levelsEnd(c)
<1>4. after = [k \in Nat |-> [p \in Nat |-> IF k = 0 THEN p
                                        ELSE IF LevelStops(c, p) THEN LevelEnd(c, p)
                                        ELSE after[k - 1][LevelEnd(c, p)]]]
  BY <1>3 DEF levelsEnd
<1> HIDE DEF after
<1>5. after = [k \in Nat |-> [p \in Nat |-> IF k = 0 THEN p
                                        ELSE IF stop[p] THEN step[p]
                                        ELSE after[k - 1][step[p]]]]
  BY <1>4
<1>6. Walk(Nat, step, stop, after)
  <2> HIDE DEF step, stop
  <2> QED  BY <1>5 DEF Walk
<1>7. /\ \A p \in Nat : after[0][p] = p
      /\ \A k \in Nat : \A p \in Nat :
           after[k + 1][p] = IF stop[p] THEN step[p] ELSE after[k][step[p]]
      /\ \A k \in Nat : \A p \in Nat : after[k][p] \in Nat
  <2> HIDE DEF step, stop
  <2> QED  BY <1>1, <1>6, WalkSteps
<1> QED  BY <1>7 DEF after

(* The replay takes k levels over every listed feature.                    *)
LEMMA ReplayWalk ==
  ASSUME Costs
  PROVE  /\ \A p \in Nat : replayEnd[0][p] = p
         /\ \A k \in Nat : \A p \in Nat :
              replayEnd[k + 1][p] = replayEnd[k][normalsEnd[Listed][p + Listed + 1]]
         /\ \A k \in Nat : \A p \in Nat : replayEnd[k][p] \in Nat
<1> DEFINE step == [p \in Nat |-> normalsEnd[Listed][p + Listed + 1]]
           never == [p \in Nat |-> FALSE]
<1>1. step \in [Nat -> Nat] /\ never \in [Nat -> BOOLEAN]
  BY NormalsWalk, DrawsAssumption
<1>2. PICK f : Walk(Nat, step, never, f)
  <2> HIDE DEF step, never
  <2> QED  BY <1>1, WalkExists
<1>3. f = [k \in Nat |-> [p \in Nat |-> IF k = 0 THEN p
                            ELSE f[k - 1][normalsEnd[Listed][p + Listed + 1]]]]
  BY <1>2 DEF Walk
<1>4. replayEnd = [k \in Nat |-> [p \in Nat |-> IF k = 0 THEN p
                            ELSE replayEnd[k - 1][normalsEnd[Listed][p + Listed + 1]]]]
  BY <1>3 DEF replayEnd
<1>5. replayEnd = [k \in Nat |-> [p \in Nat |->
                      IF k = 0 THEN p ELSE IF never[p] THEN step[p]
                      ELSE replayEnd[k - 1][step[p]]]]
  BY <1>4
<1>6. Walk(Nat, step, never, replayEnd)
  <2> HIDE DEF step, never
  <2> QED  BY <1>5 DEF Walk
<1>7. /\ \A p \in Nat : replayEnd[0][p] = p
      /\ \A k \in Nat : \A p \in Nat :
           replayEnd[k + 1][p] = IF never[p] THEN step[p] ELSE replayEnd[k][step[p]]
      /\ \A k \in Nat : \A p \in Nat : replayEnd[k][p] \in Nat
  <2> HIDE DEF step, never
  <2> QED  BY <1>1, <1>6, WalkSteps
<1> QED  BY <1>7

(* A search that keeps every feature and draws normals is the replay's.    *)
LEMMA ReplayIsSearch ==
  ASSUME Costs, NEW c \in Configurations, ~c.rsm, c.score = "Normal"
  PROVE  \A p \in Nat : replayEnd[Depth][p] = SearchEnd(c, p)
<1>1. Listed \in Nat /\ Depth \in Nat /\ Bordered \subseteq 1 .. Listed /\ Bordered # {}
  BY DrawsAssumption
<1>2. ASSUME NEW p \in Nat
      PROVE  ~LevelStops(c, p) /\ LevelEnd(c, p) = normalsEnd[Listed][p + Listed + 1]
  <2>1. Selected(c, p) = 1 .. Listed
    BY DEF Selected
  <2>2. Cardinality(Selected(c, p)) = Listed
    BY <1>1, <2>1, FS_Interval
  <2> QED  BY <1>1, <2>1, <2>2 DEF LevelStops, LevelEnd, InstancesEnd
<1> DEFINE Same == {k \in Nat : \A p \in Nat : replayEnd[k][p] = levelsEnd(c)[k][p]}
<1>3. 0 \in Same
  BY LevelsWalk, ReplayWalk
<1>4. ASSUME NEW k \in Nat, k \in Same PROVE k + 1 \in Same
  <2>1. ASSUME NEW p \in Nat PROVE replayEnd[k + 1][p] = levelsEnd(c)[k + 1][p]
    <3>1. LevelEnd(c, p) \in Nat
      BY LevelEnds
    <3>2. replayEnd[k + 1][p] = replayEnd[k][normalsEnd[Listed][p + Listed + 1]]
      BY ReplayWalk
    <3>3. levelsEnd(c)[k + 1][p] = levelsEnd(c)[k][LevelEnd(c, p)]
      BY <1>2, LevelsWalk
    <3> QED  BY <1>2, <1>4, <3>1, <3>2, <3>3
  <2> QED  BY <2>1
<1>5. Nat \subseteq Same
  <2> HIDE DEF Same
  <2> QED  BY <1>3, <1>4, SetInduction
<1> QED  BY <1>1, <1>5 DEF SearchEnd

-----------------------------------------------------------------------------
(* Where the stream stands at each step of a tree.                         *)

(* The position after the host's sample of the tree, where the search      *)
(* begins to draw, and where it has ended.                                 *)
SampledPosition ==
  IF HostDraws(fit) THEN SampleAt(fit, treeStart) + BootstrapDraws(fit) ELSE treeStart
SearchStart ==
  IF HostDraws(fit) THEN SampledPosition + NoiseDraws(fit) ELSE treeStart
Searched == IF HostDraws(fit) THEN GrowEnd(fit, SearchStart) ELSE treeStart

(* Every tree begun has its sample recorded, at the position of the tree   *)
(* it belongs to.                                                          *)
Counts ==
  /\ levels \in 0 .. Depth /\ position \in Nat /\ treeStart \in Nat /\ sampledAt \in Seq(Nat)
  /\ pc # "idle" => fit \in Configs
  /\ active => Covered(fit)
  /\ pc \in SetupSteps \cup {"idle"} => position = 0 /\ sampledAt = <<>>
  /\ pc \in {"tree", "sample", "cpu_sample", "replay"} =>
       Len(sampledAt) = Len(trees) /\ Len(trees) <= Trees
  /\ pc \in {"sample", "cpu_sample"} => Len(trees) < Trees /\ levels = 0
  /\ pc \in {"grow", "search", "leaves", "post"} =>
       Len(sampledAt) = Len(trees) + 1 /\ Len(trees) < Trees
  /\ SampleDrawn => /\ Len(sampledAt) > 0
                    /\ sampledAt[Len(sampledAt)] = SampleAt(fit, treeStart)

(* The position at each step of a tree, counted from where the tree began. *)
Positions ==
  /\ pc \in {"sample", "cpu_sample"} => position = treeStart
  /\ pc \in {"grow", "replay"} => position = SampledPosition
  /\ pc = "search" => IF Perturbed
                        THEN levelsEnd(fit)[Depth - levels][position] = SearchEnd(fit, SearchStart)
                        ELSE position = SearchStart
  /\ pc = "leaves" => position = Searched
  /\ pc = "post" => position = IF fit.langevin THEN Searched + LeafDraws(fit) ELSE Searched

(* What a tree consumes apart from its levels is a number.                 *)
LEMMA DrawTypes ==
  ASSUME NEW c \in Configurations
  PROVE  BootstrapDraws(c) \in Nat /\ NoiseDraws(c) \in Nat /\ LeafDraws(c) \in Nat
<1>1. c.steps \in 1 .. 2
  BY DEF Configurations
<1>2. LeafDraws(c) \in Nat
  BY <1>1 DEF LeafDraws, POST_TREE_EXTRA_DRAWS
<1>3. BootstrapDraws(c) \in Nat
  BY DrawsAssumption DEF BootstrapDraws
<1> QED  BY <1>2, <1>3 DEF NoiseDraws

(* On the CPU the search starts where its tree's sample and noise end.     *)
LEMMA CpuDraws ==
  ASSUME IInv, pc \in CpuSteps
  PROVE  fit \in Configurations /\ (draws_active(fit) <=> HostDraws(fit))
<1>1. fit \in Configurations /\ fit.bootstrap # "Poisson"
  BY DEF IInv, Shape, Branches, CpuSteps, MidTree, GrowSteps
<1> QED  BY <1>1 DEF HostDraws

(* Reading a sample appends its place to those of the trees before.        *)
LEMMA SampleRead ==
  ASSUME Counts, fit \in Configurations, NEW noise \in Nat, DrawSample(noise)
  PROVE  /\ position' \in Nat /\ treeStart' = treeStart
         /\ sampledAt' \in Seq(Nat) /\ Len(sampledAt') = Len(sampledAt) + 1
         /\ sampledAt'[Len(sampledAt')] = SampleAt(fit, position)
         /\ SubSeq(sampledAt', 1, Len(sampledAt') - 1) = sampledAt
<1>1. SampleAt(fit, position) \in Nat /\ position \in Nat /\ sampledAt \in Seq(Nat)
  BY DEF Counts, SampleAt, PRE_TREE_DRAWS
<1>2. BootstrapDraws(fit) \in Nat
  BY DrawTypes
<1>3. position' \in Nat
  BY <1>1, <1>2 DEF DrawSample
<1>4. sampledAt' = Append(sampledAt, SampleAt(fit, position))
  BY DEF DrawSample
<1> QED  BY <1>1, <1>3, <1>4 DEF DrawSample

(* Each step keeps the record of the samples.                              *)
LEMMA CountsInductive == ASSUME Costs, IInv, Counts, Positions, Next PROVE Counts'
<1> USE DEF IInv, Shape, Branches, SessionIsTheFits, MidTree, SampleDrawn, Counts
<1> USE DEF DeviceSteps, CpuSteps, SetupSteps, GrowSteps, rng, tree, Steps
<1> USE DrawsAssumption, FitsAssumption
<1>1. CASE Begin
  BY <1>1 DEF Begin
<1>2. CASE OfferRaw
  BY <1>2, OpenedIsASession DEF OfferRaw
<1>3. CASE OfferHost
  BY <1>3, OpenedIsASession DEF OfferHost
<1>4. CASE OfferFails
  BY <1>4, EmptySeq DEF OfferFails, Leave
<1>5. CASE Commit
  BY <1>5 DEF Commit
<1>6. CASE NextTree
  BY <1>6 DEF NextTree
<1>7. CASE SampleForDevice
  <2>1. DrawSample(0) /\ fit \in Configurations /\ position = treeStart
    BY <1>7 DEF SampleForDevice, Positions
  <2> QED  BY <1>7, <2>1, SampleRead DEF SampleForDevice, SampleAt
<1>8. CASE GrowOnDevice
  BY <1>8 DEF GrowOnDevice
<1>9. CASE Replay
  <2>1. position' \in Nat
    <3>1. Depth \in Nat /\ position \in Nat
      OBVIOUS
    <3>2. replayEnd[Depth][position] \in Nat
      BY <3>1, ReplayWalk
    <3>3. ReplayEnd(fit, position) \in Nat
      BY <3>1, <3>2 DEF ReplayEnd
    <3> QED  BY <1>9, <3>1, <3>3 DEF Replay, POST_TREE_EXTRA_DRAWS
  <2> QED  BY <1>9, <2>1 DEF Replay
<1>10. CASE CpuSample
  <2>1. /\ DrawSample(NoiseDraws(fit)) /\ fit \in Configurations /\ NoiseDraws(fit) \in Nat
        /\ position = treeStart
    BY <1>10, DrawTypes DEF CpuSample, Positions
  <2> QED  BY <1>10, <2>1, SampleRead DEF CpuSample, SampleAt
<1>11. CASE SearchLevel
  <2>1. position' \in Nat
    BY <1>11, LevelEnds DEF SearchLevel
  <2> QED  BY <1>11, <2>1 DEF SearchLevel
<1>12. CASE SearchEnds
  BY <1>12 DEF SearchEnds
<1>13. CASE EstimateLeaves
  <2>1. position' \in Nat
    BY <1>13, DrawTypes DEF EstimateLeaves
  <2> QED  BY <1>13, <2>1 DEF EstimateLeaves
<1>14. CASE PostTree
  <2>1. position' \in Nat
    BY <1>14 DEF PostTree, POST_TREE_EXTRA_DRAWS
  <2> QED  BY <1>14, <2>1 DEF PostTree
<1>15. CASE Fail
  BY <1>15 DEF Fail
<1>16. CASE Drop
  BY <1>16, EmptySeq DEF Drop, Leave
<1> QED
  BY <1>1, <1>2, <1>3, <1>4, <1>5, <1>6, <1>7, <1>8, <1>9, <1>10,
     <1>11, <1>12, <1>13, <1>14, <1>15, <1>16
    DEF Next, Running, Setup, DeviceBranch, CpuBranch

(* Each step leaves the generator at the position of the next step.        *)
LEMMA PositionsInductive == ASSUME Costs, IInv, Counts, Positions, Next PROVE Positions'
<1> USE DEF rng, tree, Positions
<1>1. CASE Begin \/ OfferRaw \/ OfferHost \/ OfferFails \/ Commit \/ Drop \/ Fail
  <2>1. pc' \notin GrowSteps
    BY <1>1 DEF Begin, OfferRaw, OfferHost, OfferFails, Commit, Drop, Fail, Leave, GrowSteps
  <2> QED  BY <2>1 DEF GrowSteps
<1>2. CASE NextTree
  BY <1>2 DEF NextTree
<1>3. CASE SampleForDevice
  <2>1. pc' = "grow" /\ position = treeStart /\ treeStart' = treeStart /\ fit' = fit
    BY <1>3 DEF SampleForDevice, DrawSample
  <2>2. position' = IF HostDraws(fit) THEN SampleAt(fit, treeStart) + BootstrapDraws(fit) + 0
                    ELSE treeStart
    BY <1>3, <2>1 DEF SampleForDevice, DrawSample
  <2>3. fit \in Configurations /\ treeStart \in Nat
    BY <1>3 DEF SampleForDevice, IInv, Shape, Counts
  <2>4. SampleAt(fit, treeStart) + BootstrapDraws(fit) \in Nat
    BY <2>3, DrawTypes DEF SampleAt, PRE_TREE_DRAWS
  <2>5. position' = SampledPosition
    BY <2>2, <2>4 DEF SampledPosition
  <2> QED  BY <2>1, <2>5 DEF SampledPosition
<1>4. CASE GrowOnDevice
  BY <1>4 DEF GrowOnDevice, SampledPosition
<1>5. CASE Replay \/ PostTree
  BY <1>5 DEF Replay, PostTree
<1>6. CASE CpuSample
  <2>1. /\ pc' = "search" /\ fit' = fit /\ treeStart' = treeStart /\ levels' = levels
        /\ position = treeStart /\ fit \in Configurations /\ (draws_active(fit) <=> HostDraws(fit))
    BY <1>6, CpuDraws DEF CpuSample, DrawSample, CpuSteps
  <2>2. position' = SearchStart /\ SearchStart' = SearchStart
    BY <1>6, <2>1 DEF CpuSample, DrawSample, SearchStart, SampledPosition
  <2>3. levels = 0
    BY <1>6 DEF CpuSample, Counts
  <2>4. Depth - levels = Depth
    BY <2>3, DrawsAssumption
  <2>5. Perturbed' <=> Perturbed
    BY <2>1 DEF Perturbed
  <2>6. levelsEnd(fit')[Depth - levels'][position'] = SearchEnd(fit', SearchStart')
    BY <2>1, <2>2, <2>4 DEF SearchEnd
  <2> QED  BY <2>1, <2>2, <2>5, <2>6
<1>7. CASE SearchLevel
  <2>1. /\ pc = "search" /\ Perturbed /\ levels < Depth /\ fit' = fit /\ treeStart' = treeStart
        /\ position' = LevelEnd(fit, position) /\ levels' = levels + 1
        /\ pc' = IF LevelStops(fit, position) THEN "leaves" ELSE "search"
    BY <1>7 DEF SearchLevel
  <2>2. /\ levels \in Nat /\ Depth \in Nat /\ position \in Nat /\ fit \in Configurations
        /\ (draws_active(fit) <=> HostDraws(fit))
    BY <2>1, CpuDraws, DrawsAssumption DEF Counts, CpuSteps
  <2> DEFINE k == Depth - levels'
  <2>3. k \in Nat /\ k + 1 = Depth - levels
    BY <2>1, <2>2
  <2>4. levelsEnd(fit)[k + 1][position] = SearchEnd(fit, SearchStart)
    BY <2>1, <2>3
  <2> HIDE DEF k
  <2>5. levelsEnd(fit)[k + 1][position] = IF LevelStops(fit, position) THEN LevelEnd(fit, position)
                                          ELSE levelsEnd(fit)[k][LevelEnd(fit, position)]
    <3>1. \A j \in Nat : \A p \in Nat :
            levelsEnd(fit)[j + 1][p] = IF LevelStops(fit, p) THEN LevelEnd(fit, p)
                                       ELSE levelsEnd(fit)[j][LevelEnd(fit, p)]
      BY <2>2, LevelsWalk
    <3> QED  BY <2>2, <2>3, <3>1
  <2>6. SearchStart' = SearchStart /\ (Perturbed' <=> Perturbed) /\ Searched' = Searched
    BY <2>1 DEF SearchStart, SampledPosition, Perturbed, Searched
  <2>7. CASE LevelStops(fit, position)
    <3>1. position' = SearchEnd(fit, SearchStart)
      BY <2>1, <2>4, <2>5, <2>7
    <3>2. Searched = SearchEnd(fit, SearchStart)
      BY <2>1, <2>2 DEF Searched, GrowEnd, Perturbed
    <3> QED  BY <2>1, <2>6, <2>7, <3>1, <3>2
  <2>8. CASE ~LevelStops(fit, position)
    <3>1. levelsEnd(fit')[Depth - levels'][position'] = SearchEnd(fit', SearchStart')
      BY <2>1, <2>4, <2>5, <2>6, <2>8 DEF k
    <3> QED  BY <2>1, <2>6, <2>8, <3>1
  <2> QED  BY <2>7, <2>8
<1>8. CASE SearchEnds
  <2>1. /\ pc = "search" /\ pc' = "leaves" /\ (Perturbed => levels = Depth)
        /\ fit' = fit /\ treeStart' = treeStart /\ position' = position
    BY <1>8 DEF SearchEnds
  <2>2. /\ Depth \in Nat /\ position \in Nat /\ fit \in Configurations
        /\ (draws_active(fit) <=> HostDraws(fit))
    BY <2>1, CpuDraws, DrawsAssumption DEF Counts, CpuSteps
  <2>3. Searched' = Searched
    BY <2>1 DEF SearchStart, SampledPosition, Searched
  <2>4. CASE Perturbed
    <3>1. Depth - levels = 0
      BY <2>1, <2>2, <2>4
    <3>2. position = SearchEnd(fit, SearchStart)
      BY <2>1, <2>2, <2>4, <3>1, LevelsWalk
    <3> QED  BY <2>1, <2>2, <2>3, <2>4, <3>2 DEF Searched, GrowEnd, Perturbed
  <2>5. CASE ~Perturbed
    <3>1. position = SearchStart
      BY <2>1, <2>5
    <3>2. Searched = SearchStart
      BY <2>2, <2>5 DEF Searched, GrowEnd, Perturbed, SearchStart
    <3> QED  BY <2>1, <2>3, <3>1, <3>2
  <2> QED  BY <2>4, <2>5
<1>9. CASE EstimateLeaves
  <2>1. /\ pc = "leaves" /\ pc' = "post" /\ fit' = fit /\ treeStart' = treeStart
        /\ position' = IF fit.langevin THEN position + LeafDraws(fit) ELSE position
    BY <1>9 DEF EstimateLeaves
  <2>2. Searched' = Searched
    BY <2>1 DEF SearchStart, SampledPosition, Searched
  <2> QED  BY <2>1, <2>2
<1> QED
  BY <1>1, <1>2, <1>3, <1>4, <1>5, <1>6, <1>7, <1>8, <1>9
    DEF Next, Running, Setup, DeviceBranch, CpuBranch

-----------------------------------------------------------------------------
(* The device refines the stream.                                          *)

(* The score noise of every fit the device samples for is drawn as         *)
(* normals, which is what the replay takes.                                *)
AllReplayable == \A c \in Configs : Replayable(c)

(* The abstract stream charges a tree what the growers do.                 *)
LEMMA SameStream ==
  ASSUME NEW c, NEW p
  PROVE  Stream!SampleAt(c, p) = SampleAt(c, p) /\ Stream!TreeEnd(c, p) = TreeEnd(c, p)
<1>1. Stream!SampleAt(c, p) = SampleAt(c, p) /\ (Stream!HostDraws(c) <=> HostDraws(c))
  BY DEF Stream!SampleAt, Stream!HostDraws, Stream!draws_active, Stream!PRE_TREE_DRAWS,
         SampleAt, HostDraws, draws_active, PRE_TREE_DRAWS
<1>2. /\ Stream!BootstrapDraws(c) = BootstrapDraws(c)
      /\ Stream!NoiseDraws(c) = NoiseDraws(c) /\ Stream!LeafDraws(c) = LeafDraws(c)
  BY DEF Stream!BootstrapDraws, Stream!NoiseDraws, Stream!LeafDraws, Stream!POST_TREE_EXTRA_DRAWS,
         BootstrapDraws, NoiseDraws, LeafDraws, POST_TREE_EXTRA_DRAWS
<1>3. Stream!Grower(c) = Grower(c)
  BY DEF Stream!Grower, Grower
<1>4. Stream!normalsEnd = normalsEnd
  BY DEF Stream!normalsEnd, normalsEnd
<1>5. ASSUME NEW q
      PROVE  /\ Stream!LevelEnd(c, q) = LevelEnd(c, q)
             /\ Stream!LevelStops(c, q) <=> LevelStops(c, q)
  <2>1. Stream!Selected(c, q) = Selected(c, q)
    BY DEF Stream!Selected, Selected
  <2>2. ASSUME NEW k, NEW r PROVE Stream!InstancesEnd(c, k, r) = InstancesEnd(c, k, r)
    BY <1>4 DEF Stream!InstancesEnd, InstancesEnd
  <2>3. Stream!LevelStops(c, q) <=> LevelStops(c, q)
    BY <2>1 DEF Stream!LevelStops, LevelStops
  <2>4. Stream!LevelEnd(c, q) = Stream!InstancesEnd(c, Cardinality(Selected(c, q)), q + Listed + 1)
    BY <2>1 DEF Stream!LevelEnd, Stream!Cardinality, Cardinality
  <2>5. LevelEnd(c, q) = InstancesEnd(c, Cardinality(Selected(c, q)), q + Listed + 1)
    BY DEF LevelEnd
  <2>6. Stream!LevelEnd(c, q) = LevelEnd(c, q)
    BY <2>2, <2>4, <2>5
  <2> QED  BY <2>3, <2>6
<1>6. Stream!levelsEnd(c) = levelsEnd(c)
  BY <1>5 DEF Stream!levelsEnd, levelsEnd
<1>7. ASSUME NEW q PROVE Stream!GrowEnd(c, q) = GrowEnd(c, q)
  BY <1>3, <1>6 DEF Stream!GrowEnd, GrowEnd, Stream!SearchEnd, SearchEnd
<1> QED
  BY <1>1, <1>2, <1>7 DEF Stream!TreeEnd, TreeEnd

(* A backend without a fit is a stream that nobody has begun.              *)
LEMMA RefinesInit == Init => Stream!Idle
BY DEF Init, Stream!Idle, streamFit, streamSamples, streamPosition, InFit

(* The phase a committed tree leaves is the one the CPU's would have left. *)
LEMMA ReplayKeepsPhase ==
  ASSUME Costs, AllReplayable, IInv, Counts, Positions, Replay
  PROVE  position' = TreeEnd(fit, treeStart)
<1>1. /\ fit \in Configs /\ fit \in Configurations /\ Replayable(fit) /\ active
      /\ HostEligible(fit) /\ Covered(fit) /\ position = SampledPosition /\ treeStart \in Nat
      /\ position \in Nat
  BY DEF Replay, AllReplayable, IInv, Shape, Branches, Counts, Positions, DeviceSteps
<1>2. CASE ~HostDraws(fit)
  BY <1>1, <1>2 DEF Replay, TreeEnd, SampledPosition
<1>3. CASE HostDraws(fit)
  <2>1. /\ fit.bootstrap \notin {"No", "Poisson"} /\ ~fit.rsm /\ ~fit.langevin
        /\ ~fit.ctr /\ ~fit.ordered /\ fit.score = "Normal"
    BY <1>1, <1>3 DEF HostDraws, draws_active, HostEligible, Covered, Replayable
  <2>2. NoiseDraws(fit) = 0 /\ LeafDraws(fit) = POST_TREE_EXTRA_DRAWS
    BY <2>1 DEF NoiseDraws, LeafDraws
  <2>3. SampleAt(fit, treeStart) + BootstrapDraws(fit) + NoiseDraws(fit) = position
    BY <1>1, <1>3, <2>2 DEF SampledPosition
  <2>4. ReplayEnd(fit, position) = GrowEnd(fit, position)
    <3>1. CASE fit.policy = "SymmetricTree"
      <4>1. Grower(fit) = "perturbed"
        BY <2>1, <3>1 DEF Grower
      <4>2. replayEnd[Depth][position] = SearchEnd(fit, position)
        BY <1>1, <2>1, ReplayIsSearch
      <4> QED  BY <3>1, <4>1, <4>2 DEF ReplayEnd, GrowEnd
    <3>2. CASE fit.policy # "SymmetricTree"
      <4>1. Grower(fit) # "perturbed"
        BY <1>1, <3>2 DEF Grower, Configurations, Policies
      <4> QED  BY <3>2, <4>1 DEF ReplayEnd, GrowEnd
    <3> QED  BY <3>1, <3>2
  <2> QED  BY <1>3, <2>2, <2>3, <2>4 DEF Replay, TreeEnd
<1> QED  BY <1>2, <1>3

(* The post-tree draws end at the end of the tree.                         *)
LEMMA PostKeepsPhase ==
  ASSUME IInv, Counts, Positions, PostTree
  PROVE  position' = TreeEnd(fit, treeStart)
<1>1. /\ fit \in Configurations /\ (draws_active(fit) <=> HostDraws(fit))
      /\ position = (IF fit.langevin THEN Searched + LeafDraws(fit) ELSE Searched)
  BY CpuDraws DEF PostTree, Positions, CpuSteps
<1>2. fit.langevin => draws_active(fit)
  BY Zenon DEF draws_active
<1> QED
  BY <1>1, <1>2
    DEF PostTree, Searched, SearchStart, SampledPosition, TreeEnd, LeafDraws, POST_TREE_EXTRA_DRAWS

(* A sequence is its prefix and its last element.                          *)
LEMMA LastApart ==
  ASSUME NEW s \in Seq(Nat), Len(s) > 0
  PROVE  /\ Len(SubSeq(s, 1, Len(s) - 1)) = Len(s) - 1
         /\ s = Append(SubSeq(s, 1, Len(s) - 1), s[Len(s)])
<1> DEFINE n == Len(s)
           r == SubSeq(s, 1, n - 1)
<1>1. n \in Nat /\ n >= 1 /\ 1 \in 1 .. n /\ n \in n .. n /\ n \in 1 .. n
  BY LenProperties
<1>2. s = r \o <<s[n]>>
  <2>1. SubSeq(s, 1, n) = r \o <<s[n]>>
    <3> HIDE DEF n
    <3> QED  BY <1>1, SubSeqRecursiveSecond DEF n
  <2> QED  BY <2>1, SubSeqFull
<1>3. \A i \in 1 .. n - 1 : s[i] \in Nat
  BY <1>1, ElementOfSeq
<1>4. r \in Seq(Nat) /\ Len(r) = n - 1
  <2>1. 1 \in Int /\ n - 1 \in Int
    BY <1>1
  <2> HIDE DEF n
  <2> QED  BY <1>1, <1>3, <2>1, SubSeqProperties
<1>5. Append(r, s[n]) = r \o <<s[n]>>
  BY <1>1, <1>4, ElementOfSeq, AppendIsConcat
<1> QED  BY <1>2, <1>4, <1>5

(* A tree of the stream ends where one of the fit does.                    *)
LEMMA RefinesGrowTree ==
  ASSUME IInv, Counts, pc \in {"replay", "post"}, pc' = "tree",
         fit' = fit, sampledAt' = sampledAt, position' = TreeEnd(fit, treeStart)
  PROVE  Stream!GrowTree
<1>1. /\ InFit /\ InFit' /\ MidTree /\ ~MidTree' /\ SampleDrawn /\ ~SampleDrawn'
  BY DEF InFit, MidTree, SampleDrawn, GrowSteps
<1>2. fit # NoFit /\ streamFit = fit /\ streamFit' = fit
  BY <1>1, FitsAssumption DEF streamFit, IInv, Shape
<1>3. /\ Len(sampledAt) > 0 /\ sampledAt[Len(sampledAt)] = SampleAt(fit, treeStart)
      /\ Len(sampledAt) <= Trees /\ sampledAt \in Seq(Nat)
  BY <1>1, FitsAssumption DEF Counts, IInv, Shape
<1> DEFINE s == SubSeq(sampledAt, 1, Len(sampledAt) - 1)
<1>4. streamSamples = s /\ streamSamples' = sampledAt
  BY <1>1 DEF streamSamples
<1>5. Len(s) = Len(sampledAt) - 1 /\ sampledAt = Append(s, sampledAt[Len(sampledAt)])
  BY <1>3, LastApart
<1>6. Len(streamSamples) < Trees
  BY <1>3, <1>4, <1>5, FitsAssumption
<1>7. streamPosition = treeStart /\ streamPosition' = TreeEnd(fit, treeStart)
  BY <1>1 DEF streamPosition
<1>8. streamSamples' = Append(streamSamples, SampleAt(fit, treeStart))
  BY <1>3, <1>4, <1>5
<1> QED  BY <1>2, <1>6, <1>7, <1>8, SameStream DEF Stream!GrowTree

(* A fit that ends, in whatever way, ends its stream.                      *)
LEMMA RefinesEnd ==
  ASSUME IInv, InFit, ~InFit'
  PROVE  Stream!End
<1>1. streamFit # NoFit
  BY FitsAssumption DEF streamFit, IInv, Shape, InFit
<1>2. streamFit' = NoFit /\ streamSamples' = <<>> /\ streamPosition' = 0
  BY DEF streamFit, streamSamples, streamPosition
<1> QED  BY <1>1, <1>2 DEF Stream!End

(* A step inside a tree, or before the first, moves nothing of the stream. *)
LEMMA RefinesStutter ==
  ASSUME InFit, InFit', fit' = fit, MidTree' <=> MidTree, SampleDrawn' <=> SampleDrawn,
         sampledAt' = sampledAt, treeStart' = treeStart, ~MidTree => position' = position
  PROVE  UNCHANGED Stream!stream
BY DEF streamFit, streamSamples, streamPosition, Stream!stream

(* Every step is a step of the abstract stream or leaves it alone.         *)
LEMMA RefinesStep ==
  ASSUME Costs, AllReplayable, IInv, Counts, Positions, [Next]_vars
  PROVE  [Stream!Next]_(Stream!stream)
<1> USE DEF rng, tree
<1>1. CASE Begin
  <2>1. ~InFit /\ InFit' /\ ~MidTree' /\ fit' \in Configs
    BY <1>1 DEF Begin, InFit, MidTree, GrowSteps
  <2>2. sampledAt' = <<>> /\ position' = 0
    BY <1>1 DEF Begin, Counts
  <2>3. Stream!Idle
    BY <2>1 DEF Stream!Idle, streamFit, streamSamples, streamPosition
  <2>4. streamFit' \in Configs /\ streamSamples' = <<>> /\ streamPosition' = 0
    BY <2>1, <2>2 DEF streamFit, streamSamples, streamPosition, SampleDrawn
  <2> QED  BY <2>3, <2>4 DEF Stream!Start, Stream!Next, Stream!Idle
<1>2. CASE OfferRaw \/ OfferHost \/ GrowOnDevice \/ SearchLevel \/ SearchEnds \/ EstimateLeaves
  <2>1. /\ InFit /\ InFit' /\ fit' = fit /\ (MidTree' <=> MidTree)
        /\ (SampleDrawn' <=> SampleDrawn) /\ sampledAt' = sampledAt /\ treeStart' = treeStart
        /\ (~MidTree => position' = position)
    BY <1>2 DEF OfferRaw, OfferHost, GrowOnDevice, SearchLevel, SearchEnds, EstimateLeaves,
                InFit, MidTree, SampleDrawn, GrowSteps
  <2> QED  BY <2>1, RefinesStutter
<1>3. CASE OfferFails \/ Fail
  <2>1. InFit /\ ~InFit'
    BY <1>3 DEF OfferFails, Fail, Leave, InFit, GrowSteps
  <2> QED  BY <2>1, RefinesEnd DEF Stream!Next
<1>4. CASE Commit
  <2>1. CASE pc' = "drop"
    <3>1. InFit /\ ~InFit'
      BY <1>4, <2>1 DEF Commit, InFit
    <3> QED  BY <3>1, RefinesEnd DEF Stream!Next
  <2>2. CASE pc' # "drop"
    <3>1. /\ InFit /\ InFit' /\ fit' = fit /\ (MidTree' <=> MidTree)
          /\ (SampleDrawn' <=> SampleDrawn) /\ sampledAt' = sampledAt /\ treeStart' = treeStart
          /\ position' = position
      BY <1>4, <2>2 DEF Commit, InFit, MidTree, SampleDrawn, GrowSteps
    <3> QED  BY <3>1, RefinesStutter
  <2> QED  BY <2>1, <2>2
<1>5. CASE NextTree
  <2>1. CASE pc' = "drop"
    <3>1. InFit /\ ~InFit'
      BY <1>5, <2>1 DEF NextTree, InFit
    <3> QED  BY <3>1, RefinesEnd DEF Stream!Next
  <2>2. CASE pc' # "drop"
    <3>1. /\ InFit /\ InFit' /\ fit' = fit /\ ~MidTree /\ MidTree' /\ ~SampleDrawn /\ ~SampleDrawn'
          /\ sampledAt' = sampledAt /\ treeStart' = position
      BY <1>5, <2>2 DEF NextTree, InFit, MidTree, SampleDrawn, GrowSteps
    <3> QED  BY <3>1 DEF streamFit, streamSamples, streamPosition, Stream!stream
  <2> QED  BY <2>1, <2>2
<1>6. CASE SampleForDevice \/ CpuSample
  <2>1. PICK noise \in Nat : DrawSample(noise)
    <3>1. fit \in Configurations
      BY <1>6 DEF SampleForDevice, CpuSample, IInv, Shape
    <3>2. NoiseDraws(fit) \in Nat
      BY <3>1, DrawTypes
    <3> QED  BY <1>6, <3>2 DEF SampleForDevice, CpuSample
  <2>2. /\ InFit /\ InFit' /\ fit' = fit /\ MidTree /\ MidTree' /\ ~SampleDrawn /\ SampleDrawn'
        /\ treeStart' = treeStart /\ fit \in Configurations
    BY <1>6 DEF SampleForDevice, CpuSample, DrawSample, InFit, MidTree, SampleDrawn, GrowSteps,
                IInv, Shape
  <2>3. SubSeq(sampledAt', 1, Len(sampledAt') - 1) = sampledAt
    BY <2>1, <2>2, SampleRead
  <2> QED  BY <2>2, <2>3 DEF streamFit, streamSamples, streamPosition, Stream!stream
<1>7. CASE Replay
  <2>1. /\ pc = "replay" /\ pc' = "tree" /\ fit' = fit /\ sampledAt' = sampledAt
    BY <1>7 DEF Replay
  <2> QED  BY <1>7, <2>1, ReplayKeepsPhase, RefinesGrowTree DEF Stream!Next
<1>8. CASE PostTree
  <2>1. /\ pc = "post" /\ pc' = "tree" /\ fit' = fit /\ sampledAt' = sampledAt
    BY <1>8 DEF PostTree
  <2> QED  BY <1>8, <2>1, PostKeepsPhase, RefinesGrowTree DEF Stream!Next
<1>9. CASE Drop
  <2>1. ~InFit /\ ~InFit'
    BY <1>9 DEF Drop, Leave, InFit
  <2> QED  BY <2>1 DEF streamFit, streamSamples, streamPosition, Stream!stream
<1>10. CASE UNCHANGED vars
  BY <1>10 DEF vars, streamFit, streamSamples, streamPosition, Stream!stream,
               InFit, MidTree, SampleDrawn
<1> QED
  BY <1>1, <1>2, <1>3, <1>4, <1>5, <1>6, <1>7, <1>8, <1>9, <1>10
    DEF Next, Running, Setup, DeviceBranch, CpuBranch

(* Whichever grower runs, every tree's sample is read where the CPU trainer *)
(* reads it: the device's replay leaves the stream in the CPU's phase, for *)
(* every configuration whose instances are normals, any number of objects, *)
(* features, levels and trees, and any data.                               *)
THEOREM DeviceFollowsTheStream ==
  ASSUME Costs, AllReplayable PROVE Spec => FollowsLearnStream
<1> DEFINE PInv == Counts /\ Positions
<1>1. Init => PInv
  BY EmptySeq, DrawsAssumption
    DEF Init, Counts, Positions, MidTree, SampleDrawn, GrowSteps, SetupSteps
<1>2. IInv /\ PInv /\ [Next]_vars => PInv'
  <2>1. IInv /\ PInv /\ Next => PInv'
    BY CountsInductive, PositionsInductive
  <2>2. IInv /\ PInv /\ UNCHANGED vars => PInv'
    BY DEF vars, rng, tree, Counts, Positions, MidTree, SampleDrawn, SampledPosition, SearchStart,
           Searched, Perturbed
  <2> QED  BY <2>1, <2>2
<1>3. IInv /\ PInv /\ [Next]_vars => [Stream!Next]_(Stream!stream)
  BY RefinesStep
<1> QED
  BY Inductive, RefinesInit, <1>1, <1>2, <1>3, PTL DEF Spec, FollowsLearnStream, Stream!Spec
================================================================================
