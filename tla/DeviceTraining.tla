----------------------------- MODULE DeviceTraining -----------------------------
(***************************************************************************)
(* The choice between the CPU and the device grower in train_inner_impl,   *)
(* the device session it commits to, and the learn RNG both leave to the   *)
(* next tree (cb-train/src/boosting.rs, device_draw_replay.rs;             *)
(* cb-backend/src/gpu_backend.rs, gpu_runtime/session.rs).                 *)
(*                                                                         *)
(* Fits run one after the other on one backend, as feature selection runs  *)
(* them, so a session one of them leaves behind is the next one's.  What a *)
(* grower finds is left out; what it consumes, when it may fail and which  *)
(* ensemble it feeds are not.                                              *)
(***************************************************************************)
EXTENDS LearnDraws, Sequences

CONSTANTS Configs, Trees, NoFit, NoSession,
  MaxFits      \* fits started on the backend, to bound the model

ASSUME FitsAssumption ==
  /\ Configs \subseteq Configurations /\ NoFit \notin Configurations
  /\ Trees \in Nat /\ MaxFits \in Nat
  /\ \A h, r \in BOOLEAN : NoSession # [hostSample |-> h, resident |-> r]

VARIABLES
  fits, fit, pc,
  session,      \* the backend's: Mutex<Option<GpuTrainSession>>
  active,       \* device_active, and what the DeviceSessionGuard holds
  position,     \* of the learn RNG
  sample,       \* the device_sample: "none" before it, "empty" or "full"
  levels,       \* of the tree being searched
  trees,        \* the growers of the ensemble's trees, in order
  sampledAt, treeStart   \* history: where samples were read, the last boundary

rng == <<position, sampledAt, treeStart>>
tree == <<sample, levels, trees>>
vars == <<fits, fit, pc, session, active, rng, tree>>

GrowSteps == {"sample", "grow", "replay", "cpu_sample", "search", "leaves", "post"}

-----------------------------------------------------------------------------
(* Mutant: the gate without its rsm clause. *)
EligibleWithRsm(c) ==
  /\ ~c.other /\ c.steps = 1
  /\ ~c.langevin /\ ~c.perturb
  /\ c.bootstrap = "Poisson" => c.policy = "SymmetricTree"

(* device_host_eligible: what the device grower does not implement and the *)
(* backend cannot see.                                                     *)
HostEligible(c) ==
  /\ ~c.other /\ c.steps = 1
  /\ ~c.rsm /\ ~c.langevin /\ ~c.perturb
  /\ c.bootstrap = "Poisson" => c.policy = "SymmetricTree"

(* raw_device_channel: nothing needs host bins. *)
RawChannel(c) == HostEligible(c) /\ ~c.ctr /\ c.policy = "SymmetricTree"

(* Mutant: Poisson counted among the host's samplers. *)
SampleFromHostUnlessNo(c) == c.bootstrap # "No"

sample_from_host(c) == c.bootstrap \notin {"No", "Poisson"}

(* The gate of GpuTrainSession::begin, as far as the configuration decides *)
(* it; losses, score functions and shapes may decline whatever it admits.  *)
Covered(c) ==
  /\ c.ordered => c.policy = "SymmetricTree" /\ c.bootstrap = "No" /\ ~c.ctr
  /\ c.policy # "SymmetricTree" => ~c.ctr /\ c.bootstrap # "Poisson"
  /\ c.ctr => c.bootstrap = "No"

(* The session opens its own sampler only if the host does not sample. *)
Opened(c) == [hostSample |-> sample_from_host(c),
              resident |-> ~sample_from_host(c) /\ c.bootstrap # "No"]

(* The stream, the sample and the trees are locals of the call. *)
Leave == /\ pc' = "idle" /\ fit' = NoFit
         /\ position' = 0 /\ sampledAt' = <<>> /\ treeStart' = 0
         /\ sample' = "none" /\ levels' = 0 /\ trees' = <<>>

Begin == \E c \in Configs :
  /\ pc = "idle" /\ fits < MaxFits
  /\ Accepted(c)
  /\ fit' = c /\ fits' = fits + 1
  /\ pc' = IF ~HostEligible(c) THEN "commit" ELSE IF RawChannel(c) THEN "raw" ELSE "host"
  /\ UNCHANGED <<session, active, rng, tree>>

(* Mutant: the raw offer stores a session before the coverage is known. *)
OfferRawStoresFirst ==
  /\ pc = "raw"
  /\ session' = Opened(fit)
  /\ \/ Covered(fit) /\ active' = TRUE /\ pc' = "commit"
     \/ pc' = "host" /\ UNCHANGED active
  /\ UNCHANGED <<fits, fit, rng, tree>>

(* begin_device_training_raw: only an opened session is committed. *)
OfferRaw ==
  /\ pc = "raw"
  /\ \/ /\ Covered(fit)
        /\ session' = Opened(fit) /\ active' = TRUE /\ pc' = "commit"
     \/ pc' = "host" /\ UNCHANGED <<session, active>>
  /\ UNCHANGED <<fits, fit, rng, tree>>

(* begin_device_training: whatever the gate said replaces the session. *)
OfferHost ==
  /\ pc = "host"
  /\ \/ Covered(fit) /\ session' = Opened(fit) /\ active' = TRUE
     \/ session' = NoSession /\ active' = FALSE
  /\ pc' = "commit"
  /\ UNCHANGED <<fits, fit, rng, tree>>

(* An error of either call leaves train_inner before there is a guard. *)
OfferFails ==
  /\ pc \in {"raw", "host"}
  /\ Leave
  /\ UNCHANGED <<fits, session, active>>

Commit ==
  /\ pc = "commit"
  /\ pc' = IF fit.bootstrap = "Poisson" /\ ~active THEN "drop" ELSE "tree"
  /\ UNCHANGED <<fits, fit, session, active, rng, tree>>

NextTree ==
  /\ pc = "tree"
  /\ pc' = IF Len(trees) = Trees THEN "drop" ELSE IF active THEN "sample" ELSE "cpu_sample"
  /\ treeStart' = position /\ levels' = 0 /\ sample' = "none"
  /\ UNCHANGED <<fits, fit, session, active, position, sampledAt, trees>>

-----------------------------------------------------------------------------
(* Both branches: the PRE_TREE_DRAWS, then bootstrap(). *)
DrawSample(noise) ==
  /\ sampledAt' = Append(sampledAt, SampleAt(fit, position))
  /\ position' = IF HostDraws(fit)
                   THEN SampleAt(fit, position) + BootstrapDraws(fit) + noise
                   ELSE position
  /\ UNCHANGED treeStart

SampleForDevice ==
  /\ pc = "sample"
  /\ DrawSample(0)
  /\ sample' = IF HostDraws(fit) THEN "full" ELSE "empty"
  /\ pc' = "grow"
  /\ UNCHANGED <<fits, fit, session, active, levels, trees>>

(* grow_one's validation of the sample against the mode of the session. *)
SampleFits == session.hostSample <=> sample = "full"

(* grow_tree_on_device and the fold of its tree; Ok(None), a refused       *)
(* sample and the device's own errors all end the fit.                     *)
GrowOnDevice ==
  /\ pc = "grow"
  /\ session # NoSession /\ SampleFits
  /\ trees' = Append(trees, "device")
  /\ pc' = "replay"
  /\ UNCHANGED <<fits, fit, session, active, rng, sample, levels>>

(* replay_grow_draws: what an oblivious search of depth levels takes, over *)
(* every listed feature.                                                   *)
replayEnd[k \in Nat] ==
  [p \in Nat |-> IF k = 0 THEN p ELSE replayEnd[k - 1][normalsEnd[Listed][p + Listed + 1]]]

(* Mutant: the oblivious shape is replayed for every grow policy. *)
ReplayEndAnyPolicy(c, p) == replayEnd[Depth][p]

ReplayEnd(c, p) == IF c.policy = "SymmetricTree" THEN replayEnd[Depth][p] ELSE p

Replay ==
  /\ pc = "replay"
  /\ position' = IF HostDraws(fit) THEN ReplayEnd(fit, position) + POST_TREE_EXTRA_DRAWS
                 ELSE position
  /\ pc' = "tree"
  /\ UNCHANGED <<fits, fit, session, active, sampledAt, treeStart, tree>>

-----------------------------------------------------------------------------
(* The CPU branch: the sample, and the noise of the derivatives. *)
CpuSample ==
  /\ pc = "cpu_sample"
  /\ fit.bootstrap # "Poisson"
  /\ DrawSample(NoiseDraws(fit))
  /\ pc' = "search"
  /\ UNCHANGED <<fits, fit, session, active, tree>>

Perturbed == Grower(fit) = "perturbed" /\ draws_active(fit)

(* One level of greedy_tensor_search_oblivious_perturbed. *)
SearchLevel ==
  /\ pc = "search" /\ Perturbed /\ levels < Depth
  /\ position' = LevelEnd(fit, position)
  /\ levels' = levels + 1
  /\ pc' = IF LevelStops(fit, position) THEN "leaves" ELSE pc
  /\ UNCHANGED <<fits, fit, session, active, sampledAt, treeStart, sample, trees>>

(* The depth is reached, or the grower is one that never sees the RNG. *)
SearchEnds ==
  /\ pc = "search"
  /\ Perturbed => levels = Depth
  /\ pc' = "leaves"
  /\ UNCHANGED <<fits, fit, session, active, rng, tree>>

(* The leaf values, which take Langevin's draws themselves. *)
EstimateLeaves ==
  /\ pc = "leaves"
  /\ position' = IF fit.langevin THEN position + LeafDraws(fit) ELSE position
  /\ pc' = "post"
  /\ UNCHANGED <<fits, fit, session, active, sampledAt, treeStart, tree>>

PostTree ==
  /\ pc = "post"
  /\ position' = IF draws_active(fit) /\ ~fit.langevin THEN position + POST_TREE_EXTRA_DRAWS
                 ELSE position
  /\ trees' = Append(trees, "cpu")
  /\ pc' = "tree"
  /\ UNCHANGED <<fits, fit, session, active, sampledAt, treeStart, sample, levels>>

-----------------------------------------------------------------------------
(* Mutant: a tree the device could not grow is grown on the CPU. *)
FailFallsBack ==
  /\ pc \in GrowSteps
  /\ pc' = IF pc = "grow" THEN "search" ELSE "drop"
  /\ UNCHANGED <<fits, fit, session, active, rng, tree>>

(* Any runtime call or check on the way returns its error through ?. *)
Fail ==
  /\ pc \in GrowSteps
  /\ pc' = "drop"
  /\ UNCHANGED <<fits, fit, session, active, rng, tree>>

(* Mutant: the session is ended by hand, after the last tree only. *)
DropAfterLastTree ==
  /\ pc = "drop"
  /\ session' = IF active /\ Len(trees) = Trees THEN NoSession ELSE session
  /\ active' = FALSE
  /\ Leave
  /\ UNCHANGED fits

(* DeviceSessionGuard::drop, on every way out. *)
Drop ==
  /\ pc = "drop"
  /\ session' = IF active THEN NoSession ELSE session
  /\ active' = FALSE
  /\ Leave
  /\ UNCHANGED fits

DeviceBranch == SampleForDevice \/ GrowOnDevice \/ Replay
CpuBranch == CpuSample \/ SearchLevel \/ SearchEnds \/ EstimateLeaves \/ PostTree
Setup == OfferRaw \/ OfferHost \/ OfferFails \/ Commit

Init ==
  /\ fits = 0 /\ fit = NoFit /\ pc = "idle"
  /\ session = NoSession /\ active = FALSE
  /\ position = 0 /\ sampledAt = <<>> /\ treeStart = 0
  /\ sample = "none" /\ levels = 0 /\ trees = <<>>

Running == Setup \/ NextTree \/ DeviceBranch \/ CpuBranch \/ Fail \/ Drop

Next == Begin \/ Running

(* A fit that has begun is one call of train_inner: it does not stop       *)
(* between two of its steps.                                               *)
Spec == Init /\ [][Next]_vars /\ WF_vars(Running)

-----------------------------------------------------------------------------
(* What the fit owes.                                                      *)

InFit == pc \notin {"idle", "drop"}
MidTree == pc \in GrowSteps
SampleDrawn == MidTree /\ pc \notin {"sample", "cpu_sample"}

TypeOK ==
  /\ fits \in 0 .. MaxFits
  /\ fit \in Configurations \cup {NoFit}
  /\ pc \in GrowSteps \cup {"idle", "raw", "host", "commit", "tree", "drop"}
  /\ session \in {NoSession} \cup [hostSample : BOOLEAN, resident : BOOLEAN]
  /\ active \in BOOLEAN
  /\ position \in Nat /\ treeStart \in Nat /\ sampledAt \in Seq(Nat)
  /\ sample \in {"none", "empty", "full"}
  /\ levels \in 0 .. Depth
  /\ trees \in Seq({"cpu", "device"})

(* The session resident on the backend is the running fit's own: opened    *)
(* for its configuration, seen by the guard that ends it, and never left   *)
(* to the next fit on any way out.  boosting.rs:4374.                      *)
SessionIsTheFits ==
  /\ active <=> session # NoSession
  /\ active => pc \notin {"idle", "raw", "host"} /\ session = Opened(fit)

(* A committed fit is grown by the device alone, any other by the CPU      *)
(* alone: no ensemble mixes the two, whatever fails on the way (the        *)
(* per-fit all-or-nothing of boosting.rs:6676).                            *)
OneGrower ==
  InFit => \A i \in DOMAIN trees : trees[i] = (IF active THEN "device" ELSE "cpu")

(* Each tree of a committed fit is sampled exactly once, by the side that  *)
(* should: the session never has to refuse the host's sample for its mode  *)
(* (session.rs:2405), and never draws its own on top of it.                *)
SampledOnce ==
  pc = "grow" => /\ session # NoSession /\ SampleFits
                 /\ session.resident <=> fit.bootstrap = "Poisson"
                 /\ sample = "full" <=> fit.bootstrap \notin {"No", "Poisson"}

(* A Poisson fit the device declined ends before its first tree, instead   *)
(* of on a CPU grower that has no such sampler.  boosting.rs:6324.         *)
PoissonOnDeviceOnly == MidTree /\ fit.bootstrap = "Poisson" => active

(* Every fit ends, with the device released. *)
DeviceReleased == pc # "idle" ~> pc = "idle" /\ session = NoSession

(* The device replays normals.  A sampled fit with Gumbel instances is     *)
(* admitted all the same, and leaves the CPU's phase at its second tree.   *)
Replayable(c) == HostEligible(c) /\ HostDraws(c) => c.score = "Normal"

(* Whichever grower runs, the sample of every tree is read where the CPU   *)
(* trainer reads it.  device_draw_replay.rs:64.                            *)
streamFit == IF InFit THEN fit ELSE NoFit
streamSamples ==
  IF ~InFit THEN <<>>
  ELSE IF SampleDrawn THEN SubSeq(sampledAt, 1, Len(sampledAt) - 1) ELSE sampledAt
streamPosition == IF ~InFit THEN 0 ELSE IF MidTree THEN treeStart ELSE position
Stream == INSTANCE LearnStream WITH
  running <- streamFit, sampledAt <- streamSamples, position <- streamPosition
FollowsLearnStream == Stream!Spec
=================================================================================
