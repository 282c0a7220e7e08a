-------------------------- MODULE SnapshotTraining --------------------------
(***************************************************************************)
(* train_with_snapshot (cb-train/src/boosting.rs) and the checkpoint file  *)
(* of cb-train/src/snapshot.rs: one trainer at a time on one snapshot      *)
(* path, killed at any point and called again, with the same or with       *)
(* another configuration.                                                  *)
(*                                                                         *)
(* What an iteration computes is left to constant operators (Grow,         *)
(* Advance, ...): the module is about which state they are applied to.     *)
(* Simplifications: the 64-bit FNV fingerprint is the tuple it hashes (no  *)
(* collisions); the elapsed time of the interval test is a choice; a kill  *)
(* loses everything but the two files.                                     *)
(***************************************************************************)
EXTENDS Naturals, Sequences

CONSTANTS
  Configs,          \* the calls the caller may make (records, see ConfigOK)
  Inputs,           \* what the loop reads of a call (InputsOf)
  NoWeights, Ones,  \* the empty weight column and the all-1.0 one
  Number, Tree, Rng, Carry,
  StartBias(_), StartApprox(_), StartRng(_), StartCarry,
  Grow(_, _, _, _),   \* the tree grown from inputs, approx, rng and carry
  Advance(_, _),      \* approx after a tree
  Draw(_, _),         \* rng after a tree
  Remember(_, _),     \* loop-carried state no snapshot holds, after a tree
  Shrink(_, _), ShrinkTree(_, _),  \* by the multiplier of an iteration
  IsFinite(_), Shape(_),
  Straight,         \* the uninterrupted run of each input, by iteration
  None, NoFile, Torn

VARIABLES
  pc,           \* where the call in progress is
  cfg,          \* its configuration
  iter,         \* completed iterations
  mem,          \* the loop-carried state
  resume_from,  \* the resume point train_with_snapshot will report
  started,      \* the iteration the loop of this call started at
  snap, tmp,    \* the snapshot file and its .tmp sibling
  outcome,      \* what the last call returned
  lineage, fileLineage  \* history: the inputs that grew mem / snap

process == <<cfg, iter, mem, resume_from, started, lineage>>
files == <<snap, tmp, fileLineage>>
vars == <<pc, process, files, outcome>>

-----------------------------------------------------------------------------
EffectiveWeights(w) == IF w = NoWeights THEN Ones ELSE w

InputsOf(c) == [hashed |-> c.hashed, iterations |-> c.iterations,
                weights |-> EffectiveWeights(c.weights),
                features |-> c.features, shrink |-> c.shrink, uses |-> c.uses]

(* Mutant: the checkpoint interval is hashed as well.                      *)
fingerprint_with_interval(c, w) ==
  [hashed |-> c.hashed, iterations |-> c.iterations, weights |-> w, interval |-> c.zeroInterval]

(* params.extra (shrink here) and feature_values are not among the fields. *)
fingerprint(c, w) == [hashed |-> c.hashed, iterations |-> c.iterations, weights |-> w]

storedFingerprint(c) == fingerprint(c, EffectiveWeights(c.weights))

(* What makes the loop read state a snapshot does not hold, or state whose *)
(* identity the fingerprint cannot carry.                                  *)
ScopeExclusions ==
  {"custom objective", "custom eval metric", "grouped loss", "ranking data",
   "categorical features", "ordered boosting", "eval sets", "bootstrap",
   "random_strength", "multi-dimensional approx", "penalties",
   "non-symmetric grow policy", "device", "staged predictions"}

snapshot_scope_ok(c) == c.uses \cap ScopeExclusions = {}

Memory == [trees : Seq(Tree), approx : Number, bias : Number, rng : Rng, carry : Carry]

StartMemory(in) == [trees |-> <<>>, approx |-> StartApprox(in), bias |-> StartBias(in),
                    rng |-> StartRng(in), carry |-> StartCarry]

(* model_shrink_rate: before the tree of every iteration but the first the *)
(* whole accumulated model and the running approx are rescaled.            *)
Shrunk(in, i, m) ==
  IF in.shrink /\ i > 0
    THEN [m EXCEPT !.bias = Shrink(i, @), !.approx = Shrink(i, @),
                   !.trees = [k \in DOMAIN @ |-> ShrinkTree(i, @[k])]]
    ELSE m

(* One iteration of train_inner_impl's loop on the CPU path. *)
Iteration(in, i, m) ==
  LET s == Shrunk(in, i, m)
      tree == Grow(in, s.approx, s.rng, s.carry)
  IN  [trees |-> Append(s.trees, tree), approx |-> Advance(s.approx, tree),
       bias |-> s.bias, rng |-> Draw(s.rng, tree),
       carry |-> IF in.uses = {} THEN s.carry ELSE Remember(s.carry, tree)]

Snapshot == [fingerprint : {storedFingerprint(c) : c \in Configs}, completed_iters : Nat,
             bias : Number, shape : {Shape(c.hashed) : c \in Configs},
             approx : Number, trees : Seq(Tree), rng : Rng]

(* Mutant: completed_iters is iter where it should be iter + 1.            *)
capture_off_by_one(c, k, m) ==
  [fingerprint |-> storedFingerprint(c), completed_iters |-> k - 1, bias |-> m.bias,
   shape |-> Shape(c.hashed), approx |-> m.approx, trees |-> m.trees, rng |-> m.rng]

capture(c, k, m) ==
  [fingerprint |-> storedFingerprint(c), completed_iters |-> k, bias |-> m.bias,
   shape |-> Shape(c.hashed), approx |-> m.approx, trees |-> m.trees, rng |-> m.rng]

check_finite(s) == /\ IsFinite(s.bias)
                   /\ IsFinite(s.approx)
                   /\ \A k \in DOMAIN s.trees : IsFinite(s.trees[k])

ConfigOK(c) == /\ DOMAIN c = {"hashed", "iterations", "weights", "features", "shrink",
                              "uses", "zeroInterval"}
               /\ c.iterations \in Nat
               /\ c.uses \subseteq ScopeExclusions
               /\ c.shrink \in BOOLEAN /\ c.zeroInterval \in BOOLEAN

ASSUME ConfigAssumption == NoWeights # Ones /\ \A c \in Configs : ConfigOK(c)

ASSUME InputsAssumption == Inputs = {InputsOf(c) : c \in Configs}

ASSUME FileAssumption == NoFile # Torn /\ NoFile \notin Snapshot /\ Torn \notin Snapshot

(* No call and no file is None. *)
ASSUME NoneAssumption ==
  /\ None \notin [config : Configs, from : Nat]
  /\ None \notin [inputs : Inputs, iters : Nat]

ASSUME ArithmeticAssumption ==
  /\ StartCarry \in Carry
  /\ \A in \in Inputs : StartMemory(in) \in Memory
  /\ \A in \in Inputs, a \in Number, r \in Rng, y \in Carry : Grow(in, a, r, y) \in Tree
  /\ \A a \in Number, t \in Tree : Advance(a, t) \in Number
  /\ \A r \in Rng, t \in Tree : Draw(r, t) \in Rng
  /\ \A y \in Carry, t \in Tree : Remember(y, t) \in Carry
  /\ \A in \in Inputs : \A i \in 0 .. in.iterations :
       /\ \A a \in Number : Shrink(i, a) \in Number
       /\ \A t \in Tree : ShrinkTree(i, t) \in Tree

(* The run the documentation calls straight-through: no kill, no snapshot. *)
ASSUME StraightAssumption ==
  \A in \in Inputs :
    /\ Straight[in][0] = StartMemory(in)
    /\ \A k \in 0 .. in.iterations - 1 :
         Straight[in][k + 1] = Iteration(in, k, Straight[in][k])

-----------------------------------------------------------------------------
NoCall == [kind |-> "none"]

Init == /\ pc = "idle" /\ cfg = None /\ iter = 0 /\ mem = None
        /\ resume_from = 0 /\ started = 0 /\ lineage = {}
        /\ snap = NoFile /\ tmp = NoFile /\ fileLineage = {}
        /\ outcome = NoCall

(* The call is over: the process holds nothing any more. *)
Leave(result) ==
  /\ pc' = "idle" /\ cfg' = None /\ iter' = 0 /\ mem' = None
  /\ resume_from' = 0 /\ started' = 0 /\ lineage' = {}
  /\ outcome' = result

Fail(why) == Leave([kind |-> why, config |-> cfg])

Begin(c) ==
  /\ pc = "idle"
  /\ pc' = "peek" /\ cfg' = c /\ outcome' = NoCall
  /\ UNCHANGED <<iter, mem, resume_from, started, lineage, files>>

-----------------------------------------------------------------------------
(* train_with_snapshot: the peek, over the caller's weights. *)

PeekNoFile ==
  /\ pc = "peek" /\ snap = NoFile
  /\ pc' = "setup" /\ resume_from' = 0
  /\ UNCHANGED <<cfg, iter, mem, started, lineage, files, outcome>>

PeekMatch ==
  /\ pc = "peek" /\ snap \notin {NoFile, Torn}
  /\ snap.fingerprint = fingerprint(cfg, cfg.weights)
  /\ pc' = "setup" /\ resume_from' = snap.completed_iters
  /\ UNCHANGED <<cfg, iter, mem, started, lineage, files, outcome>>

PeekRefuse ==
  /\ pc = "peek" /\ snap # NoFile
  /\ snap # Torn => snap.fingerprint # fingerprint(cfg, cfg.weights)
  /\ Fail(IF snap = Torn THEN "undecodable" ELSE "refused")
  /\ UNCHANGED files

-----------------------------------------------------------------------------
(* train_inner_impl: snapshot admission and the resume block. *)

EnterLoop(k, m, l) ==
  /\ pc' = "loop" /\ iter' = k /\ mem' = m /\ started' = k /\ lineage' = l
  /\ UNCHANGED <<cfg, resume_from, files, outcome>>

OutOfScope ==
  /\ pc = "setup" /\ ~snapshot_scope_ok(cfg)
  /\ Fail("out of scope")
  /\ UNCHANGED files

(* Mutant: a checkpoint that cannot be resumed is silently retrained.      *)
StartFreshSilently ==
  /\ pc = "setup" /\ snapshot_scope_ok(cfg)
  /\ snap # NoFile /\ snap # Torn => snap.bias # StartBias(InputsOf(cfg))
  /\ EnterLoop(0, StartMemory(InputsOf(cfg)), {InputsOf(cfg)})

StartFresh ==
  /\ pc = "setup" /\ snapshot_scope_ok(cfg) /\ snap = NoFile
  /\ EnterLoop(0, StartMemory(InputsOf(cfg)), {InputsOf(cfg)})

Resumable(s) ==
  /\ s.fingerprint = storedFingerprint(cfg)
  /\ s.shape = Shape(cfg.hashed)
  /\ s.completed_iters <= cfg.iterations
  /\ Len(s.trees) = s.completed_iters
  /\ s.bias = StartBias(InputsOf(cfg))

(* Mutant: the sampling RNG is seeded again.                               *)
RestoredWithoutRng(s) == [StartMemory(InputsOf(cfg)) EXCEPT
                            !.trees = s.trees, !.approx = s.approx]

(* The bias is verified, not restored; what the snapshot does not hold     *)
(* starts afresh.                                                          *)
Restored(s) == [StartMemory(InputsOf(cfg)) EXCEPT
                  !.trees = s.trees, !.approx = s.approx, !.rng = s.rng]

(* Mutant: the loop keeps its bound 0..iterations.                         *)
ResumeFromZero ==
  /\ pc = "setup" /\ snapshot_scope_ok(cfg)
  /\ snap \notin {NoFile, Torn} /\ Resumable(snap)
  /\ EnterLoop(0, Restored(snap), fileLineage \cup {InputsOf(cfg)})

Resume ==
  /\ pc = "setup" /\ snapshot_scope_ok(cfg)
  /\ snap \notin {NoFile, Torn} /\ Resumable(snap)
  /\ EnterLoop(snap.completed_iters, Restored(snap), fileLineage \cup {InputsOf(cfg)})

ResumeRefuse ==
  /\ pc = "setup" /\ snapshot_scope_ok(cfg)
  /\ snap # NoFile
  /\ snap # Torn => ~Resumable(snap)
  /\ Fail(IF snap = Torn THEN "undecodable" ELSE "refused")
  /\ UNCHANGED files

-----------------------------------------------------------------------------
(* The loop and the periodic checkpoint of each iteration's end. *)

(* Mutant: elapsed > interval where it should be >=.                       *)
IterateStrictInterval ==
  /\ pc = "loop" /\ iter < cfg.iterations
  /\ mem' = Iteration(InputsOf(cfg), iter, mem) /\ iter' = iter + 1
  /\ pc' \in {"loop", "capture"}
  /\ UNCHANGED <<cfg, resume_from, started, lineage, files, outcome>>

Iterate ==
  /\ pc = "loop" /\ iter < cfg.iterations
  /\ mem' = Iteration(InputsOf(cfg), iter, mem) /\ iter' = iter + 1
  /\ pc' \in IF cfg.zeroInterval THEN {"capture"} ELSE {"loop", "capture"}
  /\ UNCHANGED <<cfg, resume_from, started, lineage, files, outcome>>

EncodeFail ==
  /\ pc = "capture" /\ ~check_finite(capture(cfg, iter, mem))
  /\ Fail("diverged")
  /\ UNCHANGED files

(* Mutant: the snapshot itself is truncated and written.                   *)
OpenInPlace ==
  /\ pc = "capture" /\ check_finite(capture(cfg, iter, mem))
  /\ pc' = "write" /\ tmp' = Torn /\ snap' = Torn
  /\ UNCHANGED <<process, fileLineage, outcome>>

(* fs::write truncates the .tmp before it fills it. *)
OpenTmp ==
  /\ pc = "capture" /\ check_finite(capture(cfg, iter, mem))
  /\ pc' = "write" /\ tmp' = Torn
  /\ UNCHANGED <<process, snap, fileLineage, outcome>>

FillTmp ==
  /\ pc = "write"
  /\ pc' = "rename" /\ tmp' = capture(cfg, iter, mem)
  /\ UNCHANGED <<process, snap, fileLineage, outcome>>

RenameTmp ==
  /\ pc = "rename"
  /\ pc' = "loop" /\ snap' = tmp /\ tmp' = NoFile /\ fileLineage' = lineage
  /\ UNCHANGED <<process, outcome>>

(* Mutant: the clean-up after a failed write removes the last snapshot.    *)
WriteFailRemoves ==
  /\ pc \in {"capture", "write", "rename"}
  /\ check_finite(capture(cfg, iter, mem))
  /\ Fail("io")
  /\ snap' = NoFile /\ fileLineage' = {}
  /\ UNCHANGED tmp

(* A full disk or a lost directory: the error of create, write or rename   *)
(* ends the fit.                                                           *)
WriteFail ==
  /\ pc \in {"capture", "write", "rename"}
  /\ check_finite(capture(cfg, iter, mem))
  /\ Fail("io")
  /\ UNCHANGED files

Finish ==
  /\ pc = "loop" /\ iter = cfg.iterations
  /\ Leave([kind |-> "model", config |-> cfg, trees |-> mem.trees, bias |-> mem.bias,
            from |-> resume_from, grown |-> iter - started, lineage |-> lineage])
  /\ UNCHANGED files

-----------------------------------------------------------------------------
(* The environment: a kill at any point of a call, and a caller that       *)
(* removes the snapshot between two calls.                                 *)

Kill ==
  /\ pc # "idle"
  /\ Leave([kind |-> "killed", config |-> cfg])
  /\ UNCHANGED files

RemoveSnapshot ==
  /\ pc = "idle" /\ snap # NoFile
  /\ snap' = NoFile /\ fileLineage' = {}
  /\ UNCHANGED <<pc, process, tmp, outcome>>

Advancing == \/ PeekNoFile \/ PeekMatch \/ StartFresh \/ Resume
             \/ Iterate \/ OpenTmp \/ FillTmp \/ RenameTmp \/ Finish

Refusing == PeekRefuse \/ OutOfScope \/ ResumeRefuse \/ EncodeFail

Next == \/ \E c \in Configs : Begin(c)
        \/ Advancing
        \/ Refusing
        \/ WriteFail
        \/ Kill
        \/ RemoveSnapshot

Spec == Init /\ [][Next]_vars

-----------------------------------------------------------------------------
(* The types, and the bounds of the loop counter of train_inner_impl.      *)
TypeOK ==
  /\ pc \in {"idle", "peek", "setup", "loop", "capture", "write", "rename"}
  /\ pc # "idle" => /\ cfg \in Configs
                    /\ iter \in 0 .. cfg.iterations
                    /\ started \in 0 .. iter
  /\ resume_from \in Nat
  /\ pc \in {"loop", "capture", "write", "rename"} => mem \in Memory
  /\ snap \notin {NoFile, Torn} => snap \in Snapshot
  /\ tmp \notin {NoFile, Torn} => tmp \in Snapshot
  /\ lineage \subseteq Inputs /\ fileLineage \subseteq Inputs

HasSnapshot == snap \notin {NoFile, Torn}

(* A kill inside write_atomic never leaves a half-written snapshot: a      *)
(* reader of the path finds the old file or the new one.                   *)
OnlyCompleteSnapshots == snap # Torn

(* A snapshot holds exactly the state of the uninterrupted run after       *)
(* completed_iters iterations, however many kills and resumes made it.     *)
CheckpointIsPrefix ==
  HasSnapshot => \A in \in Inputs : fileLineage = {in} =>
    /\ snap.completed_iters \in 0 .. in.iterations
    /\ LET s == Straight[in][snap.completed_iters] IN
         /\ snap.trees = s.trees /\ snap.approx = s.approx
         /\ snap.rng = s.rng /\ snap.bias = s.bias

(* Whatever was killed and resumed before, the model a call returns is the *)
(* uninterrupted run's.                                                    *)
ResumeInvisible ==
  outcome.kind = "model" =>
    LET in == InputsOf(outcome.config) IN
      /\ outcome.trees = Straight[in][in.iterations].trees
      /\ outcome.bias = Straight[in][in.iterations].bias

(* A call is refused only because the file is of other inputs.             *)
OwnSnapshotAccepted ==
  outcome.kind = "refused" => fileLineage # {InputsOf(outcome.config)}

(* The reported resume point is the one the loop used: the call grew       *)
(* exactly the trees after it.                                             *)
ReportedResumePoint ==
  outcome.kind = "model" => outcome.from + outcome.grown = outcome.config.iterations

(* With a zero interval a kill between two iterations loses no tree.       *)
KillLosesNothing ==
  pc = "loop" /\ cfg.zeroInterval /\ iter > started =>
    HasSnapshot /\ snap.completed_iters = iter

(* A snapshot is only ever replaced by a later one of the same run, never  *)
(* by a restarted or a foreign one.                                        *)
CheckpointAdvances ==
  [][HasSnapshot /\ snap' # snap /\ snap' # NoFile =>
       /\ snap'.fingerprint = snap.fingerprint
       /\ snap'.completed_iters > snap.completed_iters]_vars

(* A call outside the snapshot regime touches no file.                     *)
OutOfScopeWritesNothing ==
  [][pc # "idle" /\ ~snapshot_scope_ok(cfg) => UNCHANGED files]_vars

(* The fingerprint documentation: it hashes every input the loop reads.    *)
FingerprintCovers ==
  \A c, d \in Configs :
    /\ snapshot_scope_ok(c) /\ snapshot_scope_ok(d)
    /\ storedFingerprint(c) = storedFingerprint(d)
    => InputsOf(c) = InputsOf(d)

(* The configurations for which the checkpoint keeps every promise: the    *)
(* fingerprint tells their inputs apart, the weights are spelled out and   *)
(* shrinkage leaves the bias where the resume block expects it.            *)
Sound ==
  /\ FingerprintCovers
  /\ \A c \in Configs :
       /\ c.weights # NoWeights
       /\ c.shrink => \A i \in 1 .. c.iterations :
            Shrink(i, StartBias(InputsOf(c))) = StartBias(InputsOf(c))

(* The abstract view of a state: the file is the number of iterations that *)
(* survive, and everything in memory is gone.                              *)
durable ==
  IF HasSnapshot
    THEN [inputs |-> CHOOSE in \in fileLineage : TRUE, iters |-> snap.completed_iters]
    ELSE None

call ==
  IF pc = "idle" THEN None
  ELSE [config |-> cfg,
        from |-> IF pc # "peek" THEN resume_from
                 ELSE IF HasSnapshot THEN snap.completed_iters ELSE 0]

returned ==
  IF outcome.kind = "model"
    THEN [kind |-> "model", config |-> outcome.config, from |-> outcome.from,
          model |-> [trees |-> outcome.trees, bias |-> outcome.bias]]
    ELSE outcome

StraightModel(in) == [trees |-> Straight[in][in.iterations].trees,
                      bias |-> Straight[in][in.iterations].bias]

Fit == INSTANCE ResumableFit WITH outcome <- returned, Model <- StraightModel

(* Kills, retries and resumes are invisible: the checkpointed trainer      *)
(* implements the promise.                                                 *)
ImplementsResumableFit == Fit!Spec

-----------------------------------------------------------------------------
(* Kills may go on for ever, but the process is not always killed before   *)
(* the same step, and the caller calls again.                              *)
Fairness ==
  /\ \A c \in Configs : WF_vars(Begin(c))
  /\ SF_vars(PeekNoFile) /\ SF_vars(PeekMatch)
  /\ SF_vars(StartFresh) /\ SF_vars(Resume)
  /\ SF_vars(Iterate) /\ SF_vars(OpenTmp) /\ SF_vars(FillTmp)
  /\ SF_vars(RenameTmp) /\ SF_vars(Finish) /\ SF_vars(Refusing)

(* Even when no call survives long enough to grow every tree, a caller     *)
(* that from some point on retries one call of zero interval gets an       *)
(* answer that no kill or full disk cut short, again and again, unless it  *)
(* keeps removing the snapshot: each call starts where the last checkpoint *)
(* stopped. (With a positive interval each kill may come before it ends.)  *)
TrainsWithin(c) ==
  /\ c.zeroInterval /\ snapshot_scope_ok(c)
  /\ \A k \in 1 .. c.iterations : check_finite(capture(c, k, Straight[InputsOf(c)][k]))

Answered(c) ==
  \/ outcome.kind = "model"
  \/ outcome.kind = "refused" /\ fileLineage # {InputsOf(c)}

EventuallyTrained ==
  \A c \in {d \in Configs : TrainsWithin(d)} :
    <>[](cfg \in {c, None}) => []<>Answered(c) \/ []<><<RemoveSnapshot>>_vars

=============================================================================
