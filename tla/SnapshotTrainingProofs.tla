----------------------- MODULE SnapshotTrainingProofs -----------------------
(***************************************************************************)
(* What SnapshotTraining's runs check on a few calls, for all of them.     *)
(***************************************************************************)
EXTENDS SnapshotTraining, SequenceTheorems, TLAPS

Running == pc \in {"loop", "capture", "write", "rename"}

(* Outside the loop nothing is held, and what is about to be renamed is    *)
(* the checkpoint of the loop's own state.                                 *)
Typed == /\ TypeOK
         /\ ~Running => iter = 0 /\ started = 0 /\ lineage = {}
         /\ pc = "rename" => tmp = capture(cfg, iter, mem)
         /\ pc \in {"capture", "write", "rename"} => iter > 0

-----------------------------------------------------------------------------
(* A call's inputs are inputs.                                             *)
LEMMA InputsOfConfig ==
  ASSUME NEW c \in Configs
  PROVE  /\ InputsOf(c) \in Inputs
         /\ InputsOf(c).iterations = c.iterations
         /\ c.iterations \in Nat
  BY ConfigAssumption, InputsAssumption DEF InputsOf, ConfigOK

LEMMA ShrunkType ==
  ASSUME NEW in \in Inputs, NEW i \in 0 .. in.iterations, NEW m \in Memory
  PROVE  /\ Shrunk(in, i, m) \in Memory
         /\ Len(Shrunk(in, i, m).trees) = Len(m.trees)
         /\ Shrunk(in, i, m).carry = m.carry
<1>1. CASE in.shrink /\ i > 0
  <2> DEFINE ts == [k \in DOMAIN m.trees |-> ShrinkTree(i, m.trees[k])]
  <2>1. ts \in Seq(Tree) /\ Len(ts) = Len(m.trees)
    <3>1. /\ m.trees \in Seq(Tree) /\ Len(m.trees) \in Nat
          /\ DOMAIN m.trees = 1 .. Len(m.trees)
      BY DEF Memory
    <3>2. ts \in [1 .. Len(m.trees) -> Tree]
      BY <3>1, ArithmeticAssumption, ElementOfSeq
    <3> HIDE DEF ts
    <3> QED  BY <3>1, <3>2, IsASeq, LenProperties
  <2>2. Shrunk(in, i, m) = [trees |-> ts, approx |-> Shrink(i, m.approx),
                            bias |-> Shrink(i, m.bias), rng |-> m.rng, carry |-> m.carry]
    BY <1>1 DEF Shrunk, Memory
  <2>3. Shrink(i, m.approx) \in Number /\ Shrink(i, m.bias) \in Number
    BY ArithmeticAssumption DEF Memory
  <2> HIDE DEF ts
  <2> QED  BY <2>1, <2>2, <2>3 DEF Memory
<1>2. CASE ~(in.shrink /\ i > 0)
  BY <1>2 DEF Shrunk
<1> QED  BY <1>1, <1>2

LEMMA IterationType ==
  ASSUME NEW in \in Inputs, NEW i \in 0 .. in.iterations, NEW m \in Memory
  PROVE  /\ Iteration(in, i, m) \in Memory
         /\ Len(Iteration(in, i, m).trees) = Len(m.trees) + 1
         /\ in.uses = {} => Iteration(in, i, m).carry = m.carry
<1> DEFINE s == Shrunk(in, i, m)
           tree == Grow(in, s.approx, s.rng, s.carry)
<1>1. s \in Memory /\ Len(s.trees) = Len(m.trees) /\ s.carry = m.carry
  BY ShrunkType
<1>2. Iteration(in, i, m) =
        [trees |-> Append(s.trees, tree), approx |-> Advance(s.approx, tree),
         bias |-> s.bias, rng |-> Draw(s.rng, tree),
         carry |-> IF in.uses = {} THEN s.carry ELSE Remember(s.carry, tree)]
  BY DEF Iteration
<1> HIDE DEF s
<1>3. tree \in Tree
  BY <1>1, ArithmeticAssumption DEF Memory
<1> HIDE DEF tree
<1>4. /\ Append(s.trees, tree) \in Seq(Tree)
      /\ Len(Append(s.trees, tree)) = Len(s.trees) + 1
  BY <1>1, <1>3 DEF Memory
<1>5. /\ Advance(s.approx, tree) \in Number /\ Draw(s.rng, tree) \in Rng
      /\ Remember(s.carry, tree) \in Carry /\ s.bias \in Number /\ s.carry \in Carry
  BY <1>1, <1>3, ArithmeticAssumption DEF Memory
<1> QED  BY <1>1, <1>2, <1>4, <1>5 DEF Memory

LEMMA CaptureType ==
  ASSUME NEW c \in Configs, NEW k \in Nat, NEW m \in Memory
  PROVE  /\ capture(c, k, m) \in Snapshot
         /\ capture(c, k, m) \notin {NoFile, Torn}
  BY FileAssumption DEF capture, Snapshot, Memory

LEMMA RestoredType ==
  ASSUME cfg \in Configs, NEW s \in Snapshot
  PROVE  /\ Restored(s) \in Memory
         /\ Restored(s) = [trees |-> s.trees, approx |-> s.approx, rng |-> s.rng,
                           bias |-> StartBias(InputsOf(cfg)), carry |-> StartCarry]
<1> DEFINE start == StartMemory(InputsOf(cfg))
<1>1. start \in Memory /\ start.bias = StartBias(InputsOf(cfg)) /\ start.carry = StartCarry
  BY InputsOfConfig, ArithmeticAssumption DEF StartMemory
<1>2. Restored(s) = [start EXCEPT !.trees = s.trees, !.approx = s.approx, !.rng = s.rng]
  BY DEF Restored
<1> HIDE DEF start
<1>3. Restored(s) = [trees |-> s.trees, approx |-> s.approx, rng |-> s.rng,
                     bias |-> start.bias, carry |-> start.carry]
  BY <1>1, <1>2 DEF Memory
<1> QED  BY <1>1, <1>3 DEF Memory, Snapshot

-----------------------------------------------------------------------------
LEMMA TypedInit == Init => Typed
  BY DEF Init, Typed, TypeOK, Running

LEMMA TypedStep == Typed /\ [Next]_vars => Typed'
<1> SUFFICES ASSUME Typed, [Next]_vars PROVE Typed'
  OBVIOUS
<1> USE DEF Typed, TypeOK, Running
<1> USE DEF process, files
<1>1. ASSUME NEW c \in Configs, Begin(c) PROVE Typed'
  BY <1>1, InputsOfConfig DEF Begin
<1>2. CASE PeekNoFile  BY <1>2 DEF PeekNoFile
<1>3. CASE PeekMatch   BY <1>3 DEF PeekMatch, Snapshot
<1>4. CASE PeekRefuse  BY <1>4 DEF PeekRefuse, Fail, Leave
<1>5. CASE OutOfScope  BY <1>5 DEF OutOfScope, Fail, Leave
<1>6. CASE StartFresh
  <2>1. StartMemory(InputsOf(cfg)) \in Memory
    BY <1>6, InputsOfConfig, ArithmeticAssumption DEF StartFresh
  <2>2. {InputsOf(cfg)} \subseteq Inputs
    BY <1>6, InputsOfConfig DEF StartFresh
  <2> QED  BY <1>6, <2>1, <2>2, InputsOfConfig DEF StartFresh, EnterLoop
<1>7. CASE Resume
  <2>1. cfg \in Configs /\ snap \in Snapshot
    BY <1>7 DEF Resume
  <2>2. Restored(snap) \in Memory
    BY <2>1, RestoredType
  <2>3. fileLineage \cup {InputsOf(cfg)} \subseteq Inputs
    BY <2>1, InputsOfConfig
  <2>4. snap.completed_iters \in 0 .. cfg.iterations
    BY <1>7, <2>1, InputsOfConfig DEF Resume, Resumable, Snapshot
  <2> QED  BY <1>7, <2>1, <2>2, <2>3, <2>4 DEF Resume, EnterLoop
<1>8. CASE ResumeRefuse  BY <1>8 DEF ResumeRefuse, Fail, Leave
<1>9. CASE Iterate
  <2>1. Iteration(InputsOf(cfg), iter, mem) \in Memory
    BY <1>9, InputsOfConfig, IterationType DEF Iterate
  <2>2. iter + 1 \in 0 .. cfg.iterations /\ started \in 0 .. iter + 1
    BY <1>9, InputsOfConfig DEF Iterate
  <2> QED  BY <1>9, <2>1, <2>2 DEF Iterate
<1>10. CASE EncodeFail  BY <1>10 DEF EncodeFail, Fail, Leave
<1>11. CASE OpenTmp     BY <1>11 DEF OpenTmp
<1>12. CASE FillTmp
  <2>1. capture(cfg, iter, mem) \in Snapshot
    BY <1>12, CaptureType DEF FillTmp
  <2> QED  BY <1>12, <2>1 DEF FillTmp, capture
<1>13. CASE RenameTmp
  <2>1. capture(cfg, iter, mem) \in Snapshot
    BY <1>13, CaptureType DEF RenameTmp
  <2> QED  BY <1>13, <2>1 DEF RenameTmp
<1>14. CASE WriteFail       BY <1>14 DEF WriteFail, Fail, Leave
<1>15. CASE Finish          BY <1>15 DEF Finish, Leave
<1>16. CASE Kill            BY <1>16 DEF Kill, Leave
<1>17. CASE RemoveSnapshot  BY <1>17 DEF RemoveSnapshot
<1>18. CASE UNCHANGED vars  BY <1>18 DEF vars, capture
<1> QED
  BY <1>1, <1>2, <1>3, <1>4, <1>5, <1>6, <1>7, <1>8, <1>9, <1>10, <1>11, <1>12, <1>13,
     <1>14, <1>15, <1>16, <1>17, <1>18 DEF Next, Advancing, Refusing

(* The loop counter stays in its bounds and every record keeps its shape,  *)
(* whatever the calls, the kills and the files.                            *)
THEOREM TypeCorrect == Spec => []TypeOK
<1>1. Typed => TypeOK  BY DEF Typed
<1> QED  BY TypedInit, TypedStep, <1>1, PTL DEF Spec

-----------------------------------------------------------------------------
(* The file of the run in progress. *)

(* A loop runs only inside the snapshot regime; the file it finds is one   *)
(* of its own fingerprint, and not ahead of it.                            *)
RunOwnsFile ==
  Running => /\ snapshot_scope_ok(cfg)
             /\ HasSnapshot => /\ snap.fingerprint = storedFingerprint(cfg)
                               /\ snap.completed_iters <= iter
                               /\ pc # "loop" => snap.completed_iters < iter

(* What train_with_snapshot peeked at is what the resume block found.      *)
PeekStillHolds ==
  /\ pc = "setup" => resume_from = IF HasSnapshot THEN snap.completed_iters ELSE 0
  /\ Running => resume_from = started

FileInv == Typed /\ OnlyCompleteSnapshots /\ RunOwnsFile /\ PeekStillHolds
           /\ ReportedResumePoint /\ KillLosesNothing

LEMMA FileInvInit == Init => FileInv
<1> SUFFICES ASSUME Init PROVE FileInv
  OBVIOUS
<1>1. Typed
  BY TypedInit
<1>2. snap # Torn
  BY FileAssumption DEF Init
<1>3. outcome.kind # "model"
  BY DEF Init, NoCall
<1> QED
  BY <1>1, <1>2, <1>3 DEF Init, FileInv, OnlyCompleteSnapshots, RunOwnsFile,
     PeekStillHolds, ReportedResumePoint, KillLosesNothing, Running

(* A call that is over leaves nothing for the invariant to speak of but    *)
(* the model it returned.                                                  *)
LEMMA LeaveKeepsFileInv ==
  ASSUME FileInv, Typed', NEW result, Leave(result), UNCHANGED snap,
         result.kind = "model" => result.from + result.grown = result.config.iterations
  PROVE  FileInv'
  BY DEF FileInv, OnlyCompleteSnapshots, RunOwnsFile, PeekStillHolds, ReportedResumePoint,
     KillLosesNothing, Running, Leave, HasSnapshot

LEMMA FailKeepsFileInv ==
  ASSUME FileInv, Typed', NEW why, why # "model", Fail(why), UNCHANGED files
  PROVE  FileInv'
<1>1. Leave([kind |-> why, config |-> cfg]) /\ UNCHANGED snap
  BY DEF Fail, files
<1>2. [kind |-> why, config |-> cfg].kind # "model"
  OBVIOUS
<1> QED  BY <1>1, <1>2, LeaveKeepsFileInv

LEMMA FileInvStep == FileInv /\ [Next]_vars => FileInv'
<1> SUFFICES ASSUME FileInv, [Next]_vars PROVE FileInv'
  OBVIOUS
<1>0. Typed'
  BY TypedStep DEF FileInv
<1> USE <1>0 DEF RunOwnsFile, PeekStillHolds, Running, HasSnapshot, process, files
<1>1. ASSUME NEW c \in Configs, Begin(c) PROVE FileInv'
  BY <1>1 DEF Begin, FileInv, OnlyCompleteSnapshots, ReportedResumePoint, KillLosesNothing,
     NoCall
<1>2. CASE PeekNoFile
  BY <1>2 DEF PeekNoFile, FileInv, OnlyCompleteSnapshots, ReportedResumePoint,
     KillLosesNothing
<1>3. CASE PeekMatch
  BY <1>3 DEF PeekMatch, FileInv, OnlyCompleteSnapshots, ReportedResumePoint,
     KillLosesNothing
<1>4. CASE PeekRefuse
  BY <1>4, FailKeepsFileInv DEF PeekRefuse
<1>5. CASE OutOfScope
  BY <1>5, FailKeepsFileInv DEF OutOfScope
<1>6. CASE StartFresh
  BY <1>6 DEF StartFresh, EnterLoop, FileInv, OnlyCompleteSnapshots, ReportedResumePoint,
     KillLosesNothing
<1>7. CASE Resume
  <2>1. snap \in Snapshot
    BY <1>7 DEF Resume, FileInv, Typed, TypeOK
  <2>2. snap.completed_iters <= snap.completed_iters
    BY <2>1 DEF Snapshot
  <2> QED
    BY <1>7, <2>1, <2>2 DEF Resume, Resumable, EnterLoop, FileInv, OnlyCompleteSnapshots,
       ReportedResumePoint, KillLosesNothing
<1>8. CASE ResumeRefuse
  BY <1>8, FailKeepsFileInv DEF ResumeRefuse
<1>9. CASE Iterate
  <2>1. /\ iter \in Nat /\ started \in 0 .. iter
        /\ HasSnapshot => snap.completed_iters \in Nat
    BY <1>9, InputsOfConfig DEF Iterate, FileInv, Typed, TypeOK, Snapshot
  <2>2. HasSnapshot => snap.completed_iters < iter + 1 /\ snap.completed_iters <= iter + 1
    BY <1>9, <2>1 DEF Iterate, FileInv
  <2>3. RunOwnsFile' /\ PeekStillHolds'
    BY <1>9, <2>2 DEF Iterate, FileInv
  <2>4. KillLosesNothing'
    BY <1>9 DEF Iterate, KillLosesNothing
  <2>5. OnlyCompleteSnapshots' /\ ReportedResumePoint'
    BY <1>9 DEF Iterate, FileInv, OnlyCompleteSnapshots, ReportedResumePoint
  <2> QED  BY <2>3, <2>4, <2>5 DEF FileInv
<1>10. CASE EncodeFail
  BY <1>10, FailKeepsFileInv DEF EncodeFail
<1>11. CASE OpenTmp
  BY <1>11 DEF OpenTmp, FileInv, OnlyCompleteSnapshots, ReportedResumePoint,
     KillLosesNothing
<1>12. CASE FillTmp
  BY <1>12 DEF FillTmp, FileInv, OnlyCompleteSnapshots, ReportedResumePoint,
     KillLosesNothing
<1>13. CASE RenameTmp
  <2>1. cfg \in Configs /\ iter \in Nat /\ mem \in Memory
    BY <1>13, InputsOfConfig DEF RenameTmp, FileInv, Typed, TypeOK
  <2>2. snap' = capture(cfg, iter, mem)
    BY <1>13 DEF RenameTmp, FileInv, Typed
  <2>3. /\ snap'.fingerprint = storedFingerprint(cfg)
        /\ snap'.completed_iters = iter
    BY <2>2 DEF capture
  <2>4. snap' \notin {NoFile, Torn}
    BY <2>1, <2>2, CaptureType
  <2> QED
    BY <1>13, <2>1, <2>3, <2>4 DEF RenameTmp, FileInv, OnlyCompleteSnapshots,
       ReportedResumePoint, KillLosesNothing
<1>14. CASE WriteFail
  BY <1>14, FailKeepsFileInv DEF WriteFail
<1>15. CASE Finish
  <2> DEFINE result == [kind |-> "model", config |-> cfg, trees |-> mem.trees,
                        bias |-> mem.bias, from |-> resume_from, grown |-> iter - started,
                        lineage |-> lineage]
  <2>1. started + (iter - started) = iter
    BY <1>15, InputsOfConfig DEF Finish, FileInv, Typed, TypeOK
  <2>2. result.from + result.grown = result.config.iterations
    BY <1>15, <2>1 DEF Finish, FileInv
  <2>3. Leave(result) /\ UNCHANGED snap
    BY <1>15 DEF Finish
  <2> HIDE DEF result
  <2> QED  BY <2>2, <2>3, LeaveKeepsFileInv
<1>16. CASE Kill
  <2>1. Fail("killed") /\ UNCHANGED files
    BY <1>16 DEF Kill, Fail
  <2> QED  BY <2>1, FailKeepsFileInv
<1>17. CASE RemoveSnapshot
  BY <1>17, FileAssumption DEF RemoveSnapshot, FileInv, Typed, TypeOK,
     OnlyCompleteSnapshots, ReportedResumePoint, KillLosesNothing
<1>18. CASE UNCHANGED vars
  BY <1>18 DEF vars, FileInv, OnlyCompleteSnapshots, ReportedResumePoint, KillLosesNothing
<1> QED
  BY <1>1, <1>2, <1>3, <1>4, <1>5, <1>6, <1>7, <1>8, <1>9, <1>10, <1>11, <1>12, <1>13,
     <1>14, <1>15, <1>16, <1>17, <1>18 DEF Next, Advancing, Refusing

LEMMA FileInvHolds == Spec => []FileInv
  BY FileInvInit, FileInvStep, PTL DEF Spec

(* write_atomic: whatever is killed, the snapshot path never holds a       *)
(* half-written file.                                                      *)
THEOREM NoTornSnapshot == Spec => []OnlyCompleteSnapshots
<1>1. FileInv => OnlyCompleteSnapshots  BY DEF FileInv
<1> QED  BY FileInvHolds, <1>1, PTL

(* The iteration train_with_snapshot reports, read before the resume block *)
(* reads the file again, is the one the loop started at.                   *)
THEOREM ResumePointIsTrue == Spec => []ReportedResumePoint
<1>1. FileInv => ReportedResumePoint  BY DEF FileInv
<1> QED  BY FileInvHolds, <1>1, PTL

(* With a zero interval no completed iteration is lost to a kill.          *)
THEOREM ZeroIntervalLosesNothing == Spec => []KillLosesNothing
<1>1. FileInv => KillLosesNothing  BY DEF FileInv
<1> QED  BY FileInvHolds, <1>1, PTL

(* A snapshot is replaced only by a later one of the same fingerprint.     *)
THEOREM SnapshotsAdvance == Spec => CheckpointAdvances
<1> DEFINE Advances == HasSnapshot /\ snap' # snap /\ snap' # NoFile =>
                         /\ snap'.fingerprint = snap.fingerprint
                         /\ snap'.completed_iters > snap.completed_iters
<1>1. FileInv /\ [Next]_vars => [Advances]_vars
  <2> SUFFICES ASSUME FileInv, [Next]_vars, snap' # snap, snap' # NoFile, HasSnapshot
               PROVE  /\ snap'.fingerprint = snap.fingerprint
                      /\ snap'.completed_iters > snap.completed_iters
    OBVIOUS
  <2>1. RenameTmp
    BY DEF Next, Advancing, Refusing, vars, process, files, Begin, PeekNoFile, PeekMatch,
       PeekRefuse, OutOfScope, StartFresh, Resume, ResumeRefuse, EnterLoop, Iterate,
       EncodeFail, OpenTmp, FillTmp, WriteFail, Finish, Kill, RemoveSnapshot
  <2>2. snap' = capture(cfg, iter, mem) /\ snap \in Snapshot /\ iter \in Nat
    BY <2>1, InputsOfConfig DEF RenameTmp, FileInv, Typed, TypeOK, HasSnapshot
  <2>3. snap.fingerprint = storedFingerprint(cfg) /\ snap.completed_iters < iter
    BY <2>1 DEF RenameTmp, FileInv, RunOwnsFile, Running
  <2> QED  BY <2>2, <2>3 DEF capture, Snapshot
<1> QED  BY FileInvHolds, <1>1, PTL DEF Spec, CheckpointAdvances

(* snapshot_scope_ok: a call outside the regime leaves the files alone.    *)
THEOREM OutOfScopeLeavesFiles == Spec => OutOfScopeWritesNothing
<1> DEFINE Untouched == pc # "idle" /\ ~snapshot_scope_ok(cfg) => UNCHANGED files
<1>1. FileInv /\ [Next]_vars => [Untouched]_vars
  <2> SUFFICES ASSUME FileInv, [Next]_vars, pc # "idle", ~snapshot_scope_ok(cfg)
               PROVE  UNCHANGED files
    OBVIOUS
  <2>1. ~Running
    BY DEF FileInv, RunOwnsFile
  <2> QED
    BY <2>1 DEF Running, Next, Advancing, Refusing, vars, Begin, PeekNoFile, PeekMatch,
       PeekRefuse, OutOfScope, StartFresh, Resume, ResumeRefuse, EnterLoop, Iterate,
       EncodeFail, OpenTmp, FillTmp, RenameTmp, WriteFail, Finish, Kill, RemoveSnapshot
<1> QED  BY FileInvHolds, <1>1, PTL DEF Spec, OutOfScopeWritesNothing

-----------------------------------------------------------------------------
(* Checkpoints and the uninterrupted run. *)

(* What a checkpoint leaves out of the loop's memory keeps its initial     *)
(* value inside the regime, so the memory of a loop all of whose trees     *)
(* come from one input is the uninterrupted run's.                         *)
MemoryIsPrefix ==
  Running => /\ InputsOf(cfg) \in lineage
             /\ mem.carry = StartCarry
             /\ lineage = {InputsOf(cfg)} => mem = Straight[InputsOf(cfg)][iter]

FileIsPrefix ==
  HasSnapshot =>
    /\ fileLineage # {}
    /\ \A in \in Inputs : fileLineage = {in} =>
         /\ snap.completed_iters \in 0 .. in.iterations
         /\ Straight[in][snap.completed_iters] =
              [trees |-> snap.trees, approx |-> snap.approx, bias |-> snap.bias,
               rng |-> snap.rng, carry |-> StartCarry]

PrefixInv == FileInv /\ MemoryIsPrefix /\ FileIsPrefix

LEMMA PrefixInvInit == Init => PrefixInv
  BY FileInvInit DEF Init, PrefixInv, MemoryIsPrefix, FileIsPrefix, Running, HasSnapshot

LEMMA InScopeUsesNothing ==
  ASSUME NEW c \in Configs, snapshot_scope_ok(c)
  PROVE  InputsOf(c).uses = {}
  BY ConfigAssumption DEF ConfigOK, snapshot_scope_ok, InputsOf

LEMMA PrefixInvStep == PrefixInv /\ [Next]_vars => PrefixInv'
<1> SUFFICES ASSUME PrefixInv, [Next]_vars PROVE PrefixInv'
  OBVIOUS
<1>0. FileInv'
  BY FileInvStep DEF PrefixInv
<1>t. Typed /\ TypeOK
  BY DEF PrefixInv, FileInv, Typed
<1> USE <1>0 DEF Running, HasSnapshot, process, files
<1>1. ASSUME NEW c \in Configs, Begin(c) PROVE PrefixInv'
  BY <1>1 DEF Begin, PrefixInv, MemoryIsPrefix, FileIsPrefix
<1>2. CASE PeekNoFile \/ PeekMatch
  BY <1>2 DEF PeekNoFile, PeekMatch, PrefixInv, MemoryIsPrefix, FileIsPrefix
<1>3. CASE PeekRefuse \/ OutOfScope \/ ResumeRefuse \/ EncodeFail \/ WriteFail \/ Kill
           \/ Finish
  BY <1>3 DEF PeekRefuse, OutOfScope, ResumeRefuse, EncodeFail, WriteFail, Kill, Finish,
     Fail, Leave, PrefixInv, MemoryIsPrefix, FileIsPrefix
<1>4. CASE StartFresh
  <2>1. Straight[InputsOf(cfg)][0] = StartMemory(InputsOf(cfg))
    BY <1>4, <1>t, InputsOfConfig, StraightAssumption DEF StartFresh, TypeOK
  <2>2. StartMemory(InputsOf(cfg)).carry = StartCarry
    BY DEF StartMemory
  <2> QED
    BY <1>4, <2>1, <2>2 DEF StartFresh, EnterLoop, PrefixInv, MemoryIsPrefix, FileIsPrefix
<1>5. CASE Resume
  <2>1. cfg \in Configs /\ snap \in Snapshot /\ InputsOf(cfg) \in Inputs
    BY <1>5, <1>t, InputsOfConfig DEF Resume, TypeOK
  <2>2. Restored(snap) = [trees |-> snap.trees, approx |-> snap.approx,
                          rng |-> snap.rng, bias |-> snap.bias, carry |-> StartCarry]
    BY <1>5, <2>1, RestoredType DEF Resume, Resumable
  <2>3. ASSUME lineage' = {InputsOf(cfg)} PROVE fileLineage = {InputsOf(cfg)}
    BY <1>5, <2>3 DEF Resume, EnterLoop, PrefixInv, FileIsPrefix
  <2>4. fileLineage = {InputsOf(cfg)} =>
          Restored(snap) = Straight[InputsOf(cfg)][snap.completed_iters]
    BY <1>5, <2>1, <2>2 DEF Resume, PrefixInv, FileIsPrefix
  <2>5. MemoryIsPrefix'
    BY <1>5, <2>2, <2>3, <2>4 DEF Resume, EnterLoop, MemoryIsPrefix
  <2>6. FileIsPrefix'
    BY <1>5 DEF Resume, EnterLoop, PrefixInv, FileIsPrefix
  <2> QED  BY <2>5, <2>6 DEF PrefixInv
<1>6. CASE Iterate
  <2> DEFINE in == InputsOf(cfg)
  <2>1. /\ in \in Inputs /\ iter \in 0 .. in.iterations - 1 /\ mem \in Memory
        /\ iter \in 0 .. in.iterations
    BY <1>6, <1>t, InputsOfConfig DEF Iterate, TypeOK
  <2>2. in.uses = {}
    BY <1>6, <1>t, InScopeUsesNothing DEF Iterate, TypeOK, PrefixInv, FileInv, RunOwnsFile
  <2>3. mem'.carry = StartCarry
    BY <1>6, <2>1, <2>2, IterationType DEF Iterate, PrefixInv, MemoryIsPrefix
  <2>4. Straight[in][iter + 1] = Iteration(in, iter, Straight[in][iter])
    BY <2>1, StraightAssumption
  <2>5. MemoryIsPrefix'
    BY <1>6, <2>3, <2>4 DEF Iterate, PrefixInv, MemoryIsPrefix
  <2>6. FileIsPrefix'
    BY <1>6 DEF Iterate, PrefixInv, FileIsPrefix
  <2> QED  BY <2>5, <2>6 DEF PrefixInv
<1>7. CASE OpenTmp \/ FillTmp
  BY <1>7 DEF OpenTmp, FillTmp, PrefixInv, MemoryIsPrefix, FileIsPrefix
<1>8. CASE RenameTmp
  <2>1. /\ snap' = capture(cfg, iter, mem) /\ mem \in Memory
        /\ iter \in 0 .. InputsOf(cfg).iterations
    BY <1>8, <1>t, InputsOfConfig DEF RenameTmp, Typed, TypeOK
  <2>2. fileLineage' = lineage /\ InputsOf(cfg) \in lineage /\ mem.carry = StartCarry
    BY <1>8 DEF RenameTmp, PrefixInv, MemoryIsPrefix
  <2>3. mem = [trees |-> mem.trees, approx |-> mem.approx, bias |-> mem.bias,
               rng |-> mem.rng, carry |-> StartCarry]
    BY <2>1, <2>2 DEF Memory
  <2>4. mem = [trees |-> snap'.trees, approx |-> snap'.approx, bias |-> snap'.bias,
               rng |-> snap'.rng, carry |-> StartCarry] /\ snap'.completed_iters = iter
    BY <2>1, <2>3 DEF capture
  <2>5. ASSUME NEW in \in Inputs, fileLineage' = {in}
        PROVE  /\ in = InputsOf(cfg)
               /\ mem = Straight[in][iter]
    BY <1>8, <2>2, <2>5 DEF RenameTmp, PrefixInv, MemoryIsPrefix
  <2>6. FileIsPrefix'
    BY <2>1, <2>2, <2>4, <2>5 DEF FileIsPrefix
  <2>7. MemoryIsPrefix'
    BY <1>8 DEF RenameTmp, PrefixInv, MemoryIsPrefix
  <2> QED  BY <2>6, <2>7 DEF PrefixInv
<1>9. CASE RemoveSnapshot
  BY <1>9 DEF RemoveSnapshot, PrefixInv, MemoryIsPrefix, FileIsPrefix
<1>10. CASE UNCHANGED vars
  BY <1>10 DEF vars, PrefixInv, MemoryIsPrefix, FileIsPrefix
<1> QED
  BY <1>1, <1>2, <1>3, <1>4, <1>5, <1>6, <1>7, <1>8, <1>9, <1>10
     DEF Next, Advancing, Refusing

LEMMA PrefixInvHolds == Spec => []PrefixInv
  BY PrefixInvInit, PrefixInvStep, PTL DEF Spec

(* The snapshot documentation: a snapshot is "the persisted boosting-loop  *)
(* state", bit for bit that of the straight-through run at the same        *)
(* iteration, however many kills, resumes and callers made it.             *)
THEOREM CheckpointsArePrefixes == Spec => []CheckpointIsPrefix
<1>1. PrefixInv => CheckpointIsPrefix
  BY DEF PrefixInv, FileIsPrefix, CheckpointIsPrefix
<1> QED  BY PrefixInvHolds, <1>1, PTL

-----------------------------------------------------------------------------
(* Returned models and refusals, when the fingerprint tells inputs apart.  *)

WrittenBy(c) == /\ snapshot_scope_ok(c)
                /\ fileLineage = {InputsOf(c)}
                /\ snap.fingerprint = storedFingerprint(c)
                /\ snap.shape = Shape(c.hashed)
                /\ Len(snap.trees) = snap.completed_iters

OneRun == /\ Running => lineage = {InputsOf(cfg)} /\ Len(mem.trees) = iter
          /\ HasSnapshot => \E c \in Configs : WrittenBy(c)

RunInv == PrefixInv /\ OneRun /\ ResumeInvisible

(* Resuming a file means being the run that wrote it.                      *)
LEMMA ResumedIsOwn ==
  ASSUME FingerprintCovers, cfg \in Configs, snapshot_scope_ok(cfg), OneRun,
         HasSnapshot, Resumable(snap)
  PROVE  fileLineage = {InputsOf(cfg)}
  BY DEF FingerprintCovers, OneRun, WrittenBy, Resumable

LEMMA RunInvInit == Init => RunInv
<1> SUFFICES ASSUME Init PROVE RunInv
  OBVIOUS
<1>1. outcome.kind # "model"
  BY DEF Init, NoCall
<1> QED
  BY <1>1, PrefixInvInit DEF Init, RunInv, OneRun, ResumeInvisible, Running, HasSnapshot

LEMMA RunInvStep ==
  ASSUME FingerprintCovers
  PROVE  RunInv /\ [Next]_vars => RunInv'
<1> SUFFICES ASSUME RunInv, [Next]_vars PROVE RunInv'
  OBVIOUS
<1>0. PrefixInv'
  BY PrefixInvStep DEF RunInv
<1>t. Typed /\ TypeOK
  BY DEF RunInv, PrefixInv, FileInv, Typed
<1> USE <1>0 DEF Running, HasSnapshot, WrittenBy, process, files
<1>1. ASSUME NEW c \in Configs, Begin(c) PROVE RunInv'
  <2>1. outcome'.kind # "model"
    BY <1>1 DEF Begin, NoCall
  <2> QED  BY <1>1, <2>1 DEF Begin, RunInv, OneRun, ResumeInvisible
<1>2. CASE PeekNoFile \/ PeekMatch \/ OpenTmp \/ FillTmp
  BY <1>2 DEF PeekNoFile, PeekMatch, OpenTmp, FillTmp, RunInv, OneRun, ResumeInvisible
<1>3. CASE PeekRefuse \/ OutOfScope \/ ResumeRefuse \/ EncodeFail \/ WriteFail \/ Kill
  <2>1. ASSUME NEW why, why # "model", Fail(why) PROVE outcome'.kind # "model"
    BY <2>1 DEF Fail, Leave
  <2>2. outcome'.kind # "model"
    BY <1>3, <2>1 DEF PeekRefuse, OutOfScope, ResumeRefuse, EncodeFail, WriteFail, Kill, Fail
  <2> QED
    BY <1>3, <2>2 DEF PeekRefuse, OutOfScope, ResumeRefuse, EncodeFail, WriteFail, Kill,
       Fail, Leave, RunInv, OneRun, ResumeInvisible
<1>4. CASE StartFresh
  <2>1. Len(StartMemory(InputsOf(cfg)).trees) = 0
    BY DEF StartMemory
  <2> QED  BY <1>4, <2>1 DEF StartFresh, EnterLoop, RunInv, OneRun, ResumeInvisible
<1>5. CASE Resume
  <2>1. cfg \in Configs /\ snap \in Snapshot
    BY <1>5, <1>t DEF Resume, TypeOK
  <2>2. fileLineage = {InputsOf(cfg)}
    BY <1>5, <2>1, ResumedIsOwn DEF Resume, RunInv
  <2>3. Restored(snap).trees = snap.trees /\ Len(snap.trees) = snap.completed_iters
    BY <1>5, <2>1, RestoredType DEF Resume, Resumable
  <2>4. OneRun'
    BY <1>5, <2>2, <2>3 DEF Resume, EnterLoop, RunInv, OneRun
  <2> QED  BY <1>5, <2>4 DEF Resume, EnterLoop, RunInv, ResumeInvisible
<1>6. CASE Iterate
  <2>1. Len(mem'.trees) = iter'
    BY <1>6, <1>t, InputsOfConfig, IterationType DEF Iterate, TypeOK, RunInv, OneRun
  <2> QED  BY <1>6, <2>1 DEF Iterate, RunInv, OneRun, ResumeInvisible
<1>7. CASE RenameTmp
  <2>1. snap' = capture(cfg, iter, mem) /\ fileLineage' = lineage /\ cfg \in Configs
    BY <1>7, <1>t DEF RenameTmp, Typed, TypeOK
  <2>2. snapshot_scope_ok(cfg)
    BY <1>7 DEF RenameTmp, RunInv, PrefixInv, FileInv, RunOwnsFile
  <2>3. WrittenBy(cfg)'
    BY <1>7, <2>1, <2>2 DEF RenameTmp, capture, RunInv, OneRun
  <2> QED  BY <1>7, <2>1, <2>3 DEF RenameTmp, RunInv, OneRun, ResumeInvisible
<1>8. CASE Finish
  <2>1. /\ outcome'.config = cfg /\ outcome'.trees = mem.trees /\ outcome'.bias = mem.bias
        /\ cfg.iterations = InputsOf(cfg).iterations /\ iter = cfg.iterations
    BY <1>8, <1>t, InputsOfConfig DEF Finish, Leave, TypeOK
  <2>2. mem = Straight[InputsOf(cfg)][iter]
    BY <1>8 DEF Finish, RunInv, PrefixInv, MemoryIsPrefix, OneRun
  <2>3. ResumeInvisible'
    BY <2>1, <2>2 DEF ResumeInvisible
  <2> QED  BY <1>8, <2>3 DEF Finish, Leave, RunInv, OneRun
<1>9. CASE RemoveSnapshot
  BY <1>9 DEF RemoveSnapshot, RunInv, OneRun, ResumeInvisible
<1>10. CASE UNCHANGED vars
  BY <1>10 DEF vars, RunInv, OneRun, ResumeInvisible
<1> QED
  BY <1>1, <1>2, <1>3, <1>4, <1>5, <1>6, <1>7, <1>8, <1>9, <1>10
     DEF Next, Advancing, Refusing

(* If the fingerprint covers every input the loop reads, as its            *)
(* documentation says, the model of a call that was killed and resumed any *)
(* number of times is the uninterrupted run's. (The run                    *)
(* snapshot_other_features shows what happens when it does not.)           *)
THEOREM ResumesAreInvisible ==
  ASSUME FingerprintCovers
  PROVE  Spec => []ResumeInvisible
<1>1. RunInv => ResumeInvisible  BY DEF RunInv
<1> QED  BY RunInvInit, RunInvStep, <1>1, PTL DEF Spec

-----------------------------------------------------------------------------
(* Refusals, for sound configurations. *)

BiasIsStart ==
  /\ Running => mem.bias = StartBias(InputsOf(cfg))
  /\ HasSnapshot => \A in \in Inputs : fileLineage = {in} => snap.bias = StartBias(in)

AcceptInv == RunInv /\ BiasIsStart /\ OwnSnapshotAccepted
             /\ (outcome.kind = "refused" => pc = "idle")

(* Equal inputs have equal fingerprints and shapes.                        *)
LEMMA SameInputs ==
  ASSUME NEW c \in Configs, NEW d \in Configs, InputsOf(c) = InputsOf(d)
  PROVE  /\ storedFingerprint(c) = storedFingerprint(d)
         /\ Shape(c.hashed) = Shape(d.hashed)
  BY DEF InputsOf, storedFingerprint, fingerprint

LEMMA PeekAgrees ==
  ASSUME Sound, NEW c \in Configs
  PROVE  fingerprint(c, c.weights) = storedFingerprint(c)
  BY DEF Sound, storedFingerprint, EffectiveWeights

(* A call is never turned away from a file of its own inputs.              *)
LEMMA OwnFileMatches ==
  ASSUME Sound, AcceptInv, cfg \in Configs, snap # NoFile, snap # Torn,
         fileLineage = {InputsOf(cfg)}
  PROVE  Resumable(snap) /\ snap.fingerprint = fingerprint(cfg, cfg.weights)
<1>1. PICK c \in Configs : WrittenBy(c)
  BY DEF AcceptInv, RunInv, OneRun, HasSnapshot
<1>2. InputsOf(c) = InputsOf(cfg)
  BY <1>1 DEF WrittenBy
<1>3. snap.fingerprint = storedFingerprint(cfg) /\ snap.shape = Shape(cfg.hashed)
  BY <1>1, <1>2, SameInputs DEF WrittenBy
<1>4. snap.bias = StartBias(InputsOf(cfg)) /\ snap.completed_iters \in 0 .. cfg.iterations
  BY InputsOfConfig DEF AcceptInv, BiasIsStart, HasSnapshot, RunInv, PrefixInv, FileIsPrefix
<1> QED  BY <1>1, <1>3, <1>4, PeekAgrees, InputsOfConfig DEF Resumable, WrittenBy

LEMMA AcceptInvInit == Init => AcceptInv
<1> SUFFICES ASSUME Init PROVE AcceptInv
  OBVIOUS
<1>1. outcome.kind # "refused"
  BY DEF Init, NoCall
<1> QED
  BY <1>1, RunInvInit DEF Init, AcceptInv, BiasIsStart, OwnSnapshotAccepted, Running,
     HasSnapshot

LEMMA AcceptInvStep ==
  ASSUME Sound
  PROVE  AcceptInv /\ [Next]_vars => AcceptInv'
<1> SUFFICES ASSUME AcceptInv, [Next]_vars PROVE AcceptInv'
  OBVIOUS
<1>0. RunInv'
  BY RunInvStep DEF AcceptInv, Sound
<1>t. Typed /\ TypeOK /\ snap # Torn
  BY DEF AcceptInv, RunInv, PrefixInv, FileInv, Typed, OnlyCompleteSnapshots
<1> USE <1>0 DEF Running, HasSnapshot, process, files
<1>1. ASSUME NEW c \in Configs, Begin(c) PROVE AcceptInv'
  <2>1. outcome'.kind # "refused"
    BY <1>1 DEF Begin, NoCall
  <2> QED  BY <1>1, <2>1 DEF Begin, AcceptInv, BiasIsStart, OwnSnapshotAccepted
<1>2. CASE PeekNoFile \/ PeekMatch \/ OpenTmp \/ FillTmp
  BY <1>2 DEF PeekNoFile, PeekMatch, OpenTmp, FillTmp, AcceptInv, BiasIsStart,
     OwnSnapshotAccepted
<1>3. CASE PeekRefuse \/ ResumeRefuse
  <2>1. cfg \in Configs /\ snap # NoFile
    BY <1>3, <1>t DEF PeekRefuse, ResumeRefuse, TypeOK
  <2>2. outcome'.config = cfg
    BY <1>3 DEF PeekRefuse, ResumeRefuse, Fail, Leave
  <2>3. fileLineage # {InputsOf(cfg)}
    BY <1>3, <1>t, <2>1, OwnFileMatches DEF PeekRefuse, ResumeRefuse
  <2> QED
    BY <1>3, <2>2, <2>3 DEF PeekRefuse, ResumeRefuse, Fail, Leave, AcceptInv, BiasIsStart,
       OwnSnapshotAccepted
<1>4. CASE OutOfScope \/ EncodeFail \/ WriteFail \/ Kill \/ Finish
  <2>1. ASSUME NEW why, why # "refused", Fail(why) PROVE outcome'.kind # "refused"
    BY <2>1 DEF Fail, Leave
  <2>2. Finish => outcome'.kind # "refused"
    BY DEF Finish, Leave
  <2>3. outcome'.kind # "refused"
    BY <1>4, <2>1, <2>2 DEF OutOfScope, EncodeFail, WriteFail, Kill, Fail
  <2> QED
    BY <1>4, <2>3 DEF OutOfScope, EncodeFail, WriteFail, Kill, Finish, Fail, Leave,
       AcceptInv, BiasIsStart, OwnSnapshotAccepted
<1>5. CASE StartFresh
  <2>1. StartMemory(InputsOf(cfg)).bias = StartBias(InputsOf(cfg))
    BY DEF StartMemory
  <2> QED
    BY <1>5, <2>1 DEF StartFresh, EnterLoop, AcceptInv, BiasIsStart, OwnSnapshotAccepted
<1>6. CASE Resume
  <2>1. Restored(snap).bias = StartBias(InputsOf(cfg))
    BY <1>6, <1>t, RestoredType DEF Resume, TypeOK
  <2> QED
    BY <1>6, <2>1 DEF Resume, EnterLoop, AcceptInv, BiasIsStart, OwnSnapshotAccepted
<1>7. CASE Iterate
  <2> DEFINE in == InputsOf(cfg)
  <2>1. /\ cfg \in Configs /\ mem \in Memory /\ mem.bias = StartBias(in)
        /\ iter > 0 => iter \in 1 .. cfg.iterations
    BY <1>7, <1>t, InputsOfConfig DEF Iterate, TypeOK, AcceptInv, BiasIsStart
  <2>2. in.shrink /\ iter > 0 => Shrink(iter, mem.bias) = StartBias(in)
    BY <2>1 DEF Sound, InputsOf
  <2>3. Shrunk(in, iter, mem).bias = StartBias(in)
    BY <2>1, <2>2 DEF Shrunk, Memory
  <2>4. mem'.bias = StartBias(in)
    BY <1>7, <2>3 DEF Iterate, Iteration
  <2> QED  BY <1>7, <2>4 DEF Iterate, AcceptInv, BiasIsStart, OwnSnapshotAccepted
<1>8. CASE RenameTmp
  <2>1. /\ snap'.bias = mem.bias /\ fileLineage' = {InputsOf(cfg)}
        /\ outcome'.kind # "refused"
    BY <1>8, <1>t DEF RenameTmp, Typed, capture, AcceptInv, RunInv, OneRun
  <2> QED  BY <1>8, <2>1 DEF RenameTmp, AcceptInv, BiasIsStart, OwnSnapshotAccepted
<1>9. CASE RemoveSnapshot
  BY <1>9 DEF RemoveSnapshot, AcceptInv, BiasIsStart, OwnSnapshotAccepted
<1>10. CASE UNCHANGED vars
  BY <1>10 DEF vars, AcceptInv, BiasIsStart, OwnSnapshotAccepted
<1> QED
  BY <1>1, <1>2, <1>3, <1>4, <1>5, <1>6, <1>7, <1>8, <1>9, <1>10
     DEF Next, Advancing, Refusing

(* train_with_snapshot: "a subsequent call with the same configuration     *)
(* picks up where the previous one stopped" holds of the calls that spell  *)
(* out their weights and whose bias no shrinkage moves.                    *)
THEOREM OwnSnapshotsAreAccepted ==
  ASSUME Sound
  PROVE  Spec => []OwnSnapshotAccepted
<1>1. AcceptInv => OwnSnapshotAccepted  BY DEF AcceptInv
<1> QED  BY AcceptInvInit, AcceptInvStep, <1>1, PTL DEF Spec

-----------------------------------------------------------------------------
(* Refinement: the checkpointed trainer is the fit its caller is promised. *)

(* In a sound regime a file has one run, and it can be told from no file.  *)
LEMMA DurableView ==
  ASSUME AcceptInv
  PROVE  /\ ~HasSnapshot => durable = None
         /\ HasSnapshot =>
              /\ durable # None
              /\ fileLineage = {durable.inputs}
              /\ durable.iters = snap.completed_iters
              /\ snap.completed_iters \in Nat
<1>1. CASE ~HasSnapshot
  BY <1>1 DEF durable
<1>2. CASE HasSnapshot
  <2>1. PICK c \in Configs : fileLineage = {InputsOf(c)}
    BY <1>2 DEF AcceptInv, RunInv, OneRun, WrittenBy
  <2>2. (CHOOSE in \in fileLineage : TRUE) = InputsOf(c)
    BY <2>1
  <2>3. durable = [inputs |-> InputsOf(c), iters |-> snap.completed_iters]
    BY <1>2, <2>2 DEF durable
  <2>4. snap.completed_iters \in Nat
    BY <1>2 DEF HasSnapshot, AcceptInv, RunInv, PrefixInv, FileInv, Typed, TypeOK, Snapshot
  <2>5. durable \in [inputs : Inputs, iters : Nat]
    BY <2>3, <2>4, InputsOfConfig
  <2> QED  BY <1>2, <2>1, <2>3, <2>4, <2>5, NoneAssumption
<1> QED  BY <1>1, <1>2

LEMMA CallView ==
  ASSUME AcceptInv
  PROVE  /\ pc = "idle" => call = None
         /\ pc # "idle" => call # None /\ call.config = cfg
         /\ pc # "idle" =>
              call = [config |-> cfg,
                      from |-> IF pc # "peek" THEN resume_from
                               ELSE IF HasSnapshot THEN snap.completed_iters ELSE 0]
<1>1. pc # "idle" => cfg \in Configs /\ resume_from \in Nat
  BY DEF AcceptInv, RunInv, PrefixInv, FileInv, Typed, TypeOK
<1>2. HasSnapshot => snap.completed_iters \in Nat
  BY DurableView
<1> QED  BY <1>1, <1>2, NoneAssumption DEF call

LEMMA SurvivingView ==
  ASSUME AcceptInv
  PROVE  Fit!Surviving = IF HasSnapshot THEN snap.completed_iters ELSE 0
  BY DurableView DEF Fit!Surviving

(* A step that leaves the file as it is leaves what survives as it is.     *)
LEMMA SameFile ==
  ASSUME UNCHANGED <<snap, fileLineage>>
  PROVE  durable' = durable
  BY DEF durable, HasSnapshot

LEMMA RefinesInit == Init => Fit!Init
<1> SUFFICES ASSUME Init PROVE Fit!Init
  OBVIOUS
<1>1. AcceptInv
  BY AcceptInvInit
<1>2. call = None /\ durable = None
  BY <1>1, CallView, DurableView DEF Init, HasSnapshot
<1> QED  BY <1>2 DEF Init, NoCall, returned, Fit!Init

(* A call that ends with an error, or is killed, leaves the file to the    *)
(* next one.                                                               *)
LEMMA RefinesGivingUp ==
  ASSUME AcceptInv, AcceptInv', pc # "idle", UNCHANGED files,
         NEW why \in {"killed", "io", "diverged", "out of scope"}, Fail(why)
  PROVE  Fit!GiveUp
<1>1. call # None /\ call.config = cfg
  BY CallView
<1>2. call' = None
  BY DEF Fail, Leave, call
<1>3. returned' = [kind |-> why, config |-> cfg]
  BY DEF Fail, Leave, returned
<1>4. durable' = durable
  BY SameFile DEF files
<1> QED  BY <1>1, <1>2, <1>3, <1>4 DEF Fit!GiveUp

(* A refused file is never one of the caller's own run.                    *)
LEMMA RefinesRefusing ==
  ASSUME AcceptInv, AcceptInv', pc # "idle", UNCHANGED files, HasSnapshot,
         fileLineage # {InputsOf(cfg)}, Fail("refused")
  PROVE  Fit!Refuse
<1>1. call # None /\ call.config = cfg
  BY CallView
<1>2. call' = None
  BY DEF Fail, Leave, call
<1>3. returned' = [kind |-> "refused", config |-> cfg]
  BY DEF Fail, Leave, returned
<1>4. durable' = durable
  BY SameFile DEF files
<1>5. durable # None /\ durable.inputs # InputsOf(cfg)
  BY DurableView
<1> QED  BY <1>1, <1>2, <1>3, <1>4, <1>5 DEF Fit!Refuse

LEMMA RefinesStep ==
  ASSUME Sound, AcceptInv, AcceptInv', [Next]_vars
  PROVE  [Fit!Next]_(Fit!vars)
<1> USE DEF process, files
<1>t. /\ Typed /\ TypeOK /\ snap # Torn /\ PeekStillHolds /\ RunOwnsFile
      /\ NoFile \notin Snapshot /\ Torn \notin Snapshot
  BY FileAssumption DEF AcceptInv, RunInv, PrefixInv, FileInv, Typed, OnlyCompleteSnapshots
<1>1. ASSUME NEW c \in Configs, Begin(c) PROVE Fit!Begin(c)
  <2>1. call = None /\ durable' = durable /\ returned' = [kind |-> "none"]
    BY <1>1, CallView, SameFile DEF Begin, NoCall, returned
  <2>2. call' = [config |-> c, from |-> Fit!Surviving]
    BY <1>1, SurvivingView DEF Begin, call, HasSnapshot
  <2> QED  BY <2>1, <2>2 DEF Fit!Begin
<1>2. CASE PeekNoFile \/ PeekMatch
  <2>1. durable' = durable /\ returned' = returned
    BY <1>2, SameFile DEF PeekNoFile, PeekMatch, returned
  <2>2. call' = call
    BY <1>2, <1>t DEF PeekNoFile, PeekMatch, call, HasSnapshot
  <2> QED  BY <2>1, <2>2 DEF Fit!vars
<1>3. CASE PeekRefuse \/ ResumeRefuse
  <2>1. HasSnapshot /\ pc # "idle" /\ UNCHANGED files /\ Fail("refused") /\ cfg \in Configs
    BY <1>3, <1>t DEF PeekRefuse, ResumeRefuse, HasSnapshot, TypeOK
  <2>2. fileLineage # {InputsOf(cfg)}
    BY <1>3, <2>1, OwnFileMatches DEF PeekRefuse, ResumeRefuse, HasSnapshot
  <2> QED  BY <2>1, <2>2, RefinesRefusing DEF Fit!Next
<1>4. CASE OutOfScope \/ EncodeFail \/ WriteFail \/ Kill
  <2>1. pc # "idle" /\ UNCHANGED files
    BY <1>4 DEF OutOfScope, EncodeFail, WriteFail, Kill
  <2>2. Fail("out of scope") \/ Fail("diverged") \/ Fail("io") \/ Fail("killed")
    BY <1>4 DEF OutOfScope, EncodeFail, WriteFail, Kill, Fail
  <2> QED  BY <2>1, <2>2, RefinesGivingUp DEF Fit!Next
<1>5. CASE StartFresh \/ Resume \/ Iterate \/ OpenTmp \/ FillTmp
  <2>1. durable' = durable /\ returned' = returned
    BY <1>5, SameFile DEF StartFresh, Resume, EnterLoop, Iterate, OpenTmp, FillTmp, returned
  <2>2. pc \notin {"idle", "peek"} /\ pc' \notin {"idle", "peek"}
    BY <1>5 DEF StartFresh, Resume, EnterLoop, Iterate, OpenTmp, FillTmp
  <2>3. cfg' = cfg /\ resume_from' = resume_from
    BY <1>5 DEF StartFresh, Resume, EnterLoop, Iterate, OpenTmp, FillTmp
  <2>4. call' = call
    BY <2>2, <2>3 DEF call
  <2> QED  BY <2>1, <2>4 DEF Fit!vars
<1>6. CASE RenameTmp
  <2>1. /\ pc = "rename" /\ pc' = "loop" /\ cfg \in Configs /\ iter \in 0 .. cfg.iterations
        /\ cfg' = cfg /\ resume_from' = resume_from /\ outcome' = outcome
        /\ iter \in Nat /\ cfg.iterations \in Nat
    BY <1>6, <1>t, InputsOfConfig DEF RenameTmp, TypeOK
  <2>2. call # None /\ call' = call /\ call.config = cfg /\ returned' = returned
    BY <2>1, CallView DEF call, returned
  <2>3. HasSnapshot' /\ snap'.completed_iters = iter /\ fileLineage' = {InputsOf(cfg)}
    <3>1. snap' = capture(cfg, iter, mem) /\ mem \in Memory
      BY <1>6, <1>t, <2>1 DEF RenameTmp, Typed, TypeOK
    <3>2. capture(cfg, iter, mem) \notin {NoFile, Torn}
      BY <2>1, <3>1, CaptureType
    <3>3. fileLineage' = {InputsOf(cfg)}
      BY <1>6, <2>1 DEF RenameTmp, AcceptInv, RunInv, OneRun, Running
    <3> QED  BY <3>1, <3>2, <3>3 DEF HasSnapshot, capture
  <2>4. durable' = [inputs |-> InputsOf(cfg), iters |-> iter]
    BY <2>3 DEF durable
  <2>5. iter > 0
    BY <1>t, <2>1 DEF Typed
  <2>6. iter \in Fit!Surviving + 1 .. cfg.iterations
    BY <1>t, <2>1, <2>5, SurvivingView, DurableView DEF RunOwnsFile, Running
  <2>7. durable # None => durable.inputs = InputsOf(cfg)
    <3> SUFFICES ASSUME HasSnapshot PROVE durable.inputs = InputsOf(cfg)
      BY DurableView
    <3>1. PICK c \in Configs : WrittenBy(c)
      BY DEF AcceptInv, RunInv, OneRun
    <3>2. snapshot_scope_ok(cfg) /\ snap.fingerprint = storedFingerprint(cfg)
      BY <1>t, <2>1 DEF RunOwnsFile, Running
    <3>3. InputsOf(c) = InputsOf(cfg)
      BY <2>1, <3>1, <3>2 DEF WrittenBy, Sound, FingerprintCovers
    <3> QED  BY <3>1, <3>3, DurableView DEF WrittenBy
  <2> QED  BY <2>2, <2>4, <2>6, <2>7 DEF Fit!Checkpoint, Fit!Next
<1>7. CASE Finish
  <2>1. call # None /\ call.config = cfg /\ call.from = resume_from
    BY <1>7, CallView DEF Finish
  <2>2. call' = None /\ durable' = durable
    BY <1>7, SameFile DEF Finish, Leave, call
  <2>3. /\ outcome'.kind = "model" /\ outcome'.config = cfg /\ outcome'.from = resume_from
    BY <1>7 DEF Finish, Leave
  <2>4. [trees |-> outcome'.trees, bias |-> outcome'.bias] = StraightModel(InputsOf(cfg))
    BY <2>3 DEF AcceptInv, RunInv, ResumeInvisible, StraightModel
  <2>5. returned' = [kind |-> "model", config |-> cfg, from |-> resume_from,
                     model |-> StraightModel(InputsOf(cfg))]
    BY <2>3, <2>4 DEF returned
  <2> QED  BY <2>1, <2>2, <2>5 DEF Fit!Return, Fit!Next
<1>8. CASE RemoveSnapshot
  <2>1. call = None /\ call' = None /\ returned' = returned
    BY <1>8 DEF RemoveSnapshot, call, returned
  <2>2. durable # None /\ durable' = None
    BY <1>8, <1>t, DurableView DEF RemoveSnapshot, HasSnapshot, durable
  <2> QED  BY <2>1, <2>2 DEF Fit!Remove, Fit!Next
<1>9. CASE UNCHANGED vars
  BY <1>9 DEF vars, call, durable, returned, HasSnapshot, Fit!vars
<1> QED
  BY <1>1, <1>2, <1>3, <1>4, <1>5, <1>6, <1>7, <1>8, <1>9
     DEF Next, Advancing, Refusing, Fit!Next

(* train_with_snapshot keeps its promise: kills, full disks, retries and   *)
(* resumes only ever show as a number of iterations that survives, which   *)
(* grows until the caller removes the file; a call returns the             *)
(* uninterrupted run's model or refuses the file of another run. For every *)
(* set of sound configurations, and any number of calls.                   *)
THEOREM TrainerKeepsItsPromise ==
  ASSUME Sound
  PROVE  Spec => ImplementsResumableFit
<1>1. Spec => []AcceptInv
  BY AcceptInvInit, AcceptInvStep, PTL DEF Spec
<1>2. AcceptInv /\ AcceptInv' /\ [Next]_vars => [Fit!Next]_(Fit!vars)
  BY RefinesStep
<1> QED  BY <1>1, <1>2, RefinesInit, PTL DEF Spec, ImplementsResumableFit, Fit!Spec

=============================================================================
