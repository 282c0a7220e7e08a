------------------------------ MODULE LearnStream ------------------------------
(***************************************************************************)
(* What every grower owes the learn RNG: the sample of each tree is read   *)
(* where the CPU trainer reads it.  A fit grows its trees one after the    *)
(* other, in one step each, and may end at any time.                       *)
(***************************************************************************)
EXTENDS LearnDraws, Sequences

CONSTANTS Configs, Trees, NoFit

VARIABLES
  running,     \* the fit's configuration, or NoFit
  sampledAt,   \* where each grown tree read its sample
  position     \* of the stream, at the last tree boundary

stream == <<running, sampledAt, position>>

Idle == running = NoFit /\ sampledAt = <<>> /\ position = 0

Start ==
  /\ Idle
  /\ running' \in Configs
  /\ UNCHANGED <<sampledAt, position>>

GrowTree ==
  /\ running # NoFit
  /\ Len(sampledAt) < Trees
  /\ sampledAt' = Append(sampledAt, SampleAt(running, position))
  /\ position' = TreeEnd(running, position)
  /\ UNCHANGED running

End == running # NoFit /\ running' = NoFit /\ sampledAt' = <<>> /\ position' = 0

Next == Start \/ GrowTree \/ End

Spec == Idle /\ [][Next]_stream
================================================================================
