--------------------------- MODULE MCDeviceTraining ---------------------------
(***************************************************************************)
(* Two objects, two listed features of which one has borders, depth 2.     *)
(* The stream rejects a pair of uniforms at every fifth position and every *)
(* third draw fails rsm, so levels differ in length and some select only   *)
(* the border-less feature.                                                *)
(***************************************************************************)
EXTENDS DeviceTraining

CostOfNormal(p) == IF p % 5 = 2 THEN 4 ELSE 2
PassesRsm(p) == p % 3 # 1

Default == [policy |-> "SymmetricTree", ordered |-> FALSE, ctr |-> FALSE, bootstrap |-> "No",
            partial |-> TRUE, rsm |-> FALSE, perturb |-> FALSE, score |-> "Normal",
            langevin |-> FALSE, steps |-> 1, other |-> FALSE]

(* Fields that nothing reads are left at one value. *)
Canonical(c) ==
  /\ c.bootstrap \in {"No", "Poisson"} => c.partial
  /\ c.steps = 2 => c.langevin
  /\ c.other => c.policy = "SymmetricTree" /\ ~c.langevin /\ ~c.rsm

AllFits == {c \in Configurations : Accepted(c) /\ Canonical(c) /\ Replayable(c)}
===============================================================================
