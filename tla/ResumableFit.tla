---------------------------- MODULE ResumableFit ----------------------------
(***************************************************************************)
(* What a caller of train_with_snapshot is promised: of a killed fit only  *)
(* a number of completed iterations survives, that number never goes down, *)
(* and the model a later call returns is the uninterrupted run's, whatever *)
(* happened in between.                                                    *)
(***************************************************************************)
EXTENDS Naturals

CONSTANTS Configs, InputsOf(_), Model(_), None

VARIABLES
  call,     \* the call in progress, with the resume point it will report
  durable,  \* the iterations that would survive a kill, and of which inputs
  outcome   \* what the last call returned

vars == <<call, durable, outcome>>

Init == call = None /\ durable = None /\ outcome = [kind |-> "none"]

Surviving == IF durable = None THEN 0 ELSE durable.iters

Begin(c) ==
  /\ call = None
  /\ call' = [config |-> c, from |-> Surviving]
  /\ outcome' = [kind |-> "none"]
  /\ UNCHANGED durable

Checkpoint ==
  /\ call # None
  /\ durable # None => durable.inputs = InputsOf(call.config)
  /\ \E k \in Surviving + 1 .. call.config.iterations :
       durable' = [inputs |-> InputsOf(call.config), iters |-> k]
  /\ UNCHANGED <<call, outcome>>

Return ==
  /\ call # None
  /\ outcome' = [kind |-> "model", config |-> call.config, from |-> call.from,
                 model |-> Model(InputsOf(call.config))]
  /\ call' = None
  /\ UNCHANGED durable

(* Only the file of another run is refused. *)
Refuse ==
  /\ call # None
  /\ durable # None /\ durable.inputs # InputsOf(call.config)
  /\ outcome' = [kind |-> "refused", config |-> call.config]
  /\ call' = None
  /\ UNCHANGED durable

GiveUp ==
  /\ call # None
  /\ \E why \in {"killed", "io", "diverged", "out of scope"} :
       outcome' = [kind |-> why, config |-> call.config]
  /\ call' = None
  /\ UNCHANGED durable

Remove ==
  /\ call = None /\ durable # None
  /\ durable' = None
  /\ UNCHANGED <<call, outcome>>

Next == \/ \E c \in Configs : Begin(c)
        \/ Checkpoint \/ Return \/ Refuse \/ GiveUp \/ Remove

Spec == Init /\ [][Next]_vars
=============================================================================
