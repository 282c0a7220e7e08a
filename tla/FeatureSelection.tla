-------------------------- MODULE FeatureSelection --------------------------
(***************************************************************************)
(* Recursive feature elimination (select_features of cb-train): train on   *)
(* the retained columns, rank them, drop the weakest selectable ones, and  *)
(* repeat by a schedule of as many steps as asked for. The trained model   *)
(* knows the retained columns by their place among them.                   *)
(***************************************************************************)
EXTENDS Integers, Sequences, FiniteSets, SequencesExt

CONSTANTS
  Selections,        \* requests [features, bordered, selectable, keep, steps, final]
  Importance(_, _)   \* Importance(columns, f): what f is worth among columns

VARIABLES
  asked,        \* the request, or None
  step,         \* the step of the schedule under way
  retained,     \* the columns still trained on
  eliminated,   \* the dropped features, in the order they went
  trained,      \* the column sets of the models fitted so far
  partition     \* what is returned

fvars == <<asked, step, retained, eliminated, trained, partition>>

None == [kind |-> "none"]
SelectionError == [kind |-> "error"]
TrainingError == [kind |-> "training error"]
Sorted(S) ==
  [i \in 1 .. Cardinality(S) |-> CHOOSE x \in S : Cardinality({y \in S : y < x}) = i - 1]

(* Requests as a caller makes them: columns count from one, and as many    *)
(* come with borders as the caller says.                                   *)
ASSUME SelectionsAssumption ==
  \A r \in Selections :
    /\ r \in [features : Nat, bordered : Nat, selectable : Seq(Nat \ {0}), keep : Nat, steps : Nat,
              final : BOOLEAN]
    /\ \A columns \in SUBSET (1 .. r.features) : \A f \in columns : Importance(columns, f) \in Int

-----------------------------------------------------------------------------
(* b to the power of e. *)
Power(b, e) == LET p[k \in Nat] == IF k = 0 THEN 1 ELSE b * p[k - 1] IN p[e]

(* The number to be gone after s of S steps from n features down to m is   *)
(* n - n (m/n)^(s/S), to the nearest integer: the largest k with           *)
(* (2n - 2k + 1)^S >= 2^S n^(S-s) m^s. The rounding remainder is carried   *)
(* from step to step, so the steps add up to this.                         *)
(* Mutant: every step rounds on its own.                                   *)
GoneByUncarried(n, m, S, s) == ((n - m) \div S) * s
GoneBy(n, m, S, s) ==
  CHOOSE k \in 0 .. n :
    LET Meets(j) == Power(2 * n - 2 * j + 1, S) >= Power(2, S) * Power(n, S - s) * Power(m, s)
    IN Meets(k) /\ (k < n => ~Meets(k + 1))
calc_num_to_eliminate_by_steps(n, m, S) ==
  [s \in 1 .. S |-> GoneBy(n, m, S, s) - (IF s = 1 THEN 0 ELSE GoneBy(n, m, S, s - 1))]

Selectable(r) == ToSet(r.selectable)
ToEliminate(r) == Len(r.selectable) - r.keep
Schedule(r) == calc_num_to_eliminate_by_steps(Len(r.selectable), r.keep, r.steps)

SelectionInit ==
  /\ asked = None
  /\ step = 0
  /\ retained = {} /\ eliminated = <<>> /\ trained = {}
  /\ partition = None

Invalid(r) ==
  \/ r.steps = 0
  \/ \E f \in Selectable(r) : f > r.features
  \/ Cardinality(Selectable(r)) # Len(r.selectable)
  \/ r.keep > Len(r.selectable)
  \/ r.bordered # r.features

select_features(r) ==
  /\ asked = None
  /\ asked' = r
  /\ IF Invalid(r) THEN partition' = SelectionError /\ UNCHANGED <<step, retained>>
     ELSE step' = 1 /\ retained' = 1 .. r.features /\ UNCHANGED partition
  /\ UNCHANGED <<eliminated, trained>>

(* Mutant: a model's own numbering of its columns is taken for theirs.     *)
ToGlobalUnmapped(columns, local) == local
ToGlobal(columns, local) == Sorted(columns)[local]

(* Scores rise, ties go to the lower feature.                              *)
Weakest(columns, candidates, count) ==
  LET local == 1 .. Cardinality(columns)
      worth(l) == Importance(columns, Sorted(columns)[l])
      eligible == {l \in local : ToGlobal(columns, l) \in candidates}
      before(l) == {m \in eligible : worth(m) < worth(l) \/ (worth(m) = worth(l) /\ m < l)}
      taken == {l \in eligible : Cardinality(before(l)) < count}
  IN [i \in 1 .. Cardinality(taken) |->
        ToGlobal(columns, CHOOSE l \in taken : Cardinality(before(l)) = i - 1)]

(* One step trains on the retained columns, unless nothing is left to      *)
(* drop. A training that fails ends the selection with its error.          *)
TrainingFails ==
  /\ partition' = TrainingError
  /\ UNCHANGED <<step, retained, eliminated, trained>>
Eliminate ==
  /\ partition = None /\ asked # None
  /\ step <= asked.steps
  /\ LET left == ToEliminate(asked) - Len(eliminated)
         due == Schedule(asked)[step]
         count == IF due < left THEN due ELSE left
         gone == Weakest(retained, Selectable(asked) \ ToSet(eliminated), count)
     IN \/ /\ count = 0
           /\ step' = step + 1
           /\ UNCHANGED <<retained, eliminated, trained, partition>>
        \/ /\ count # 0
           /\ trained' = trained \union {retained}
           /\ eliminated' = eliminated \o gone
           /\ retained' = retained \ ToSet(gone)
           /\ step' = step + 1
           /\ UNCHANGED partition
        \/ count # 0 /\ TrainingFails
  /\ UNCHANGED asked

(* A shortfall of the schedule is an error; the final model is fitted on   *)
(* request and dropped, though its failure is not.                         *)
Finish ==
  /\ partition = None /\ asked # None
  /\ step > asked.steps
  /\ LET met == Len(eliminated) = ToEliminate(asked)
     IN \/ /\ ~ met
           /\ partition' = SelectionError
           /\ UNCHANGED <<step, retained, eliminated, trained>>
        \/ /\ met
           /\ partition' = [kind |-> "selected",
                            selected |-> Sorted(Selectable(asked) \ ToSet(eliminated)),
                            eliminated |-> eliminated]
           /\ trained' = IF asked.final THEN trained \union {retained} ELSE trained
           /\ UNCHANGED <<step, retained, eliminated>>
        \/ met /\ asked.final /\ TrainingFails
  /\ UNCHANGED asked

SelectionNext ==
  \/ asked = None /\ \E r \in Selections : select_features(r)
  \/ Eliminate
  \/ Finish
-----------------------------------------------------------------------------
(* Properties. *)

(* A legal request ends in no error but that of a training: the rounded    *)
(* steps meet the budget exactly, keep as many as asked for, and never     *)
(* touch a feature that was not offered for selection.                     *)
EliminationMeetsTheBudget ==
  (asked # None /\ ~Invalid(asked) /\ partition \notin {None, TrainingError}) =>
    /\ partition.kind = "selected"
    /\ Len(partition.selected) = asked.keep
    /\ ToSet(partition.selected) \union ToSet(partition.eliminated) = Selectable(asked)
    /\ Len(partition.eliminated) = Cardinality(ToSet(partition.eliminated))
    /\ retained = 1 .. asked.features \ ToSet(partition.eliminated)

(* What a step drops is what its own model ranks lowest: no selectable     *)
(* column it keeps is worth less than one it drops, in the model trained   *)
(* on the columns retained until then.                                     *)
WeakestGoFirst ==
  [][LET gone == ToSet(eliminated') \ ToSet(eliminated)
     IN gone # {} => \A f \in gone, g \in retained' \intersect Selectable(asked) :
            Importance(retained, f) <= Importance(retained, g)]_fvars
=============================================================================
