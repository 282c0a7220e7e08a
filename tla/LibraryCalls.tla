---------------------------- MODULE LibraryCalls ----------------------------
(***************************************************************************)
(* What the library does around the boosting loop: it prepares the columns *)
(* of a fit, decides who grows its trees and from what, searches over      *)
(* parameters, selects features, and keeps a Python estimator.  A caller   *)
(* asks for one of the five.                                               *)
(***************************************************************************)
EXTENDS FitPreparation, FitOptions, ModelSearch, FeatureSelection, Estimator

vars == <<pvars, ovars, svars, fvars, evars>>

Init == PreparationInit /\ OptionsInit /\ SearchInit /\ SelectionInit /\ EstimatorInit

(* The search has answered, and refitted if it was asked to.               *)
Answered ==
  \/ result.kind = "raised"
  \/ result.kind = "found" /\ (~call.refit \/ estimator.params # Base)
Returned ==
  /\ Answered \/ partition # None \/ PreparationDone \/ EstimatorDone \/ OptionsDone
  /\ UNCHANGED vars

Next ==
  \/ /\ call = Idle /\ asked = None /\ held = Nobody /\ stage = "idle"
     /\ PreparationNext
     /\ UNCHANGED <<ovars, svars, fvars, evars>>
  \/ /\ fit = Unset /\ call = Idle /\ asked = None /\ held = Nobody
     /\ OptionsNext
     /\ UNCHANGED <<pvars, svars, fvars, evars>>
  \/ /\ fit = Unset /\ asked = None /\ held = Nobody /\ stage = "idle"
     /\ SearchNext
     /\ UNCHANGED <<pvars, ovars, fvars, evars>>
  \/ /\ fit = Unset /\ call = Idle /\ held = Nobody /\ stage = "idle"
     /\ SelectionNext
     /\ UNCHANGED <<pvars, ovars, svars, evars>>
  \/ /\ fit = Unset /\ call = Idle /\ asked = None /\ stage = "idle"
     /\ EstimatorNext
     /\ UNCHANGED <<pvars, ovars, svars, fvars>>
  \/ Returned

Spec == Init /\ [][Next]_vars
=============================================================================
