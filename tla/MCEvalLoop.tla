------------------------------ MODULE MCEvalLoop ------------------------------
(***************************************************************************)
(* Eval loops of a few iterations.  An approximant is its own metric on    *)
(* the primary set (so every curve of small numbers occurs) and the        *)
(* reverse of it on the secondary one.                                     *)
(***************************************************************************)
EXTENDS EvalLoop

Plain == [sets |-> 1, policy |-> "SymmetricTree", iterations |-> 4, shrink |-> FALSE,
          use_best_model |-> TRUE, dimension |-> 1, od_type |-> "None", od_pval |-> "on",
          od_wait |-> 2]

(* Approximant 4 has no metric on the primary set, 3 none a custom metric  *)
(* would return on the secondary one; a Wilcoxon fit has a finite metric,  *)
(* NaN deltas having no order to sort by.                                  *)
CurveMetric(f, s, a) ==
  IF s = 2 THEN IF a = 3 THEN MetricError ELSE 5 - a
  ELSE IF a = 4 /\ f.od_type # "Wilcoxon" THEN NaN ELSE a

(* Every policy, with and without shrinkage, over zero, one and two sets.  *)
Ensembles ==
  {[Plain EXCEPT !.policy = p, !.shrink = k, !.sets = n, !.use_best_model = u, !.iterations = 3] :
     p \in {"SymmetricTree", "Lossguide", "Depthwise", "Region"},
     k \in BOOLEAN, n \in 0 .. 2, u \in BOOLEAN}
  \cup {[Plain EXCEPT !.dimension = 2], [Plain EXCEPT !.sets = 0, !.od_type = "Wilcoxon"]}

(* Every type and threshold of the IncToDec family, on longer curves.      *)
IncToDecs ==
  {[Plain EXCEPT !.od_type = t, !.od_pval = v, !.od_wait = w, !.iterations = 5] :
     t \in {"IncToDec", "Iter"}, v \in {"on", "off"}, w \in 0 .. 2}

(* The Wilcoxon test of up to five finite deltas. *)
Signed == {[Plain EXCEPT !.od_type = "Wilcoxon", !.od_wait = w, !.iterations = 6] : w \in 0 .. 3}

Detectors == IncToDecs \cup Signed

AllFits == Ensembles \cup Detectors

(* Without this Iter may never stop: IterStopsOnTime is about such fits.   *)
ASSUME LossesAreBounded
===============================================================================
