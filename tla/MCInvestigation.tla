-------------------------- MODULE MCInvestigation --------------------------
(* Instances of Investigation for TLC. *)
EXTENDS InvestigationProperties

CONSTANTS fin, moat, orch, memo   \* task ids

FullPlan == [dives |-> {fin, moat}, memo |-> TRUE]
NarrowPlan == [dives |-> {fin}, memo |-> FALSE]

DivePlan == [FullPlan EXCEPT !.memo = FALSE]

TwoPlans == {DivePlan, NarrowPlan}
OnePlan == {FullPlan}

\* A report under way, and one that is done, with each verdict.
Reports ==
  {[size |-> "short", verdict |-> "MALFORMED"],
   [size |-> "full", verdict |-> "MALFORMED"],
   [size |-> "full", verdict |-> "CONTINUE"],
   [size |-> "full", verdict |-> "STOP"]}

FullReports == {report \in Reports : report.size = "full"}

OneRetry == [t \in Tasks |-> IF t = fin THEN 2 ELSE 1]
=============================================================================
