----------------------------- MODULE MCResearch -----------------------------
(* Instances of Research for TLC. *)
EXTENDS Research

CONSTANTS hormuz, urea

OneQuestion == [n \in Nodes |-> "question"]

\* A plan with a question and companies to screen.
OnePlan ==
  [h \in Investigations |-> {[queries |-> FALSE, nodes |-> {urea}, tickers |-> TRUE]}]
=============================================================================
