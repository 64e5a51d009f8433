---------------------------- MODULE MCFilingFlow ----------------------------
(* Instances of FilingFlow for TLC. *)
EXTENDS FilingFlow

CONSTANTS f1, f2, acme

\* Two filings of one company.
OneCompany == [f \in Filings |-> acme]
=============================================================================
