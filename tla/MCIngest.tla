----------------------------- MODULE MCIngest -----------------------------
(* Small instances of the ingest processes for TLC. *)
EXTENDS IngestProperties, TLC

CONSTANTS f1, r1, r2, d1, d2, c1

\* Two files that say the same.
SameContent == [d \in Drops |-> c1]
=============================================================================
