--------------------------- MODULE MCDispatcher ---------------------------
(* Small instances of the dispatcher for TLC. *)
EXTENDS DispatcherProperties, TLC

CONSTANTS w1, w2, t1, t2, p1, p2, p3, k1

WorkerSymmetry == Permutations(Workers)

\* Two tasks that compete for one resource, and probes.
SharedKey == [t \in Tasks |-> IF t \in Probes THEN NoKey ELSE k1]

\* The tasks need no resource: only their leases keep two workers apart.
NoKeys == [t \in Tasks |-> NoKey]

\* One retry for a task, none for a probe.
TwoAttempts == [t \in Tasks |-> IF t \in Probes THEN 1 ELSE 2]
=============================================================================
