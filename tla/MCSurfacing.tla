---------------------------- MODULE MCSurfacing ----------------------------
(* Instances of Surfacing for TLC. *)
EXTENDS Surfacing

\* An anomaly in one company, and the same company beside another.
TwoTypes == [s \in Subjects |-> IF s = "anomaly" THEN "anomaly" ELSE "exploration"]
TwoTickers == [s \in Subjects |-> IF s = "anomaly" THEN {"acme"} ELSE {"acme", "bolt"}]
=============================================================================
