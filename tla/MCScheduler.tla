----------------------------- MODULE MCScheduler -----------------------------
(* Instances of Scheduler for TLC. *)
EXTENDS Scheduler

\* Like refresh_index, whose key lasts longer than its interval, and like
\* surface_ideas, whose key lasts less long.
TwoPlaces == [j \in Jobs |-> IF j = "refresh_index" THEN 1 ELSE 2]
TwoIntervals == [j \in Jobs |-> IF j = "refresh_index" THEN 1 ELSE 2]
TwoWindows == [j \in Jobs |-> IF j = "refresh_index" THEN 2 ELSE 1]
=============================================================================
