---------------------------- MODULE MCScheduler ----------------------------
(* Two schedules of different intervals over one target: each has the other's *)
(* scan, its edits and its failures in its way.                               *)
EXTENDS Scheduler

MCInterval == [s \in Schedules |-> IF s = "s1" THEN 1 ELSE 2]
=============================================================================
