------------------------------ MODULE JobPool ------------------------------
(***************************************************************************)
(* What worker.Run promises the scan engine (src/internal/worker/pool.go): *)
(* every submitted job gets an outcome, at most Width of them hold a       *)
(* worker at a time, and a cancelled context stops the admission of jobs - *)
(* except for the one job the dispatcher may already have let past its     *)
(* check.  WorkerPool is shown to implement this module; ScanEngine runs   *)
(* its hosts through these actions.                                        *)
(***************************************************************************)
EXTENDS Integers, FiniteSets

CONSTANTS AllJobs,      \* every job that can be submitted
          Width         \* the number of workers, at least 1

ASSUME WidthAssumption == Width \in Nat \ {0}

VARIABLES jobs,         \* the jobs submitted to this call of Run
          slot,         \* "pending" | "active" | "finished" | "skipped"
          cancelled,    \* ctx.Err() != nil
          grace,        \* no job has been admitted after the cancellation yet
          returned      \* Run has returned its results

poolVars == <<jobs, slot, cancelled, grace, returned>>

Active == {j \in jobs : slot[j] = "active"}
Settled(j) == slot[j] \in {"finished", "skipped"}

PoolInit ==
  /\ jobs \in SUBSET AllJobs
  /\ slot = [j \in AllJobs |-> "pending"]
  /\ cancelled \in BOOLEAN
  /\ grace = TRUE
  /\ returned = FALSE

\* A worker is free and the job is taken on.
Admit(j) ==
  /\ j \in jobs /\ slot[j] = "pending"
  /\ Cardinality(Active) < Width
  /\ cancelled => grace
  /\ slot' = [slot EXCEPT ![j] = "active"]
  /\ grace' = (grace /\ ~cancelled)
  /\ UNCHANGED <<jobs, cancelled, returned>>

\* A job that was not admitted records the context's error instead.
Skip(j) ==
  /\ j \in jobs /\ slot[j] = "pending"
  /\ cancelled
  /\ slot' = [slot EXCEPT ![j] = "skipped"]
  /\ UNCHANGED <<jobs, cancelled, grace, returned>>

Finish(j) ==
  /\ slot[j] = "active"
  /\ slot' = [slot EXCEPT ![j] = "finished"]
  /\ UNCHANGED <<jobs, cancelled, grace, returned>>

CancelContext ==
  /\ ~cancelled
  /\ cancelled' = TRUE
  /\ UNCHANGED <<jobs, slot, grace, returned>>

Return ==
  /\ ~returned
  /\ \A j \in jobs : Settled(j)
  /\ returned' = TRUE
  /\ UNCHANGED <<jobs, slot, cancelled, grace>>

PoolNext ==
  \/ \E j \in AllJobs : Admit(j) \/ Skip(j) \/ Finish(j)
  \/ CancelContext
  \/ Return

PoolSpec == PoolInit /\ [][PoolNext]_poolVars
=============================================================================
