----------------------------- MODULE WorkerPool -----------------------------
(***************************************************************************)
(* worker.Run (src/internal/worker/pool.go): one dispatcher goroutine, one *)
(* goroutine per admitted job, a buffered channel used as a semaphore and  *)
(* a WaitGroup.  Each step below is one operation on a channel, on the     *)
(* WaitGroup or on a slot of the results slice; the context may be         *)
(* cancelled between any two of them.                                      *)
(***************************************************************************)
EXTENDS Integers, FiniteSets

CONSTANTS NumJobs,        \* len(jobs)
          Concurrency     \* the argument, not yet clamped

ASSUME PoolAssumption == NumJobs \in Nat /\ Concurrency \in Int

VARIABLES next,           \* index of the job the dispatcher is at
          pc,             \* dispatcher: "check" ctx | "send" on sem | "wait" | "returned"
          cancelled,      \* ctx.Err() != nil
          sem,            \* number of values in the channel
          wg,             \* the WaitGroup's counter
          job,            \* goroutine of each job
          results,        \* the slice, "zero" where nothing was stored
          late            \* history: jobs sent past sem after the cancellation

vars == <<next, pc, cancelled, sem, wg, job, results, late>>

Jobs == 1 .. NumJobs
Cap == IF Concurrency < 1 THEN 1 ELSE Concurrency

Init ==
  /\ next = 1
  /\ pc = IF NumJobs = 0 THEN "wait" ELSE "check"
  /\ cancelled \in BOOLEAN
  /\ sem = 0
  /\ wg = 0
  /\ job = [j \in Jobs |-> "none"]
  /\ results = [j \in Jobs |-> "zero"]
  /\ late = {}

\* The loop's next iteration, or wg.Wait() after the last one.
Advance ==
  /\ next' = next + 1
  /\ pc' = IF next < NumJobs THEN "check" ELSE "wait"

\* Mutant: the dispatcher does not look at the context first.
CheckContextBlind ==
  /\ pc = "check"
  /\ pc' = "send"
  /\ UNCHANGED <<next, cancelled, sem, wg, job, results, late>>

CheckContext ==
  /\ pc = "check"
  /\ ~cancelled
  /\ pc' = "send"
  /\ UNCHANGED <<next, cancelled, sem, wg, job, results, late>>

RecordCancelled ==
  /\ pc = "check"
  /\ cancelled
  /\ results' = [results EXCEPT ![next] = "ctxErr"]
  /\ Advance
  /\ UNCHANGED <<cancelled, sem, wg, job, late>>

\* Mutant: goroutines are started without a place in the semaphore.
DispatchUnbounded ==
  /\ pc = "send"
  /\ wg' = wg + 1
  /\ sem' = sem + 1
  /\ job' = [job EXCEPT ![next] = "spawned"]
  /\ late' = IF cancelled THEN late \cup {next} ELSE late
  /\ Advance
  /\ UNCHANGED <<cancelled, results>>

\* sem <- struct{}{}; wg.Add(1); go ...  The send blocks while sem is full.
Dispatch ==
  /\ pc = "send"
  /\ sem < Cap
  /\ sem' = sem + 1
  /\ wg' = wg + 1
  /\ job' = [job EXCEPT ![next] = "spawned"]
  /\ late' = IF cancelled THEN late \cup {next} ELSE late
  /\ Advance
  /\ UNCHANGED <<cancelled, results>>

StartJob(j) ==
  /\ job[j] = "spawned"
  /\ job' = [job EXCEPT ![j] = "running"]
  /\ UNCHANGED <<next, pc, cancelled, sem, wg, results, late>>

\* The job returns a value or an error of its own, and its slot is filled.
StoreResult(j) ==
  /\ job[j] = "running"
  /\ \E r \in {"value", "jobErr"} : results' = [results EXCEPT ![j] = r]
  /\ job' = [job EXCEPT ![j] = "stored"]
  /\ UNCHANGED <<next, pc, cancelled, sem, wg, late>>

\* Mutant: the place in the semaphore is never given back.
ReleaseSlotLeaked(j) ==
  /\ job[j] = "stored"
  /\ job' = [job EXCEPT ![j] = "released"]
  /\ UNCHANGED <<next, pc, cancelled, sem, wg, results, late>>

\* Deferred calls run last in, first out: <-sem, then wg.Done().
ReleaseSlot(j) ==
  /\ job[j] = "stored"
  /\ sem' = sem - 1
  /\ job' = [job EXCEPT ![j] = "released"]
  /\ UNCHANGED <<next, pc, cancelled, wg, results, late>>

SignalDone(j) ==
  /\ job[j] = "released"
  /\ wg' = wg - 1
  /\ job' = [job EXCEPT ![j] = "done"]
  /\ UNCHANGED <<next, pc, cancelled, sem, results, late>>

ReturnResults ==
  /\ pc = "wait"
  /\ wg = 0
  /\ pc' = "returned"
  /\ UNCHANGED <<next, cancelled, sem, wg, job, results, late>>

Cancel ==
  /\ ~cancelled
  /\ cancelled' = TRUE
  /\ UNCHANGED <<next, pc, sem, wg, job, results, late>>

Dispatcher == CheckContext \/ RecordCancelled \/ Dispatch \/ ReturnResults

Worker(j) == StartJob(j) \/ StoreResult(j) \/ ReleaseSlot(j) \/ SignalDone(j)

Next == Dispatcher \/ (\E j \in Jobs : Worker(j)) \/ Cancel

Spec == Init /\ [][Next]_vars

\* Goroutines are scheduled; nothing makes a job return.
FairSpec ==
  /\ Spec /\ WF_vars(Dispatcher)
  /\ \A j \in Jobs : WF_vars(StartJob(j) \/ ReleaseSlot(j) \/ SignalDone(j))

-----------------------------------------------------------------------------
Holding == {j \in Jobs : job[j] \in {"spawned", "running", "stored"}}
Waited == {j \in Jobs : job[j] \in {"spawned", "running", "stored", "released"}}

TypeOK ==
  /\ next \in 1 .. NumJobs + 1
  /\ pc \in {"check", "send", "wait", "returned"}
  /\ cancelled \in BOOLEAN
  /\ sem \in 0 .. Cap
  /\ wg \in 0 .. NumJobs
  /\ job \in [Jobs -> {"none", "spawned", "running", "stored", "released", "done"}]
  /\ results \in [Jobs -> {"zero", "value", "jobErr", "ctxErr"}]
  /\ late \subseteq Jobs

\* At most Cap jobs run at once, also while finished jobs still unwind their
\* deferred calls and the dispatcher refills the channel.
BoundedConcurrency == Cardinality({j \in Jobs : job[j] = "running"}) <= Cap

\* When Run returns, every slot holds its own job's outcome: no goroutine is
\* still about to write, and nothing was left at the zero Result.
ReturnedComplete ==
  pc = "returned" =>
    \A j \in Jobs : /\ results[j] # "zero"
                    /\ job[j] = IF results[j] = "ctxErr" THEN "none" ELSE "done"

\* After a cancellation at most one more job is sent past the semaphore: the
\* one whose context check the dispatcher had already made.
AtMostOneLateDispatch == \A i, j \in late : i = j

\* Cancelled jobs form a tail: once one job was refused no later one ever ran.
RefusalIsFinal ==
  \A i, j \in Jobs : (i < j /\ results[i] = "ctxErr") => job[j] = "none"

\* A stored result is never overwritten (two writers of one slot would race).
WriteOnce ==
  [][\A j \in Jobs : results[j] # "zero" => results'[j] = results[j]]_vars

\* Where the dispatcher stands and what it has left behind it.
DispatcherInv ==
  /\ pc \in {"check", "send"} <=> next <= NumJobs
  /\ \A j \in Jobs : next <= j => job[j] = "none" /\ results[j] = "zero"
  /\ \A j \in Jobs : j < next => (job[j] = "none" <=> results[j] = "ctxErr")
  /\ pc = "returned" => wg = 0

\* A slot is written between the start of its job and the release of sem.
SlotInv ==
  \A j \in Jobs : /\ job[j] \in {"spawned", "running"} => results[j] = "zero"
                  /\ job[j] \in {"stored", "released", "done"} =>
                       results[j] \in {"value", "jobErr"}

\* Both counters count the goroutines that still owe them a decrement.
CounterInv == sem = Cardinality(Holding) /\ wg = Cardinality(Waited)

\* Once a job went late or was refused, the dispatcher is past its last send.
CancelInv ==
  (late # {} \/ \E j \in Jobs : results[j] = "ctxErr") => cancelled /\ pc # "send"

\* The inductive invariant of the safety proofs: the counters are exact, the
\* dispatcher has visited exactly the jobs before next, and no send is pending
\* once a cancellation has been acted upon.
IInv ==
  /\ TypeOK
  /\ DispatcherInv
  /\ SlotInv
  /\ CounterInv
  /\ CancelInv
  /\ AtMostOneLateDispatch
  /\ RefusalIsFinal

\* When no job runs for ever, Run returns, whatever the jobs return and whenever
\* the context is cancelled.  (It waits for running jobs even then.)
RunReturns ==
  (\A j \in Jobs : []<>(job[j] # "running")) => <>(pc = "returned")

\* The promise to the caller; a job is finished when it gives its worker back.
Promise == INSTANCE JobPool WITH
  AllJobs  <- Jobs,
  Width    <- Cap,
  jobs     <- Jobs,
  slot     <- [j \in Jobs |-> IF results[j] = "ctxErr" THEN "skipped"
                              ELSE IF job[j] = "none" THEN "pending"
                              ELSE IF j \in Holding THEN "active" ELSE "finished"],
  grace    <- late = {},
  returned <- pc = "returned"

\* worker.Run implements JobPool: each of its steps is one of JobPool's or a stutter.
ImplementsPool == Promise!PoolSpec
=============================================================================
