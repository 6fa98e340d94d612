-------------------------- MODULE WorkerPoolProofs --------------------------
(***************************************************************************)
(* Safety of worker.Run for every number of jobs and every concurrency.    *)
(***************************************************************************)
EXTENDS WorkerPool, FiniteSetTheorems, TLAPS

\* The clamped concurrency is a positive number.
LEMMA CapPositive == Cap \in Nat \ {0}
  BY PoolAssumption DEF Cap

\* Any set of jobs is finite and has a natural number of elements.
LEMMA JobSetsFinite ==
  ASSUME NEW S \in SUBSET Jobs
  PROVE  IsFiniteSet(S) /\ Cardinality(S) \in Nat /\ Cardinality(S) <= NumJobs
<1>1. IsFiniteSet(Jobs) /\ Cardinality(Jobs) = NumJobs
  BY PoolAssumption, FS_Interval DEF Jobs
<1>2. IsFiniteSet(S) /\ Cardinality(S) <= Cardinality(Jobs)
  BY <1>1, FS_Subset
<1> QED BY <1>1, <1>2, FS_CardinalityType

\* Adding a job to a set of jobs, or removing one, changes its size by one.
LEMMA AddJob ==
  ASSUME NEW S \in SUBSET Jobs, NEW j \in Jobs, j \notin S
  PROVE  Cardinality(S \cup {j}) = Cardinality(S) + 1
BY JobSetsFinite, FS_AddElement

\* Removing a job makes the set smaller by one.
LEMMA RemoveJob ==
  ASSUME NEW S \in SUBSET Jobs, NEW j \in S
  PROVE  Cardinality(S \ {j}) = Cardinality(S) - 1 /\ Cardinality(S) > 0
<1>1. IsFiniteSet(S) /\ Cardinality(S) \in Nat
  BY JobSetsFinite
<1>2. Cardinality(S \ {j}) = Cardinality(S) - 1
  BY <1>1, FS_RemoveElement
<1>3. Cardinality(S \ {j}) \in Nat
  BY JobSetsFinite
<1> QED BY <1>1, <1>2, <1>3

\* Nothing dispatched, nothing counted.
LEMMA InitIInv == Init => IInv
<1> SUFFICES ASSUME Init PROVE IInv OBVIOUS
<1>1. TypeOK
  BY PoolAssumption, CapPositive DEF Init, TypeOK, Jobs
<1>2. Holding = {} /\ Waited = {}
  BY DEF Init, Holding, Waited
<1>3. CounterInv
  BY <1>2, FS_EmptySet DEF CounterInv, Init
<1>4. DispatcherInv
  BY PoolAssumption DEF Init, DispatcherInv, Jobs
<1> QED
  BY <1>1, <1>3, <1>4
  DEF IInv, Init, SlotInv, CancelInv, AtMostOneLateDispatch, RefusalIsFinal

\* The dispatcher finds the context alive, and goes on to the semaphore.
LEMMA CheckContextIInv == IInv /\ CheckContext => IInv'
<1> SUFFICES ASSUME IInv, CheckContext PROVE IInv' OBVIOUS
<1> USE DEF IInv, CheckContext
<1>1. Holding' = Holding /\ Waited' = Waited
  BY DEF Holding, Waited
<1>2. CounterInv'
  BY <1>1 DEF CounterInv
<1> QED
  BY <1>2 DEF TypeOK, DispatcherInv, SlotInv, CancelInv, AtMostOneLateDispatch,
              RefusalIsFinal

\* The dispatcher refuses a job: its slot is filled, no goroutine is made.
LEMMA RecordCancelledIInv == IInv /\ RecordCancelled => IInv'
<1> SUFFICES ASSUME IInv, RecordCancelled PROVE IInv' OBVIOUS
<1> USE PoolAssumption DEF IInv, RecordCancelled, Advance
<1>1. Holding' = Holding /\ Waited' = Waited
  BY DEF Holding, Waited
<1>2. CounterInv'
  BY <1>1 DEF CounterInv
<1>3. next \in Jobs /\ job[next] = "none" /\ results[next] = "zero"
  BY DEF TypeOK, DispatcherInv, Jobs
<1>4. TypeOK'
  BY <1>3 DEF TypeOK, Jobs
<1>5. DispatcherInv'
  BY <1>3 DEF TypeOK, DispatcherInv, Jobs
<1>6. SlotInv' /\ CancelInv' /\ AtMostOneLateDispatch'
  BY <1>3 DEF TypeOK, SlotInv, CancelInv, AtMostOneLateDispatch
<1>7. RefusalIsFinal'
  BY <1>3 DEF TypeOK, DispatcherInv, RefusalIsFinal, Jobs
<1> QED BY <1>2, <1>4, <1>5, <1>6, <1>7

\* The dispatcher gets a place in the semaphore and starts a goroutine.
LEMMA DispatchIInv == IInv /\ Dispatch => IInv'
<1> SUFFICES ASSUME IInv, Dispatch PROVE IInv' OBVIOUS
<1> USE PoolAssumption DEF IInv, Dispatch, Advance
<1>1. next \in Jobs /\ job[next] = "none" /\ results[next] = "zero"
  BY DEF TypeOK, DispatcherInv, Jobs
<1>2. /\ Holding' = Holding \cup {next} /\ next \notin Holding
      /\ Waited' = Waited \cup {next} /\ next \notin Waited
  BY <1>1 DEF TypeOK, Holding, Waited
<1>3. Holding \in SUBSET Jobs /\ Waited \in SUBSET Jobs
      /\ Waited' \in SUBSET Jobs
  BY DEF Holding, Waited, Jobs
<1>4. CounterInv'
  BY <1>1, <1>2, <1>3, AddJob DEF CounterInv
<1>5. sem' \in 0 .. Cap /\ wg' \in 0 .. NumJobs
  BY <1>3, <1>4, JobSetsFinite, CapPositive DEF CounterInv, TypeOK
<1>6. TypeOK'
  BY <1>1, <1>5 DEF TypeOK, Jobs
<1>7. DispatcherInv'
  BY <1>1 DEF TypeOK, DispatcherInv, Jobs
<1>8. late = {} /\ \A j \in Jobs : results[j] # "ctxErr"
  BY DEF CancelInv
<1>9. SlotInv' /\ CancelInv' /\ AtMostOneLateDispatch' /\ RefusalIsFinal'
  BY <1>1, <1>8 DEF TypeOK, SlotInv, CancelInv, AtMostOneLateDispatch, RefusalIsFinal
<1> QED BY <1>4, <1>6, <1>7, <1>9

\* wg.Wait() ends only at a zero counter.
LEMMA ReturnResultsIInv == IInv /\ ReturnResults => IInv'
<1> SUFFICES ASSUME IInv, ReturnResults PROVE IInv' OBVIOUS
<1> USE DEF IInv, ReturnResults
<1>1. Holding' = Holding /\ Waited' = Waited
  BY DEF Holding, Waited
<1>2. CounterInv'
  BY <1>1 DEF CounterInv
<1> QED
  BY <1>2 DEF TypeOK, DispatcherInv, SlotInv, CancelInv, AtMostOneLateDispatch,
              RefusalIsFinal

\* A cancellation changes nothing but the flag.
LEMMA CancelIInv == IInv /\ Cancel => IInv'
<1> SUFFICES ASSUME IInv, Cancel PROVE IInv' OBVIOUS
<1> USE DEF IInv, Cancel
<1>1. Holding' = Holding /\ Waited' = Waited
  BY DEF Holding, Waited
<1>2. CounterInv'
  BY <1>1 DEF CounterInv
<1> QED
  BY <1>2 DEF TypeOK, DispatcherInv, SlotInv, CancelInv, AtMostOneLateDispatch,
              RefusalIsFinal

\* A goroutine that has started no longer touches the dispatcher's state; it
\* only moves on, fills its slot and gives its place and its count back.
LEMMA WorkerIInv == ASSUME NEW j \in Jobs PROVE IInv /\ Worker(j) => IInv'
<1> SUFFICES ASSUME IInv, Worker(j) PROVE IInv' OBVIOUS
<1> USE DEF IInv
<1>1. /\ job[j] # "none" /\ job' \in [Jobs -> {"none", "spawned", "running", "stored", "released", "done"}]
      /\ \A k \in Jobs : (job'[k] = "none") <=> (job[k] = "none")
      /\ results' \in [Jobs -> {"zero", "value", "jobErr", "ctxErr"}]
      /\ \A k \in Jobs : (results'[k] = "ctxErr") <=> (results[k] = "ctxErr")
      /\ \A k \in Jobs : job[k] = "none" => results'[k] = results[k]
  BY DEF TypeOK, SlotInv, Worker, StartJob, StoreResult, ReleaseSlot, SignalDone
<1>2. UNCHANGED <<next, pc, cancelled, late>>
  BY DEF Worker, StartJob, StoreResult, ReleaseSlot, SignalDone
<1>3. Holding \in SUBSET Jobs /\ Waited \in SUBSET Jobs
      /\ Holding' \in SUBSET Jobs /\ Waited' \in SUBSET Jobs
  BY DEF Holding, Waited, Jobs
<1>4. SlotInv'
  BY DEF TypeOK, SlotInv, Worker, StartJob, StoreResult, ReleaseSlot, SignalDone
<1>5. CounterInv' /\ sem' \in 0 .. Cap /\ wg' \in 0 .. NumJobs
  <2>1. CASE StartJob(j) \/ StoreResult(j)
    <3>1. Holding' = Holding /\ Waited' = Waited
      BY <2>1 DEF StartJob, StoreResult, Holding, Waited, TypeOK
    <3> QED BY <2>1, <3>1 DEF StartJob, StoreResult, CounterInv, TypeOK
  <2>2. CASE ReleaseSlot(j)
    <3>1. j \in Holding /\ Holding' = Holding \ {j} /\ Waited' = Waited
      BY <2>2 DEF ReleaseSlot, Holding, Waited, TypeOK
    <3>2. Cardinality(Holding') = sem - 1 /\ sem > 0
      BY <1>3, <3>1, RemoveJob DEF CounterInv
    <3> QED BY <2>2, <3>1, <3>2, CapPositive DEF CounterInv, TypeOK, ReleaseSlot
  <2>3. CASE SignalDone(j)
    <3>1. j \in Waited /\ Waited' = Waited \ {j} /\ Holding' = Holding
      BY <2>3 DEF SignalDone, Holding, Waited, TypeOK
    <3>2. Cardinality(Waited') = wg - 1 /\ wg > 0
      BY <1>3, <3>1, RemoveJob DEF CounterInv
    <3> QED BY <2>3, <3>1, <3>2, PoolAssumption DEF CounterInv, TypeOK, SignalDone
  <2> QED BY <2>1, <2>2, <2>3 DEF Worker
<1>6. TypeOK'
  BY <1>1, <1>2, <1>5 DEF TypeOK, Jobs
<1>7. wg # 0
  \* j still owes the WaitGroup a Done, so Run cannot have returned.
  <2>1. j \in Waited
    BY DEF Worker, StartJob, StoreResult, ReleaseSlot, SignalDone, Waited
  <2>2. Cardinality(Waited) > 0
    BY <1>3, <2>1, RemoveJob
  <2> QED BY <2>2 DEF CounterInv
<1>8. DispatcherInv'
  BY <1>1, <1>2, <1>7 DEF DispatcherInv
<1>9. CancelInv' /\ AtMostOneLateDispatch' /\ RefusalIsFinal'
  BY <1>1, <1>2 DEF CancelInv, AtMostOneLateDispatch, RefusalIsFinal
<1> QED BY <1>4, <1>5, <1>6, <1>8, <1>9

\* IInv is an invariant of worker.Run, whatever the number of jobs and workers.
THEOREM PoolInvariant == Spec => []IInv
<1>1. IInv /\ [Next]_vars => IInv'
  <2> SUFFICES ASSUME IInv, [Next]_vars PROVE IInv' OBVIOUS
  <2>1. CASE Dispatcher
    BY <2>1, CheckContextIInv, RecordCancelledIInv, DispatchIInv, ReturnResultsIInv
    DEF Dispatcher
  <2>2. CASE \E j \in Jobs : Worker(j)
    BY <2>2, WorkerIInv
  <2>3. CASE Cancel
    BY <2>3, CancelIInv
  <2>4. CASE UNCHANGED vars
    BY <2>4 DEF vars, IInv, TypeOK, DispatcherInv, SlotInv, CounterInv, CancelInv,
                AtMostOneLateDispatch, RefusalIsFinal, Holding, Waited
  <2> QED BY <2>1, <2>2, <2>3, <2>4 DEF Next
<1> QED BY <1>1, InitIInv, PTL DEF Spec

\* Never more than Cap jobs run at once: each running job holds a place in sem.
THEOREM ConcurrencyBounded == Spec => []BoundedConcurrency
<1>1. IInv => BoundedConcurrency
  <2> SUFFICES ASSUME IInv PROVE BoundedConcurrency OBVIOUS
  <2> DEFINE Running == {j \in Jobs : job[j] = "running"}
  <2>1. Holding \in SUBSET Jobs /\ Running \in SUBSET Holding
    BY DEF Holding
  <2>2. Cardinality(Running) <= Cardinality(Holding)
    BY <2>1, JobSetsFinite, FS_Subset
  <2>3. Cardinality(Holding) <= Cap
    BY CapPositive DEF IInv, CounterInv, TypeOK
  <2>4. Cardinality(Running) \in Nat /\ Cardinality(Holding) \in Nat
    BY <2>1, JobSetsFinite
  <2> QED BY <2>2, <2>3, <2>4, CapPositive DEF BoundedConcurrency
<1> QED BY <1>1, PoolInvariant, PTL

\* Run never returns while a slot is blank or its goroutine still at work.
THEOREM ReturnsComplete == Spec => []ReturnedComplete
<1>1. IInv => ReturnedComplete
  <2> SUFFICES ASSUME IInv, pc = "returned", NEW j \in Jobs
               PROVE  /\ results[j] # "zero"
                      /\ job[j] = IF results[j] = "ctxErr" THEN "none" ELSE "done"
    BY DEF ReturnedComplete
  <2>1. wg = 0 /\ j < next
    BY PoolAssumption DEF IInv, DispatcherInv, TypeOK, Jobs
  <2>2. Waited \in SUBSET Jobs /\ Cardinality(Waited) = 0
    BY <2>1 DEF Waited, IInv, CounterInv
  <2>3. \A k \in Waited : Cardinality(Waited) > 0
    BY <2>2, RemoveJob
  <2>4. j \notin Waited
    BY <2>2, <2>3
  <2> QED BY <2>1, <2>4 DEF Waited, IInv, TypeOK, DispatcherInv, SlotInv
<1> QED BY <1>1, PoolInvariant, PTL

\* After a cancellation at most one more job gets past the semaphore.
THEOREM OneLateDispatch == Spec => []AtMostOneLateDispatch
<1>1. IInv => AtMostOneLateDispatch
  BY DEF IInv
<1> QED BY <1>1, PoolInvariant, PTL

\* A result, once stored, is never overwritten.
THEOREM ResultsWrittenOnce == Spec => WriteOnce
<1> DEFINE Kept == \A j \in Jobs : results[j] # "zero" => results'[j] = results[j]
<1>1. IInv /\ [Next]_vars => [Kept]_vars
  <2> SUFFICES ASSUME IInv, Next PROVE Kept BY DEF vars
  <2>1. CASE RecordCancelled
    BY <2>1, PoolAssumption DEF RecordCancelled, IInv, TypeOK, DispatcherInv, Jobs
  <2>2. ASSUME NEW j \in Jobs, StoreResult(j) PROVE Kept
    BY <2>2 DEF StoreResult, IInv, TypeOK, SlotInv
  <2>3. CASE UNCHANGED results
    BY <2>3
  <2> QED
    BY <2>1, <2>2, <2>3 DEF Next, Dispatcher, Worker, CheckContext, Dispatch, ReturnResults,
       StartJob, ReleaseSlot, SignalDone, Cancel
<1> QED BY <1>1, PoolInvariant, PTL DEF Spec, WriteOnce

-----------------------------------------------------------------------------
\* The mapped state of one job, and the free worker JobPool asks for.
Slot(j) == IF results[j] = "ctxErr" THEN "skipped"
           ELSE IF job[j] = "none" THEN "pending"
           ELSE IF j \in Holding THEN "active" ELSE "finished"

\* The abstract pool's active jobs are those that hold a place in the semaphore.
LEMMA ActiveIsHolding ==
  IInv => {j \in Jobs : Slot(j) = "active"} = Holding
BY DEF IInv, TypeOK, SlotInv, Holding, Slot

\* worker.Run implements its promise: each step is one of JobPool's or a stutter.
THEOREM PoolImplemented == Spec => ImplementsPool
<1> USE PoolAssumption
<1>1. Init => Promise!PoolInit
  BY DEF Init, Promise!PoolInit, Jobs
<1>2. IInv /\ IInv' /\ [Next]_vars => [Promise!PoolNext]_Promise!poolVars
  <2> SUFFICES ASSUME IInv, IInv', [Next]_vars
               PROVE  [Promise!PoolNext]_Promise!poolVars
    OBVIOUS
  <2> USE DEF Promise!PoolNext
  <2> DEFINE slots == [j \in Jobs |-> Slot(j)]
  <2>1. CASE CheckContext
    BY <2>1 DEF CheckContext, Holding, Promise!poolVars
  <2>2. CASE RecordCancelled
    <3>1. PICK j \in Jobs : j = next /\ job[j] = "none" /\ results[j] = "zero"
      BY <2>2 DEF RecordCancelled, IInv, TypeOK, DispatcherInv, Jobs
    <3>2. slots' = [slots EXCEPT ![j] = "skipped"] /\ slots[j] = "pending"
      BY <2>2, <3>1 DEF RecordCancelled, IInv, TypeOK, Slot, Holding
    <3>3. Promise!Skip(j)
      BY <2>2, <3>1, <3>2 DEF RecordCancelled, Advance, Promise!Skip, Slot
    <3> QED BY <3>3
  <2>3. CASE Dispatch
    <3>1. PICK j \in Jobs : j = next /\ job[j] = "none" /\ results[j] = "zero"
      BY <2>3 DEF Dispatch, IInv, TypeOK, DispatcherInv, Jobs
    <3>2. slots' = [slots EXCEPT ![j] = "active"] /\ slots[j] = "pending"
      BY <2>3, <3>1 DEF Dispatch, IInv, TypeOK, Slot, Holding
    <3>3. Promise!Cardinality(Promise!Active) < Cap
      <4>1. Promise!Active = Holding
        BY ActiveIsHolding DEF Promise!Active, Slot
      <4>2. Promise!Cardinality(Holding) = Cardinality(Holding)
        BY DEF Promise!Cardinality, Cardinality
      <4> QED BY <2>3, <4>1, <4>2 DEF Dispatch, IInv, CounterInv
    <3>4. late = {} /\ ((late = {})' <=> ~cancelled)
      BY <2>3 DEF Dispatch, IInv, CancelInv
    <3>5. Promise!Admit(j)
      BY <2>3, <3>1, <3>2, <3>3, <3>4
      DEF Dispatch, Advance, Promise!Admit, Slot
    <3> QED BY <3>5
  <2>4. CASE ReturnResults
    <3>1. \A j \in Jobs : results[j] = "ctxErr" \/ job[j] = "done"
      <4>1. \A k \in Waited : Cardinality(Waited) > 0
        BY RemoveJob DEF Waited
      <4>2. Cardinality(Waited) = 0
        BY <2>4 DEF ReturnResults, IInv, CounterInv
      <4>3. Waited = {} /\ \A j \in Jobs : j < next
        BY <2>4, <4>1, <4>2 DEF ReturnResults, IInv, TypeOK, DispatcherInv, Jobs
      <4> QED BY <4>3 DEF IInv, TypeOK, DispatcherInv, Waited
    <3>2. \A j \in Jobs : Slot(j) \in {"finished", "skipped"}
      BY <3>1 DEF Slot, Holding
    <3>3. Promise!Return
      BY <2>4, <3>2 DEF ReturnResults, Promise!Return, Promise!Settled, Slot, Holding
    <3> QED BY <3>3
  <2>5. ASSUME NEW j \in Jobs, StartJob(j) \/ StoreResult(j) \/ SignalDone(j)
        PROVE  UNCHANGED Promise!poolVars
    <3>1. slots' = slots
      BY <2>5 DEF StartJob, StoreResult, SignalDone, Slot, Holding, IInv, TypeOK, SlotInv
    <3> QED
      BY <2>5, <3>1 DEF StartJob, StoreResult, SignalDone, Slot, Promise!poolVars
  <2>6. ASSUME NEW j \in Jobs, ReleaseSlot(j) PROVE Promise!Finish(j)
    <3>1. slots' = [slots EXCEPT ![j] = "finished"] /\ slots[j] = "active"
      BY <2>6 DEF ReleaseSlot, Slot, Holding, IInv, TypeOK, SlotInv
    <3> QED BY <2>6, <3>1 DEF ReleaseSlot, Promise!Finish, Slot
  <2>7. CASE Cancel
    <3>1. slots' = slots
      BY <2>7 DEF Cancel, Slot, Holding
    <3>2. Promise!CancelContext
      BY <2>7, <3>1 DEF Cancel, Promise!CancelContext, Slot
    <3> QED BY <3>2
  <2>8. CASE UNCHANGED vars
    BY <2>8 DEF vars, Holding, Promise!poolVars
  <2> QED
    BY <2>1, <2>2, <2>3, <2>4, <2>5, <2>6, <2>7, <2>8 DEF Next, Dispatcher, Worker
<1> QED BY <1>1, <1>2, PoolInvariant, PTL DEF Spec, ImplementsPool, Promise!PoolSpec
=============================================================================
