-------------------------- MODULE ScanEngineProofs --------------------------
(***************************************************************************)
(* Proofs about ScanEngine and ScanMonitor for any number of hosts,        *)
(* workers, related devices and failing calls: the invariant IInv is       *)
(* inductive, the engine's properties follow from it, and so does what a   *)
(* page that has stopped polling shows.  The last part is about the        *)
(* dashboard's other page, SoftwareList, for any titles, searches, page    *)
(* size and failures.                                                      *)
(***************************************************************************)
EXTENDS ScanMonitor, SoftwareList, FiniteSetTheorems, TLAPS

USE DEF NoVM

\* The sets that are counted are finite.
LEMMA Finite ==
  ASSUME IInv
  PROVE  /\ IsFiniteSet(jobs) /\ Cardinality(jobs) \in Nat
         /\ \A S \in SUBSET jobs : /\ IsFiniteSet(S) /\ Cardinality(S) \in Nat
                                   /\ Cardinality(S) <= Cardinality(jobs)
         /\ IsFiniteSet(devices \cap jobs) /\ Cardinality(devices \cap jobs) \in Nat
<1>1. IsFiniteSet(AllJobs)
  BY EngineAssumption
<1>2. jobs \subseteq AllJobs
  BY DEF IInv, TypeOK
<1>3. IsFiniteSet(jobs)
  BY <1>1, <1>2, FS_Subset
<1>4. ASSUME NEW S \in SUBSET jobs
      PROVE  IsFiniteSet(S) /\ Cardinality(S) <= Cardinality(jobs)
  BY <1>3, FS_Subset
<1>5. \A S \in SUBSET jobs : Cardinality(S) \in Nat
  BY <1>4, FS_CardinalityType
<1> QED
  BY <1>3, <1>4, <1>5, FS_CardinalityType

LEMMA InitInv == Init => IInv
<1> SUFFICES ASSUME Init PROVE IInv
  OBVIOUS
<1>1. TypeOK
  <2> DEFINE q == [pc |-> "collect", k |-> 1, got |-> FALSE, cerr |-> FALSE,
                   err |-> FALSE, saved |-> FALSE, related |-> {}, vm |-> NoVM]
  <2>1. q \in HostResult
    BY DEF HostResult, HostSteps
  <2>2. host = [h \in AllJobs |-> q]
    BY DEF Init
  <2> HIDE DEF q
  <2>3. host \in [AllJobs -> HostResult]
    BY <2>1, <2>2
  <2>4. faults \in 0..MaxFaults
    BY EngineAssumption DEF Init
  <2>5. run \in [status : {"none", "running", "ok"}, discovered : Nat, found : Nat]
    BY DEF Init
  <2> QED
    BY <2>3, <2>4, <2>5 DEF Init, TypeOK
<1> USE DEF Init
<1>2. SlotInv /\ HostInv /\ RunInv /\ EventsFollowDevices
  BY DEF SlotInv, HostInv, RunInv, EventsFollowDevices, Persisted
<1>3. CalmInv /\ TotalInv
  BY DEF CalmInv, TotalInv, Persisted
<1>4. FoundNotOvercounted
  BY FS_EmptySet DEF FoundNotOvercounted
<1> QED
  BY <1>1, <1>2, <1>3, <1>4 DEF IInv

-----------------------------------------------------------------------------
\* A step of host h's goroutine: it comes to q, its event to e, rows are added.
HostStep(h, q, e) ==
  /\ slot[h] = "active" /\ up
  /\ q \in HostResult /\ e \in {"none", "failed", "collected", "discovered"}
  /\ host' = [host EXCEPT ![h] = q] /\ events' = [events EXCEPT ![h] = e]
  /\ devices \subseteq devices' /\ devices' \subseteq AllJobs \cup VMs
  /\ links \subseteq links' /\ links' \subseteq AllJobs \X VMs
  /\ faults' \in 0..MaxFaults /\ faults <= faults'
  /\ UNCHANGED <<poolVars, pc, up, run>>

Stored == {"event", "related", "link", "done"}

Linked(h, q, v) ==
  \/ <<h, v>> \in links' \/ (q.pc = "link" /\ q.vm = v)
  \/ \E g \in AllJobs \ {h} : <<g, v>> \in links \/ (host[g].pc = "link" /\ host[g].vm = v)

\* What the step has to establish for h.
HostSound(h, q, e) ==
  /\ cancelled => e = events[h]
  /\ q.pc \notin Stored => e = "none" /\ ~q.saved /\ ~q.err
  /\ q.pc \in Stored => q.err = ~q.saved
  /\ q.saved => h \in devices'
  /\ q.pc \in {"related", "link"} => ~q.err
  /\ q.pc = "done" => q.err \/ q.related = {}
  /\ q.pc = "link" => q.vm \in VMs
  /\ e \in {"collected", "discovered"} => h \in devices'
  /\ e = "failed" => q.err \/ (q.cerr /\ h \in devices')
  /\ faults' = 0 /\ ~cancelled =>
       /\ q.pc \in Stored => ~q.err
       /\ q.pc \in {"related", "link", "done"} => e # "none"
       /\ \A v \in devices' \cap VMs : Linked(h, q, v)

\* A host that is being processed belongs to a run that is not over.
LEMMA ActiveHost ==
  ASSUME IInv, NEW h \in AllJobs, slot[h] = "active"
  PROVE  h \in jobs /\ ~returned /\ run.status # "ok" /\ run.found = 0
         /\ pc \notin {"start", "discover", "count", "finish"}
BY DEF IInv, TypeOK, SlotInv, RunInv, Settled

LEMMA HostMove ==
  ASSUME IInv, NEW h \in AllJobs, NEW q, NEW e, HostStep(h, q, e), HostSound(h, q, e)
  PROVE  IInv'
<1> USE DEF HostStep
<1>1. /\ h \in jobs /\ ~returned /\ run.status # "ok" /\ run.found = 0
      /\ pc \notin {"start", "discover", "count", "finish"}
  BY ActiveHost
<1>2. /\ host \in [AllJobs -> HostResult] /\ host' \in [AllJobs -> HostResult]
      /\ events \in [AllJobs -> {"none", "failed", "collected", "discovered"}]
      /\ host'[h] = q /\ events'[h] = e
      /\ \A g \in AllJobs \ {h} : host'[g] = host[g] /\ events'[g] = events[g]
  BY DEF IInv, TypeOK
<1>3. UNCHANGED <<jobs, slot, cancelled, grace, returned, pc, up, run>>
  BY DEF poolVars
<1>4. faults \in Nat /\ faults' \in Nat /\ (faults' = 0 => faults = 0)
  BY EngineAssumption DEF IInv, TypeOK
<1>5. TypeOK'
  <2>1. events' \in [AllJobs -> {"none", "failed", "collected", "discovered"}]
    BY <1>2
  <2> QED
    BY <1>2, <1>3, <2>1 DEF IInv, TypeOK
<1>6. SlotInv'
  BY <1>1, <1>2, <1>3 DEF IInv, SlotInv
<1>7. HostInv'
  <2> SUFFICES ASSUME NEW g \in AllJobs
               PROVE  /\ ~Persisted(g)' => events'[g] = "none" /\ ~host'[g].saved /\ ~host'[g].err
                      /\ Persisted(g)' => host'[g].err = ~host'[g].saved
                      /\ host'[g].saved => g \in devices'
                      /\ host'[g].pc \in {"related", "link"} => ~host'[g].err
                      /\ host'[g].pc = "done" => host'[g].err \/ host'[g].related = {}
                      /\ host'[g].pc = "link" => host'[g].vm \in VMs
    BY DEF HostInv
  <2>1. CASE g = h
    BY <2>1, <1>2 DEF HostSound, Persisted, Stored
  <2>2. CASE g # h
    BY <2>2, <1>2 DEF IInv, HostInv, Persisted
  <2> QED
    BY <2>1, <2>2
<1>8. RunInv'
  BY <1>1, <1>3 DEF IInv, RunInv, Settled
<1>9. CalmInv'
  <2> SUFFICES ASSUME faults' = 0, ~cancelled
               PROVE  /\ \A g \in AllJobs :
                           /\ Persisted(g)' => ~host'[g].err
                           /\ host'[g].pc \in {"related", "link", "done"} => g \in Reported'
                      /\ \A v \in devices' \cap VMs : \E g \in AllJobs :
                           <<g, v>> \in links' \/ (host'[g].pc = "link" /\ host'[g].vm = v)
    BY <1>1, <1>3 DEF CalmInv
  <2>1. /\ \A g \in AllJobs : /\ Persisted(g) => ~host[g].err
                              /\ host[g].pc \in {"related", "link", "done"} => g \in Reported
    BY <1>4 DEF IInv, CalmInv
  <2>2. ASSUME NEW g \in AllJobs
        PROVE  /\ Persisted(g)' => ~host'[g].err
               /\ host'[g].pc \in {"related", "link", "done"} => g \in Reported'
    <3>1. CASE g = h
      BY <3>1, <1>2 DEF HostSound, Persisted, Stored, Reported
    <3>2. CASE g # h
      BY <3>2, <1>2, <2>1 DEF Persisted, Reported
    <3> QED
      BY <3>1, <3>2
  <2>3. ASSUME NEW v \in devices' \cap VMs
        PROVE  \E g \in AllJobs :
                 <<g, v>> \in links' \/ (host'[g].pc = "link" /\ host'[g].vm = v)
    <3>1. Linked(h, q, v)
      BY DEF HostSound
    <3> QED
      BY <3>1, <1>2 DEF Linked
  <2> QED
    BY <2>2, <2>3
<1>10. TotalInv'
  <2>1. cancelled => Reported' = Reported
    BY <1>2 DEF HostSound, Reported
  <2> QED
    BY <2>1, <1>3, <1>4 DEF IInv, TotalInv
<1>11. EventsFollowDevices'
  <2> SUFFICES ASSUME NEW g \in AllJobs
               PROVE  /\ events'[g] \in {"collected", "discovered"} => g \in devices'
                      /\ events'[g] = "failed" =>
                           host'[g].err \/ (host'[g].cerr /\ g \in devices')
    BY DEF EventsFollowDevices
  <2>1. CASE g = h
    BY <2>1, <1>2 DEF HostSound
  <2>2. CASE g # h
    BY <2>2, <1>2 DEF IInv, EventsFollowDevices
  <2> QED
    BY <2>1, <2>2
<1>12. FoundNotOvercounted'
  <2>1. IsFiniteSet(devices' \cap jobs)
    BY Finite, FS_Subset
  <2>2. Cardinality(devices' \cap jobs) \in Nat
    BY <2>1, FS_CardinalityType
  <2> QED
    BY <1>1, <1>3, <2>2 DEF FoundNotOvercounted
<1> QED
  BY <1>5, <1>6, <1>7, <1>8, <1>9, <1>10, <1>11, <1>12 DEF IInv
-----------------------------------------------------------------------------
\* What IInv says of one host.
LEMMA OneHost ==
  ASSUME IInv, NEW h \in AllJobs
  PROVE  /\ host[h] \in HostResult
         /\ events[h] \in {"none", "failed", "collected", "discovered"}
         /\ host[h].pc \notin Stored => events[h] = "none" /\ ~host[h].saved /\ ~host[h].err
         /\ host[h].pc \in Stored => host[h].err = ~host[h].saved
         /\ host[h].saved => h \in devices
         /\ host[h].pc \in {"related", "link"} => ~host[h].err
         /\ events[h] \in {"collected", "discovered"} => h \in devices
         /\ events[h] = "failed" => host[h].err \/ (host[h].cerr /\ h \in devices)
         /\ faults = 0 /\ ~cancelled =>
              /\ host[h].pc \in Stored => ~host[h].err
              /\ host[h].pc \in {"related", "link", "done"} => events[h] # "none"
         /\ host \in [AllJobs -> HostResult]
         /\ events \in [AllJobs -> {"none", "failed", "collected", "discovered"}]
         /\ devices \subseteq AllJobs \cup VMs /\ links \subseteq AllJobs \X VMs
         /\ faults \in 0..MaxFaults /\ cancelled \in BOOLEAN
<1>1. TypeOK /\ HostInv /\ EventsFollowDevices /\ CalmInv
  BY DEF IInv
<1>2. /\ host[h] \in HostResult
      /\ events[h] \in {"none", "failed", "collected", "discovered"}
  BY <1>1 DEF TypeOK
<1>3. /\ host[h].pc \notin Stored => events[h] = "none" /\ ~host[h].saved /\ ~host[h].err
      /\ host[h].pc \in Stored => host[h].err = ~host[h].saved
      /\ host[h].saved => h \in devices
      /\ host[h].pc \in {"related", "link"} => ~host[h].err
  BY <1>1 DEF HostInv, Persisted, Stored
<1>4. /\ events[h] \in {"collected", "discovered"} => h \in devices
      /\ events[h] = "failed" => host[h].err \/ (host[h].cerr /\ h \in devices)
  BY <1>1 DEF EventsFollowDevices
<1>5. faults = 0 /\ ~cancelled =>
        /\ host[h].pc \in Stored => ~host[h].err
        /\ host[h].pc \in {"related", "link", "done"} => events[h] # "none"
  BY <1>1 DEF CalmInv, Persisted, Stored, Reported
<1> QED
  BY <1>1, <1>2, <1>3, <1>4, <1>5 DEF TypeOK

\* A related device that was linked, or is about to be by another host, still is.
LEMMA StillLinked ==
  ASSUME IInv, NEW h \in AllJobs, NEW q, NEW v \in devices \cap VMs,
         faults = 0, ~cancelled, links \subseteq links',
         host[h].pc = "link" => host[h].vm # v \/ <<h, v>> \in links'
  PROVE  Linked(h, q, v)
<1>1. PICK g \in AllJobs : <<g, v>> \in links \/ (host[g].pc = "link" /\ host[g].vm = v)
  BY DEF IInv, CalmInv
<1> QED
  BY <1>1 DEF Linked

\* What a database call may do to the count of failures.
LEMMA Call ==
  ASSUME IInv, NEW out \in Outcomes, Answer(out)
  PROVE  /\ out \in {"ok", "error", "lost"}
         /\ faults' \in 0..MaxFaults /\ faults <= faults'
         /\ cancelled => out = "error"
         /\ faults' = 0 => faults = 0
         /\ faults' = 0 /\ ~cancelled => out = "ok"
BY EngineAssumption DEF IInv, TypeOK, Outcomes, Answer

\* The results of a collector that failed and of one that succeeded.
LEMMA FailedResult ==
  ASSUME NEW r \in HostResult, NEW k \in Nat, NEW c \in BOOLEAN
  PROVE  [r EXCEPT !.k = k, !.cerr = c] \in HostResult
BY DEF HostResult

LEMMA CollectedResult ==
  ASSUME NEW r \in HostResult, NEW s \in HostSteps, NEW g \in BOOLEAN, NEW c \in BOOLEAN,
         NEW vms \in SUBSET VMs
  PROVE  [r EXCEPT !.pc = s, !.got = g, !.cerr = c, !.related = vms] \in HostResult
BY DEF HostResult

LEMMA CollectStep ==
  ASSUME IInv, NEW h \in AllJobs, Collect(h)
  PROVE  IInv'
<1>1. /\ up /\ slot[h] = "active" /\ host[h].pc = "collect"
      /\ UNCHANGED <<poolVars, pc, up, dbVars>>
  BY DEF Collect, At
<1>2. host \in [AllJobs -> HostResult] /\ host[h] \in HostResult
      /\ events \in [AllJobs -> {"none", "failed", "collected", "discovered"}]
      /\ events[h] = "none" /\ ~host[h].saved /\ ~host[h].err
  BY <1>1, OneHost DEF Stored
<1>3. PICK q \in HostResult :
        /\ host' = [host EXCEPT ![h] = q]
        /\ q.pc \in {"collect", "hung", "upsert"} /\ q.saved = host[h].saved /\ q.err = host[h].err
  <2>1. CASE host' = [host EXCEPT ![h].k = @ + 1]
    <3> DEFINE q == [host[h] EXCEPT !.k = @ + 1]
    <3>1. q \in HostResult
      BY <1>2 DEF HostResult
    <3>3. q.pc = host[h].pc /\ q.saved = host[h].saved /\ q.err = host[h].err
      BY <1>2 DEF HostResult
    <3>2. host' = [host EXCEPT ![h] = q]
      BY <1>2, <2>1
    <3> QED
      BY <3>1, <3>2, <3>3, <1>1
  <2>2. CASE host' = [host EXCEPT ![h].k = @ + 1, ![h].cerr = TRUE]
    <3> DEFINE q == [host[h] EXCEPT !.k = @ + 1, !.cerr = TRUE]
    <3>1. q \in HostResult
      <4>1. host[h].k + 1 \in Nat
        BY <1>2 DEF HostResult
      <4> QED
        BY <1>2, <4>1, FailedResult
    <3>3. q.pc = host[h].pc /\ q.saved = host[h].saved /\ q.err = host[h].err
      BY <1>2 DEF HostResult
    <3>2. host' = [host EXCEPT ![h] = q]
      BY <1>2, <2>2
    <3> QED
      BY <3>1, <3>2, <3>3, <1>1
  <2>3. ASSUME NEW vms \in SUBSET {v \in VMs : h \in Hypervisors},
               host' = [host EXCEPT ![h].pc = "upsert", ![h].got = TRUE,
                                    ![h].cerr = FALSE, ![h].related = vms]
        PROVE  \E q \in HostResult :
                 /\ host' = [host EXCEPT ![h] = q]
                 /\ q.pc \in {"collect", "hung", "upsert"}
                 /\ q.saved = host[h].saved /\ q.err = host[h].err
    <3> DEFINE q == [host[h] EXCEPT !.pc = "upsert", !.got = TRUE, !.cerr = FALSE,
                                    !.related = vms]
    <3>1. q \in HostResult
      <4>1. vms \in SUBSET VMs /\ "upsert" \in HostSteps
        BY DEF HostSteps
      <4> QED
        BY <1>2, <4>1, CollectedResult
    <3>3. q.pc = "upsert" /\ q.saved = host[h].saved /\ q.err = host[h].err
      BY <1>2 DEF HostResult, HostSteps
    <3>2. host' = [host EXCEPT ![h] = q]
      BY <1>2, <2>3
    <3> QED
      BY <3>1, <3>2, <3>3
  <2>4. ASSUME NEW s \in {"hung", "upsert"}, host' = [host EXCEPT ![h].pc = s]
        PROVE  \E q \in HostResult :
                 /\ host' = [host EXCEPT ![h] = q]
                 /\ q.pc \in {"collect", "hung", "upsert"}
                 /\ q.saved = host[h].saved /\ q.err = host[h].err
    <3> DEFINE q == [host[h] EXCEPT !.pc = s]
    <3>1. q \in HostResult
      BY <1>2 DEF HostResult, HostSteps
    <3>3. q.pc = s /\ q.saved = host[h].saved /\ q.err = host[h].err
      BY <1>2 DEF HostResult, HostSteps
    <3>2. host' = [host EXCEPT ![h] = q]
      BY <1>2, <2>4
    <3> QED
      BY <3>1, <3>2, <3>3
  <2> QED
    BY <2>1, <2>2, <2>3, <2>4 DEF Collect
<1>4. HostStep(h, q, "none")
  BY <1>1, <1>2, <1>3, EngineAssumption DEF HostStep, dbVars, IInv, TypeOK
<1>5. HostSound(h, q, "none")
  <2>1. ASSUME faults' = 0, ~cancelled, NEW v \in devices' \cap VMs
        PROVE  Linked(h, q, v)
    BY <2>1, <1>1, StillLinked DEF dbVars
  <2> QED
    BY <2>1, <1>2, <1>3 DEF HostSound, Stored
<1> QED
  BY <1>4, <1>5, HostMove

LEMMA UpsertHostStep ==
  ASSUME IInv, NEW h \in AllJobs, UpsertHost(h)
  PROVE  IInv'
<1>1. /\ up /\ slot[h] = "active" /\ host[h].pc = "upsert"
      /\ UNCHANGED <<poolVars, pc, up, run, events, links>>
  BY DEF UpsertHost, At
<1>2. PICK out \in Outcomes :
        /\ Answer(out)
        /\ devices' = IF Applied(out) THEN devices \cup {h} ELSE devices
        /\ host' = [host EXCEPT ![h].pc = "event", ![h].err = out # "ok",
                                ![h].saved = out = "ok"]
  BY DEF UpsertHost
<1>3. /\ out \in {"ok", "error", "lost"} /\ faults' \in 0..MaxFaults /\ faults <= faults'
      /\ faults' = 0 => faults = 0
      /\ faults' = 0 /\ ~cancelled => out = "ok"
  BY <1>2, Call
<1> DEFINE q == [host[h] EXCEPT !.pc = "event", !.err = out # "ok", !.saved = out = "ok"]
<1>4. /\ host \in [AllJobs -> HostResult] /\ host[h] \in HostResult
      /\ events \in [AllJobs -> {"none", "failed", "collected", "discovered"}]
      /\ events[h] = "none" /\ devices \subseteq AllJobs \cup VMs /\ links \subseteq AllJobs \X VMs
  BY <1>1, OneHost DEF Stored
<1>5. (out # "ok") \in BOOLEAN /\ (out = "ok") \in BOOLEAN
  OBVIOUS
<1>6. q \in HostResult
  BY <1>4, <1>5 DEF HostResult, HostSteps
<1>7. host' = [host EXCEPT ![h] = q]
  BY <1>2, <1>4
<1>8. q.pc = "event" /\ q.err = (out # "ok") /\ q.saved = (out = "ok")
  BY <1>4 DEF HostResult
<1> HIDE DEF q
<1>9. HostStep(h, q, "none")
  BY <1>1, <1>2, <1>3, <1>4, <1>6, <1>7, EngineAssumption DEF HostStep
<1>10. HostSound(h, q, "none")
  <2>1. ASSUME faults' = 0, ~cancelled, NEW v \in devices' \cap VMs
        PROVE  Linked(h, q, v)
    <3>1. v \in devices
      BY <2>1, <1>2, EngineAssumption
    <3> QED
      BY <2>1, <3>1, <1>1, <1>3, StillLinked
  <2> QED
    BY <2>1, <1>2, <1>3, <1>4, <1>8 DEF HostSound, Stored, Applied
<1> QED
  BY <1>9, <1>10, HostMove
LEMMA RecordEventStep ==
  ASSUME IInv, NEW h \in AllJobs, RecordEvent(h)
  PROVE  IInv'
<1>1. /\ up /\ slot[h] = "active" /\ host[h].pc = "event"
      /\ UNCHANGED <<poolVars, pc, up, run, devices, links>>
  BY DEF RecordEvent, At
<1>2. PICK out \in Outcomes :
        /\ Answer(out)
        /\ events' = [events EXCEPT ![h] = IF Applied(out) THEN EventStatus(host[h]) ELSE @]
  BY DEF RecordEvent
<1>3. /\ out \in {"ok", "error", "lost"} /\ faults' \in 0..MaxFaults /\ faults <= faults'
      /\ cancelled => out = "error"
      /\ faults' = 0 => faults = 0
      /\ faults' = 0 /\ ~cancelled => out = "ok"
  BY <1>2, Call
<1> DEFINE s == IF host[h].err THEN "done" ELSE "related"
           q == [host[h] EXCEPT !.pc = s]
           e == IF Applied(out) THEN EventStatus(host[h]) ELSE events[h]
<1>4. /\ host \in [AllJobs -> HostResult] /\ host[h] \in HostResult
      /\ events \in [AllJobs -> {"none", "failed", "collected", "discovered"}]
      /\ events[h] \in {"none", "failed", "collected", "discovered"}
      /\ devices \subseteq AllJobs \cup VMs /\ links \subseteq AllJobs \X VMs
  BY OneHost
<1>5. q \in HostResult
  BY <1>4 DEF HostResult, HostSteps
<1>6. host' = [host EXCEPT ![h] = q]
  BY <1>4 DEF RecordEvent
<1>7. /\ q.pc = s /\ q.related = host[h].related
      /\ q.saved = host[h].saved /\ q.err = host[h].err /\ q.cerr = host[h].cerr
  BY <1>4 DEF HostResult
<1>8. e \in {"none", "failed", "collected", "discovered"}
  BY <1>4 DEF EventStatus
<1>9. events' = [events EXCEPT ![h] = e]
  BY <1>2, <1>4
<1>10. /\ host[h].err = ~host[h].saved
       /\ host[h].saved => h \in devices
       /\ events[h] \in {"collected", "discovered"} => h \in devices
       /\ events[h] = "failed" => host[h].err \/ (host[h].cerr /\ h \in devices)
       /\ faults = 0 /\ ~cancelled => ~host[h].err
  BY <1>1, OneHost DEF Stored
<1>11. e \in {"collected", "discovered"} => h \in devices
  BY <1>10 DEF EventStatus
<1>12. e = "failed" => host[h].err \/ (host[h].cerr /\ h \in devices)
  BY <1>10 DEF EventStatus
<1>13. cancelled => e = events[h]
  BY <1>3 DEF Applied
<1>14. out = "ok" => e # "none"
  BY DEF Applied, EventStatus
<1> HIDE DEF q, e
<1>15. HostStep(h, q, e)
  BY <1>1, <1>3, <1>4, <1>5, <1>6, <1>8, <1>9 DEF HostStep
<1>16. HostSound(h, q, e)
  <2>1. ASSUME faults' = 0, ~cancelled, NEW v \in devices' \cap VMs
        PROVE  Linked(h, q, v)
    BY <2>1, <1>1, <1>3, StillLinked
  <2>2. q.pc \in Stored
    BY <1>7 DEF Stored
  <2>3. q.pc \in {"related", "link"} => ~q.err
    BY <1>7
  <2>4. q.pc = "done" => q.err
    BY <1>7
  <2>5. q.err = ~q.saved
    BY <1>7, <1>10
  <2> QED
    BY <2>1, <2>2, <2>3, <2>4, <2>5, <1>1, <1>3, <1>7, <1>10, <1>11, <1>12, <1>13, <1>14
       DEF HostSound
<1> QED
  BY <1>15, <1>16, HostMove

\* Related devices: the host's own outcome and event are settled by now.
LEMMA RelatedMove ==
  ASSUME IInv, NEW h \in AllJobs, NEW q \in HostResult,
         slot[h] = "active", up, host[h].pc \in {"related", "link"},
         UNCHANGED <<poolVars, pc, up, run, events>>,
         host' = [host EXCEPT ![h] = q],
         q.pc \in {"related", "link", "done"}, q.pc = "done" => q.related = {},
         q.pc = "link" => q.vm \in VMs,
         q.err = host[h].err, q.saved = host[h].saved, q.cerr = host[h].cerr,
         devices \subseteq devices', devices' \subseteq AllJobs \cup VMs,
         links \subseteq links', links' \subseteq AllJobs \X VMs,
         faults' \in 0..MaxFaults, faults <= faults',
         faults' = 0 /\ ~cancelled => \A v \in devices' \cap VMs : Linked(h, q, v)
  PROVE  IInv'
<1>1. /\ host \in [AllJobs -> HostResult]
      /\ events \in [AllJobs -> {"none", "failed", "collected", "discovered"}]
      /\ events[h] \in {"none", "failed", "collected", "discovered"}
      /\ host[h].saved => h \in devices
      /\ ~host[h].err /\ host[h].err = ~host[h].saved
      /\ events[h] \in {"collected", "discovered"} => h \in devices
      /\ events[h] = "failed" => host[h].err \/ (host[h].cerr /\ h \in devices)
      /\ faults = 0 /\ ~cancelled => events[h] # "none"
  BY OneHost DEF Stored
<1>2. events' = [events EXCEPT ![h] = events[h]]
  BY <1>1
<1>3. HostStep(h, q, events[h])
  BY <1>1, <1>2 DEF HostStep
<1>4. faults' = 0 => faults = 0
  BY EngineAssumption DEF IInv, TypeOK
<1>5. q.pc \in Stored
  BY DEF Stored
<1>6. HostSound(h, q, events[h])
  BY <1>1, <1>4, <1>5 DEF HostSound
<1> QED
  BY <1>3, <1>6, HostMove

LEMMA UpsertRelatedStep ==
  ASSUME IInv, NEW h \in AllJobs, UpsertRelated(h)
  PROVE  IInv'
<1>1. /\ up /\ slot[h] = "active" /\ host[h].pc = "related"
      /\ UNCHANGED <<poolVars, pc, up, run, events, links>>
  BY DEF UpsertRelated, At
<1>2. /\ host \in [AllJobs -> HostResult] /\ host[h] \in HostResult
      /\ devices \subseteq AllJobs \cup VMs /\ links \subseteq AllJobs \X VMs
      /\ faults \in 0..MaxFaults
  BY OneHost
<1>3. ASSUME NEW v \in host[h].related, NEW out \in Outcomes, Answer(out),
             devices' = IF Applied(out) THEN devices \cup {v} ELSE devices,
             host' = [host EXCEPT ![h].related = @ \ {v},
                                  ![h].pc = IF out = "ok" THEN "link" ELSE "related",
                                  ![h].vm = IF out = "ok" THEN v ELSE NoVM]
      PROVE  IInv'
  <2> DEFINE s == IF out = "ok" THEN "link" ELSE "related"
             m == IF out = "ok" THEN v ELSE NoVM
             q == [host[h] EXCEPT !.related = @ \ {v}, !.pc = s, !.vm = m]
  <2>1. /\ faults' \in 0..MaxFaults /\ faults <= faults'
        /\ faults' = 0 => faults = 0
        /\ faults' = 0 /\ ~cancelled => out = "ok"
    BY <1>3, Call
  <2>2. v \in VMs
    BY <1>2 DEF HostResult
  <2>3. q \in HostResult
    BY <1>2, <2>2 DEF HostResult, HostSteps
  <2>4. host' = [host EXCEPT ![h] = q]
    BY <1>2, <1>3
  <2>5. q.pc = s /\ q.vm = m /\ q.err = host[h].err /\ q.saved = host[h].saved
        /\ q.cerr = host[h].cerr
    BY <1>2 DEF HostResult
  <2> HIDE DEF q
  <2>6. ASSUME faults' = 0, ~cancelled, NEW w \in devices' \cap VMs
        PROVE  Linked(h, q, w)
    <3>1. CASE w = v
      BY <3>1, <2>1, <2>5, <2>6 DEF Linked
    <3>2. CASE w # v
      <4>1. w \in devices \cap VMs
        BY <3>2, <1>3, <2>6
      <4> QED
        BY <4>1, <1>1, <2>1, <2>6, StillLinked
    <3> QED
      BY <3>1, <3>2
  <2>7. devices \subseteq devices' /\ devices' \subseteq AllJobs \cup VMs
    BY <1>2, <1>3, <2>2
  <2>8. links \subseteq links' /\ links' \subseteq AllJobs \X VMs
    BY <1>1, <1>2
  <2>9. /\ q.pc \in {"related", "link", "done"} /\ (q.pc = "done" => q.related = {})
        /\ q.pc = "link" => q.vm \in VMs
        /\ q.err = host[h].err /\ q.saved = host[h].saved /\ q.cerr = host[h].cerr
    BY <2>2, <2>5
  <2>10. UNCHANGED <<poolVars, pc, up, run, events>> /\ host[h].pc \in {"related", "link"}
    BY <1>1
  <2>11. faults' = 0 /\ ~cancelled => \A w \in devices' \cap VMs : Linked(h, q, w)
    BY <2>6
  <2> HIDE DEF s, m
  <2> QED
    BY <1>1, <2>1, <2>3, <2>4, <2>7, <2>8, <2>9, <2>10, <2>11, RelatedMove
<1>4. ASSUME host[h].related = {}, host' = [host EXCEPT ![h].pc = "done"],
             UNCHANGED <<devices, faults>>
      PROVE  IInv'
  <2> DEFINE q == [host[h] EXCEPT !.pc = "done"]
  <2>1. q \in HostResult
    BY <1>2 DEF HostResult, HostSteps
  <2>2. host' = [host EXCEPT ![h] = q]
    BY <1>2, <1>4
  <2>3. q.pc = "done" /\ q.related = {} /\ q.err = host[h].err /\ q.saved = host[h].saved
        /\ q.cerr = host[h].cerr
    BY <1>2, <1>4 DEF HostResult
  <2> HIDE DEF q
  <2>4. ASSUME faults' = 0, ~cancelled, NEW w \in devices' \cap VMs
        PROVE  Linked(h, q, w)
    BY <1>1, <1>4, <2>4, StillLinked
  <2>5. faults' \in 0..MaxFaults /\ faults <= faults'
    BY <1>2, <1>4, EngineAssumption
  <2> QED
    BY <1>1, <1>2, <1>4, <2>1, <2>2, <2>3, <2>4, <2>5, RelatedMove
<1>5. ASSUME NEW v \in host[h].related, host' = [host EXCEPT ![h].related = @ \ {v}],
             UNCHANGED <<devices, faults>>
      PROVE  IInv'
  <2> DEFINE q == [host[h] EXCEPT !.related = @ \ {v}]
  <2>1. q \in HostResult
    BY <1>2 DEF HostResult
  <2>2. host' = [host EXCEPT ![h] = q]
    BY <1>2, <1>5
  <2>3. q.pc = "related" /\ q.err = host[h].err /\ q.saved = host[h].saved
        /\ q.cerr = host[h].cerr
    BY <1>1, <1>2 DEF HostResult
  <2> HIDE DEF q
  <2>4. ASSUME faults' = 0, ~cancelled, NEW w \in devices' \cap VMs
        PROVE  Linked(h, q, w)
    BY <1>1, <1>5, <2>4, StillLinked
  <2>5. faults' \in 0..MaxFaults /\ faults <= faults'
    BY <1>2, <1>5, EngineAssumption
  <2> QED
    BY <1>1, <1>2, <1>5, <2>1, <2>2, <2>3, <2>4, <2>5, RelatedMove
<1> QED
  BY <1>3, <1>4, <1>5 DEF UpsertRelated

LEMMA LinkRelatedStep ==
  ASSUME IInv, NEW h \in AllJobs, LinkRelated(h)
  PROVE  IInv'
<1>1. /\ up /\ slot[h] = "active" /\ host[h].pc = "link"
      /\ UNCHANGED <<poolVars, pc, up, run, events, devices>>
      /\ host' = [host EXCEPT ![h].pc = "related", ![h].vm = NoVM]
  BY DEF LinkRelated, At
<1>2. PICK out \in Outcomes :
        /\ Answer(out)
        /\ links' = IF Applied(out) THEN links \cup {<<h, host[h].vm>>} ELSE links
  BY DEF LinkRelated
<1>3. /\ faults' \in 0..MaxFaults /\ faults <= faults'
      /\ faults' = 0 => faults = 0
      /\ faults' = 0 /\ ~cancelled => out = "ok"
  BY <1>2, Call
<1>4. /\ host \in [AllJobs -> HostResult] /\ host[h] \in HostResult
      /\ devices \subseteq AllJobs \cup VMs /\ links \subseteq AllJobs \X VMs
  BY OneHost
<1> DEFINE q == [host[h] EXCEPT !.pc = "related", !.vm = NoVM]
<1>5. q \in HostResult
  BY <1>4 DEF HostResult, HostSteps
<1>6. host' = [host EXCEPT ![h] = q]
  BY <1>1, <1>4
<1>7. q.pc = "related" /\ q.err = host[h].err /\ q.saved = host[h].saved
      /\ q.cerr = host[h].cerr
  BY <1>4 DEF HostResult
<1> HIDE DEF q
<1>8. host[h].vm \in VMs
  BY <1>1 DEF IInv, HostInv
<1>9. ASSUME faults' = 0, ~cancelled, NEW w \in devices' \cap VMs
      PROVE  Linked(h, q, w)
  BY <1>1, <1>2, <1>3, <1>9, StillLinked DEF Applied
<1>10. links \subseteq links' /\ links' \subseteq AllJobs \X VMs
  BY <1>2, <1>4, <1>8
<1>11. devices \subseteq devices' /\ devices' \subseteq AllJobs \cup VMs
  BY <1>1, <1>4
<1> QED
  BY <1>1, <1>3, <1>5, <1>6, <1>7, <1>9, <1>10, <1>11, RelatedMove
-----------------------------------------------------------------------------
\* A step of the pool alone: what relates the rows to each other stays.
LEMMA PoolMove ==
  ASSUME IInv, UNCHANGED <<jobs, cancelled, pc, up, host, dbVars>>,
         slot' \in [AllJobs -> {"pending", "active", "finished", "skipped"}],
         grace' \in BOOLEAN, returned' = returned,
         SlotInv', RunInv'
  PROVE  IInv'
<1>1. TypeOK'
  BY DEF IInv, TypeOK, dbVars
<1>2. HostInv' /\ EventsFollowDevices' /\ FoundNotOvercounted'
  BY DEF IInv, HostInv, EventsFollowDevices, FoundNotOvercounted, Persisted, dbVars
<1>3. CalmInv' /\ TotalInv'
  BY DEF IInv, CalmInv, TotalInv, Persisted, Reported, dbVars
<1> QED
  BY <1>1, <1>2, <1>3 DEF IInv

\* A slot changes in a run that is processing hosts.
LEMMA SlotMove ==
  ASSUME IInv, NEW h \in jobs, NEW s \in {"active", "finished", "skipped"},
         slot[h] \in {"pending", "active"}, slot' = [slot EXCEPT ![h] = s],
         UNCHANGED <<jobs, cancelled, pc, up, host, dbVars, returned>>,
         grace' \in BOOLEAN, pc = "pool" \/ slot[h] = "active",
         s = "finished" => host[h].pc = "done",
         s = "skipped" => slot[h] = "pending" /\ cancelled
  PROVE  IInv'
<1>1. /\ h \in AllJobs /\ slot \in [AllJobs -> {"pending", "active", "finished", "skipped"}]
      /\ ~Settled(h)
  BY DEF IInv, TypeOK, Settled
<1>2. ~returned /\ run.status # "ok" /\ pc \notin {"start", "discover", "count", "finish"}
  BY <1>1 DEF IInv, RunInv, Settled
<1>3. slot'[h] = s /\ \A g \in AllJobs \ {h} : slot'[g] = slot[g]
  BY <1>1
<1>4. SlotInv'
  BY <1>1, <1>3 DEF IInv, SlotInv
<1>5. RunInv'
  BY <1>1, <1>2, <1>3 DEF IInv, RunInv, Settled, dbVars
<1> QED
  BY <1>1, <1>4, <1>5, PoolMove

LEMMA FinishHostStep ==
  ASSUME IInv, NEW h \in AllJobs, FinishHost(h)
  PROVE  IInv'
<1>1. h \in jobs /\ slot[h] = "active"
  BY DEF FinishHost, Finish, IInv, SlotInv
<1>2. grace' \in BOOLEAN
  BY DEF FinishHost, Finish, IInv, TypeOK
<1> QED
  BY <1>1, <1>2, SlotMove DEF FinishHost, Finish

LEMMA DispatchStep ==
  ASSUME IInv, Dispatch
  PROVE  IInv'
<1>1. pc = "pool" /\ UNCHANGED <<pc, up, host, dbVars>>
  BY DEF Dispatch, PoolStep
<1>2. PICK h \in AllJobs : Admit(h) \/ Skip(h)
  BY DEF Dispatch
<1>3. CASE Admit(h)
  <2>1. grace' \in BOOLEAN
    BY <1>3, Zenon DEF Admit, IInv, TypeOK
  <2> QED
    BY <1>1, <1>3, <2>1, SlotMove DEF Admit
<1>4. CASE Skip(h)
  <2>1. grace' \in BOOLEAN
    BY <1>4 DEF Skip, IInv, TypeOK
  <2> QED
    BY <1>1, <1>4, <2>1, SlotMove DEF Skip
<1> QED
  BY <1>2, <1>3, <1>4

LEMMA ReturnStep ==
  ASSUME IInv, ReturnFromPool
  PROVE  IInv'
<1> USE DEF ReturnFromPool, Return
<1>1. TypeOK'
  BY DEF IInv, TypeOK, dbVars
<1>2. SlotInv' /\ HostInv' /\ EventsFollowDevices' /\ FoundNotOvercounted'
  BY DEF IInv, SlotInv, HostInv, EventsFollowDevices, FoundNotOvercounted, Persisted, dbVars
<1>3. CalmInv' /\ TotalInv'
  BY DEF IInv, CalmInv, TotalInv, Persisted, Reported, dbVars
<1>4. RunInv'
  BY DEF IInv, RunInv, Settled, dbVars
<1> QED
  BY <1>1, <1>2, <1>3, <1>4 DEF IInv

\* The process is told to stop, or dies.
LEMMA EndStep ==
  ASSUME IInv, Cancel \/ Crash
  PROVE  IInv'
<1>1. UNCHANGED <<jobs, slot, returned, pc, host, dbVars>> /\ (cancelled => cancelled')
      /\ cancelled' \in BOOLEAN /\ grace' \in BOOLEAN /\ up' \in BOOLEAN
  BY DEF Cancel, CancelContext, Crash, poolVars, IInv, TypeOK
<1>2. TypeOK'
  BY <1>1 DEF IInv, TypeOK, dbVars
<1>3. SlotInv' /\ HostInv' /\ EventsFollowDevices' /\ FoundNotOvercounted'
  BY <1>1 DEF IInv, SlotInv, HostInv, EventsFollowDevices, FoundNotOvercounted, Persisted, dbVars
<1>4. CalmInv' /\ TotalInv'
  BY <1>1 DEF IInv, CalmInv, TotalInv, Persisted, Reported, dbVars
<1>5. RunInv'
  BY <1>1 DEF IInv, RunInv, Settled, dbVars
<1> QED
  BY <1>2, <1>3, <1>4, <1>5 DEF IInv
-----------------------------------------------------------------------------
\* Before the pool is started no host has done anything.
LEMMA EarlyRun ==
  ASSUME IInv, pc \in {"start", "discover", "count"}
  PROVE  /\ run.found = 0 /\ ~returned /\ run.status # "ok" /\ run.discovered = 0
         /\ Reported = {}
         /\ \A h \in AllJobs : slot[h] = "pending"
<1>1. /\ run.found = 0 /\ ~returned /\ run.status # "ok" /\ run.discovered = 0
      /\ \A h \in AllJobs : slot[h] = "pending"
  BY DEF IInv, RunInv
<1>2. \A h \in AllJobs : events[h] = "none"
  BY <1>1 DEF IInv, SlotInv, HostInv, Persisted
<1> QED
  BY <1>1, <1>2 DEF Reported

\* A step of Run that leaves the hosts alone.
LEMMA RunMove ==
  ASSUME IInv, UNCHANGED <<slot, cancelled, grace, returned, up, host, events, devices, links>>,
         jobs' \subseteq AllJobs,
         pc' \in {"start", "discover", "count", "pool", "finish", "ended"},
         run' \in [status : {"none", "running", "ok"}, discovered : Nat, found : Nat],
         faults' \in 0..MaxFaults,
         \A h \in AllJobs : slot[h] # "pending" => h \in jobs',
         RunInv', CalmInv', TotalInv', FoundNotOvercounted'
  PROVE  IInv'
<1>1. TypeOK'
  BY DEF IInv, TypeOK
<1>2. SlotInv' /\ HostInv' /\ EventsFollowDevices'
  BY DEF IInv, SlotInv, HostInv, EventsFollowDevices, Persisted
<1> QED
  BY <1>1, <1>2 DEF IInv

LEMMA CreateRunStep ==
  ASSUME IInv, CreateRun
  PROVE  IInv'
<1>1. /\ pc = "start" /\ jobs = {} /\ run.status = "none"
      /\ UNCHANGED <<jobs, slot, cancelled, grace, returned, up, host, events, devices, links>>
  BY DEF CreateRun, poolVars, IInv, RunInv
<1>2. /\ run.found = 0 /\ ~returned /\ run.discovered = 0 /\ Reported = {}
      /\ \A h \in AllJobs : slot[h] = "pending"
  BY <1>1, EarlyRun
<1>3. run \in [status : {"none", "running", "ok"}, discovered : Nat, found : Nat]
      /\ faults \in 0..MaxFaults
  BY DEF IInv, TypeOK
<1>4. /\ run' = run \/ run' = [run EXCEPT !.status = "running"]
      /\ pc' = "ended" \/ (pc' = "discover" /\ run' = [run EXCEPT !.status = "running"])
      /\ faults' \in 0..MaxFaults /\ (faults' = 0 => faults = 0)
  <2>1. CASE pc' = "ended" /\ UNCHANGED <<run, faults>>
    BY <2>1, <1>3
  <2>2. ASSUME NEW out \in Outcomes, Answer(out),
               run' = IF Applied(out) THEN [run EXCEPT !.status = "running"] ELSE run,
               pc' = IF out = "ok" THEN "discover" ELSE "ended"
        PROVE  /\ run' = run \/ run' = [run EXCEPT !.status = "running"]
               /\ pc' = "ended" \/ (pc' = "discover" /\ run' = [run EXCEPT !.status = "running"])
               /\ faults' \in 0..MaxFaults /\ (faults' = 0 => faults = 0)
    BY <2>2, Call DEF Applied
  <2> QED
    BY <2>1, <2>2 DEF CreateRun
<1>5. /\ run' \in [status : {"none", "running", "ok"}, discovered : Nat, found : Nat]
      /\ run'.discovered = 0 /\ run'.found = 0 /\ run'.status \in {"none", "running"}
      /\ pc' = "discover" => run'.status = "running"
  BY <1>1, <1>2, <1>3, <1>4
<1>6. Cardinality(jobs) = 0
  BY <1>1, FS_EmptySet
<1>7. RunInv'
  BY <1>1, <1>2, <1>4, <1>5 DEF RunInv, Settled
<1>8. CalmInv'
  BY <1>1, <1>4, <1>5 DEF IInv, CalmInv, Persisted, Reported
<1>9. TotalInv'
  BY <1>1, <1>5, <1>6 DEF TotalInv
<1>10. FoundNotOvercounted'
  BY <1>1, <1>2, <1>5, Finite DEF FoundNotOvercounted
<1> QED
  BY <1>1, <1>2, <1>4, <1>5, <1>7, <1>8, <1>9, <1>10, RunMove DEF IInv, TypeOK

LEMMA DiscoverHostsStep ==
  ASSUME IInv, DiscoverHosts
  PROVE  IInv'
<1>1. /\ pc = "discover" /\ pc' = "count" /\ jobs' \subseteq AllJobs
      /\ UNCHANGED <<slot, cancelled, grace, returned, up, host, run, events, devices, links, faults>>
  BY DEF DiscoverHosts, dbVars
<1>2. /\ run.found = 0 /\ ~returned /\ run.discovered = 0 /\ run.status # "ok"
      /\ \A h \in AllJobs : slot[h] = "pending"
  BY <1>1, EarlyRun
<1>3. IsFiniteSet(devices \cap jobs') /\ Cardinality(devices \cap jobs') \in Nat
  BY <1>1, EngineAssumption, FS_Subset, FS_CardinalityType
<1>4. RunInv'
  BY <1>1, <1>2 DEF IInv, RunInv, Settled
<1>5. CalmInv'
  BY <1>1, <1>2 DEF IInv, CalmInv, Persisted, Reported
<1>6. TotalInv' /\ FoundNotOvercounted'
  BY <1>1, <1>2, <1>3 DEF TotalInv, FoundNotOvercounted
<1> QED
  BY <1>1, <1>2, <1>4, <1>5, <1>6, RunMove DEF IInv, TypeOK

LEMMA SetDiscoveredStep ==
  ASSUME IInv, SetDiscovered
  PROVE  IInv'
<1>1. /\ pc = "count" /\ pc' = "pool"
      /\ UNCHANGED <<jobs, slot, cancelled, grace, returned, up, host, events, devices, links>>
  BY DEF SetDiscovered, poolVars
<1>2. /\ run.found = 0 /\ ~returned /\ run.discovered = 0 /\ run.status # "ok"
      /\ Reported = {} /\ \A h \in AllJobs : slot[h] = "pending"
  BY <1>1, EarlyRun
<1>3. PICK out \in Outcomes :
        /\ Answer(out)
        /\ run' = IF Applied(out) THEN [run EXCEPT !.discovered = Cardinality(jobs)] ELSE run
  BY DEF SetDiscovered
<1>4. /\ out \in {"ok", "error", "lost"} /\ faults' \in 0..MaxFaults
      /\ faults' = 0 => faults = 0
      /\ faults' = 0 /\ ~cancelled => out = "ok"
  BY <1>3, Call
<1>5. Cardinality(jobs) \in Nat
  BY Finite
<1>6. /\ run' \in [status : {"none", "running", "ok"}, discovered : Nat, found : Nat]
      /\ run'.status = run.status /\ run'.found = 0
      /\ run'.discovered = IF Applied(out) THEN Cardinality(jobs) ELSE 0
  BY <1>2, <1>3, <1>5 DEF IInv, TypeOK
<1>7. RunInv'
  BY <1>1, <1>2, <1>6 DEF IInv, RunInv, Settled
<1>8. CalmInv'
  BY <1>1, <1>2, <1>4, <1>6 DEF IInv, CalmInv, Persisted, Reported
<1>9. Reported' = Reported
  BY <1>1 DEF Reported
<1>10. TotalInv'
  BY <1>1, <1>2, <1>4, <1>6, <1>9 DEF TotalInv, Applied
<1>11. FoundNotOvercounted'
  BY <1>1, <1>6, Finite DEF FoundNotOvercounted
<1> QED
  BY <1>1, <1>2, <1>4, <1>6, <1>7, <1>8, <1>10, <1>11, RunMove DEF IInv, TypeOK

LEMMA FinishRunStep ==
  ASSUME IInv, FinishRun
  PROVE  IInv'
<1>1. /\ pc = "finish" /\ pc' = "ended"
      /\ UNCHANGED <<jobs, slot, cancelled, grace, returned, up, host, events, devices, links>>
  BY DEF FinishRun, poolVars
<1>2. /\ returned /\ run.status # "ok" /\ \A h \in jobs : Settled(h)
  BY <1>1 DEF IInv, RunInv
<1> DEFINE Saved == {h \in jobs : host[h].saved}
<1>3. PICK out \in Outcomes :
        /\ Answer(out)
        /\ run' = IF Applied(out)
                  THEN [run EXCEPT !.status = "ok", !.found = Cardinality(Saved)]
                  ELSE run
  BY DEF FinishRun
<1>4. /\ out \in {"ok", "error", "lost"} /\ faults' \in 0..MaxFaults
      /\ cancelled => out = "error"
      /\ faults' = 0 => faults = 0
      /\ faults' = 0 /\ ~cancelled => out = "ok"
  BY <1>3, Call
<1>5. /\ Saved \subseteq devices \cap jobs /\ jobs \subseteq AllJobs
  BY DEF IInv, HostInv, TypeOK
<1>6. Cardinality(Saved) \in Nat /\ Cardinality(Saved) <= Cardinality(devices \cap jobs)
  BY <1>5, Finite, FS_Subset, FS_CardinalityType
<1>7. Applied(out) => ~cancelled /\ \A h \in jobs : slot[h] = "finished"
  BY <1>2, <1>4, <1>5 DEF Applied, IInv, SlotInv, Settled
<1>8. /\ run' \in [status : {"none", "running", "ok"}, discovered : Nat, found : Nat]
      /\ run'.discovered = run.discovered
      /\ Applied(out) => run'.status = "ok" /\ run'.found = Cardinality(Saved)
      /\ ~Applied(out) => run' = run
  BY <1>3, <1>6 DEF IInv, TypeOK
<1>9. run.status # "none"
  BY <1>1 DEF IInv, RunInv
<1>10. RunInv'
  BY <1>1, <1>2, <1>7, <1>8, <1>9 DEF IInv, RunInv, Settled
<1>11. CalmInv'
  <2> SUFFICES ASSUME faults' = 0, ~cancelled \/ run'.status = "ok"
               PROVE  CalmInv'
    BY <1>1 DEF CalmInv
  <2>1. faults = 0 /\ ~cancelled /\ Applied(out)
    BY <1>2, <1>4, <1>8 DEF Applied
  <2>2. ASSUME NEW h \in jobs PROVE host[h].saved
    <3>1. host[h].pc = "done"
      BY <1>5, <1>7, <2>1 DEF IInv, SlotInv
    <3> QED
      BY <1>5, <2>1, <3>1, OneHost DEF Stored
  <2>3. Saved = jobs
    BY <2>2
  <2> QED
    BY <1>1, <1>8, <2>1, <2>3 DEF IInv, CalmInv, Persisted, Reported
<1>12. TotalInv'
  <2>1. Reported' = Reported
    BY <1>1 DEF Reported
  <2> QED
    BY <1>1, <1>4, <1>8, <2>1 DEF IInv, TotalInv
<1>13. FoundNotOvercounted'
  BY <1>1, <1>6, <1>8 DEF IInv, FoundNotOvercounted
<1>14. \A h \in AllJobs : slot[h] # "pending" => h \in jobs'
  BY <1>1 DEF IInv, SlotInv
<1>15. jobs' \subseteq AllJobs /\ pc' \in {"start", "discover", "count", "pool", "finish", "ended"}
  BY <1>1, <1>5
<1> HIDE DEF Saved
<1> QED
  BY <1>1, <1>4, <1>8, <1>10, <1>11, <1>12, <1>13, <1>14, <1>15, RunMove

-----------------------------------------------------------------------------
LEMMA IdleStep ==
  ASSUME IInv, UNCHANGED vars
  PROVE  IInv'
<1>1. UNCHANGED <<jobs, slot, cancelled, grace, returned, pc, up, host, run, events,
                  devices, links, faults>>
  BY DEF vars, poolVars, dbVars
<1>2. TypeOK' /\ SlotInv' /\ HostInv'
  BY <1>1 DEF IInv, TypeOK, SlotInv, HostInv, Persisted
<1>3. RunInv' /\ CalmInv'
  BY <1>1 DEF IInv, RunInv, CalmInv, Settled, Persisted, Reported
<1>4. TotalInv' /\ EventsFollowDevices' /\ FoundNotOvercounted'
  BY <1>1 DEF IInv, TotalInv, EventsFollowDevices, FoundNotOvercounted, Reported
<1> QED
  BY <1>2, <1>3, <1>4 DEF IInv

LEMMA AnyHostStep ==
  ASSUME IInv, NEW h \in AllJobs, Host(h)
  PROVE  IInv'
<1>1. CASE Collect(h)
  BY <1>1, CollectStep
<1>2. CASE UpsertHost(h)
  BY <1>2, UpsertHostStep
<1>3. CASE RecordEvent(h)
  BY <1>3, RecordEventStep
<1>4. CASE UpsertRelated(h)
  BY <1>4, UpsertRelatedStep
<1>5. CASE LinkRelated(h)
  BY <1>5, LinkRelatedStep
<1>6. CASE FinishHost(h)
  BY <1>6, FinishHostStep
<1> QED
  BY <1>1, <1>2, <1>3, <1>4, <1>5, <1>6 DEF Host

\* Every step of the run, of one of its hosts, of its context and of the process
\* preserves the invariant.
LEMMA NextInv ==
  ASSUME IInv, [Next]_vars
  PROVE  IInv'
<1>1. CASE Engine
  <2>1. CASE CreateRun
    BY <2>1, CreateRunStep
  <2>2. CASE DiscoverHosts
    BY <2>2, DiscoverHostsStep
  <2>3. CASE SetDiscovered
    BY <2>3, SetDiscoveredStep
  <2>4. CASE Dispatch
    BY <2>4, DispatchStep
  <2>5. CASE ReturnFromPool
    BY <2>5, ReturnStep
  <2>6. CASE FinishRun
    BY <2>6, FinishRunStep
  <2> QED
    BY <1>1, <2>1, <2>2, <2>3, <2>4, <2>5, <2>6 DEF Engine
<1>2. ASSUME NEW h \in AllJobs, Host(h) PROVE IInv'
  BY <1>2, AnyHostStep
<1>3. CASE Cancel \/ Crash
  BY <1>3, EndStep
<1>4. CASE UNCHANGED vars
  BY <1>4, IdleStep
<1> QED
  BY <1>1, <1>2, <1>3, <1>4 DEF Next, Ended, Wait

\* In every state of a run the slots of its pool, the progress of its hosts and
\* the rows it has written fit together (Engine.Run, processHost).
THEOREM EngineInvariant == Spec => []IInv
<1>1. Init => IInv
  BY InitInv
<1>2. IInv /\ [Next]_vars => IInv'
  BY NextInv
<1> QED
  BY <1>1, <1>2, PTL DEF Spec

LEMMA ReportedWithinJobs ==
  ASSUME IInv
  PROVE  Reported \subseteq jobs
BY DEF IInv, Reported, SlotInv, HostInv, Persisted

LEMMA CompleteWhenOk ==
  ASSUME IInv
  PROVE  OkMeansComplete
<1> SUFFICES ASSUME run.status = "ok" PROVE OkMeansComplete
  BY DEF OkMeansComplete
<1>1. jobs \subseteq AllJobs /\ devices \subseteq AllJobs \cup VMs
  BY DEF IInv, TypeOK
<1>2. \A h \in jobs : slot[h] = "finished"
  BY DEF IInv, RunInv
<1>3. \A h \in jobs : host[h].pc = "done" /\ (host[h].err \/ host[h].related = {})
  BY <1>1, <1>2 DEF IInv, SlotInv, HostInv
<1>4. ASSUME faults = 0
      PROVE  /\ Reported = jobs /\ run.found = Cardinality(jobs)
             /\ \A v \in devices \cap VMs : \E h \in AllJobs : <<h, v>> \in links
  <2>1. /\ \A h \in AllJobs : host[h].pc \in {"related", "link", "done"} => h \in Reported
        /\ \A v \in devices \cap VMs : \E h \in AllJobs :
             <<h, v>> \in links \/ (host[h].pc = "link" /\ host[h].vm = v)
        /\ run.found = Cardinality(jobs)
    BY <1>4 DEF IInv, CalmInv
  <2>2. Reported = jobs
    BY <1>1, <1>3, <2>1, ReportedWithinJobs
  <2>3. \A h \in AllJobs : host[h].pc # "collect" => h \in jobs
    BY DEF IInv, SlotInv
  <2>4. \A h \in AllJobs : host[h].pc # "link"
    BY <1>3, <2>3
  <2> QED
    BY <2>1, <2>2, <2>4
<1> QED
  BY <1>2, <1>3, <1>4 DEF OkMeansComplete

LEMMA TotalCovers ==
  ASSUME IInv
  PROVE  ProgressWithinTotal
<1> SUFFICES ASSUME faults = 0 \/ run.discovered > 0
             PROVE  Cardinality(Reported) <= run.discovered
  BY DEF ProgressWithinTotal
<1>1. run.discovered \in Nat
  BY DEF IInv, TypeOK
<1>2. Cardinality(Reported) <= Cardinality(jobs)
  BY ReportedWithinJobs, Finite, FS_Subset
<1>3. CASE run.discovered # 0
  BY <1>2, <1>3 DEF IInv, TotalInv
<1>4. CASE run.discovered = 0 /\ pc \in {"pool", "finish", "ended"}
  <2>1. run.discovered = Cardinality(jobs) \/ Reported = {}
    BY <1>1, <1>4 DEF IInv, TotalInv
  <2> QED
    BY <1>2, <1>4, <2>1, FS_EmptySet
<1>5. CASE run.discovered = 0 /\ pc \in {"start", "discover", "count"}
  BY <1>5, EarlyRun, FS_EmptySet
<1> QED
  BY <1>3, <1>4, <1>5 DEF IInv, TypeOK

\* A run marked ok processed every live host to its end, and lost nothing unless a
\* database call failed (Engine.Run returns from the pool before FinishScanRun).
THEOREM OkIsComplete == Spec => []OkMeansComplete
<1>1. IInv => OkMeansComplete
  BY CompleteWhenOk
<1> QED
  BY <1>1, EngineInvariant, PTL

\* The events of a run never outnumber the total it announced.
THEOREM ProgressStaysWithinTotal == Spec => []ProgressWithinTotal
<1>1. IInv => ProgressWithinTotal
  BY TotalCovers
<1> QED
  BY <1>1, EngineInvariant, PTL

\* No event is ahead of the device row it reports, and hosts_found never exceeds
\* the live hosts that have one.
THEOREM RowsBackEvents == Spec => [](EventsFollowDevices /\ FoundNotOvercounted)
<1>1. IInv => EventsFollowDevices /\ FoundNotOvercounted
  BY DEF IInv
<1> QED
  BY <1>1, EngineInvariant, PTL

-----------------------------------------------------------------------------
(* How the rows of a run move: what a reader has seen of them stays true.      *)

LEMMA CreateRunMoves ==
  ASSUME IInv, CreateRun
  PROVE  /\ run.status = "none" /\ run'.discovered = run.discovered
         /\ UNCHANGED <<events, devices, links>>
<1>1. pc = "start" /\ UNCHANGED <<events, devices, links>>
  BY DEF CreateRun
<1>2. run' = run \/ run' = [run EXCEPT !.status = "running"]
  BY DEF CreateRun
<1> QED
  BY <1>1, <1>2 DEF IInv, RunInv, TypeOK

LEMMA HostMoves ==
  ASSUME IInv, NEW h \in AllJobs, Host(h)
  PROVE  /\ UNCHANGED run /\ Reported \subseteq Reported'
         /\ run.status = "ok" => UNCHANGED <<events, devices, links>>
<1>1. CASE FinishHost(h)
  BY <1>1 DEF FinishHost, dbVars, Reported
<1>2. CASE Collect(h) \/ UpsertHost(h) \/ RecordEvent(h) \/ UpsertRelated(h) \/ LinkRelated(h)
  <2>1. slot[h] = "active" /\ h \in jobs
    BY <1>2 DEF Collect, UpsertHost, RecordEvent, UpsertRelated, LinkRelated, At, IInv, SlotInv
  <2>2. run.status # "ok"
    BY <2>1 DEF IInv, RunInv
  <2>3. UNCHANGED run
    BY <1>2 DEF Collect, UpsertHost, RecordEvent, UpsertRelated, LinkRelated, dbVars
  <2>4. CASE RecordEvent(h)
    <3>1. \/ events' = [events EXCEPT ![h] = EventStatus(host[h])]
          \/ events' = [events EXCEPT ![h] = @]
      BY <2>4 DEF RecordEvent
    <3>2. EventStatus(host[h]) # "none"
      BY DEF EventStatus
    <3> QED
      BY <2>2, <2>3, <3>1, <3>2 DEF Reported, IInv, TypeOK
  <2>5. CASE ~RecordEvent(h)
    <3>1. UNCHANGED events
      BY <1>2, <2>5 DEF Collect, UpsertHost, UpsertRelated, LinkRelated, dbVars
    <3> QED
      BY <2>2, <2>3, <3>1 DEF Reported
  <2> QED
    BY <2>4, <2>5
<1> QED
  BY <1>1, <1>2 DEF Host

LEMMA EngineMoves ==
  ASSUME IInv, Engine
  PROVE  /\ run.status # "none" => run'.status # "none"
         /\ run.discovered # 0 => run'.discovered = run.discovered
         /\ run.status = "ok" => UNCHANGED run
         /\ UNCHANGED <<events, devices, links>>
<1>1. CASE CreateRun
  BY <1>1, CreateRunMoves
<1>2. CASE DiscoverHosts \/ Dispatch \/ ReturnFromPool
  BY <1>2 DEF DiscoverHosts, Dispatch, PoolStep, ReturnFromPool, dbVars
<1>3. CASE SetDiscovered
  <2>1. pc = "count" /\ UNCHANGED <<events, devices, links>>
    BY <1>3 DEF SetDiscovered
  <2>2. run' = run \/ run' = [run EXCEPT !.discovered = Cardinality(jobs)]
    BY <1>3 DEF SetDiscovered
  <2> QED
    BY <2>1, <2>2 DEF IInv, RunInv, TypeOK
<1>4. CASE FinishRun
  <2>1. pc = "finish" /\ UNCHANGED <<events, devices, links>>
    BY <1>4 DEF FinishRun
  <2>2. \/ run' = run
        \/ run' = [run EXCEPT !.status = "ok",
                              !.found = Cardinality({h \in jobs : host[h].saved})]
    BY <1>4 DEF FinishRun
  <2> QED
    BY <2>1, <2>2 DEF IInv, RunInv, TypeOK
<1> QED
  BY <1>1, <1>2, <1>3, <1>4 DEF Engine

LEMMA RowsMove ==
  ASSUME IInv, [Next]_vars
  PROVE  /\ run.status # "none" => run'.status # "none"
         /\ run.discovered # 0 => run'.discovered = run.discovered
         /\ run.status = "ok" => UNCHANGED <<run, events, devices, links>>
         /\ Reported \subseteq Reported'
<1>1. CASE Engine
  BY <1>1, EngineMoves DEF Reported
<1>2. ASSUME NEW h \in AllJobs, Host(h)
      PROVE  /\ UNCHANGED run /\ Reported \subseteq Reported'
             /\ run.status = "ok" => UNCHANGED <<events, devices, links>>
  BY <1>2, HostMoves
<1>3. CASE Cancel \/ Crash \/ UNCHANGED vars
  BY <1>3 DEF Cancel, Crash, vars, dbVars, Reported
<1> QED
  BY <1>1, <1>2, <1>3 DEF Next, Ended, Wait

\* Nothing is written for a run once its row is marked ok.
THEOREM NothingFollowsFinish == Spec => NothingAfterFinish
<1>1. IInv /\ [Next]_vars => [run.status = "ok" => UNCHANGED <<events, devices, links>>]_vars
  BY RowsMove
<1> QED
  BY <1>1, EngineInvariant, PTL DEF Spec, NothingAfterFinish

-----------------------------------------------------------------------------
(* The engine's hosts and the pool they run on (JobPool).                      *)

\* worker.Run is called once, with the hosts discovery found.
Submission ==
  /\ jobs = {} /\ slot = [h \in AllJobs |-> "pending"] /\ ~returned
  /\ UNCHANGED <<slot, cancelled, grace, returned>>

WorkersBounded == Cardinality(Active) <= Width

LEMMA PoolSteps ==
  ASSUME IInv, [Next]_vars
  PROVE  [PoolNext \/ Submission]_poolVars
<1>1. CASE DiscoverHosts
  <2>1. jobs = {} /\ ~returned
    BY <1>1 DEF DiscoverHosts, IInv, RunInv
  <2>2. \A h \in AllJobs : slot[h] = "pending"
    BY <2>1 DEF IInv, SlotInv
  <2>3. slot = [h \in AllJobs |-> "pending"]
    BY <2>2 DEF IInv, TypeOK
  <2> QED
    BY <1>1, <2>1, <2>3 DEF DiscoverHosts, Submission
<1>2. CASE Dispatch \/ ReturnFromPool \/ Cancel
  BY <1>2 DEF Dispatch, ReturnFromPool, Cancel, PoolNext
<1>3. ASSUME NEW h \in AllJobs, Host(h)
      PROVE  PoolNext \/ UNCHANGED poolVars
  <2>1. FinishHost(h) => PoolNext
    BY DEF FinishHost, PoolNext
  <2>2. Collect(h) \/ UpsertHost(h) \/ RecordEvent(h) \/ UpsertRelated(h) \/ LinkRelated(h) => UNCHANGED poolVars
    BY DEF Collect, UpsertHost, RecordEvent, UpsertRelated, LinkRelated
  <2> QED
    BY <1>3, <2>1, <2>2 DEF Host
<1>4. CreateRun \/ SetDiscovered \/ FinishRun \/ Crash => UNCHANGED poolVars
  BY DEF CreateRun, SetDiscovered, FinishRun, Crash
<1>5. UNCHANGED vars => UNCHANGED poolVars
  BY DEF vars
<1> QED
  BY <1>1, <1>2, <1>3, <1>4, <1>5 DEF Next, Engine, Ended, Wait

LEMMA PoolKeepsBound ==
  ASSUME IInv, IInv', WorkersBounded, [PoolNext \/ Submission]_poolVars
  PROVE  WorkersBounded'
<1>1. IsFiniteSet(Active) /\ Cardinality(Active) \in Nat
  BY Finite DEF Active
<1>2. Width \in Nat \ {0}
  BY WidthAssumption
<1>3. CASE Submission
  <2>1. Active' = {}
    <3>1. \A h \in jobs' : slot'[h] = "pending"
      BY <1>3 DEF Submission, IInv, TypeOK
    <3> QED
      BY <3>1 DEF Active
  <2> QED
    BY <1>2, <2>1, FS_EmptySet DEF WorkersBounded
<1>4. ASSUME NEW j \in AllJobs, Admit(j) PROVE WorkersBounded'
  <2>1. Active' = Active \cup {j} /\ j \notin Active
    BY <1>4 DEF Admit, Active, IInv, TypeOK
  <2>2. Cardinality(Active) < Width
    BY <1>4 DEF Admit
  <2>3. Cardinality(Active \cup {j}) = Cardinality(Active) + 1
    BY <1>1, <2>1, FS_AddElement
  <2> QED
    BY <1>1, <1>2, <2>1, <2>2, <2>3 DEF WorkersBounded
<1>5. ASSUME Active' \subseteq Active PROVE WorkersBounded'
  <2>1. Cardinality(Active') <= Cardinality(Active)
    BY <1>1, <1>5, FS_Subset
  <2>2. Cardinality(Active') \in Nat
    BY <1>1, <1>5, FS_Subset, FS_CardinalityType
  <2> QED
    BY <1>1, <1>2, <2>1, <2>2 DEF WorkersBounded
<1>6. ASSUME NEW j \in AllJobs, Skip(j) \/ Finish(j) PROVE Active' \subseteq Active
  BY <1>6 DEF Skip, Finish, Active, IInv, TypeOK
<1>7. CancelContext \/ Return \/ UNCHANGED poolVars => Active' \subseteq Active
  BY DEF CancelContext, Return, poolVars, Active
<1> QED
  BY <1>3, <1>4, <1>5, <1>6, <1>7 DEF PoolNext

\* The engine as a client of worker.Run: it submits its hosts to a fresh pool once,
\* and every other step is one of the pool's or leaves the pool alone.
THEOREM HostsRunOnPool == Spec => [][PoolNext \/ Submission]_poolVars
<1> QED
  BY EngineInvariant, PoolSteps, PTL DEF Spec

\* So a run never works on more hosts at once than it has workers.
THEOREM HostsBounded == Spec => []WorkersBounded
<1>1. Init => WorkersBounded
  <2> SUFFICES ASSUME Init PROVE WorkersBounded
    OBVIOUS
  <2>1. Active = {}
    BY DEF Init, Active
  <2> QED
    BY <2>1, FS_EmptySet, WidthAssumption DEF WorkersBounded
<1>2. IInv /\ IInv' /\ WorkersBounded /\ [Next]_vars => WorkersBounded'
  BY PoolSteps, PoolKeepsBound
<1> QED
  BY <1>1, <1>2, EngineInvariant, PTL DEF Spec

-----------------------------------------------------------------------------
(* The page beside the run (ScanMonitor).                                      *)

LEMMA MonitorInit == MInit => MInv
<1> SUFFICES ASSUME MInit PROVE MInv
  OBVIOUS
<1>1. IInv
  BY InitInv DEF MInit
<1>2. page = [pc |-> "closed", status |-> "none", total |-> 0, shown |-> {}]
  BY DEF MInit, Closed
<1>3. PageOK
  BY <1>2 DEF PageOK, Closed
<1> QED
  BY <1>1, <1>2, <1>3 DEF MInv

LEMMA NewestMeans ==
  ASSUME IInv, NEW s \in Newest
  PROVE  /\ s \subseteq Reported /\ s \subseteq AllJobs
         /\ Cardinality(Reported) <= EventLimit => s = Reported
         /\ ~(Cardinality(Reported) <= EventLimit) => Cardinality(s) = EventLimit
<1>1. /\ s \subseteq Reported
      /\ (s = Reported /\ Cardinality(s) <= EventLimit) \/ Cardinality(s) = EventLimit
  BY DEF Newest
<1>2. Reported \subseteq AllJobs
  BY DEF Reported
<1>3. IsFiniteSet(Reported)
  BY <1>2, EngineAssumption, FS_Subset
<1>4. /\ Cardinality(s) \in Nat /\ Cardinality(Reported) \in Nat
      /\ Cardinality(s) <= Cardinality(Reported)
      /\ Cardinality(s) = Cardinality(Reported) => s = Reported
  BY <1>1, <1>3, FS_Subset, FS_CardinalityType
<1> QED
  BY <1>1, <1>2, <1>4, MonitorAssumption

\* The run moves on, whatever the page is doing.
LEMMA RunBesidePage ==
  ASSUME MInv, [Next]_vars, UNCHANGED page
  PROVE  MInv'
<1>1. IInv' /\ IInv
  BY NextInv DEF MInv
<1>2. PageOK'
  BY DEF MInv, PageOK, Closed
<1>3. /\ run.status # "none" => run'.status # "none"
      /\ run.discovered # 0 => run'.discovered = run.discovered
      /\ run.status = "ok" => UNCHANGED <<run, events, devices, links>>
      /\ Reported \subseteq Reported'
  BY <1>1, RowsMove
<1>4. page.pc = "rest" => page.shown \in Newest'
  <2> SUFFICES ASSUME page.pc = "rest" PROVE page.shown \in Newest'
    OBVIOUS
  <2>1. UNCHANGED events /\ page.shown \in Newest
    BY <1>3 DEF MInv
  <2> QED
    BY <2>1 DEF Newest, Reported
<1> QED
  BY <1>1, <1>2, <1>3, <1>4 DEF MInv

\* The page moves on, and the run stands still.
LEMMA PageBesideRun ==
  ASSUME MInv, OpenPage \/ Leave \/ ReadRow \/ ReadEvents \/ PollFails, UNCHANGED vars
  PROVE  MInv'
<1>1. IInv /\ IInv'
  BY IdleStep DEF MInv
<1>2. UNCHANGED <<run, events>>
  BY DEF vars, dbVars
<1>3. UNCHANGED Reported /\ Newest' = Newest
  BY <1>2 DEF Reported, Newest
<1>4. run \in [status : {"none", "running", "ok"}, discovered : Nat, found : Nat]
  BY <1>1 DEF IInv, TypeOK
<1>5. page \in [pc : {"closed", "row", "events", "rest"},
                status : {"none", "running", "ok"}, total : Nat, shown : SUBSET AllJobs]
  BY DEF MInv, PageOK
<1>6. CASE page' = Closed \/ page' = Polling
  <2>1. /\ page'.pc \in {"closed", "row"} /\ page'.status = "none" /\ page'.total = 0
        /\ page'.shown = {} /\ page' = [Closed EXCEPT !.pc = page'.pc]
        /\ page' \in [pc : {"closed", "row", "events", "rest"},
                      status : {"none", "running", "ok"}, total : Nat, shown : SUBSET AllJobs]
        /\ page' = Polling => page'.pc = "row"
        /\ page' = Closed => page'.pc = "closed"
    BY <1>6 DEF Closed, Polling
  <2>2. page' = Polling => run.status # "none"
    <3>1. OpenPage => run.status # "none"
      BY DEF OpenPage
    <3>2. ReadEvents => page.pc = "events"
      BY DEF ReadEvents
    <3>3. ReadRow => page'.pc = "events"
      BY <1>5 DEF ReadRow
    <3>4. Leave \/ PollFails => page' = Closed
      BY DEF Leave, PollFails
    <3> QED
      BY <2>1, <3>1, <3>2, <3>3, <3>4 DEF MInv
  <2> QED
    BY <1>1, <1>2, <1>3, <1>6, <2>1, <2>2 DEF MInv, PageOK
<1>7. CASE ReadRow
  <2>1. page = [Closed EXCEPT !.pc = "row"]
    BY <1>7 DEF ReadRow, MInv, PageOK
  <2>2. page' = [pc |-> "events", status |-> run.status, total |-> run.discovered, shown |-> {}]
    BY <1>7, <2>1 DEF ReadRow, Closed
  <2>3. PageOK'
    BY <1>4, <2>2 DEF PageOK
  <2>4. page.pc = "row" /\ run.status # "none"
    BY <1>7 DEF ReadRow, MInv
  <2> QED
    BY <1>1, <1>2, <2>2, <2>3, <2>4 DEF MInv
<1>8. CASE ReadEvents
  <2>1. PICK s \in Newest :
          page' = IF page.status = "running" THEN Polling ELSE [page EXCEPT !.pc = "rest", !.shown = s]
    BY <1>8 DEF ReadEvents
  <2>2. s \subseteq Reported /\ s \subseteq AllJobs
    BY <1>1, NewestMeans
  <2>3. CASE page' = Polling
    BY <1>6, <2>3
  <2>4. CASE page.status # "running" /\ page' = [page EXCEPT !.pc = "rest", !.shown = s]
    <3>1. page'.pc = "rest" /\ page'.status = page.status /\ page'.total = page.total
          /\ page'.shown = s
      BY <1>5, <2>4
    <3>2. PageOK'
      BY <1>5, <2>2, <2>4, <3>1 DEF PageOK
    <3>3. page.status = "ok"
      BY <1>5, <2>4, <1>8 DEF ReadEvents, MInv, PageOK
    <3> QED
      BY <1>1, <1>2, <1>3, <2>2, <3>1, <3>2, <3>3 DEF MInv
  <2> QED
    BY <2>1, <2>3, <2>4
<1> QED
  BY <1>6, <1>7, <1>8 DEF OpenPage, Leave, PollFails

LEMMA MonitorStep ==
  ASSUME MInv, [MNext]_mvars
  PROVE  MInv'
<1>1. CASE (Next /\ UNCHANGED page) \/ UNCHANGED mvars
  BY <1>1, RunBesidePage DEF mvars
<1>2. CASE Fetch \/ ((OpenPage \/ Leave) /\ UNCHANGED vars)
  BY <1>2, PageBesideRun DEF Fetch
<1> QED
  BY <1>1, <1>2 DEF MNext

\* What an open page has read, at two different moments, is consistent with the
\* run's tables as they are now (ScanDetailPage, handleScanDetail).
THEOREM MonitorInvariant == MSpec => []MInv
<1>1. MInit => MInv
  BY MonitorInit
<1>2. MInv /\ [MNext]_mvars => MInv'
  BY MonitorStep
<1> QED
  BY <1>1, <1>2, PTL DEF MSpec

\* The page that stopped polling shows the run as it ended, although it reads the
\* row and the events in separate statements: the row is read first, and nothing
\* follows its terminal status.
THEOREM LastPollShowsAll == MSpec => []FinalViewComplete
<1>1. ASSUME MInv PROVE FinalViewComplete
  <2> SUFFICES ASSUME page.pc = "rest" PROVE FinalViewComplete
    BY DEF FinalViewComplete
  <2>1. /\ page.status = "ok" /\ run.status = "ok" /\ page.total = run.discovered
        /\ page.shown \in Newest /\ IInv
    BY <1>1 DEF MInv
  <2>2. /\ page.shown \subseteq Reported
        /\ Cardinality(Reported) <= EventLimit => page.shown = Reported
        /\ ~(Cardinality(Reported) <= EventLimit) => Cardinality(page.shown) = EventLimit
    BY <2>1, NewestMeans
  <2> QED
    BY <2>1, <2>2 DEF FinalViewComplete
<1> QED
  BY <1>1, MonitorInvariant, PTL

\* A reader changes nothing: what holds of a run holds of a run that is watched.
LEMMA WatchedRun == MSpec => Spec
<1>1. MInit => Init
  BY DEF MInit
<1>2. [MNext]_mvars => [Next]_vars
  BY DEF MNext, Fetch, mvars
<1> QED
  BY <1>1, <1>2, PTL DEF MSpec, Spec

-----------------------------------------------------------------------------
\* The rollup's order has no ties and no cycles.
LEMMA OrderIsTotal ==
  ASSUME NEW t \in Terms, NEW count \in Tables,
         NEW x \in Titles, NEW y \in Titles
  PROVE  /\ ~Before(t, count, x, x)
         /\ x # y => Before(t, count, x, y) \/ Before(t, count, y, x)
         /\ \A z \in Titles : Before(t, count, x, y) /\ Before(t, count, y, z) => Before(t, count, x, z)
<1>1. x \in Nat /\ y \in Nat /\ Titles \subseteq Nat
  BY ListAssumption
<1>2. \A z \in Titles : count[z] \in Nat
  BY ListAssumption
<1> QED
  BY <1>1, <1>2 DEF Before

\* A row's rank is below the number of rows.
LEMMA RanksFit ==
  ASSUME NEW t \in Terms, NEW count \in Tables
  PROVE  /\ IsFiniteSet(Rows(t, count)) /\ Cardinality(Rows(t, count)) \in Nat
         /\ Rows(t, count) \subseteq Titles
         /\ \A x \in Rows(t, count) : Rank(t, count, x) \in 0 .. Cardinality(Rows(t, count)) - 1
<1> DEFINE rows == Rows(t, count)
           Earlier(x) == {y \in rows : Before(t, count, y, x)}
<1>1. rows \subseteq Titles
  BY ListAssumption DEF Rows
<1>2. IsFiniteSet(rows) /\ Cardinality(rows) \in Nat
  BY <1>1, ListAssumption, FS_Subset, FS_CardinalityType
<1>3. ASSUME NEW x \in rows
      PROVE  Rank(t, count, x) \in 0 .. Cardinality(rows) - 1
  <2>1. Earlier(x) \subseteq rows /\ x \notin Earlier(x)
    BY <1>1, OrderIsTotal
  <2>2. IsFiniteSet(Earlier(x)) /\ Cardinality(Earlier(x)) \in Nat
    BY <1>2, <2>1, FS_Subset, FS_CardinalityType
  <2>3. Cardinality(Earlier(x)) <= Cardinality(rows)
    BY <1>2, <2>1, FS_Subset
  <2>4. Cardinality(Earlier(x)) # Cardinality(rows)
    BY <1>2, <2>1, FS_Subset
  <2> HIDE DEF rows
  <2>5. Cardinality(Earlier(x)) \in 0 .. Cardinality(rows) - 1
    BY <1>2, <2>2, <2>3, <2>4
  <2>6. Rank(t, count, x) = Cardinality(Earlier(x))
    BY DEF Rank, rows
  <2> QED
    BY <2>5, <2>6
<1> QED
  BY <1>1, <1>2, <1>3

\* An earlier row has the lower rank.
LEMMA RanksFollowOrder ==
  ASSUME NEW t \in Terms, NEW count \in Tables,
         NEW x \in Rows(t, count), NEW y \in Rows(t, count), Before(t, count, x, y)
  PROVE  Rank(t, count, x) < Rank(t, count, y)
<1> DEFINE rows == Rows(t, count)
           Earlier(z) == {v \in rows : Before(t, count, v, z)}
<1>1. IsFiniteSet(rows) /\ rows \subseteq Titles
  BY RanksFit
<1>2. Earlier(x) \subseteq Earlier(y)
  BY <1>1, OrderIsTotal
<1>3. x \in Earlier(y) /\ x \notin Earlier(x)
  BY <1>1, OrderIsTotal
<1>4. IsFiniteSet(Earlier(y))
  <2>1. Earlier(y) \in SUBSET rows
    OBVIOUS
  <2> QED
    BY <1>1, <2>1, FS_Subset
<1>5. Rank(t, count, x) = Cardinality(Earlier(x)) /\ Rank(t, count, y) = Cardinality(Earlier(y))
  BY DEF Rank
<1> HIDE DEF Earlier
<1>6. Cardinality(Earlier(x)) <= Cardinality(Earlier(y)) /\ Cardinality(Earlier(x)) # Cardinality(Earlier(y))
  BY <1>2, <1>3, <1>4, FS_Subset
<1>7. Rank(t, count, x) \in Int /\ Rank(t, count, y) \in Int
  BY RanksFit
<1> QED
  BY <1>5, <1>6, <1>7

\* So every place below that number is the rank of exactly one row.
LEMMA RanksAreAll ==
  ASSUME NEW t \in Terms, NEW count \in Tables,
         NEW i \in 1 .. Cardinality(Rows(t, count))
  PROVE  \E x \in Rows(t, count) : Rank(t, count, x) = i - 1
<1> DEFINE rows == Rows(t, count)
           n == Cardinality(rows)
           places == 0 .. n - 1
           rank == [x \in rows |-> Rank(t, count, x)]
<1>1. IsFiniteSet(rows) /\ n \in Nat /\ rows \subseteq Titles /\ rank \in [rows -> places]
  BY RanksFit
<1>2. ASSUME NEW x \in rows, NEW y \in rows, x # y
      PROVE  rank[x] # rank[y]
  <2>1. Before(t, count, x, y) \/ Before(t, count, y, x)
    BY <1>1, <1>2, OrderIsTotal
  <2>2. Rank(t, count, x) < Rank(t, count, y) \/ Rank(t, count, y) < Rank(t, count, x)
    BY <2>1, RanksFollowOrder
  <2>3. Rank(t, count, x) \in Int /\ Rank(t, count, y) \in Int
    BY RanksFit
  <2> QED
    BY <2>2, <2>3
<1> HIDE DEF rank
<1>3. rank \in Injection(rows, places)
  BY <1>1, <1>2 DEF Injection, IsInjective
<1> HIDE DEF rows
<1>4. IsFiniteSet(places) /\ Cardinality(places) = n
  <2> HIDE DEF n
  <2>1. 0 \in Int /\ n - 1 \in Int
    BY <1>1
  <2>2. IsFiniteSet(places) /\ Cardinality(places) = IF 0 > n - 1 THEN 0 ELSE (n - 1) - 0 + 1
    BY <2>1, FS_Interval
  <2> QED
    BY <2>2, <1>1
<1>5. rank \in Surjection(rows, places)
  BY <1>3, <1>4, FS_Injection
<1>6. i - 1 \in places
  <2> HIDE DEF n
  <2>1. i \in 1 .. n
    BY DEF n, rows
  <2> QED
    BY <1>1, <2>1
<1>7. \E x \in rows : rank[x] = i - 1
  BY <1>5, <1>6 DEF Surjection
<1> QED
  BY <1>7 DEF rank, rows

\* SoftwareRollup: a sequence that lists every row of the search exactly once, in
\* the order of the search; the pages are cut from it.
THEOREM RollupListsRows ==
  ASSUME NEW t \in Terms, NEW count \in Tables
  PROVE  LET rows == Rows(t, count)
             list == Rollup(t, count)
         IN  /\ list \in Seq(Titles) /\ Len(list) = Cardinality(rows)
             /\ \A x \in rows : \E i \in DOMAIN list : list[i] = x
             /\ \A i \in DOMAIN list : list[i] \in rows
             /\ \A i, j \in DOMAIN list : i < j => Before(t, count, list[i], list[j])
<1> DEFINE rows == Rows(t, count)
           n == Cardinality(rows)
           list == Rollup(t, count)
<1>1. n \in Nat /\ rows \subseteq Titles
  BY RanksFit
<1>2. ASSUME NEW i \in 1 .. n
      PROVE  list[i] \in rows /\ Rank(t, count, list[i]) = i - 1
  <2>1. list[i] = CHOOSE x \in rows : Rank(t, count, x) = i - 1
    BY DEF Rollup
  <2> QED
    BY <2>1, RanksAreAll
<1>3. list \in [1 .. n -> Titles]
  <2>1. list = [i \in 1 .. n |-> list[i]]
    BY DEF Rollup
  <2> QED
    BY <2>1, <1>1, <1>2
<1> HIDE DEF list
<1>4. list \in Seq(Titles) /\ Len(list) = n /\ DOMAIN list = 1 .. n
  BY <1>1, <1>3
<1>5. ASSUME NEW x \in rows
      PROVE  \E i \in DOMAIN list : list[i] = x
  <2> DEFINE i == Rank(t, count, x) + 1
  <2>1. Rank(t, count, x) \in 0 .. n - 1
    BY RanksFit
  <2>2. i \in 1 .. n /\ i - 1 = Rank(t, count, x)
    BY <1>1, <2>1
  <2>3. list[i] \in rows /\ Rank(t, count, list[i]) = Rank(t, count, x)
    BY <1>2, <2>2
  <2>4. ~Before(t, count, list[i], x) /\ ~Before(t, count, x, list[i])
    BY <2>1, <2>3, RanksFollowOrder
  <2>5. list[i] = x
    BY <1>1, <2>3, <2>4, OrderIsTotal
  <2> QED
    BY <1>4, <2>2, <2>5
<1>6. ASSUME NEW i \in 1 .. n, NEW j \in 1 .. n, i < j
      PROVE  Before(t, count, list[i], list[j])
  <2>1. list[i] # list[j] /\ list[i] \in rows /\ list[j] \in rows
    BY <1>2, <1>6
  <2>2. CASE Before(t, count, list[j], list[i])
    <3>1. Rank(t, count, list[j]) < Rank(t, count, list[i])
      BY <2>1, <2>2, RanksFollowOrder
    <3> QED
      BY <1>2, <1>6, <3>1
  <2> QED
    BY <1>1, <2>1, <2>2, OrderIsTotal
<1> QED
  BY <1>2, <1>4, <1>5, <1>6 DEF list

-----------------------------------------------------------------------------
\* One page of a rollup: its length and its rows.
LEMMA PageCuts ==
  ASSUME NEW rows \in Seq(Titles), NEW from \in Nat
  PROVE  LET cut == PageOf(rows, from) IN
         /\ cut \in Seq(Titles) /\ Len(cut) <= Page
         /\ \A k \in DOMAIN cut : from + k <= Len(rows) /\ cut[k] = rows[from + k]
         /\ Len(cut) < Page => Len(rows) <= from + Len(cut)
<1> DEFINE last == IF from + Page < Len(rows) THEN from + Page ELSE Len(rows)
           cut == SubSeq(rows, from + 1, last)
<1>1. Page \in Nat \ {0} /\ Len(rows) \in Nat
  BY ListAssumption
<1>2. last \in Nat /\ last <= Len(rows) /\ last <= from + Page
  BY <1>1
<1>3. last < from + Page => last = Len(rows)
  BY <1>1
<1> HIDE DEF last
<1>4. cut \in Seq(Titles) /\ Len(cut) = IF from + 1 <= last THEN last - from ELSE 0
  BY <1>1, <1>2
<1>5. \A k \in DOMAIN cut : from + k <= last /\ cut[k] = rows[from + k]
  BY <1>1, <1>2, <1>4
<1>6. cut = PageOf(rows, from)
  BY DEF PageOf, last
<1> HIDE DEF cut
<1>7. Len(cut) <= Page
  BY <1>1, <1>2, <1>4
<1>8. Len(cut) < Page => Len(rows) <= from + Len(cut)
  BY <1>1, <1>2, <1>3, <1>4
<1>9. \A k \in DOMAIN cut : from + k <= Len(rows) /\ cut[k] = rows[from + k]
  BY <1>1, <1>2, <1>4, <1>5
<1> QED
  BY <1>4, <1>6, <1>7, <1>8, <1>9

\* The answer's rows behind the ones there are.
LEMMA JoinAppends ==
  ASSUME NEW its \in Seq(ListRow), NEW batch \in Seq(Titles), NEW t \in Terms, NEW c \in Tables
  PROVE  LET new == its \o [k \in DOMAIN batch |-> [title |-> batch[k], term |-> t, seen |-> c]]
         IN  /\ new \in Seq(ListRow) /\ Len(new) = Len(its) + Len(batch)
             /\ \A k \in 1 .. Len(its) : new[k] = its[k]
             /\ \A k \in DOMAIN batch :
                  new[Len(its) + k] = [title |-> batch[k], term |-> t, seen |-> c]
<1> DEFINE more == [k \in DOMAIN batch |-> [title |-> batch[k], term |-> t, seen |-> c]]
<1>1. more \in Seq(ListRow) /\ Len(more) = Len(batch)
  <2>1. \A k \in 1 .. Len(batch) : [title |-> batch[k], term |-> t, seen |-> c] \in ListRow
    BY DEF ListRow
  <2> QED
    BY <2>1
<1>2. \A k \in DOMAIN batch : more[k] = [title |-> batch[k], term |-> t, seen |-> c]
  OBVIOUS
<1> HIDE DEF more
<1>3. /\ its \o more \in Seq(ListRow) /\ Len(its \o more) = Len(its) + Len(more)
      /\ \A k \in 1 .. Len(its) : (its \o more)[k] = its[k]
      /\ \A k \in 1 .. Len(more) : (its \o more)[Len(its) + k] = more[k]
  BY <1>1
<1>4. DOMAIN batch = 1 .. Len(batch)
  OBVIOUS
<1> QED
  BY <1>1, <1>2, <1>3, <1>4 DEF more

\* A page asked for where the list ends puts each of its rows in its place.
LEMMA PagesJoin ==
  ASSUME NEW its \in Seq(ListRow), NEW t \in Terms, NEW c \in Tables,
         \A k \in DOMAIN its : InPlace(its[k], k)
  PROVE  LET rows  == Rollup(t, c)
             batch == PageOf(rows, Len(its))
             new   == its \o [k \in DOMAIN batch |-> [title |-> batch[k], term |-> t, seen |-> c]]
         IN  /\ \A k \in DOMAIN new : InPlace(new[k], k)
             /\ Len(batch) < Page => Len(rows) <= Len(new)
<1> DEFINE rows == Rollup(t, c)
           batch == PageOf(rows, Len(its))
           new == its \o [k \in DOMAIN batch |-> [title |-> batch[k], term |-> t, seen |-> c]]
<1>1. rows \in Seq(Titles) /\ Len(its) \in Nat
  BY RollupListsRows
<1>2. /\ batch \in Seq(Titles)
      /\ \A k \in DOMAIN batch : Len(its) + k <= Len(rows) /\ batch[k] = rows[Len(its) + k]
      /\ Len(batch) < Page => Len(rows) <= Len(its) + Len(batch)
  <2> HIDE DEF rows
  <2> QED BY <1>1, PageCuts
<1> HIDE DEF batch
<1>3. /\ new \in Seq(ListRow) /\ Len(new) = Len(its) + Len(batch)
      /\ \A k \in 1 .. Len(its) : new[k] = its[k]
      /\ \A k \in DOMAIN batch : new[Len(its) + k] = [title |-> batch[k], term |-> t, seen |-> c]
  BY <1>2, JoinAppends
<1> HIDE DEF new
<1>4. ASSUME NEW k \in DOMAIN new PROVE InPlace(new[k], k)
  <2>1. k \in 1 .. Len(its) + Len(batch)
    BY <1>3
  <2>2. CASE k <= Len(its)
    <3>1. k \in DOMAIN its /\ new[k] = its[k]
      BY <1>1, <1>3, <2>1, <2>2
    <3> QED
      BY <3>1
  <2>3. CASE k > Len(its)
    <3>1. k - Len(its) \in DOMAIN batch /\ Len(its) + (k - Len(its)) = k
      BY <2>1, <2>3, <1>1, <1>2
    <3>2. new[k] = [title |-> rows[k], term |-> t, seen |-> c] /\ k <= Len(rows)
      <4> HIDE DEF rows
      <4> QED BY <3>1, <1>2, <1>3
    <3>3. k \in DOMAIN rows
      <4> HIDE DEF rows
      <4> QED BY <1>1, <2>1, <2>3, <3>2
    <3> QED
      BY <3>2, <3>3 DEF InPlace
  <2> QED
    BY <2>1, <2>2, <2>3, <1>1
<1> QED
  BY <1>2, <1>3, <1>4 DEF new, batch

-----------------------------------------------------------------------------
\* The invariants of ListSpec.  A step that changes no request and no row keeps
\* both; the others end the one request there is, or start it.
ListIInv == ListInv /\ ListExact

LEMMA ListInitInv == ListInit => ListIInv
<1> SUFFICES ASSUME ListInit PROVE ListIInv
  OBVIOUS
<1> DEFINE r == Request(term, TRUE, 0)
<1>1. r.term = term /\ r.reset = TRUE /\ r.from = 0 /\ r.state = "sent"
  BY DEF Request
<1>2. r \in PageRequest
  BY DEF Request, PageRequest, ListInit
<1> HIDE DEF r
<1>3. reqs \in Seq(PageRequest) /\ Len(reqs) = 1 /\ DOMAIN reqs = {1} /\ reqs[1] = r
  <2>1. reqs = <<r>>
    BY DEF ListInit, r
  <2> QED
    BY <1>2, <2>1
<1>4. items \in Seq(ListRow)
  BY DEF ListInit
<1>5. ListTypeOK
  <2>1. /\ changes \in 0..MaxChanges /\ commits \in 0..MaxCommits
         /\ failures \in 0..MaxFailures /\ offset \in Nat
    BY <1>3, <1>4, ListAssumption DEF ListInit
  <2>2. /\ done \in BOOLEAN /\ busy \in BOOLEAN /\ sound \in BOOLEAN
         /\ visible \in BOOLEAN /\ notice \in BOOLEAN
    BY <1>3, <1>4 DEF ListInit
  <2>3. /\ table \in Tables /\ term \in Terms
         /\ items \in Seq(ListRow) /\ reqs \in Seq(PageRequest)
         /\ read \in [term : Terms, table : Tables]
    BY <1>3, <1>4 DEF ListInit
  <2> QED
    BY <2>1, <2>2, <2>3 DEF ListTypeOK
<1>6. ListInv
  BY <1>1, <1>3, <1>5 DEF ListInit, ListInv
<1>7. ListExact
  BY <1>1, <1>3 DEF ListExact
<1> QED
  BY <1>6, <1>7 DEF ListIInv

\* One request at most is under way.
LEMMA OneRequest ==
  ASSUME ListInv
  PROVE  /\ reqs \in Seq(PageRequest)
         /\ ~busy => reqs = <<>>
         /\ busy => Len(reqs) = 1 /\ DOMAIN reqs = {1} /\ reqs[1] \in PageRequest
<1>1. reqs \in Seq(PageRequest)
  BY DEF ListInv, ListTypeOK
<1>2. Len(reqs) = IF busy THEN 1 ELSE 0
  BY DEF ListInv
<1> QED
  BY <1>1, <1>2

LEMMA ListChangeTerm == ListIInv /\ ChangeTerm => ListIInv'
<1> SUFFICES ASSUME ListIInv, ChangeTerm PROVE ListIInv'
  OBVIOUS
<1> USE DEF ListIInv
<1>1. CASE busy
  <2>1. /\ UNCHANGED <<busy, reqs, items, table, read, commits, failures>>
        /\ sound' = FALSE /\ done' = FALSE /\ offset' = 0
    BY <1>1 DEF ChangeTerm, LoadMore
  <2>2. ListTypeOK'
    <3>1. /\ changes' \in 0..MaxChanges /\ commits' \in 0..MaxCommits
           /\ failures' \in 0..MaxFailures /\ offset' \in Nat
      BY <1>1, <2>1, ListAssumption DEF ChangeTerm, ListInv, ListTypeOK
    <3>2. /\ done' \in BOOLEAN /\ busy' \in BOOLEAN /\ sound' \in BOOLEAN
           /\ visible' \in BOOLEAN /\ notice' \in BOOLEAN
      BY <1>1, <2>1 DEF ChangeTerm, ListInv, ListTypeOK
    <3>3. /\ table' \in Tables /\ term' \in Terms
           /\ items' \in Seq(ListRow) /\ reqs' \in Seq(PageRequest)
           /\ read' \in [term : Terms, table : Tables]
      BY <1>1, <2>1 DEF ChangeTerm, ListInv, ListTypeOK
    <3> QED
      BY <3>1, <3>2, <3>3 DEF ListTypeOK
  <2>3. ListInv'
    BY <2>1, <2>2 DEF ListInv
  <2>4. ListExact'
    BY <1>1, <2>1 DEF ListExact, NextPlace, InPlace
  <2> QED
    BY <2>3, <2>4
<1>2. CASE ~busy
  <2> DEFINE r == Request(term', TRUE, 0)
  <2>1. r.term = term' /\ r.reset = TRUE /\ r.from = 0 /\ r.state = "sent"
    BY DEF Request
  <2>2. r \in PageRequest
    BY DEF Request, PageRequest, ChangeTerm, ListInv, ListTypeOK
  <2> HIDE DEF r
  <2>3. busy' = TRUE /\ reqs' = Append(<<>>, r)
    BY <1>2, OneRequest DEF ChangeTerm, LoadMore, r
  <2>4. reqs' \in Seq(PageRequest) /\ Len(reqs') = 1 /\ DOMAIN reqs' = {1} /\ reqs'[1] = r
    BY <2>2, <2>3
  <2>5. ListTypeOK'
    <3>1. /\ changes' \in 0..MaxChanges /\ commits' \in 0..MaxCommits
           /\ failures' \in 0..MaxFailures /\ offset' \in Nat
      BY <1>2, <2>3, <2>4, ListAssumption DEF ChangeTerm, ListInv, ListTypeOK
    <3>2. /\ done' \in BOOLEAN /\ busy' \in BOOLEAN /\ sound' \in BOOLEAN
           /\ visible' \in BOOLEAN /\ notice' \in BOOLEAN
      BY <1>2, <2>3, <2>4 DEF ChangeTerm, ListInv, ListTypeOK
    <3>3. /\ table' \in Tables /\ term' \in Terms
           /\ items' \in Seq(ListRow) /\ reqs' \in Seq(PageRequest)
           /\ read' \in [term : Terms, table : Tables]
      BY <1>2, <2>3, <2>4 DEF ChangeTerm, ListInv, ListTypeOK
    <3> QED
      BY <3>1, <3>2, <3>3 DEF ListTypeOK
  <2>6. ListInv'
    BY <2>1, <2>3, <2>4, <2>5 DEF ChangeTerm, ListInv
  <2>7. ListExact'
    BY <2>1, <2>4 DEF ListExact
  <2> QED
    BY <2>6, <2>7
<1>3. busy \in BOOLEAN
  BY DEF ListInv, ListTypeOK
<1> QED
  BY <1>1, <1>2, <1>3

LEMMA ListScroll == ListIInv /\ (ScrollIn \/ ScrollOut) => ListIInv'
<1> SUFFICES ASSUME ListIInv, ScrollIn \/ ScrollOut PROVE ListIInv'
  OBVIOUS
<1>1. /\ UNCHANGED <<table, term, items, offset, done, busy, reqs, sound, read, changes,
                    commits, failures>>
      /\ ~done /\ visible' \in BOOLEAN /\ notice' = TRUE
  BY DEF ScrollIn, ScrollOut
<1>2. ListTypeOK'
  BY <1>1 DEF ListIInv, ListInv, ListTypeOK
<1>3. ListInv'
  BY <1>1, <1>2 DEF ListIInv, ListInv
<1>4. ListExact'
  BY <1>1 DEF ListIInv, ListExact, NextPlace, InPlace
<1> QED
  BY <1>3, <1>4 DEF ListIInv

LEMMA ListNotify == ListIInv /\ Notify => ListIInv'
<1> SUFFICES ASSUME ListIInv, Notify PROVE ListIInv'
  OBVIOUS
<1> USE DEF ListIInv
<1>0. /\ UNCHANGED <<table, term, items, offset, done, visible, sound, read, changes, commits,
                    failures>>
      /\ notice' = FALSE
  BY DEF Notify
<1>1. CASE visible /\ ~busy
  <2> DEFINE r == Request(term, FALSE, offset)
  <2>1. r.term = term /\ r.reset = FALSE /\ r.from = offset /\ r.state = "sent"
    BY DEF Request
  <2>2. r \in PageRequest
    BY DEF Request, PageRequest, ListInv, ListTypeOK
  <2> HIDE DEF r
  <2>3. busy' = TRUE /\ reqs' = Append(<<>>, r) /\ reqs = <<>>
    BY <1>1, OneRequest DEF Notify, LoadMore, r
  <2>4. reqs' \in Seq(PageRequest) /\ Len(reqs') = 1 /\ DOMAIN reqs' = {1} /\ reqs'[1] = r
    BY <2>2, <2>3
  <2>5. ListTypeOK'
    BY <1>0, <2>3, <2>4 DEF ListInv, ListTypeOK
  <2>6. ListInv'
    BY <1>0, <1>1, <2>1, <2>3, <2>4, <2>5 DEF ListInv
  <2>7. ListExact'
    BY <1>0, <1>1, <2>1, <2>3, <2>4 DEF ListExact, NextPlace, InPlace
  <2> QED
    BY <2>6, <2>7
<1>2. CASE ~(visible /\ ~busy)
  <2>1. UNCHANGED <<busy, reqs>>
    BY <1>2 DEF Notify, LoadMore
  <2>2. ListTypeOK'
    BY <1>0, <2>1 DEF ListInv, ListTypeOK
  <2>3. ListInv'
    BY <1>0, <2>1, <2>2 DEF ListInv
  <2>4. ListExact'
    BY <1>0, <2>1 DEF ListExact, NextPlace, InPlace
  <2> QED
    BY <2>3, <2>4
<1> QED
  BY <1>1, <1>2

LEMMA ListCommit == ListIInv /\ Commit => ListIInv'
<1> SUFFICES ASSUME ListIInv, Commit PROVE ListIInv'
  OBVIOUS
<1>1. ListTypeOK'
  <2>1. /\ changes' \in 0..MaxChanges /\ commits' \in 0..MaxCommits
         /\ failures' \in 0..MaxFailures /\ offset' \in Nat
    BY ListAssumption DEF Commit, ListIInv, ListInv, ListTypeOK
  <2>2. /\ done' \in BOOLEAN /\ busy' \in BOOLEAN /\ sound' \in BOOLEAN
         /\ visible' \in BOOLEAN /\ notice' \in BOOLEAN
    BY DEF Commit, ListIInv, ListInv, ListTypeOK
  <2>3. /\ table' \in Tables /\ term' \in Terms
         /\ items' \in Seq(ListRow) /\ reqs' \in Seq(PageRequest)
         /\ read' \in [term : Terms, table : Tables]
    BY DEF Commit, ListIInv, ListInv, ListTypeOK
  <2> QED
    BY <2>1, <2>2, <2>3 DEF ListTypeOK
<1>2. UNCHANGED <<term, items, offset, done, busy, reqs, visible, notice, sound, read>>
  BY DEF Commit
<1>3. ListInv'
  BY <1>1, <1>2 DEF ListIInv, ListInv
<1>4. ListExact'
  BY <1>2 DEF ListIInv, ListExact, NextPlace, InPlace
<1> QED
  BY <1>3, <1>4 DEF ListIInv

LEMMA ListAnswer ==
  ASSUME ListIInv, NEW i \in DOMAIN reqs, AnswerPage(i)
  PROVE  ListIInv'
<1> USE DEF ListIInv
<1>0. UNCHANGED <<table, term, items, offset, done, busy, visible, notice, sound, read, changes,
                  commits, failures>>
  BY DEF AnswerPage
<1> DEFINE r == reqs[i]
           cut == PageOf(Rollup(r.term, table), r.from)
           a == [r EXCEPT !.state = "answered", !.seen = table, !.batch = cut]
<1>1. reqs \in Seq(PageRequest) /\ DOMAIN reqs = {1} /\ i = 1 /\ Len(reqs) = 1 /\ r \in PageRequest
  BY OneRequest DEF ListInv, ListTypeOK
<1>2. r.term \in Terms /\ r.from \in Nat
  BY <1>1 DEF PageRequest
<1>3. cut \in Seq(Titles)
  <2>1. Rollup(r.term, table) \in Seq(Titles)
    BY <1>2, RollupListsRows DEF ListInv, ListTypeOK
  <2> QED
    BY <1>2, <2>1, PageCuts
<1>4. reqs' = [reqs EXCEPT ![i] = a]
  BY DEF AnswerPage
<1> HIDE DEF cut
<1>5. /\ a \in PageRequest /\ a.term = r.term /\ a.reset = r.reset /\ a.from = r.from
      /\ a.state = "answered" /\ a.batch = cut /\ a.seen = table
  BY <1>1, <1>3 DEF PageRequest, ListInv, ListTypeOK
<1> HIDE DEF a
<1>6. reqs' \in Seq(PageRequest) /\ Len(reqs') = Len(reqs) /\ DOMAIN reqs' = DOMAIN reqs /\ reqs'[1] = a
  <2>1. reqs' = [reqs EXCEPT ![1] = a] /\ a \in PageRequest /\ reqs \in Seq(PageRequest) /\ Len(reqs) = 1
    BY <1>1, <1>4, <1>5
  <2> HIDE DEF r
  <2>2. DOMAIN reqs' = DOMAIN reqs /\ Len(reqs') = Len(reqs)
    BY <2>1
  <2>3. reqs'[1] = a
    BY <2>1
  <2>4. reqs' \in Seq(PageRequest)
    BY <2>1
  <2> QED
    BY <2>2, <2>3, <2>4
<1>7. ListTypeOK'
  BY <1>0, <1>6 DEF ListInv, ListTypeOK
<1>8. ListInv'
  BY <1>0, <1>1, <1>5, <1>6, <1>7 DEF ListInv, cut
<1>9. ListExact'
  BY <1>0, <1>1, <1>5, <1>6 DEF ListExact, NextPlace, InPlace
<1> QED
  BY <1>8, <1>9

\* A request that ends was the only one.
LEMMA RequestEnds ==
  ASSUME ListInv, NEW i \in DOMAIN reqs, reqs' = RemoveAt(reqs, i)
  PROVE  busy /\ i = 1 /\ reqs[i] \in PageRequest /\ reqs' = <<>> /\ Len(reqs') = 0 /\ DOMAIN reqs' = {}
<1>1. busy /\ i = 1 /\ Len(reqs) = 1 /\ reqs \in Seq(PageRequest) /\ reqs[i] \in PageRequest
  BY OneRequest DEF ListInv, ListTypeOK
<1>2. SubSeq(reqs, 1, 0) = <<>> /\ SubSeq(reqs, 2, 1) = <<>>
  BY <1>1
<1>3. reqs' = <<>> \o <<>>
  BY <1>1, <1>2 DEF RemoveAt
<1> QED
  BY <1>1, <1>3

LEMMA ListFail ==
  ASSUME ListIInv, NEW i \in DOMAIN reqs, Fail(i)
  PROVE  ListIInv'
<1> USE DEF ListIInv
<1>0. UNCHANGED <<table, term, items, offset, done, visible, notice, read, changes, commits>>
  BY DEF Fail
<1>1. i = 1 /\ reqs[i] \in PageRequest /\ reqs' = <<>> /\ Len(reqs') = 0 /\ DOMAIN reqs' = {}
  BY RequestEnds DEF Fail
<1>2. busy' = FALSE /\ failures' = failures + 1 /\ failures < MaxFailures
      /\ sound' = (sound /\ (reqs[i].reset => items = <<>>))
  BY DEF Fail
<1>3. sound' \in BOOLEAN /\ reqs[i].reset \in BOOLEAN
  BY <1>1, <1>2 DEF PageRequest
<1>4. ListTypeOK'
  <2>1. /\ changes' \in 0..MaxChanges /\ commits' \in 0..MaxCommits
         /\ failures' \in 0..MaxFailures /\ offset' \in Nat
    BY <1>0, <1>1, <1>2, <1>3, ListAssumption DEF ListInv, ListTypeOK
  <2>2. /\ done' \in BOOLEAN /\ busy' \in BOOLEAN /\ sound' \in BOOLEAN
         /\ visible' \in BOOLEAN /\ notice' \in BOOLEAN
    BY <1>0, <1>1, <1>2, <1>3 DEF ListInv, ListTypeOK
  <2>3. /\ table' \in Tables /\ term' \in Terms
         /\ items' \in Seq(ListRow) /\ reqs' \in Seq(PageRequest)
         /\ read' \in [term : Terms, table : Tables]
    BY <1>0, <1>1, <1>2, <1>3 DEF ListInv, ListTypeOK
  <2> QED
    BY <2>1, <2>2, <2>3 DEF ListTypeOK
<1>5. ListInv'
  BY <1>0, <1>1, <1>2, <1>4 DEF ListInv
<1>6. ~done /\ Len(<<>>) = 0 /\ DOMAIN items = 1 .. Len(items)
  BY RequestEnds DEF Fail, ListInv, ListTypeOK
<1>7. CASE offset = 0
  <2>1. offset = Len(items) => DOMAIN items = {}
    BY <1>6, <1>7
  <2>2. sound' => offset = Len(items) /\ \A k \in DOMAIN items : items[k].term = term
    <3>1. CASE reqs[i].reset
      <4>1. sound' => Len(items) = 0
        BY <1>2, <1>6, <3>1
      <4>2. sound' => DOMAIN items = {}
        BY <1>6, <4>1
      <4> QED
        BY <1>7, <4>1, <4>2
    <3>2. CASE ~reqs[i].reset
      <4>1. busy /\ (~\E j \in DOMAIN reqs : reqs[j].reset) /\ NextPlace = reqs[1].from
        BY <1>1, <3>2, RequestEnds, OneRequest DEF Fail, NextPlace
      <4>2. sound => reqs[1].from = offset
        BY <1>1 DEF ListInv
      <4> QED
        BY <1>2, <4>1, <4>2 DEF ListExact
    <3> QED
      BY <3>1, <3>2
  <2> QED
    BY <1>0, <1>2, <1>5, <1>6, <2>1, <2>2 DEF ListExact, NextPlace
<1>8. CASE offset # 0
  <2>1. /\ busy /\ (~\E j \in DOMAIN reqs : reqs[j].reset)
        /\ NextPlace = offset
    BY <1>1, <1>8, RequestEnds, OneRequest DEF Fail, NextPlace, ListInv
  <2>2. sound' => sound
    BY <1>2
  <2> QED
    BY <1>0, <1>2, <1>5, <1>6, <2>1, <2>2 DEF ListExact, NextPlace, InPlace
<1> QED
  BY <1>7, <1>8

LEMMA ListDeliver ==
  ASSUME ListIInv, NEW i \in DOMAIN reqs, Deliver(i)
  PROVE  ListIInv'
<1> USE DEF ListIInv
<1> DEFINE r == reqs[i]
           base == IF r.reset THEN <<>> ELSE items
           rows == Rollup(r.term, r.seen)
<1>0. /\ UNCHANGED <<table, term, sound, changes, commits, failures>>
      /\ r.state = "answered" /\ items' = Joined(r) /\ offset' = r.from + Len(r.batch)
      /\ done' = (Len(r.batch) < Page) /\ busy' = FALSE
      /\ visible' \in BOOLEAN /\ (done' => ~visible')
      /\ notice' \in BOOLEAN /\ (done' => ~notice')
      /\ read' = [term |-> r.term, table |-> r.seen]
  <2>1. visible \in BOOLEAN
    BY DEF ListInv, ListTypeOK
  <2> QED
    BY <2>1 DEF Deliver
<1>1. i = 1 /\ r \in PageRequest /\ reqs' = <<>> /\ Len(reqs') = 0 /\ DOMAIN reqs' = {}
  BY RequestEnds DEF Deliver
<1>2. r.term \in Terms /\ r.from \in Nat /\ r.batch \in Seq(Titles) /\ r.reset \in BOOLEAN
      /\ r.seen \in Tables
  BY <1>1 DEF PageRequest
<1>3. base \in Seq(ListRow)
  BY DEF ListInv, ListTypeOK
<1>4. items' = base \o [k \in DOMAIN r.batch |->
                         [title |-> r.batch[k], term |-> r.term, seen |-> r.seen]]
  BY <1>0 DEF Joined
<1>5. /\ items' \in Seq(ListRow) /\ Len(items') = Len(base) + Len(r.batch)
      /\ \A k \in 1 .. Len(base) : items'[k] = base[k]
      /\ \A k \in DOMAIN r.batch :
           items'[Len(base) + k] = [title |-> r.batch[k], term |-> r.term, seen |-> r.seen]
  <2> HIDE DEF base, r
  <2> QED
    BY <1>2, <1>3, <1>4, JoinAppends
<1>6. ListTypeOK'
  <2>1. offset' \in Nat /\ done' \in BOOLEAN
    BY <1>0, <1>2, ListAssumption
  <2>2. reqs' \in Seq(PageRequest)
    BY <1>1
  <2>3. read' \in [term : Terms, table : Tables]
    BY <1>0, <1>2
  <2> QED
    BY <1>0, <1>5, <2>1, <2>2, <2>3 DEF ListInv, ListTypeOK
<1>7. ListInv'
  BY <1>0, <1>1, <1>6 DEF ListInv
<1>8. r.reset \/ (r.from = NextPlace /\ ~\E j \in DOMAIN reqs : reqs[j].reset)
  BY <1>1, RequestEnds, OneRequest DEF Deliver, NextPlace
<1>9. ASSUME sound
      PROVE  offset' = Len(items') /\ \A k \in DOMAIN items' : items'[k].term = term
  <2>1. r.term = term
    BY <1>9 DEF ListInv
  <2>2. r.from = Len(base) /\ \A k \in DOMAIN base : base[k].term = term
    BY <1>8, <1>9 DEF ListInv, ListExact
  <2> HIDE DEF base, r
  <2>3. ASSUME NEW k \in DOMAIN items' PROVE items'[k].term = term
    <3>1. k \in 1 .. Len(base) + Len(r.batch) /\ Len(base) \in Nat /\ DOMAIN base = 1 .. Len(base)
      BY <1>2, <1>3, <1>5
    <3>2. CASE k \in DOMAIN base
      <4>1. items'[k] = base[k]
        BY <1>5, <3>1, <3>2
      <4> QED
        BY <2>2, <3>2, <4>1
    <3>3. CASE k \notin DOMAIN base
      <4>1. k - Len(base) \in DOMAIN r.batch /\ k = Len(base) + (k - Len(base))
        BY <1>2, <3>1, <3>3
      <4>2. items'[k] = [title |-> r.batch[k - Len(base)], term |-> r.term, seen |-> r.seen]
        BY <1>5, <4>1
      <4> QED
        BY <2>1, <4>2
    <3> QED
      BY <3>2, <3>3
  <2>4. offset' = Len(items')
    BY <1>0, <1>5, <2>2 DEF r
  <2> QED
    BY <2>3, <2>4
<1>10. ASSUME offset' = Len(items')
       PROVE  /\ \A k \in DOMAIN items' : InPlace(items'[k], k)
              /\ done' => Len(rows) <= Len(items')
  <2>1. r.from = Len(base)
    <3> HIDE DEF base, r
    <3>1. Len(base) \in Nat /\ Len(r.batch) \in Nat
      BY <1>2, <1>3
    <3> QED
      BY <1>0, <1>2, <1>5, <1>10, <3>1 DEF r
  <2>2. r.batch = PageOf(rows, Len(base))
    BY <1>0, <2>1 DEF ListInv
  <2>3. \A k \in DOMAIN base : InPlace(base[k], k)
    BY <1>8, <2>1 DEF ListExact
  <2> HIDE DEF base, r
  <2>4. /\ \A k \in DOMAIN items' : InPlace(items'[k], k)
        /\ Len(r.batch) < Page => Len(rows) <= Len(items')
    BY <1>2, <1>3, <1>4, <2>2, <2>3, PagesJoin
  <2> QED
    BY <1>0, <2>4 DEF r
<1>11. ListExact'
  <2>1. NextPlace' = offset'
    BY <1>0 DEF NextPlace
  <2>2. read'.term = r.term /\ read'.table = r.seen
    BY <1>0
  <2> HIDE DEF r
  <2> QED
    BY <1>0, <1>9, <1>10, <2>1, <2>2 DEF ListExact, InPlace
<1> QED
  BY <1>7, <1>11

LEMMA ListNextInv == ListIInv /\ [ListNext]_listVars => ListIInv'
<1>1. ListIInv /\ FetchPage => ListIInv'
  BY ListAnswer, ListDeliver, ListFail DEF FetchPage
<1>2. ListIInv /\ UNCHANGED listVars => ListIInv'
  BY DEF listVars, ListIInv, ListInv, ListTypeOK, ListExact, NextPlace, InPlace
<1> QED
  BY <1>1, <1>2, ListChangeTerm, ListScroll, ListNotify, ListCommit DEF ListNext

\* One request at a time, and it asks for the page where the list ends.
THEOREM RequestsTakeTurns == ListSpec => []ListInv
<1>1. ListIInv => ListInv
  BY DEF ListIInv
<1> QED
  BY <1>1, ListInitInv, ListNextInv, PTL DEF ListSpec

\* However the user types and scrolls, whatever pages fail and whatever scans store
\* between two pages: a row stands where it stood in the rollup it was read from, as
\* long as the place asked for is where the list ends, and a list that is done
\* reaches to the end of the last state read.
THEOREM ListedRowsAreRollup == ListSpec => []ListExact
<1>1. ListIInv => ListExact
  BY DEF ListIInv
<1> QED
  BY <1>1, ListInitInv, ListNextInv, PTL DEF ListSpec
=============================================================================
