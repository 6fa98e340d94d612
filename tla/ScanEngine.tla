----------------------------- MODULE ScanEngine -----------------------------
(***************************************************************************)
(* One scan run: Engine.Run and processHost (src/internal/scan/engine.go)  *)
(* over the worker pool's promise (JobPool), and the scan_run, scan_event  *)
(* and relationship rows it leaves (src/internal/store/scanrun.go).        *)
(* Every database call is one step: the steps of the transaction inside    *)
(* UpsertDevice are DeviceStore's.  The context may be cancelled, and the  *)
(* process may die, between any two steps.                                 *)
(***************************************************************************)
EXTENDS JobPool

CONSTANTS VMs,            \* devices a hypervisor reports beside itself
          Hypervisors,    \* the hosts whose collector reports some (Proxmox)
          NumCollectors,  \* [AllJobs -> number of collectors for its class]
          CanCancel,      \* the caller's context may be cancelled
          CanCrash,       \* the process may die
          Unresponsive,   \* hosts that may accept an SSH connection and then fall silent
          MaxFaults       \* bound: database calls that fail on a live context

ASSUME EngineAssumption ==
  /\ IsFiniteSet(AllJobs) /\ AllJobs \cap VMs = {}
  /\ NumCollectors \in [AllJobs -> Nat]
  /\ CanCancel \in BOOLEAN /\ CanCrash \in BOOLEAN
  /\ Unresponsive \subseteq AllJobs /\ Hypervisors \subseteq AllJobs
  /\ MaxFaults \in Nat

VARIABLES pc,             \* Run: "start" "discover" "count" "pool" "finish" "ended"
          up,             \* the process is alive
          host,           \* AllJobs -> processHost's progress and HostResult
          run,            \* the scan_run row
          events,         \* scan_event row of each host: its status, or "none"
          devices,        \* hosts and VMs that have a device row
          links,          \* relationship rows <<host, vm>>
          faults          \* history: database calls that failed so far

dbVars == <<run, events, devices, links, faults>>
vars == <<poolVars, pc, up, host, dbVars>>

NoVM == "none"

Init ==
  /\ jobs = {} /\ slot = [h \in AllJobs |-> "pending"]
  /\ cancelled = FALSE /\ grace = TRUE /\ returned = FALSE
  /\ pc = "start"
  /\ up = TRUE
  /\ host = [h \in AllJobs |-> [pc |-> "collect", k |-> 1, got |-> FALSE, cerr |-> FALSE,
                              err |-> FALSE, saved |-> FALSE, related |-> {}, vm |-> NoVM]]
  /\ run = [status |-> "none", discovered |-> 0, found |-> 0]
  /\ events = [h \in AllJobs |-> "none"]
  /\ devices = {}
  /\ links = {}
  /\ faults = 0

\* What a database call may do: nothing at all once its context is cancelled;
\* before, it may also fail, with or without taking effect ("lost").  A call that
\* the cancellation cuts off is a lost one, the cancellation its next step.
Outcomes ==
  IF cancelled THEN {"error"}
  ELSE IF faults < MaxFaults THEN {"ok", "error", "lost"} ELSE {"ok"}
Applied(out) == out # "error"
Answer(out) == faults' = IF out = "ok" \/ cancelled THEN faults ELSE faults + 1

\* Specs that do not parse, or a failed INSERT, end the run before it has a row.
CreateRun ==
  /\ up /\ pc = "start"
  /\ \/ pc' = "ended" /\ UNCHANGED <<run, faults>>
     \/ \E out \in Outcomes :
          /\ Answer(out)
          /\ run' = IF Applied(out) THEN [run EXCEPT !.status = "running"] ELSE run
          /\ pc' = IF out = "ok" THEN "discover" ELSE "ended"
  /\ UNCHANGED <<poolVars, up, host, events, devices, links>>

\* Hosts that answer TCP or the SNMP probe, merged: any set of the addresses.
DiscoverHosts ==
  /\ up /\ pc = "discover"
  /\ jobs' \in SUBSET AllJobs
  /\ pc' = "count"
  /\ UNCHANGED <<slot, cancelled, grace, returned, up, host, dbVars>>

\* Mutant: the count is taken before the SNMP responders are merged in.
SetDiscoveredTCP ==
  /\ up /\ pc = "count"
  /\ \E n \in 0..Cardinality(jobs) : run' = [run EXCEPT !.discovered = n]
  /\ pc' = "pool"
  /\ UNCHANGED <<poolVars, up, host, events, devices, links, faults>>

\* A failure is only logged.
SetDiscovered ==
  /\ up /\ pc = "count"
  /\ \E out \in Outcomes :
       /\ Answer(out)
       /\ run' = IF Applied(out) THEN [run EXCEPT !.discovered = Cardinality(jobs)] ELSE run
  /\ pc' = "pool"
  /\ UNCHANGED <<poolVars, up, host, events, devices, links>>

PoolStep == up /\ pc = "pool" /\ UNCHANGED <<pc, up, host, dbVars>>

\* A host goroutine runs on its own: only the pool's WaitGroup ties it to Run.
At(h, step) == up /\ slot[h] = "active" /\ host[h].pc = step

\* One collector: it has no credential and does not apply, fails, or succeeds
\* and ends the loop, clearing the errors of those before it.  SSH bounds its
\* dial only: a host that falls silent after that keeps it, cancelled or not.
Collect(h) ==
  /\ At(h, "collect")
  /\ \/ /\ host[h].k <= NumCollectors[h]
        /\ \/ host' = [host EXCEPT ![h].k = @ + 1]
           \/ host' = [host EXCEPT ![h].k = @ + 1, ![h].cerr = TRUE]
           \/ \E vms \in SUBSET {v \in VMs : h \in Hypervisors} :
                host' = [host EXCEPT ![h].pc = "upsert", ![h].got = TRUE,
                                     ![h].cerr = FALSE, ![h].related = vms]
           \/ /\ h \in Unresponsive
              /\ host' = [host EXCEPT ![h].pc = "hung"]
     \/ /\ host[h].k > NumCollectors[h]
        /\ host' = [host EXCEPT ![h].pc = "upsert"]
  /\ UNCHANGED <<poolVars, pc, up, dbVars>>

UpsertHost(h) ==
  /\ At(h, "upsert")
  /\ \E out \in Outcomes :
       /\ Answer(out)
       /\ devices' = IF Applied(out) THEN devices \cup {h} ELSE devices
       /\ host' = [host EXCEPT ![h].pc = "event", ![h].err = out # "ok",
                               ![h].saved = out = "ok"]
  /\ UNCHANGED <<poolVars, pc, up, run, events, links>>

EventStatus(hr) ==
  IF hr.err THEN "failed"
  ELSE IF hr.got THEN "collected"
  ELSE IF hr.cerr THEN "failed" ELSE "discovered"

\* After a persistence error the host is given up; otherwise its related
\* devices follow.  A failed event INSERT is only logged.
RecordEvent(h) ==
  /\ At(h, "event")
  /\ \E out \in Outcomes :
       /\ Answer(out)
       /\ events' = [events EXCEPT ![h] = IF Applied(out) THEN EventStatus(host[h]) ELSE @]
  /\ host' = [host EXCEPT ![h].pc = IF host[h].err THEN "done" ELSE "related"]
  /\ UNCHANGED <<poolVars, pc, up, run, devices, links>>

\* The next related device: when its upsert fails it is skipped, and when the row
\* it matched is the host's own there is nothing to link (CreateRelationship).
UpsertRelated(h) ==
  /\ At(h, "related")
  /\ \/ \E v \in host[h].related, out \in Outcomes :
          /\ Answer(out)
          /\ devices' = IF Applied(out) THEN devices \cup {v} ELSE devices
          /\ host' = [host EXCEPT ![h].related = @ \ {v},
                                  ![h].pc = IF out = "ok" THEN "link" ELSE "related",
                                  ![h].vm = IF out = "ok" THEN v ELSE NoVM]
     \/ \E v \in host[h].related :
          /\ ~cancelled
          /\ host' = [host EXCEPT ![h].related = @ \ {v}]
          /\ UNCHANGED <<devices, faults>>
     \/ /\ host[h].related = {}
        /\ host' = [host EXCEPT ![h].pc = "done"]
        /\ UNCHANGED <<devices, faults>>
  /\ UNCHANGED <<poolVars, pc, up, run, events, links>>

\* CreateRelationship: ON CONFLICT DO NOTHING, a failure is only logged.
LinkRelated(h) ==
  /\ At(h, "link")
  /\ \E out \in Outcomes :
       /\ Answer(out)
       /\ links' = IF Applied(out) THEN links \cup {<<h, host[h].vm>>} ELSE links
  /\ host' = [host EXCEPT ![h].pc = "related", ![h].vm = NoVM]
  /\ UNCHANGED <<poolVars, pc, up, run, events, devices>>

FinishHost(h) ==
  /\ up /\ host[h].pc = "done"
  /\ Finish(h)
  /\ UNCHANGED <<pc, up, host, dbVars>>

\* Mutant: the engine does not wait for the hosts still being processed.
ReturnFromPoolEarly ==
  /\ up /\ pc = "pool" /\ ~returned
  /\ \A h \in jobs : slot[h] # "pending"
  /\ returned' = TRUE
  /\ pc' = "finish"
  /\ UNCHANGED <<jobs, slot, cancelled, grace, up, host, dbVars>>

ReturnFromPool ==
  /\ up /\ pc = "pool"
  /\ Return
  /\ pc' = "finish"
  /\ UNCHANGED <<up, host, dbVars>>

\* Mutant: the row is settled with a context of its own, as ok.
FinishRunDetached ==
  /\ up /\ pc = "finish"
  /\ run' = [run EXCEPT !.status = "ok", !.found = Cardinality({h \in jobs : host[h].saved})]
  /\ pc' = "ended"
  /\ UNCHANGED <<poolVars, up, host, events, devices, links, faults>>

\* Mutant: a run that found nothing returns early.
FinishRunIfFound ==
  /\ up /\ pc = "finish"
  /\ run' = IF jobs = {} THEN run
            ELSE [run EXCEPT !.status = "ok", !.found = Cardinality({h \in jobs : host[h].saved})]
  /\ pc' = "ended"
  /\ UNCHANGED <<poolVars, up, host, events, devices, links, faults>>

\* FinishScanRun is only ever called with "ok"; its failure ends the run too.
FinishRun ==
  /\ up /\ pc = "finish"
  /\ \E out \in Outcomes :
       /\ Answer(out)
       /\ run' = IF Applied(out)
                 THEN [run EXCEPT !.status = "ok", !.found = Cardinality({h \in jobs : host[h].saved})]
                 ELSE run
  /\ pc' = "ended"
  /\ UNCHANGED <<poolVars, up, host, events, devices, links>>

Cancel ==
  /\ CanCancel /\ up
  /\ CancelContext
  /\ UNCHANGED <<pc, up, host, dbVars>>

\* Nothing but the database survives, and no code runs later to settle the row.
Crash ==
  /\ CanCrash /\ up
  /\ up' = FALSE
  /\ UNCHANGED <<poolVars, pc, host, dbVars>>

Host(h) ==
  \/ Collect(h) \/ UpsertHost(h) \/ RecordEvent(h)
  \/ UpsertRelated(h) \/ LinkRelated(h) \/ FinishHost(h)

Dispatch == PoolStep /\ \E h \in AllJobs : Admit(h) \/ Skip(h)

Engine == CreateRun \/ DiscoverHosts \/ SetDiscovered \/ Dispatch \/ ReturnFromPool \/ FinishRun

Ended == (pc = "ended" \/ ~up) /\ UNCHANGED vars

\* The silent host's TCP connection stays open, and the collector waits.
Wait(h) == At(h, "hung") /\ UNCHANGED vars

Next ==
  \/ Engine \/ (\E h \in AllJobs : Host(h) \/ Wait(h))
  \/ Cancel \/ Crash \/ Ended

Spec == Init /\ [][Next]_vars

\* Goroutines are scheduled while the process lives, and the collectors' own
\* timeouts, where they have one, end them.
FairSpec == Spec /\ WF_vars(Engine) /\ \A h \in AllJobs : WF_vars(Host(h))

-----------------------------------------------------------------------------
HostSteps == {"collect", "hung", "upsert", "event", "related", "link", "done"}

HostResult ==
  [pc : HostSteps, k : Nat, got : BOOLEAN, cerr : BOOLEAN, err : BOOLEAN,
   saved : BOOLEAN, related : SUBSET VMs, vm : VMs \cup {NoVM}]

TypeOK ==
  /\ jobs \subseteq AllJobs
  /\ slot \in [AllJobs -> {"pending", "active", "finished", "skipped"}]
  /\ cancelled \in BOOLEAN /\ grace \in BOOLEAN /\ returned \in BOOLEAN /\ up \in BOOLEAN
  /\ pc \in {"start", "discover", "count", "pool", "finish", "ended"}
  /\ host \in [AllJobs -> HostResult]
  /\ run \in [status : {"none", "running", "ok"}, discovered : Nat, found : Nat]
  /\ events \in [AllJobs -> {"none", "failed", "collected", "discovered"}]
  /\ devices \subseteq AllJobs \cup VMs
  /\ links \subseteq AllJobs \X VMs
  /\ faults \in 0..MaxFaults

Reported == {h \in AllJobs : events[h] # "none"}
Persisted(h) == host[h].pc \in {"event", "related", "link", "done"}

\* A host's slot in the pool goes along with its progress, and only a cancelled
\* run skips one.
SlotInv ==
  \A h \in AllJobs :
    /\ slot[h] # "pending" => h \in jobs
    /\ slot[h] \in {"pending", "skipped"} => host[h].pc = "collect"
    /\ slot[h] = "finished" => host[h].pc = "done"
    /\ slot[h] = "skipped" => cancelled

\* What a host has stored at each of its steps.
HostInv ==
  \A h \in AllJobs :
    /\ ~Persisted(h) => events[h] = "none" /\ ~host[h].saved /\ ~host[h].err
    /\ Persisted(h) => host[h].err = ~host[h].saved
    /\ host[h].saved => h \in devices
    /\ host[h].pc \in {"related", "link"} => ~host[h].err
    /\ host[h].pc = "done" => host[h].err \/ host[h].related = {}
    /\ host[h].pc = "link" => host[h].vm \in VMs

\* What Run knows at each of its steps, and has put into the run's row.
RunInv ==
  /\ pc \in {"start", "discover", "count"} =>
       run.discovered = 0 /\ \A h \in AllJobs : slot[h] = "pending"
  /\ pc \in {"start", "discover"} => jobs = {}
  /\ pc = "start" <=> (pc # "ended" /\ run.status = "none")
  /\ returned => pc \in {"finish", "ended"} /\ \A h \in jobs : Settled(h)
  /\ pc = "finish" => returned
  /\ run.status = "ok" => pc = "ended" /\ returned /\ \A h \in jobs : slot[h] = "finished"
  /\ run.found # 0 => returned

\* As long as no call has failed and nobody cancelled, everything is there: the
\* total, an event for each host that is past it, a link for each related device.
CalmInv ==
  faults = 0 /\ (~cancelled \/ run.status = "ok") =>
    /\ \A h \in AllJobs : /\ Persisted(h) => ~host[h].err
                          /\ host[h].pc \in {"related", "link", "done"} => h \in Reported
    /\ \A v \in devices \cap VMs : \E h \in AllJobs :
         <<h, v>> \in links \/ (host[h].pc = "link" /\ host[h].vm = v)
    /\ run.status = "ok" => run.found = Cardinality(jobs)

\* Live progress: the events never outnumber the announced total, unless it was
\* the announcement that failed.
ProgressWithinTotal ==
  faults = 0 \/ run.discovered > 0 => Cardinality(Reported) <= run.discovered

\* What keeps it: the total is the number of live hosts, or was never announced -
\* on a cancelled context, on which no event is written either.
TotalInv ==
  /\ run.discovered # 0 => run.discovered = Cardinality(jobs)
  /\ faults = 0 /\ pc \in {"pool", "finish", "ended"} =>
       run.discovered = Cardinality(jobs) \/ (cancelled /\ Reported = {})

\* An event that names a host as collected or discovered is not ahead of the
\* device row, and a host whose collectors all failed is inventoried anyway.
EventsFollowDevices ==
  \A h \in AllJobs :
    /\ events[h] \in {"collected", "discovered"} => h \in devices
    /\ events[h] = "failed" => host[h].err \/ (host[h].cerr /\ h \in devices)

\* hosts_found never exceeds the hosts that really have a device row, even when
\* a call's answer is lost.
FoundNotOvercounted == run.found <= Cardinality(devices \cap jobs)

\* The inductive invariant: what the slots, the hosts' progress and the rows say
\* of each other (every conjunct is one of the above).
IInv ==
  /\ TypeOK /\ SlotInv /\ HostInv /\ RunInv /\ CalmInv /\ TotalInv
  /\ EventsFollowDevices /\ FoundNotOvercounted

\* A run marked ok was not cut short: every live host was processed to its end.
\* When no database call failed it has its event, and every related device is
\* stored and linked.
OkMeansComplete ==
  run.status = "ok" =>
    /\ \A h \in jobs : /\ slot[h] = "finished" /\ host[h].pc = "done"
                       /\ host[h].err \/ host[h].related = {}
    /\ faults = 0 =>
         /\ Reported = jobs
         /\ run.found = Cardinality(jobs)
         /\ \A v \in devices \cap VMs : \E h \in AllJobs : <<h, v>> \in links

\* Nothing is written for a run once its row is marked ok: a poller that stops
\* at the terminal state has seen everything.
NothingAfterFinish ==
  [][run.status = "ok" => UNCHANGED <<events, devices, links>>]_vars

\* The status leaves running in every process that lives on and is not told to
\* stop, unless a database call fails or a host falls silent inside a collector.
\* ("poll while status=running", docs/API.md:28, promises it without condition.)
SettlesUndisturbed ==
  run.status = "running" ~>
    run.status # "running" \/ cancelled \/ ~up \/ faults > 0 \/ \E h \in jobs : At(h, "hung")
=============================================================================
