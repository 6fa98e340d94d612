----------------------------- MODULE Scheduler -----------------------------
(***************************************************************************)
(* What starts scans: the scheduler's pass over due schedules              *)
(* (src/internal/scheduler/scheduler.go) and the ad-hoc requests of the    *)
(* API (src/internal/api/handlers_admin.go), over the target, schedule and *)
(* credential tables an administrator edits meanwhile                      *)
(* (src/internal/store/targets.go).  A scan itself is one step here: its   *)
(* inside is ScanEngine.  Time is the time left until next_run_at.         *)
(***************************************************************************)
EXTENDS Naturals

CONSTANTS Targets, Schedules, Creds, Requests,
          Interval,       \* interval_secs of each schedule, in clock steps
          BadTargets,     \* targets whose CIDRs do not parse: nothing checks them
          SilentTargets,  \* targets with a host that may hold a scan for ever
          CanStop         \* the process may be told to stop, or die

ASSUME SchedulerAssumption ==
  /\ Interval \in [Schedules -> Nat \ {0}]
  /\ BadTargets \cup SilentTargets \subseteq Targets
  /\ CanStop \in BOOLEAN

VARIABLES target,         \* scan_target rows
          schedule,       \* schedule rows: state, target, time left
          cred,           \* credential rows
          pass,           \* runDue: its step, due list, credentials, current schedule
          req,            \* handleTriggerScan and the goroutine it starts
          proc            \* "up", "stopping" (its context is cancelled) or "down"

admin == <<target, schedule, cred>>
vars == <<target, schedule, cred, pass, req, proc>>

None == "none"
Rows == {"enabled", "disabled"}
IdlePass == [pc |-> "idle", due |-> {}, creds |-> {}, current |-> None]
NoRequest == [pc |-> "none", target |-> None, bad |-> FALSE, creds |-> {}]
EndedRequest == [NoRequest EXCEPT !.pc = "ended"]

Init ==
  /\ target = [t \in Targets |-> None]
  /\ schedule = [s \in Schedules |-> [state |-> None, target |-> None, left |-> 0]]
  /\ cred = [c \in Creds |-> None]
  /\ pass = IdlePass
  /\ req = [r \in Requests |-> NoRequest]
  /\ proc = "up"

Stored == {c \in Creds : cred[c] = "enabled"}

-----------------------------------------------------------------------------
\* The administrator's requests; ids are never reused.
CreateTarget(t) ==
  /\ proc # "down" /\ target[t] = None
  /\ \E e \in Rows : target' = [target EXCEPT ![t] = e]
  /\ UNCHANGED <<schedule, cred, pass, req, proc>>

\* Mutant: the foreign key without ON DELETE CASCADE.
DeleteTargetOnly(t) ==
  /\ proc # "down" /\ target[t] \in Rows
  /\ target' = [target EXCEPT ![t] = "deleted"]
  /\ UNCHANGED <<schedule, cred, pass, req, proc>>

\* The schedules of the target go with it (ON DELETE CASCADE).
DeleteTarget(t) ==
  /\ proc # "down" /\ target[t] \in Rows
  /\ target' = [target EXCEPT ![t] = "deleted"]
  /\ schedule' = [s \in Schedules |->
       IF schedule[s].target = t THEN [schedule[s] EXCEPT !.state = "deleted"] ELSE schedule[s]]
  /\ UNCHANGED <<cred, pass, req, proc>>

\* The foreign key refuses a target that does not exist; due at once.
CreateSchedule(s) ==
  /\ proc # "down" /\ schedule[s].state = None
  /\ \E t \in Targets, e \in Rows :
       /\ target[t] \in Rows
       /\ schedule' = [schedule EXCEPT ![s] = [state |-> e, target |-> t, left |-> 0]]
  /\ UNCHANGED <<target, cred, pass, req, proc>>

CreateCredential(c) ==
  /\ proc # "down" /\ cred[c] = None
  /\ cred' = [cred EXCEPT ![c] = "enabled"]
  /\ UNCHANGED <<target, schedule, pass, req, proc>>

DeleteCredential(c) ==
  /\ proc # "down" /\ cred[c] = "enabled"
  /\ cred' = [cred EXCEPT ![c] = "deleted"]
  /\ UNCHANGED <<target, schedule, pass, req, proc>>

Clock ==
  /\ \E s \in Schedules : schedule[s].left > 0
  /\ schedule' = [s \in Schedules |->
       [schedule[s] EXCEPT !.left = IF @ = 0 THEN 0 ELSE @ - 1]]
  /\ UNCHANGED <<target, cred, pass, req, proc>>

-----------------------------------------------------------------------------
\* The scheduler.  Its context is the process's: every call fails once it stops,
\* and any call may fail before.  (ListDue fails by leaving everything as it is.)
\* Mutant: a schedule is taken as due one step early.
EligibleSoon(s) ==
  /\ schedule[s].state = "enabled" /\ target[schedule[s].target] = "enabled"
  /\ schedule[s].left <= 1

Eligible(s) ==
  /\ schedule[s].state = "enabled" /\ target[schedule[s].target] = "enabled"
  /\ schedule[s].left = 0

\* Mutant: a pass takes only one of the due schedules, whichever the query returns.
ListDueOne ==
  /\ proc = "up" /\ pass.pc = "idle"
  /\ \E s \in Schedules :
       /\ Eligible(s)
       /\ pass' = [pass EXCEPT !.due = {s}, !.pc = "creds"]
  /\ UNCHANGED <<admin, req, proc>>

\* A tick.  With nothing due, runDue returns.
ListDue ==
  /\ proc = "up" /\ pass.pc = "idle"
  /\ \E s \in Schedules : Eligible(s)
  /\ pass' = [pass EXCEPT !.due = {s \in Schedules : Eligible(s)}, !.pc = "creds"]
  /\ UNCHANGED <<admin, req, proc>>

\* One snapshot for every scan of the pass.
ListCredentials ==
  /\ proc = "up" /\ pass.pc = "creds"
  /\ pass' = [pass EXCEPT !.creds = Stored, !.pc = "next"]
  /\ UNCHANGED <<admin, req, proc>>

\* The pass is given up; its schedules are due at the next tick still.
ListCredentialsFails ==
  /\ pass.pc = "creds"
  /\ pass' = IdlePass
  /\ UNCHANGED <<admin, req, proc>>

\* AdvanceSchedule: the row may be gone, which is no error.
NextRun(s) ==
  [schedule EXCEPT ![s].left = IF schedule[s].state \in Rows THEN Interval[s] ELSE @]

\* Mutant: an UPDATE that met no row is tried again.
AdvanceRetried(s) ==
  /\ proc = "up" /\ pass.pc = "next" /\ s \in pass.due
  /\ schedule' = NextRun(s)
  /\ pass' = [pass EXCEPT !.due = IF schedule[s].state \in Rows THEN @ \ {s} ELSE @,
                          !.current = s, !.pc = "start"]
  /\ UNCHANGED <<target, cred, req, proc>>

\* next_run_at moves before the scan.
Advance(s) ==
  /\ proc = "up" /\ pass.pc = "next" /\ s \in pass.due
  /\ schedule' = NextRun(s)
  /\ pass' = [pass EXCEPT !.due = @ \ {s}, !.current = s, !.pc = "start"]
  /\ UNCHANGED <<target, cred, req, proc>>

\* The UPDATE fails, or only its answer is lost: the schedule is not scanned in
\* this pass, and in the second case not before its next interval.
AdvanceFails(s) ==
  /\ pass.pc = "next" /\ s \in pass.due
  /\ schedule' \in {schedule, NextRun(s)}
  /\ pass' = [pass EXCEPT !.due = @ \ {s}]
  /\ UNCHANGED <<target, cred, req, proc>>

\* Mutant: the scan gets a context of its own, as an ad-hoc scan does.
StartScanDetached ==
  /\ pass.pc = "start"
  /\ pass' = [pass EXCEPT !.pc = "scan"]
  /\ UNCHANGED <<admin, req, proc>>

\* engine.Run: CIDRs that do not parse, or a cancelled context, end it at once.
StartScan ==
  /\ pass.pc = "start"
  /\ LET t == schedule[pass.current].target
     IN  \/ /\ proc = "up" /\ t \notin BadTargets
            /\ pass' = [pass EXCEPT !.pc = "scan"]
         \/ /\ proc # "up" \/ t \in BadTargets
            /\ pass' = [pass EXCEPT !.pc = "next", !.current = None]
  /\ UNCHANGED <<admin, req, proc>>

\* A host falls silent inside its collector (ScanEngine's "hung"): the scan, and
\* with it the pass, goes on for as long as the process does.
Hang ==
  /\ \/ /\ pass.pc = "scan" /\ schedule[pass.current].target \in SilentTargets
        /\ pass' = [pass EXCEPT !.pc = "hung"]
        /\ UNCHANGED req
     \/ \E r \in Requests :
          /\ req[r].pc = "scan" /\ req[r].target \in SilentTargets \cup {None}
          /\ req' = [req EXCEPT ![r].pc = "hung"]
          /\ UNCHANGED pass
  /\ UNCHANGED <<admin, proc>>

EndScan ==
  /\ pass.pc = "scan"
  /\ pass' = [pass EXCEPT !.pc = "next", !.current = None]
  /\ UNCHANGED <<admin, req, proc>>

EndPass ==
  /\ pass.pc = "next" /\ pass.due = {}
  /\ pass' = IdlePass
  /\ UNCHANGED <<admin, req, proc>>

-----------------------------------------------------------------------------
\* An ad-hoc scan: a stored target by id, or addresses in the body.
Request(r) ==
  /\ proc # "down" /\ req[r].pc = "none"
  /\ \/ \E t \in Targets : req' = [req EXCEPT ![r].pc = "target", ![r].target = t]
     \/ \E b \in BOOLEAN : req' = [req EXCEPT ![r].pc = "creds", ![r].bad = b]
  /\ UNCHANGED <<admin, pass, proc>>

\* Enabled or not; an unknown target is a 404.
LoadTarget(r) ==
  /\ req[r].pc = "target"
  /\ req' = IF target[req[r].target] \in Rows
            THEN [req EXCEPT ![r].pc = "creds", ![r].bad = req[r].target \in BadTargets]
            ELSE [req EXCEPT ![r] = EndedRequest]
  /\ UNCHANGED <<admin, pass, proc>>

\* Either query may fail, which is a 500.
LoadFails(r) ==
  /\ req[r].pc \in {"target", "creds"}
  /\ req' = [req EXCEPT ![r] = EndedRequest]
  /\ UNCHANGED <<admin, pass, proc>>

\* The answer is 202, and the goroutine runs with context.Background().
LoadCredentials(r) ==
  /\ req[r].pc = "creds"
  /\ req' = [req EXCEPT ![r].pc = "accepted", ![r].creds = Stored]
  /\ UNCHANGED <<admin, pass, proc>>

StartAdHoc(r) ==
  /\ req[r].pc = "accepted"
  /\ req' = [req EXCEPT ![r] = IF @.bad THEN EndedRequest ELSE [@ EXCEPT !.pc = "scan"]]
  /\ UNCHANGED <<admin, pass, proc>>

EndAdHoc(r) ==
  /\ req[r].pc = "scan"
  /\ req' = [req EXCEPT ![r] = EndedRequest]
  /\ UNCHANGED <<admin, pass, proc>>

-----------------------------------------------------------------------------
Stop ==
  /\ CanStop /\ proc = "up"
  /\ proc' = "stopping"
  /\ UNCHANGED <<admin, pass, req>>

\* The goroutines are not waited for: whatever ran is gone.
Exit ==
  /\ CanStop /\ proc # "down"
  /\ proc' = "down"
  /\ pass' = IdlePass
  /\ req' = [r \in Requests |->
       IF req[r].pc = "none" THEN NoRequest ELSE EndedRequest]
  /\ UNCHANGED admin

Restart ==
  /\ proc = "down"
  /\ proc' = "up"
  /\ UNCHANGED <<admin, pass, req>>

RunDue ==
  \/ ListDue \/ ListCredentials \/ ListCredentialsFails \/ StartScan \/ EndScan \/ EndPass
  \/ \E s \in Schedules : Advance(s) \/ AdvanceFails(s)

TriggerScan(r) ==
  LoadTarget(r) \/ LoadCredentials(r) \/ LoadFails(r) \/ StartAdHoc(r) \/ EndAdHoc(r)

AdminStep ==
  \/ \E t \in Targets : CreateTarget(t) \/ DeleteTarget(t)
  \/ \E s \in Schedules : CreateSchedule(s)
  \/ \E c \in Creds : CreateCredential(c) \/ DeleteCredential(c)

Next ==
  \/ AdminStep \/ Clock \/ RunDue
  \/ \E r \in Requests : Request(r) \/ TriggerScan(r)
  \/ Hang \/ Stop \/ Exit \/ Restart

Spec == Init /\ [][Next]_vars

\* The ticker fires, goroutines are scheduled and time passes.  A statement tried
\* again and again is answered in the end.  A scan that does not hang ends: dials,
\* probes and the other collectors have timeouts.
FairSpec ==
  /\ Spec /\ WF_vars(RunDue) /\ WF_vars(Clock)
  /\ SF_vars(ListCredentials) /\ \A s \in Schedules : SF_vars(Advance(s))
  /\ \A r \in Requests : WF_vars(TriggerScan(r))

-----------------------------------------------------------------------------
States == {None, "enabled", "disabled", "deleted"}

TypeOK ==
  /\ target \in [Targets -> States]
  /\ schedule \in [Schedules -> [state : States, target : Targets \cup {None}, left : Nat]]
  /\ cred \in [Creds -> States]
  /\ pass \in [pc : {"idle", "creds", "next", "start", "scan", "hung"}, due : SUBSET Schedules,
               creds : SUBSET Creds, current : Schedules \cup {None}]
  /\ req \in [Requests ->
       [pc : {"none", "target", "creds", "accepted", "scan", "hung", "ended"},
        target : Targets \cup {None}, bad : BOOLEAN, creds : SUBSET Creds]]
  /\ proc \in {"up", "stopping", "down"}

\* A schedule row always has its target row: the pass never joins a schedule to
\* nothing, however deletions and creations interleave.
NoOrphanSchedule ==
  \A s \in Schedules :
    schedule[s].state \in Rows => schedule[s].target \in Targets /\ target[schedule[s].target] \in Rows

\* What is still on a pass's list has not been advanced since the list was read.
DueStale == \A s \in pass.due : schedule[s].left = 0

\* The inductive invariant of the safety proofs.
IInv == TypeOK /\ NoOrphanSchedule /\ DueStale

\* The list of a pass may be stale, but what it still holds has not been run by
\* anyone else: no schedule is advanced, and so none is scanned, before its
\* interval is over.
OnlyWhenDue ==
  [][\A s \in Schedules : schedule'[s].left > schedule[s].left => schedule[s].left = 0]_vars

\* After the signal to stop no scheduled scan begins.
ShutdownStartsNoScan ==
  [][proc # "up" => (pass'.pc = "scan" => pass.pc = "scan")]_vars

ScannedTargets ==
  {schedule[s].target : s \in IF pass.pc = "scan" THEN {pass.current} ELSE {}}
    \cup {req[r].target : r \in {q \in Requests : req[q].pc = "scan"}}

CredsInUse ==
  (IF pass.pc = "scan" THEN pass.creds ELSE {})
    \cup UNION {req[r].creds : r \in {q \in Requests : req[q].pc = "scan"}}

\* A schedule that stays enabled, with a target that stays enabled and parses,
\* is scanned again and again while the process stays up, however long the
\* other schedules' scans take - short of a scan that hangs for ever - however
\* often a statement fails, and however often the process was restarted before.
RecurringScans ==
  \A s \in Schedules, t \in Targets \ BadTargets :
    <>[](proc = "up" /\ schedule[s].state = "enabled" /\ schedule[s].target = t /\ target[t] = "enabled")
      => []<>(pass.pc = "scan" /\ pass.current = s) \/ <>[](pass.pc = "hung")

\* A deleted target may still be scanned from a stale list, and a deleted
\* credential used from a snapshot, but not for ever: in the end only a hung scan
\* can be left with them.
DeletedRetires ==
  /\ \A t \in Targets : target[t] = "deleted" ~> [](t \notin ScannedTargets)
  /\ \A c \in Creds : cred[c] = "deleted" ~> [](c \notin CredsInUse)
=============================================================================
