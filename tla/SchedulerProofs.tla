-------------------------- MODULE SchedulerProofs --------------------------
(***************************************************************************)
(* Safety of the scheduler and the ad-hoc trigger for any tables, any      *)
(* intervals and any number of requests.  Beside its types the proof needs *)
(* one fact: what is still on a pass's list has not been advanced since    *)
(* the list was read (DueStale), although the rows themselves may be gone. *)
(***************************************************************************)
EXTENDS Scheduler, TLAPS

ScheduleRow == [state : States, target : Targets \cup {None}, left : Nat]
PassState == [pc : {"idle", "creds", "next", "start", "scan", "hung"}, due : SUBSET Schedules,
              creds : SUBSET Creds, current : Schedules \cup {None}]
RequestState == [pc : {"none", "target", "creds", "accepted", "scan", "hung", "ended"},
                 target : Targets \cup {None}, bad : BOOLEAN, creds : SUBSET Creds]

(* TypeOK with its record sets named.                                      *)
LEMMA Types ==
  TypeOK <=> /\ target \in [Targets -> States]
             /\ schedule \in [Schedules -> ScheduleRow]
             /\ cred \in [Creds -> States]
             /\ pass \in PassState
             /\ req \in [Requests -> RequestState]
             /\ proc \in {"up", "stopping", "down"}
BY DEF TypeOK, ScheduleRow, PassState, RequestState

(* Empty tables, an idle scheduler.                                        *)
LEMMA InitIInv == Init => IInv
<1>. SUFFICES ASSUME Init PROVE IInv
  OBVIOUS
<1>1. IdlePass \in PassState /\ IdlePass.due = {}
  BY DEF IdlePass, PassState
<1>2. NoRequest \in RequestState
  BY DEF NoRequest, RequestState
<1>3. None \in States /\ [state |-> None, target |-> None, left |-> 0] \in ScheduleRow
  BY DEF States, ScheduleRow
<1>4. TypeOK
  BY <1>1, <1>2, <1>3, Types DEF Init
<1>5. NoOrphanSchedule
  BY DEF Init, NoOrphanSchedule, Rows, None
<1>6. DueStale
  BY <1>1 DEF Init, DueStale
<1>. QED  BY <1>4, <1>5, <1>6 DEF IInv

(* The administrator's edits.  Deleting a target deletes its schedules in  *)
(* the same statement, and a new schedule is due at once, so that it does  *)
(* not matter whether an old list holds its row.                           *)
LEMMA AdminKeepsIInv == IInv /\ AdminStep => IInv'
<1>. SUFFICES ASSUME IInv, AdminStep PROVE IInv'
  OBVIOUS
<1>0. /\ target \in [Targets -> States] /\ schedule \in [Schedules -> ScheduleRow]
      /\ cred \in [Creds -> States] /\ pass \in PassState
  BY Types DEF IInv
<1>r. {"enabled", "disabled", "deleted"} \subseteq States /\ Rows \subseteq States
  BY DEF States, Rows
<1>u. UNCHANGED <<pass, req, proc>>
  BY DEF AdminStep, CreateTarget, DeleteTarget, CreateSchedule, CreateCredential, DeleteCredential
<1>1. ASSUME NEW t \in Targets, CreateTarget(t) PROVE IInv'
  <2>1. PICK e \in Rows : target' = [target EXCEPT ![t] = e]
    BY <1>1 DEF CreateTarget
  <2>2. UNCHANGED <<schedule, cred>>
    BY <1>1 DEF CreateTarget
  <2>3. TypeOK'
    BY <1>u, <1>0, <1>r, <2>1, <2>2, Types DEF IInv, TypeOK
  <2>4. NoOrphanSchedule'
    BY <1>0, <2>1, <2>2 DEF IInv, NoOrphanSchedule
  <2>. QED  BY <1>u, <2>2, <2>3, <2>4 DEF IInv, DueStale
<1>2. ASSUME NEW t \in Targets, DeleteTarget(t) PROVE IInv'
  <2>1. /\ target' = [target EXCEPT ![t] = "deleted"] /\ cred' = cred
        /\ schedule' = [s \in Schedules |->
             IF schedule[s].target = t THEN [schedule[s] EXCEPT !.state = "deleted"] ELSE schedule[s]]
    BY <1>2 DEF DeleteTarget
  <2>2. \A s \in Schedules : /\ schedule'[s] \in ScheduleRow
                             /\ schedule'[s].target = schedule[s].target
                             /\ schedule'[s].left = schedule[s].left
                             /\ IF schedule[s].target = t THEN schedule'[s].state = "deleted"
                                ELSE schedule'[s] = schedule[s]
    BY <1>0, <1>r, <2>1 DEF ScheduleRow
  <2>3. TypeOK'
    <3>1. schedule' \in [Schedules -> ScheduleRow]
      BY <2>1, <2>2
    <3>2. target' \in [Targets -> States] /\ cred' \in [Creds -> States]
      BY <1>0, <1>r, <2>1
    <3>. QED  BY <1>u, <3>1, <3>2 DEF IInv, TypeOK, ScheduleRow
  <2>4. NoOrphanSchedule'
    BY <1>0, <2>1, <2>2 DEF IInv, NoOrphanSchedule, Rows
  <2>5. DueStale'
    BY <1>0, <1>u, <2>2 DEF IInv, DueStale, PassState
  <2>. QED  BY <2>3, <2>4, <2>5 DEF IInv
<1>3. ASSUME NEW s \in Schedules, CreateSchedule(s) PROVE IInv'
  <2>1. PICK t \in Targets, e \in Rows :
          /\ target[t] \in Rows
          /\ schedule' = [schedule EXCEPT ![s] = [state |-> e, target |-> t, left |-> 0]]
    BY <1>3 DEF CreateSchedule
  <2>2. UNCHANGED <<target, cred>>
    BY <1>3 DEF CreateSchedule
  <2>3. TypeOK'
    <3>1. schedule' \in [Schedules -> ScheduleRow]
      BY <1>0, <1>r, <2>1 DEF ScheduleRow
    <3>. QED  BY <1>u, <2>2, <3>1 DEF IInv, TypeOK, ScheduleRow
  <2>4. NoOrphanSchedule'
    BY <1>0, <2>1, <2>2 DEF IInv, NoOrphanSchedule
  <2>5. DueStale'
    BY <1>0, <1>u, <2>1 DEF IInv, DueStale, PassState
  <2>. QED  BY <2>3, <2>4, <2>5 DEF IInv
<1>4. ASSUME NEW c \in Creds, CreateCredential(c) \/ DeleteCredential(c) PROVE IInv'
  <2>1. cred' \in [Creds -> States] /\ UNCHANGED <<target, schedule>>
    BY <1>4, <1>0, <1>r DEF CreateCredential, DeleteCredential
  <2>. QED  BY <1>u, <2>1 DEF IInv, TypeOK, NoOrphanSchedule, DueStale
<1>. QED  BY <1>1, <1>2, <1>3, <1>4 DEF AdminStep

(* Time only brings schedules closer; what is due stays due.               *)
LEMMA ClockKeepsIInv == IInv /\ Clock => IInv'
<1>. SUFFICES ASSUME IInv, Clock PROVE IInv'
  OBVIOUS
<1>0. schedule \in [Schedules -> ScheduleRow] /\ pass \in PassState
  BY Types DEF IInv
<1>1. /\ schedule' = [s \in Schedules |->
           [schedule[s] EXCEPT !.left = IF schedule[s].left = 0 THEN 0 ELSE schedule[s].left - 1]]
      /\ UNCHANGED <<target, cred, pass, req, proc>>
  BY DEF Clock
<1>2. \A s \in Schedules : /\ schedule'[s] \in ScheduleRow
                           /\ schedule'[s].state = schedule[s].state
                           /\ schedule'[s].target = schedule[s].target
                           /\ schedule[s].left = 0 => schedule'[s].left = 0
  BY <1>0, <1>1 DEF ScheduleRow
<1>3. TypeOK'
  <2>1. schedule' \in [Schedules -> ScheduleRow]
    BY <1>1, <1>2
  <2>. QED  BY <1>1, <2>1 DEF IInv, TypeOK, ScheduleRow
<1>4. NoOrphanSchedule'
  BY <1>1, <1>2 DEF IInv, NoOrphanSchedule
<1>5. DueStale'
  BY <1>0, <1>1, <1>2 DEF IInv, DueStale, PassState
<1>. QED  BY <1>3, <1>4, <1>5 DEF IInv

(* A step of the pass that only moves the pass, and adds nothing to its    *)
(* list but what is due.                                                   *)
LEMMA PassMoves ==
  ASSUME IInv, NEW q \in PassState, pass' = q,
         UNCHANGED <<admin, req, proc>>,
         \A s \in q.due : s \in pass.due \/ schedule[s].left = 0
  PROVE  IInv'
BY DEF IInv, TypeOK, PassState, NoOrphanSchedule, DueStale, admin

(* Only Advance writes a row, and it takes it off the list.                *)
LEMMA RunDueKeepsIInv == IInv /\ RunDue => IInv'
<1>. SUFFICES ASSUME IInv, RunDue PROVE IInv'
  OBVIOUS
<1>0. pass \in PassState /\ schedule \in [Schedules -> ScheduleRow]
  BY Types DEF IInv
<1>i. IdlePass \in PassState /\ IdlePass.due = {}
  BY DEF IdlePass, PassState
<1>1. CASE ListDue
  <2>. DEFINE d == {s \in Schedules : Eligible(s)}
  <2>. DEFINE q == [pass EXCEPT !.due = d, !.pc = "creds"]
  <2>1. q \in PassState /\ q.due = d
    BY <1>0 DEF PassState
  <2>. QED  BY <1>1, <2>1, PassMoves DEF ListDue, Eligible
<1>2. CASE ListCredentials
  <2>. DEFINE q == [pass EXCEPT !.creds = Stored, !.pc = "next"]
  <2>1. q \in PassState /\ q.due = pass.due
    BY <1>0 DEF PassState, Stored
  <2>. QED  BY <1>2, <2>1, PassMoves DEF ListCredentials
<1>3. CASE StartScan \/ EndScan
  <2>. DEFINE q == [pass EXCEPT !.pc = "scan"]
              n == [pass EXCEPT !.pc = "next", !.current = None]
  <2>1. /\ q \in PassState /\ q.due = pass.due
        /\ n \in PassState /\ n.due = pass.due
    BY <1>0 DEF PassState
  <2>2. pass' \in {q, n} /\ UNCHANGED <<admin, req, proc>>
    BY <1>3 DEF StartScan, EndScan
  <2>. QED  BY <2>1, <2>2, PassMoves
<1>4. CASE ListCredentialsFails \/ EndPass
  BY <1>4, <1>i, PassMoves DEF ListCredentialsFails, EndPass
<1>5. ASSUME NEW s \in Schedules, Advance(s) \/ AdvanceFails(s) PROVE IInv'
  <2>. DEFINE q == [pass EXCEPT !.due = pass.due \ {s}, !.current = s, !.pc = "start"]
              n == [pass EXCEPT !.due = pass.due \ {s}]
  <2>1. /\ q \in PassState /\ q.due = pass.due \ {s}
        /\ n \in PassState /\ n.due = pass.due \ {s}
    BY <1>0 DEF PassState
  <2>2. CASE pass' = n /\ UNCHANGED schedule
    BY <1>5, <2>1, <2>2, PassMoves DEF Advance, AdvanceFails, admin
  <2>3. CASE pass' \in {q, n} /\ schedule' = NextRun(s)
    <3>1. /\ schedule' \in [Schedules -> ScheduleRow]
          /\ \A u \in Schedules : /\ schedule'[u].state = schedule[u].state
                                  /\ schedule'[u].target = schedule[u].target
                                  /\ u # s => schedule'[u] = schedule[u]
      BY <1>0, <2>3, SchedulerAssumption DEF NextRun, ScheduleRow
    <3>2. UNCHANGED <<target, cred, req, proc>>
      BY <1>5 DEF Advance, AdvanceFails
    <3>3. TypeOK'
      BY <2>1, <2>3, <3>1, <3>2 DEF IInv, TypeOK, ScheduleRow, PassState
    <3>4. NoOrphanSchedule'
      BY <3>1, <3>2 DEF IInv, NoOrphanSchedule
    <3>5. pass'.due = pass.due \ {s}
      BY <2>1, <2>3
    <3>6. DueStale'
      BY <1>0, <3>1, <3>5 DEF IInv, DueStale, PassState
    <3>. QED  BY <3>3, <3>4, <3>6 DEF IInv
  <2>. QED  BY <1>5, <2>2, <2>3 DEF Advance, AdvanceFails
<1>. QED  BY <1>1, <1>2, <1>3, <1>4, <1>5 DEF RunDue

(* A step of the ad-hoc requests alone.                                    *)
LEMMA RequestsMove ==
  ASSUME IInv, req' \in [Requests -> RequestState], UNCHANGED <<admin, pass, proc>>
  PROVE  IInv'
BY DEF IInv, TypeOK, RequestState, NoOrphanSchedule, DueStale, admin

(* The steps of an ad-hoc request.                                         *)
LEMMA TriggerKeepsIInv ==
  ASSUME IInv, NEW r \in Requests, Request(r) \/ TriggerScan(r)
  PROVE  IInv'
<1>0. req \in [Requests -> RequestState]
  BY Types DEF IInv
<1>e. EndedRequest \in RequestState
  BY DEF EndedRequest, NoRequest, RequestState
<1>1. CASE Request(r)
  BY <1>0, <1>1, RequestsMove DEF Request, RequestState
<1>2. CASE LoadTarget(r)
  <2>b. (req[r].target \in BadTargets) \in BOOLEAN
    OBVIOUS
  <2>f. ASSUME NEW b \in BOOLEAN
        PROVE  [req EXCEPT ![r].pc = "creds", ![r].bad = b] \in [Requests -> RequestState]
    BY <1>0 DEF RequestState
  <2>g. [req EXCEPT ![r] = EndedRequest] \in [Requests -> RequestState]
    BY <1>0, <1>e
  <2>c. [req EXCEPT ![r].pc = "creds", ![r].bad = req[r].target \in BadTargets]
          \in [Requests -> RequestState]
    BY Zenon, <2>b, <2>f
  <2>1. req' \in [Requests -> RequestState]
    BY Zenon, <1>2, <2>c, <2>g DEF LoadTarget
  <2>. QED  BY <1>2, <2>1, RequestsMove DEF LoadTarget
<1>3. CASE LoadCredentials(r)
  <2>1. Stored \in SUBSET Creds
    BY DEF Stored
  <2>2. req' \in [Requests -> RequestState]
    BY <1>0, <1>3, <2>1 DEF LoadCredentials, RequestState
  <2>. QED  BY <1>3, <2>2, RequestsMove DEF LoadCredentials
<1>4. CASE StartAdHoc(r)
  <2>1. req' \in [Requests -> RequestState]
    BY <1>0, <1>e, <1>4 DEF StartAdHoc, RequestState
  <2>. QED  BY <1>4, <2>1, RequestsMove DEF StartAdHoc
<1>5. CASE EndAdHoc(r)
  BY <1>0, <1>e, <1>5, RequestsMove DEF EndAdHoc
<1>6. CASE LoadFails(r)
  BY <1>0, <1>e, <1>6, RequestsMove DEF LoadFails
<1>. QED  BY <1>1, <1>2, <1>3, <1>4, <1>5, <1>6 DEF TriggerScan

(* A hanging scan, shutdown, exit and restart.                             *)
LEMMA ProcessKeepsIInv ==
  IInv /\ (Hang \/ Stop \/ Exit \/ Restart) => IInv'
<1>. SUFFICES ASSUME IInv, Hang \/ Stop \/ Exit \/ Restart PROVE IInv'
  OBVIOUS
<1>0. pass \in PassState /\ req \in [Requests -> RequestState]
  BY Types DEF IInv
<1>1. CASE Hang
  <2>. DEFINE q == [pass EXCEPT !.pc = "hung"]
  <2>1. q \in PassState /\ q.due = pass.due
    BY <1>0 DEF PassState
  <2>2. CASE pass' = q /\ UNCHANGED req
    BY <1>1, <2>1, <2>2, PassMoves DEF Hang
  <2>3. ASSUME NEW r \in Requests, req' = [req EXCEPT ![r].pc = "hung"], UNCHANGED pass
        PROVE  IInv'
    <3>1. req' \in [Requests -> RequestState]
      BY <1>0, <2>3 DEF RequestState
    <3>. QED  BY <1>1, <2>3, <3>1, RequestsMove DEF Hang
  <2>. QED  BY <1>1, <2>2, <2>3 DEF Hang
<1>2. CASE Stop \/ Restart
  BY <1>2 DEF Stop, Restart, IInv, TypeOK, NoOrphanSchedule, DueStale, admin
<1>3. CASE Exit
  <2>1. IdlePass \in PassState /\ IdlePass.due = {}
    BY DEF IdlePass, PassState
  <2>2. NoRequest \in RequestState /\ EndedRequest \in RequestState
    BY DEF EndedRequest, NoRequest, RequestState
  <2>3. pass' = IdlePass /\ req' \in [Requests -> RequestState] /\ proc' = "down"
        /\ UNCHANGED admin
    BY <1>3, <2>2 DEF Exit
  <2>. QED  BY <2>1, <2>3 DEF IInv, TypeOK, PassState, RequestState, NoOrphanSchedule,
                              DueStale, admin
<1>. QED  BY <1>1, <1>2, <1>3

(* Together.                                                               *)
LEMMA NextIInv == IInv /\ [Next]_vars => IInv'
<1>1. IInv /\ UNCHANGED vars => IInv'
  BY DEF IInv, TypeOK, NoOrphanSchedule, DueStale, vars
<1>. QED  BY <1>1, AdminKeepsIInv, ClockKeepsIInv, RunDueKeepsIInv,
             TriggerKeepsIInv, ProcessKeepsIInv DEF Next

(* Types, references and due lists stay consistent.                        *)
THEOREM SchedulerInvariant == Spec => []IInv
<1>. QED  BY InitIInv, NextIInv, PTL DEF Spec

(* No schedule row is ever without its target row.                         *)
THEOREM SchedulesHaveTargets == Spec => []NoOrphanSchedule
<1>1. IInv => NoOrphanSchedule
  BY DEF IInv
<1>. QED  BY <1>1, SchedulerInvariant, PTL

(* However stale a pass's list is, no schedule is advanced before it is    *)
(* due.                                                                    *)
THEOREM AdvancedOnlyWhenDue == Spec => OnlyWhenDue
<1>. DEFINE NotEarly == \A s \in Schedules :
              schedule'[s].left > schedule[s].left => schedule[s].left = 0
<1>1. IInv /\ [Next]_vars => NotEarly
  <2>. SUFFICES ASSUME IInv, [Next]_vars, NEW s \in Schedules,
                       schedule'[s].left > schedule[s].left
                PROVE  schedule[s].left = 0
    OBVIOUS
  <2>0. schedule \in [Schedules -> ScheduleRow] /\ \A u \in Schedules : schedule[u].left \in Nat
    BY Types DEF IInv, ScheduleRow
  <2>1. schedule' # schedule
    BY <2>0
  <2>2. CASE \E u \in Schedules : Advance(u) \/ AdvanceFails(u)
    <3>1. PICK u \in Schedules : Advance(u) \/ AdvanceFails(u)
      BY <2>2
    <3>2. u \in pass.due /\ schedule' = NextRun(u)
      BY <2>1, <3>1 DEF Advance, AdvanceFails
    <3>3. u = s
      BY <2>0, <3>2 DEF NextRun, ScheduleRow
    <3>. QED  BY <3>2, <3>3 DEF IInv, DueStale
  <2>3. CASE \E u \in Schedules : CreateSchedule(u)
    <3>1. PICK u \in Schedules : CreateSchedule(u)
      BY <2>3
    <3>2. u # s => schedule'[s] = schedule[s]
      BY <2>0, <3>1 DEF CreateSchedule
    <3>3. u = s => schedule'[s].left = 0
      BY <2>0, <3>1 DEF CreateSchedule
    <3>. QED  BY <2>0, <3>2, <3>3
  <2>4. CASE \E t \in Targets : DeleteTarget(t)
    BY <2>0, <2>4 DEF DeleteTarget, ScheduleRow
  <2>5. CASE Clock
    BY <2>0, <2>5 DEF Clock, ScheduleRow
  <2>6. CASE UNCHANGED schedule
    BY <2>1, <2>6
  <2>. QED
    BY <2>2, <2>3, <2>4, <2>5, <2>6
    DEF Next, AdminStep, CreateTarget, CreateCredential, DeleteCredential, RunDue, ListDue,
        ListCredentials, ListCredentialsFails, StartScan, EndScan, EndPass, Request, TriggerScan,
        LoadTarget, LoadCredentials, LoadFails, StartAdHoc, EndAdHoc, Hang, Stop, Exit, Restart, admin, vars
<1>. QED  BY <1>1, SchedulerInvariant, PTL DEF Spec, OnlyWhenDue

(* The signal to stop lets no further scheduled scan begin.                *)
THEOREM NoScanAfterStop == Spec => ShutdownStartsNoScan
<1>. DEFINE NotLate == proc # "up" => (pass'.pc = "scan" => pass.pc = "scan")
<1>1. IInv /\ [Next]_vars => NotLate
  <2>. SUFFICES ASSUME IInv, [Next]_vars, proc # "up", pass'.pc = "scan", pass' # pass
                PROVE  FALSE
    OBVIOUS
  <2>0. pass \in PassState
    BY Types DEF IInv
  <2>1. CASE RunDue
    <3>1. ~ListDue
      BY DEF ListDue
    <3>2. ~ListCredentials /\ ~ListCredentialsFails /\ ~EndPass
      BY <2>0 DEF ListCredentials, ListCredentialsFails, EndPass, IdlePass
    <3>3. ~StartScan /\ ~EndScan
      BY <2>0 DEF StartScan, EndScan, PassState
    <3>4. \A s \in Schedules : ~Advance(s) /\ ~AdvanceFails(s)
      BY <2>0 DEF Advance, AdvanceFails, PassState
    <3>. QED  BY <2>1, <3>1, <3>2, <3>3, <3>4 DEF RunDue
  <2>2. CASE Hang \/ Exit
    BY <2>0, <2>2 DEF Hang, Exit, IdlePass, PassState
  <2>. QED
    BY <2>1, <2>2
    DEF Next, AdminStep, CreateTarget, DeleteTarget, CreateSchedule, CreateCredential,
        DeleteCredential, Clock, Request, TriggerScan, LoadTarget, LoadCredentials, LoadFails,
        StartAdHoc, EndAdHoc, Stop, Restart, vars
<1>. QED  BY <1>1, SchedulerInvariant, PTL DEF Spec, ShutdownStartsNoScan
=============================================================================
