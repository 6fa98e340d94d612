------------------------ MODULE HostCollectionProofs ------------------------
(* What every scan of every host, with any credentials, relies on and ends in. *)
EXTENDS HostCollection, WellFoundedInduction, TLAPS

\* The registration order is strict.
LEMMA RankStrict ==
  ASSUME NEW c \in Collectors, NEW d \in Collectors
  PROVE  /\ Rank[c] \in Nat
         /\ Rank[c] = Rank[d] => c = d
BY DEF Rank, Collectors

\* What a scan of the host begins with and is left with satisfies the invariant.
LEMMA NoScanInv ==
  /\ NoScan.tried = [c \in Collectors |-> "no"]
  /\ NoScan.winner = None /\ NoScan.errs = {} /\ NoScan.dev.told = {}
  /\ NoScan \in [pick : Pick, open : SUBSET Ports,
                 tried : [Collectors -> {"no", "skipped", "failed", "ok"}],
                 winner : Collectors \cup {None}, errs : SUBSET Collectors,
                 dev : [type : Types, told : SUBSET Sections], disturbed : BOOLEAN]
<1>1. FALSE \in BOOLEAN
  OBVIOUS
<1>2. NoScan.pick \in Pick
  BY DEF NoScan, Pick
<1> QED
  BY <1>1, <1>2 DEF NoScan, Types

\* A non-empty list of credentials has a first one.
LEMMA FirstExists ==
  ASSUME NEW mine \in SUBSET Credential, mine # {}
  PROVE  \E x \in mine : \A y \in mine : x.name <= y.name
<1> DEFINE names == {x.name : x \in mine}
<1>1. names \subseteq Nat /\ names # {}
  BY DEF Credential
<1>2. \E n \in names : \A m \in names : ~ (<<m, n>> \in OpToRel(<, Nat))
  BY <1>1, WFMin, NatLessThanWellFounded
<1>3. PICK n \in names : \A m \in names : ~ (<<m, n>> \in OpToRel(<, Nat))
  BY <1>2
<1>4. OpToRel(<, Nat) = {ss \in Nat \X Nat : ss[1] < ss[2]}
  BY Zenon DEF OpToRel
<1>5. \A m \in names : ~ (<<m, n>> \in {ss \in Nat \X Nat : ss[1] < ss[2]})
  BY <1>3, <1>4
<1> HIDE DEF names
<1>6. ASSUME NEW m \in names PROVE n <= m
  <2>1. m \in Nat /\ n \in Nat
    BY <1>1
  <2>2. ~ (<<m, n>> \in {ss \in Nat \X Nat : ss[1] < ss[2]})
    BY <1>5
  <2>3. ~ (m < n)
    BY <2>1, <2>2
  <2> QED
    BY <2>1, <2>3
<1> QED
  BY <1>6 DEF names

LEMMA FirstOfType ==
  ASSUME TypeOK, NEW c \in Collectors
  PROVE  FirstOf(c) \in Credentials \cup {NoCredential}
<1> DEFINE mine == {x \in stored : x.opens /\ x.kind \in Registry[c].kinds}
<1>1. mine \subseteq Credentials /\ mine \subseteq Credential
  BY CollectionAssumption DEF TypeOK
<1>2. CASE mine = {}
  BY <1>2 DEF FirstOf
<1>3. CASE mine # {}
  <2>1. \E x \in mine : \A y \in mine : x.name <= y.name
    BY <1>1, <1>3, FirstExists
  <2>2. (CHOOSE x \in mine : \A y \in mine : x.name <= y.name) \in mine
    BY <2>1
  <2> QED
    BY <1>1, <1>3, <2>2 DEF FirstOf
<1> QED
  BY <1>2, <1>3

LEMMA RegistryTypes ==
  ASSUME NEW c \in Collectors
  PROVE  /\ Registry[c].types \subseteq Types
         /\ Registry[c].sure \cup Registry[c].strict \cup Registry[c].asks \subseteq Sections
BY DEF Registry, Collectors, Types, Sections, SSH, SNMP, WMI, WinRM, Proxmox, OPNsense,
       FortiGate, FRITZBox

LEMMA ClassTypes == \A ports : ClassToType[ClassifyByPorts(ports)] \in Types
BY DEF ClassToType, ClassifyByPorts, Types

\* LoopInv, ResultInv, ReasonInv and PhaseInv hold whenever nothing was tried yet.
LEMMA NothingTried ==
  ASSUME TypeOK', pc' \in {"idle", "sweep", "collect"},
         scan'.tried = [c \in Collectors |-> "no"],
         scan'.winner = None, scan'.errs = {}, scan'.dev.told = {}
  PROVE  (LoopInv /\ ResultInv /\ ReasonInv /\ PhaseInv)'
BY DEF LoopInv, ResultInv, ReasonInv, PhaseInv, Collectors, None

\* While the locals of the scan stay as they are.
LEMMA ScanUnchanged ==
  ASSUME IInv, TypeOK', UNCHANGED <<scan, pc, machine>>
  PROVE  IInv'
BY DEF IInv, LoopInv, ResultInv, ReasonInv, PhaseInv, Candidates, Class, LogsIn

-----------------------------------------------------------------------------
LEMMA InitInv == Init => IInv /\ OneLogin
<1> SUFFICES ASSUME Init PROVE IInv /\ OneLogin
  OBVIOUS
<1>1. TypeOK
  BY NoScanInv, CollectionAssumption DEF Init, TypeOK, NoRow, NoEvent
<1>2. LoopInv /\ ResultInv /\ ReasonInv /\ PhaseInv
  BY NoScanInv DEF Init, LoopInv, ResultInv, ReasonInv, PhaseInv, Collectors, None
<1>3. OneLogin
  BY DEF Init, OneLogin, NoRow, Lists, Sections
<1> QED
  BY <1>1, <1>2, <1>3 DEF IInv

\* The end of a scan, whatever it did to the row and the event.
LEMMA EndInv ==
  ASSUME IInv, TypeOK', pc' = "idle", scan' = NoScan
  PROVE  IInv'
BY NoScanInv, NothingTried DEF IInv

LEMMA StartInv == IInv /\ StartScan => IInv'
<1> SUFFICES ASSUME IInv, StartScan PROVE IInv'
  OBVIOUS
<1> DEFINE picked == [c \in Collectors |-> FirstOf(c)]
<1>1. picked \in Pick
  BY FirstOfType DEF IInv, Pick
<1>2. scan' = [NoScan EXCEPT !.pick = picked]
  BY DEF StartScan
<1> HIDE DEF picked
<1>3. TypeOK'
  BY <1>1, <1>2, NoScanInv DEF IInv, TypeOK, StartScan
<1>4. /\ scan'.tried = NoScan.tried /\ scan'.winner = NoScan.winner
      /\ scan'.errs = NoScan.errs /\ scan'.dev = NoScan.dev
  BY <1>2, NoScanInv
<1> QED
  BY <1>3, <1>4, NoScanInv, NothingTried DEF IInv, StartScan

LEMMA DiscoverInv == IInv /\ Discover => IInv'
<1> SUFFICES ASSUME IInv, Discover PROVE IInv'
  OBVIOUS
<1>1. PICK ports \in Answers \ {{}} :
        scan' = [scan EXCEPT !.open = ports, !.dev.type = ClassToType[ClassifyByPorts(ports)]]
  BY DEF Discover
<1>2. ports \subseteq Ports
  <2>1. PICK tcp \in SUBSET machine.ports, udp \in SUBSET {SNMPPort} : ports = tcp \cup udp
    BY DEF Answers
  <2>2. machine.ports \subseteq Ports
    BY CollectionAssumption DEF IInv, TypeOK, Machine
  <2>3. SNMPPort \in Ports
    BY DEF SNMPPort, Ports
  <2> QED
    BY <2>1, <2>2, <2>3
<1>3. ClassToType[ClassifyByPorts(ports)] \in Types
  BY ClassTypes
<1>4. TypeOK'
  BY <1>1, <1>2, <1>3 DEF IInv, TypeOK, Discover
<1>5. /\ scan.tried = [c \in Collectors |-> "no"] /\ scan.winner = None
      /\ scan.errs = {} /\ scan.dev.told = {}
  BY DEF IInv, TypeOK, Discover, PhaseInv, ResultInv
<1>6. /\ scan'.tried = scan.tried /\ scan'.winner = scan.winner
      /\ scan'.errs = scan.errs /\ scan'.dev.told = scan.dev.told
  BY <1>1 DEF IInv, TypeOK
<1>7. pc' = "collect"
  BY DEF Discover
<1> QED
  BY <1>4, <1>5, <1>6, <1>7, NothingTried DEF IInv

\* A collector that did not log in: skipped or failed, its error kept or not.
LEMMA RefusedInv ==
  ASSUME IInv, NEW c \in Collectors, Turn(c),
         NEW outcome \in {"skipped", "failed"},
         outcome = "failed" => c # "fritzbox" /\ scan.pick[c] # NoCredential,
         outcome = "skipped" => c = "fritzbox" \/ scan.pick[c] = NoCredential,
         scan' = [scan EXCEPT !.tried[c] = outcome,
                              !.errs = IF outcome = "failed" THEN @ \cup {c} ELSE @,
                              !.disturbed = @ \/ LogsIn(c)],
         UNCHANGED <<pc, loopRest>>
  PROVE  IInv'
<1>1. LogsIn(c) \in BOOLEAN
  BY DEF LogsIn
<1>2. /\ scan'.pick = scan.pick /\ scan'.open = scan.open /\ scan'.winner = scan.winner
      /\ scan'.dev = scan.dev
      /\ scan'.tried = [scan.tried EXCEPT ![c] = outcome]
      /\ scan'.errs = IF outcome = "failed" THEN scan.errs \cup {c} ELSE scan.errs
      /\ scan'.disturbed = (scan.disturbed \/ LogsIn(c))
  BY DEF IInv, TypeOK
<1>3. (scan.disturbed \/ LogsIn(c)) \in BOOLEAN
  OBVIOUS
<1>4. TypeOK'
  BY <1>2, <1>3 DEF IInv, TypeOK, loopRest
<1>5. LoopInv'
  BY <1>2 DEF IInv, TypeOK, LoopInv, Turn, Candidates, Class, For
<1>6. scan.winner = None
  BY DEF IInv, PhaseInv, Turn
<1>7. ResultInv'
  <2>1. \A d \in Collectors : scan'.tried[d] = "ok" <=> d = scan'.winner
    BY <1>2, <1>6 DEF IInv, TypeOK, ResultInv, None, Collectors
  <2>2. \A d \in Collectors :
          scan'.tried[d] = "failed" <=> scan.tried[d] = "failed" \/ (d = c /\ outcome = "failed")
    BY <1>2 DEF IInv, TypeOK, Turn
  <2>3. scan.errs = {d \in Collectors : scan.tried[d] = "failed"}
    BY <1>6 DEF IInv, ResultInv
  <2>4. scan'.errs = {d \in Collectors : scan'.tried[d] = "failed"}
    BY <1>2, <2>2, <2>3
  <2> QED
    BY <1>2, <1>6, <2>1, <2>4 DEF IInv, ResultInv
<1>8. ReasonInv'
  BY <1>2 DEF IInv, TypeOK, ReasonInv, LogsIn, loopRest
<1>9. PhaseInv'
  BY <1>2, <1>6 DEF IInv, PhaseInv, Turn
<1> QED
  BY <1>4, <1>5, <1>7, <1>8, <1>9 DEF IInv

LEMMA SkipInv == ASSUME IInv, NEW c \in Collectors, Skip(c) PROVE IInv'
<1>1. scan' = [scan EXCEPT !.tried[c] = "skipped",
                           !.errs = IF "skipped" = "failed" THEN @ \cup {c} ELSE @,
                           !.disturbed = @ \/ LogsIn(c)]
  BY DEF Skip, IInv, TypeOK
<1> QED
  BY <1>1, RefusedInv DEF Skip

LEMMA FailInv == ASSUME IInv, NEW c \in Collectors, Fail(c) PROVE IInv'
<1>1. scan' = [scan EXCEPT !.tried[c] = "failed",
                           !.errs = IF "failed" = "failed" THEN @ \cup {c} ELSE @,
                           !.disturbed = @ \/ LogsIn(c)]
  BY DEF Fail
<1> QED
  BY <1>1, RefusedInv DEF Fail, MayFail

\* A collector that logged in: the one success, the errors before it forgotten.
LEMMA SucceedInv == ASSUME IInv, NEW c \in Collectors, Succeed(c) PROVE IInv'
<1>1. PICK type \in TypesToldBy(c), told \in Told(c) :
        scan' = [scan EXCEPT !.tried[c] = "ok", !.winner = c, !.errs = {},
                             !.dev = [type |-> type, told |-> told]]
  BY DEF Succeed
<1>2. type \in Types
  BY RegistryTypes DEF TypesToldBy
<1>3. told \subseteq Sections
  BY RegistryTypes DEF Told
<1>4. /\ scan'.pick = scan.pick /\ scan'.open = scan.open /\ scan'.winner = c
      /\ scan'.errs = {} /\ scan'.disturbed = scan.disturbed
      /\ scan'.tried = [scan.tried EXCEPT ![c] = "ok"]
      /\ scan'.dev = [type |-> type, told |-> told]
  BY <1>1 DEF IInv, TypeOK
<1>5. pc = "collect" /\ pc' = "persist" /\ UNCHANGED loopRest
  BY DEF Succeed, Turn
<1>6. TypeOK'
  BY <1>1, <1>2, <1>3, <1>5 DEF IInv, TypeOK, loopRest
<1>7. scan.winner = None
  BY <1>5 DEF IInv, PhaseInv
<1>8. LoopInv'
  BY <1>4 DEF IInv, TypeOK, LoopInv, Succeed, Turn, Candidates, Class, For
<1>9. ResultInv'
  BY <1>4, <1>7 DEF IInv, TypeOK, ResultInv, None, Collectors
<1>10. ReasonInv'
  BY <1>4, <1>5 DEF IInv, TypeOK, ReasonInv, LogsIn, loopRest, Succeed
<1>11. PhaseInv'
  BY <1>4, <1>5 DEF PhaseInv, None, Collectors
<1> QED
  BY <1>6, <1>8, <1>9, <1>10, <1>11 DEF IInv

LEMMA EndLoopInv == IInv /\ EndLoop => IInv'
<1> SUFFICES ASSUME IInv, EndLoop PROVE IInv'
  OBVIOUS
<1>1. pc = "collect" /\ pc' = "persist" /\ UNCHANGED <<scan, loopRest>>
      /\ \A c \in Candidates : scan.tried[c] # "no"
  BY DEF EndLoop
<1>2. TypeOK'
  BY <1>1 DEF IInv, TypeOK, loopRest
<1> QED
  BY <1>1, <1>2 DEF IInv, LoopInv, ResultInv, ReasonInv, PhaseInv, Candidates, Class, LogsIn,
                    loopRest

LEMMA UpsertedOK ==
  ASSUME IInv, OneLogin
  PROVE  /\ Upserted \in [type : Types \cup {None}, source : Collectors \cup {"discovery", None},
                          deep : Collectors \cup {None}, from : [Sections -> Collectors \cup {None}]]
         /\ \A s \in Lists : Upserted.from[s] \in {None, Upserted.deep}
<1>1. Replaced \in [Sections -> Collectors \cup {None}]
  BY DEF IInv, TypeOK, Replaced
<1>2. Lists \subseteq Sections
  BY DEF Lists, Sections
<1>3. \A s \in Lists :
        Replaced[s] \in {None, IF scan.winner = None THEN row.deep ELSE scan.winner}
  BY <1>2 DEF IInv, ResultInv, OneLogin, Replaced
<1> QED
  BY <1>1, <1>3 DEF IInv, TypeOK, Upserted

LEMMA UpsertInv == IInv /\ OneLogin /\ Upsert => IInv' /\ OneLogin'
<1> SUFFICES ASSUME IInv, OneLogin, Upsert PROVE IInv' /\ OneLogin'
  OBVIOUS
<1>1. /\ pc = "persist" /\ pc' = "event" /\ row' = Upserted
      /\ UNCHANGED <<machine, stored, edits, scan, event, last>>
  BY DEF Upsert
<1>2. TypeOK'
  BY <1>1, UpsertedOK DEF IInv, TypeOK
<1>3. (LoopInv /\ ResultInv /\ ReasonInv /\ PhaseInv)'
  BY <1>1 DEF IInv, LoopInv, ResultInv, ReasonInv, PhaseInv, Candidates, Class, LogsIn
<1>4. OneLogin'
  BY <1>1, UpsertedOK DEF OneLogin
<1> QED
  BY <1>2, <1>3, <1>4 DEF IInv

LEMMA UpsertFailsInv == IInv /\ OneLogin /\ UpsertFails => IInv' /\ OneLogin'
<1> SUFFICES ASSUME IInv, OneLogin, UpsertFails PROVE IInv' /\ OneLogin'
  OBVIOUS
<1>1. /\ pc' = "idle" /\ scan' = NoScan /\ row' \in {row, Upserted}
      /\ event' \in {event, [status |-> "failed", collector |-> scan.winner]}
      /\ UNCHANGED <<machine, stored, edits, last>>
  BY DEF UpsertFails
<1>2. TypeOK'
  BY <1>1, UpsertedOK, NoScanInv DEF IInv, TypeOK
<1>3. OneLogin'
  BY <1>1, UpsertedOK DEF OneLogin
<1> QED
  BY <1>1, <1>2, <1>3, EndInv

LEMMA RecordInv == IInv /\ RecordEvent => IInv'
<1> SUFFICES ASSUME IInv, RecordEvent PROVE IInv'
  OBVIOUS
<1>1. /\ pc' = "idle" /\ scan' = NoScan
      /\ event' \in {event, [status |-> Status, collector |-> scan.winner]}
      /\ UNCHANGED <<machine, stored, edits, row>>
  BY DEF RecordEvent
<1>2. TypeOK'
  BY <1>1, NoScanInv DEF IInv, TypeOK, Status
<1> QED
  BY <1>1, <1>2, EndInv

\* Types, the order of the loop, the reasons of those who did not log in and the
\* kept errors: what processHost relies on, for any host and any credentials.
THEOREM CollectionInvariant == Spec => [](IInv /\ OneLogin)
<1>1. Init => IInv /\ OneLogin
  BY InitInv
<1>2. IInv /\ OneLogin /\ [Next]_vars => IInv' /\ OneLogin'
  <2> SUFFICES ASSUME IInv, OneLogin, [Next]_vars PROVE IInv' /\ OneLogin'
    OBVIOUS
  <2>1. CASE EditCredentials
    <3>1. TypeOK'
      <4>1. stored' \subseteq Credentials
        BY <2>1 DEF EditCredentials, IInv, TypeOK
      <4>2. edits' \in 0..MaxEdits
        BY <2>1, CollectionAssumption DEF EditCredentials, IInv, TypeOK
      <4>3. UNCHANGED <<machine, pc, scan, row, event>>
        BY <2>1 DEF EditCredentials
      <4> QED
        BY <4>1, <4>2, <4>3 DEF IInv, TypeOK
    <3> QED
      BY <2>1, <3>1, ScanUnchanged DEF EditCredentials, OneLogin
  <2>2. CASE StartScan
    BY <2>2, StartInv DEF StartScan, OneLogin
  <2>3. CASE Silent
    <3>1. TypeOK'
      BY <2>3, NoScanInv DEF Silent, IInv, TypeOK
    <3> QED
      BY <2>3, <3>1, EndInv DEF Silent, OneLogin
  <2>4. CASE Discover
    BY <2>4, DiscoverInv DEF Discover, OneLogin
  <2>5. ASSUME NEW c \in Collectors, Collect(c) PROVE IInv' /\ OneLogin'
    <3>1. UNCHANGED row
      BY <2>5 DEF Collect, Skip, Fail, Succeed, loopRest
    <3> QED
      BY <2>5, <3>1, SkipInv, FailInv, SucceedInv DEF Collect, OneLogin
  <2>6. CASE EndLoop
    BY <2>6, EndLoopInv DEF EndLoop, loopRest, OneLogin
  <2>7. CASE Upsert
    BY <2>7, UpsertInv
  <2>8. CASE UpsertFails
    BY <2>8, UpsertFailsInv
  <2>9. CASE RecordEvent
    BY <2>9, RecordInv DEF RecordEvent, OneLogin
  <2>10. CASE UNCHANGED vars
    <3>1. TypeOK'
      BY <2>10 DEF vars, IInv, TypeOK
    <3> QED
      BY <2>10, <3>1, ScanUnchanged DEF vars, OneLogin
  <2> QED
    BY <2>1, <2>2, <2>3, <2>4, <2>5, <2>6, <2>7, <2>8, <2>9, <2>10 DEF Next
<1> QED
  BY <1>1, <1>2, PTL DEF Spec

\* The child tables never mix the answers of two collectors.
THEOREM TablesOfOneLogin == Spec => []OneLogin
BY CollectionInvariant, PTL

\* A host with a credential that works is collected, unless something failed.
THEOREM WorkingCredentialCollects == Spec => []WorkingCredentialSuffices
<1>1. IInv => WorkingCredentialSuffices
  <2> SUFFICES ASSUME IInv, pc = "event", ~scan.disturbed,
                      NEW c \in Candidates, LogsIn(c), scan.winner = None
               PROVE  FALSE
    BY DEF WorkingCredentialSuffices, Status
  <2>1. c \in Collectors /\ scan.tried[c] # "no"
    BY DEF IInv, PhaseInv, Candidates, For
  <2>2. scan.tried[c] # "ok"
    BY <2>1 DEF IInv, ResultInv, None, Collectors
  <2>3. scan.tried[c] \in {"skipped", "failed"}
    BY <2>1, <2>2 DEF IInv, TypeOK
  <2> QED
    BY <2>1, <2>3 DEF IInv, ReasonInv
<1> QED
  BY <1>1, CollectionInvariant, PTL

\* Every event names the first that could log in, or all that failed, or nobody.
THEOREM EventsExplained == Spec => []OutcomeExplained
<1>1. IInv => OutcomeExplained
  <2> SUFFICES ASSUME IInv, pc = "event" PROVE OutcomeExplained
    BY DEF OutcomeExplained
  <2>1. Candidates \subseteq Collectors
    BY DEF Candidates, For
  <2>2. ASSUME NEW c \in Candidates, Status = "collected", Rank[c] < Rank[scan.winner]
        PROVE  scan.tried[c] \in {"skipped", "failed"}
    <3>1. scan.winner \in Collectors
      BY <2>2 DEF IInv, TypeOK, Status
    <3>2. c # scan.winner
      BY <2>1, <2>2, <3>1, RankStrict
    <3>3. scan.tried[scan.winner] = "ok"
      BY <3>1 DEF IInv, ResultInv
    <3>4. scan.tried[c] # "no"
      BY <2>2, <3>1, <3>3 DEF IInv, LoopInv
    <3> QED
      BY <2>1, <3>2, <3>4 DEF IInv, TypeOK, ResultInv
  <2>3. ASSUME scan.winner = None, NEW c \in Candidates \ {"fritzbox"}
        PROVE  scan.tried[c] = "failed" <=> scan.pick[c] # NoCredential
    <3>1. c \in Collectors /\ scan.tried[c] # "no"
      BY <2>1, <2>3 DEF IInv, PhaseInv
    <3>2. scan.tried[c] # "ok"
      BY <2>3, <3>1 DEF IInv, ResultInv, None, Collectors
    <3> QED
      BY <3>1, <3>2 DEF IInv, TypeOK, ReasonInv
  <2>4. ASSUME scan.winner = None
        PROVE  scan.errs = {c \in Candidates \ {"fritzbox"} : scan.pick[c] # NoCredential}
    <3>1. scan.errs = {c \in Collectors : scan.tried[c] = "failed"}
      BY <2>4 DEF IInv, ResultInv
    <3>2. \A c \in Collectors : scan.tried[c] = "failed" => c \in Candidates \ {"fritzbox"}
      BY DEF IInv, LoopInv, ReasonInv
    <3> QED
      BY <2>1, <2>3, <2>4, <3>1, <3>2
  <2>5. ASSUME Status = "failed"
        PROVE  scan.errs = {c \in Candidates \ {"fritzbox"} : scan.pick[c] # NoCredential}
    BY <2>4, <2>5 DEF Status
  <2>6. ASSUME Status = "discovered", NEW c \in Candidates \ {"fritzbox"}
        PROVE  scan.pick[c] = NoCredential
    BY <2>4, <2>6 DEF Status
  <2> QED
    BY <2>2, <2>5, <2>6 DEF OutcomeExplained
<1> QED
  BY <1>1, CollectionInvariant, PTL

-----------------------------------------------------------------------------
\* The event an undisturbed scan must leave, from its ports and credentials alone.
LoginWith(pick, c) == c \in machine.speaks /\ (c = "fritzbox" \/ pick[c] \in machine.admits)
Fits(open, pick, e) ==
  LET able == {c \in For(ClassifyByPorts(open)) : LoginWith(pick, c)}
      armed == {c \in For(ClassifyByPorts(open)) \ {"fritzbox"} : pick[c] # NoCredential}
  IN  IF able # {}
      THEN /\ e.status = "collected"
           /\ e.collector \in able /\ \A d \in able : ~ (Rank[d] < Rank[e.collector])
      ELSE /\ e.status = IF armed # {} THEN "failed" ELSE "discovered"
           /\ e.collector = None
Event == [status : {None, "collected", "failed", "discovered"},
          collector : Collectors \cup {None}]
LastInv == last.event # NoEvent => last.event \in Event /\ Fits(last.open, last.pick, last.event)

LEMMA FitsOne ==
  ASSUME NEW open, NEW pick, NEW e \in Event, NEW f \in Event,
         Fits(open, pick, e), Fits(open, pick, f)
  PROVE  e = f
<1> DEFINE able == {c \in For(ClassifyByPorts(open)) : LoginWith(pick, c)}
<1>1. able \subseteq Collectors
  BY DEF For
<1>2. e.status = f.status
  BY DEF Fits
<1>3. CASE able # {}
  <2>1. /\ e.collector \in able /\ f.collector \in able
        /\ ~ (Rank[e.collector] < Rank[f.collector])
        /\ ~ (Rank[f.collector] < Rank[e.collector])
    BY <1>3 DEF Fits
  <2> HIDE DEF able
  <2>2. e.collector \in Collectors /\ f.collector \in Collectors
    BY <1>1, <2>1
  <2>3. Rank[e.collector] \in Nat /\ Rank[f.collector] \in Nat
    BY <2>2, RankStrict
  <2>4. Rank[e.collector] = Rank[f.collector]
    BY <2>1, <2>3
  <2>5. e.collector = f.collector
    BY <2>2, <2>4, RankStrict
  <2> QED
    BY <1>2, <2>5 DEF Event
<1>4. CASE able = {}
  BY <1>2, <1>4 DEF Fits, Event
<1> QED
  BY <1>3, <1>4

\* An undisturbed scan leaves that event.
LEMMA EventFits ==
  ASSUME IInv, pc = "event", ~scan.disturbed
  PROVE  /\ [status |-> Status, collector |-> scan.winner] \in Event
         /\ Fits(scan.open, scan.pick, [status |-> Status, collector |-> scan.winner])
<1> DEFINE able == {c \in For(ClassifyByPorts(scan.open)) : LoginWith(scan.pick, c)}
           armed == {c \in For(ClassifyByPorts(scan.open)) \ {"fritzbox"} :
                       scan.pick[c] # NoCredential}
<1>1. [status |-> Status, collector |-> scan.winner] \in Event
  BY DEF Event, Status, IInv, TypeOK
<1>2. able = {c \in Candidates : LogsIn(c)}
      /\ armed = {c \in Candidates \ {"fritzbox"} : scan.pick[c] # NoCredential}
  BY DEF Candidates, Class, LoginWith, LogsIn
<1>3. \A c \in Collectors : scan.tried[c] \in {"skipped", "failed"} => c \notin able
  BY <1>2 DEF IInv, ReasonInv
<1>4. Candidates \subseteq Collectors
  BY DEF Candidates, For
<1> HIDE DEF able, armed
<1>5. CASE scan.winner # None
  <2>1. scan.winner \in Collectors /\ scan.tried[scan.winner] = "ok"
    BY <1>5 DEF IInv, TypeOK, ResultInv
  <2>2. scan.winner \in able
    BY <1>2, <2>1 DEF IInv, LoopInv, ReasonInv
  <2>3. ASSUME NEW d \in able, Rank[d] < Rank[scan.winner] PROVE FALSE
    <3>1. d \in Collectors /\ d \in Candidates
      BY <1>2, <1>4
    <3>2. d # scan.winner
      BY <2>1, <2>3, <3>1, RankStrict
    <3>3. scan.tried[d] # "no"
      BY <2>1, <2>3, <3>1 DEF IInv, LoopInv
    <3>4. scan.tried[d] \in {"skipped", "failed"}
      BY <3>1, <3>2, <3>3 DEF IInv, TypeOK, ResultInv
    <3> QED
      BY <1>3, <3>1, <3>4
  <2>4. Status = "collected"
    BY <1>5 DEF Status
  <2> QED
    BY <1>1, <2>2, <2>3, <2>4 DEF Fits, able
<1>6. CASE scan.winner = None
  <2>1. \A c \in Candidates : scan.tried[c] \in {"skipped", "failed"}
    BY <1>4, <1>6 DEF IInv, TypeOK, ResultInv, PhaseInv, None, Collectors
  <2>2. able = {}
    BY <1>2, <1>3, <1>4, <2>1
  <2>3. scan.errs = {c \in Collectors : scan.tried[c] = "failed"}
    BY <1>6 DEF IInv, ResultInv
  <2>4. scan.errs = armed
    <3>1. \A c \in scan.errs : c \in armed
      BY <1>2, <2>3 DEF IInv, LoopInv, ReasonInv
    <3>2. \A c \in armed : c \in scan.errs
      BY <1>2, <1>4, <2>1, <2>3 DEF IInv, ReasonInv
    <3> QED
      BY <3>1, <3>2
  <2>5. Status = IF armed # {} THEN "failed" ELSE "discovered"
    BY <1>6, <2>4 DEF Status
  <2> QED
    BY <1>1, <1>6, <2>2, <2>5 DEF Fits, able, armed
<1> QED
  BY <1>5, <1>6

\* An undisturbed scan's event is a function of what was found and stored.
THEOREM RescansAgree == Spec => []RescanAgrees
<1>1. Init => LastInv
  BY DEF Init, LastInv
<1>2. IInv /\ LastInv /\ [Next]_vars => LastInv'
  <2> SUFFICES ASSUME IInv, LastInv, [Next]_vars PROVE LastInv'
    OBVIOUS
  <2>1. UNCHANGED machine
    BY DEF Next, vars, EditCredentials, StartScan, Silent, Discover, Collect, Skip, Fail,
           Succeed, EndLoop, Upsert, UpsertFails, RecordEvent, loopRest
  <2>2. CASE UNCHANGED last
    BY <2>1, <2>2 DEF LastInv, Fits, LoginWith
  <2>3. CASE RecordEvent /\ ~scan.disturbed /\ last' # last
    <3>1. /\ pc = "event"
          /\ last' = [open |-> scan.open, pick |-> scan.pick,
                      event |-> [status |-> Status, collector |-> scan.winner]]
      BY <2>3 DEF RecordEvent
    <3> QED
      BY <2>1, <2>3, <3>1, EventFits DEF LastInv, Fits, LoginWith
  <2>4. UNCHANGED last \/ (RecordEvent /\ ~scan.disturbed /\ last' # last)
    BY DEF Next, vars, EditCredentials, StartScan, Silent, Discover, Collect, Skip, Fail,
           Succeed, EndLoop, Upsert, UpsertFails, RecordEvent, loopRest
  <2> QED
    BY <2>2, <2>3, <2>4
<1>3. IInv /\ LastInv => RescanAgrees
  <2> SUFFICES ASSUME IInv, LastInv, pc = "event", ~scan.disturbed, last.event # NoEvent,
                      last.open = scan.open, last.pick = scan.pick
               PROVE  last.event = [status |-> Status, collector |-> scan.winner]
    BY DEF RescanAgrees
  <2> QED
    BY EventFits, FitsOne DEF LastInv
<1> QED
  BY <1>1, <1>2, <1>3, CollectionInvariant, PTL DEF Spec
=============================================================================
