--------------------------- MODULE HostCollection ---------------------------
(***************************************************************************)
(* What repeated scans make of one address: the sweep and the SNMP probe,  *)
(* the class guessed from the ports, the collectors of that class in the   *)
(* order of their registration, each with the first stored credential of   *)
(* its kind, and the device row that is left (src/internal/scan,           *)
(* fingerprint, collector).  The machine behind the address stays the same;*)
(* what it answers may get lost.  An administrator edits the credentials   *)
(* meanwhile.  Scans of the address do not overlap here: that they may is  *)
(* the subject of DeviceStore; related devices are ScanEngine's.           *)
(***************************************************************************)
EXTENDS Integers, FiniteSets

CONSTANTS Credentials,  \* rows an administrator may create
          Machines,     \* the machines that may stand behind the address
          MaxEdits      \* bound: edits of the credential table

Collectors == {"ssh", "snmp", "wmi", "winrm", "proxmox", "opnsense", "fortigate", "fritzbox"}
Ports == {22, 80, 135, 139, 161, 443, 445, 515, 631, 3389, 5985, 5986, 8006, 9100, 49000}
SNMPPort == 161
Classes == {"windows", "linux", "snmp", "hypervisor", "unknown"}
Types == {"windows", "linux", "mac", "switch", "hypervisor", "firewall", "router", "unknown"}

\* What can be known about a device: scalar columns (host, serial), one-row
\* tables (os, hw) and tables that are cleared and filled again (Lists).
Sections == {"host", "serial", "os", "hw", "ifaces", "software", "users"}
Lists == {"ifaces", "software", "users"}

\* name: its place in the order of the names; opens: the vault can unseal it.
Credential == [name : Nat, kind : STRING, opens : BOOLEAN]

\* speaks: the collectors whose protocol it serves; admits: whose login it
\* accepts; has: what there is to be told about it.
Machine == [ports : SUBSET (Ports \ {SNMPPort}), speaks : SUBSET Collectors,
            admits : SUBSET Credentials, darwin : BOOLEAN, has : SUBSET Sections]

ASSUME CollectionAssumption ==
  /\ Credentials \subseteq Credential
  /\ Machines \subseteq Machine
  /\ MaxEdits \in Nat

None == "none"
NoCredential == [kind |-> None]

VARIABLES machine,      \* the machine behind the address
          stored,       \* credential table
          edits,        \* edits of the table so far
          pc,           \* "idle" "sweep" "collect" "persist" "event"
          scan,         \* the local variables of the scan in progress
          row,          \* the device row, and where its child rows come from
          event,        \* the latest scan_event row
          last          \* history: ports, credentials and event of the last undisturbed scan

vars == <<machine, stored, edits, pc, scan, row, event, last>>

-----------------------------------------------------------------------------
\* The order in which collectors.go registers them.
Rank == [ssh |-> 1, snmp |-> 2, wmi |-> 3, winrm |-> 4, proxmox |-> 5,
         opnsense |-> 6, fortigate |-> 7, fritzbox |-> 8]

\* Each collector: the classes it supports, the kinds of credential it takes, the
\* types it reports, what its result says whatever the host answers (sure), what
\* else it cannot miss without failing as a whole (strict), and what else it asks
\* for: an error there leaves the section empty and the collection a success.
\* SSH asks for everything by shell commands whose errors it ignores.
SSH ==
  [classes |-> {"linux", "mac", "unknown"}, kinds |-> {"ssh-password", "ssh-key"},
   types |-> {"linux", "mac"}, sure |-> {"os"}, strict |-> {},
   asks |-> {"host", "hw", "ifaces", "software", "users"}]
\* One GET for the name and sysDescr, then walks whose errors are ignored.
SNMP ==
  [classes |-> {"snmp", "firewall"}, kinds |-> {"snmp-v2c", "snmp-v3"},
   types |-> {"switch"}, sure |-> {}, strict |-> {"host", "os"}, asks |-> {"hw", "ifaces"}]
\* The sidecar exits with an error for any query but those of the registry.
WMI ==
  [classes |-> {"windows"}, kinds |-> {"wmi"}, types |-> {"windows"},
   sure |-> {"os", "hw"}, strict |-> {"host", "serial", "ifaces", "users"},
   asks |-> {"software"}]
\* The script runs with SilentlyContinue.
WinRM ==
  [classes |-> {"windows"}, kinds |-> {"winrm"}, types |-> {"windows"},
   sure |-> {"os", "hw"}, strict |-> {},
   asks |-> {"host", "serial", "ifaces", "software", "users"}]
\* An unreadable node list leaves name and hardware empty.
Proxmox ==
  [classes |-> {"hypervisor"}, kinds |-> {"proxmox-token"}, types |-> {"hypervisor"},
   sure |-> {"os"}, strict |-> {}, asks |-> {"host", "hw"}]
OPNsense ==
  [classes |-> {"firewall", "unknown"}, kinds |-> {"opnsense-api"}, types |-> {"firewall"},
   sure |-> {"os"}, strict |-> {}, asks |-> {}]
FortiGate ==
  [classes |-> {"firewall", "unknown"}, kinds |-> {"fortigate-token"}, types |-> {"firewall"},
   sure |-> {"os"}, strict |-> {"host", "serial", "hw"}, asks |-> {}]
\* No credential: the device description is public.
FRITZBox ==
  [classes |-> {"firewall", "unknown"}, kinds |-> {}, types |-> {"router"},
   sure |-> {"hw"}, strict |-> {"os", "ifaces"}, asks |-> {}]

Registry == [ssh |-> SSH, snmp |-> SNMP, wmi |-> WMI, winrm |-> WinRM, proxmox |-> Proxmox,
             opnsense |-> OPNsense, fortigate |-> FortiGate, fritzbox |-> FRITZBox]

For(class) == {c \in Collectors : class \in Registry[c].classes}

ClassifyByPorts(ports) ==
  IF ports \cap {5985, 5986, 3389, 135} # {} THEN "windows"
  ELSE IF SNMPPort \in ports THEN "snmp"
  ELSE IF 8006 \in ports THEN "hypervisor"
  ELSE IF 22 \in ports THEN "linux"
  ELSE IF ports \cap {445, 139} # {} THEN "windows"
  ELSE IF ports \cap {9100, 631, 515} # {} THEN "snmp" ELSE "unknown"

ClassToType == [windows |-> "windows", linux |-> "linux", snmp |-> "switch",
                hypervisor |-> "hypervisor", unknown |-> "unknown"]

Class == ClassifyByPorts(scan.open)
Candidates == For(Class)

\* A Mac is told from a Linux host by uname, whose failure leaves "linux".
TypesToldBy(c) == IF machine.darwin THEN Registry[c].types ELSE Registry[c].types \ {"mac"}

Told(c) ==
  {Registry[c].sure \cup (Registry[c].strict \cap machine.has) \cup more :
     more \in SUBSET (Registry[c].asks \cap machine.has)}

-----------------------------------------------------------------------------
NoEvent == [status |-> None, collector |-> None]
NoRow == [type |-> None, source |-> None, deep |-> None, from |-> [s \in Sections |-> None]]

\* pick: the first unsealed credential of each collector's kinds; tried: what
\* became of each collector, "no" "skipped" "failed" or "ok"; winner and errs:
\* HostResult.Collector and collectErrs; dev: the device to persist; disturbed:
\* a history, a connection or a database call failed in this scan.
NoScan ==
  [pick  |-> [c \in Collectors |-> NoCredential], open |-> {},
   tried |-> [c \in Collectors |-> "no"], winner |-> None, errs |-> {},
   dev   |-> [type |-> "unknown", told |-> {}], disturbed |-> FALSE]

Init ==
  /\ machine \in Machines
  /\ stored = {}
  /\ edits = 0
  /\ pc = "idle"
  /\ scan = NoScan
  /\ row = NoRow
  /\ event = NoEvent
  /\ last = [open |-> {}, pick |-> NoScan.pick, event |-> NoEvent]

EditCredentials ==
  /\ edits < MaxEdits
  /\ edits' = edits + 1
  /\ \E c \in Credentials :
       stored' = IF c \in stored THEN stored \ {c} ELSE stored \cup {c}
  /\ UNCHANGED <<machine, pc, scan, row, event, last>>

\* ListCredentials orders by name; DecryptCredentials drops what it cannot
\* unseal; pickCredential takes the first.
FirstOf(c) ==
  LET mine == {x \in stored : x.opens /\ x.kind \in Registry[c].kinds}
  IN  IF mine = {} THEN NoCredential
      ELSE CHOOSE x \in mine : \A y \in mine : x.name <= y.name

StartScan ==
  /\ pc = "idle"
  /\ scan' = [NoScan EXCEPT !.pick = [c \in Collectors |-> FirstOf(c)]]
  /\ pc' = "sweep"
  /\ UNCHANGED <<machine, stored, edits, row, event, last>>

LogsIn(c) == c \in machine.speaks /\ (c = "fritzbox" \/ scan.pick[c] \in machine.admits)

\* Any dial of the sweep may time out and any datagram of the probe, which asks
\* with the first SNMP credential, may get lost.
Answers ==
  {tcp \cup udp : tcp \in SUBSET machine.ports,
                  udp \in SUBSET (IF LogsIn("snmp") THEN {SNMPPort} ELSE {})}

\* A host that is silent altogether is not live.
Silent ==
  /\ pc = "sweep"
  /\ pc' = "idle" /\ scan' = NoScan
  /\ UNCHANGED <<machine, stored, edits, row, event, last>>

\* Mutant: a host that was collected before is only refreshed.
DiscoverKnown ==
  /\ pc = "sweep"
  /\ \E ports \in Answers \ {{}} :
       scan' = [scan EXCEPT !.open = ports, !.dev.type = ClassToType[ClassifyByPorts(ports)]]
  /\ pc' = IF row.deep = None THEN "collect" ELSE "persist"
  /\ UNCHANGED <<machine, stored, edits, row, event, last>>

Discover ==
  /\ pc = "sweep"
  /\ \E ports \in Answers \ {{}} :
       scan' = [scan EXCEPT !.open = ports, !.dev.type = ClassToType[ClassifyByPorts(ports)]]
  /\ pc' = "collect"
  /\ UNCHANGED <<machine, stored, edits, row, event, last>>

-----------------------------------------------------------------------------
\* Mutant: the registry does not keep the order of registration.
TurnUnordered(c) == pc = "collect" /\ c \in Candidates /\ scan.tried[c] = "no"

\* The next collector of the class.
Turn(c) ==
  /\ pc = "collect"
  /\ c \in Candidates /\ scan.tried[c] = "no"
  /\ \A d \in Candidates : Rank[d] < Rank[c] => scan.tried[d] # "no"

loopRest == <<machine, stored, edits, row, event, last>>

\* Collect returns ErrNoCredential: there is none, or no FRITZ!Box answers.
Skip(c) ==
  /\ Turn(c)
  /\ c # "fritzbox" => scan.pick[c] = NoCredential
  /\ scan' = [scan EXCEPT !.tried[c] = "skipped", !.disturbed = @ \/ LogsIn(c)]
  /\ UNCHANGED <<pc, loopRest>>

\* Collect may return another error: refused, another product, or out of reach.
MayFail(c) == Turn(c) /\ c # "fritzbox" /\ scan.pick[c] # NoCredential

\* Mutant: only the latest error is kept.
FailMasking(c) ==
  /\ MayFail(c)
  /\ scan' = [scan EXCEPT !.tried[c] = "failed", !.errs = {c}, !.disturbed = @ \/ LogsIn(c)]
  /\ UNCHANGED <<pc, loopRest>>

\* Mutant: the first error ends the loop.
FailAndStop(c) ==
  /\ MayFail(c)
  /\ scan' = [scan EXCEPT !.tried[c] = "failed", !.errs = @ \cup {c},
                          !.disturbed = @ \/ LogsIn(c)]
  /\ pc' = "persist"
  /\ UNCHANGED loopRest

Fail(c) ==
  /\ MayFail(c)
  /\ scan' = [scan EXCEPT !.tried[c] = "failed", !.errs = @ \cup {c},
                          !.disturbed = @ \/ LogsIn(c)]
  /\ UNCHANGED <<pc, loopRest>>

\* The result replaces the device discovery made, the loop ends.
Succeed(c) ==
  /\ Turn(c) /\ LogsIn(c)
  /\ \E type \in TypesToldBy(c), told \in Told(c) :
       scan' = [scan EXCEPT !.tried[c] = "ok", !.winner = c, !.errs = {},
                            !.dev = [type |-> type, told |-> told]]
  /\ pc' = "persist"
  /\ UNCHANGED loopRest

Collect(c) == Skip(c) \/ Fail(c) \/ Succeed(c)

EndLoop ==
  /\ pc = "collect"
  /\ \A c \in Candidates : scan.tried[c] # "no"
  /\ pc' = "persist"
  /\ UNCHANGED <<scan, loopRest>>

\* Mutant: lists the collector says nothing about are left alone.
ReplacedToldOnly ==
  [s \in Sections |-> IF s \in scan.dev.told THEN scan.winner ELSE row.from[s]]

\* Where each section comes from after replaceChildren and the COALESCEs.
Replaced ==
  [s \in Sections |->
     IF s \in scan.dev.told THEN scan.winner
     ELSE IF s \in Lists /\ scan.winner # None THEN None ELSE row.from[s]]

\* INSERT takes the type as it is, UPDATE keeps the old one for "unknown".
Upserted ==
  [type   |-> IF scan.dev.type = "unknown" /\ row # NoRow THEN row.type ELSE scan.dev.type,
   source |-> IF scan.winner = None THEN "discovery" ELSE scan.winner,
   deep   |-> IF scan.winner = None THEN row.deep ELSE scan.winner,
   from   |-> Replaced]

Upsert ==
  /\ pc = "persist"
  /\ row' = Upserted
  /\ pc' = "event"
  /\ UNCHANGED <<machine, stored, edits, scan, event, last>>

\* The row may be there although the answer is an error: COMMIT's may get lost.
UpsertFails ==
  /\ pc = "persist"
  /\ row' \in {row, Upserted}
  /\ event' \in {event, [status |-> "failed", collector |-> scan.winner]}
  /\ pc' = "idle" /\ scan' = NoScan
  /\ UNCHANGED <<machine, stored, edits, last>>

Status ==
  IF scan.winner # None THEN "collected"
  ELSE IF scan.errs # {} THEN "failed" ELSE "discovered"

\* A failed INSERT of the event is only logged.
RecordEvent ==
  /\ pc = "event"
  /\ \/ /\ event' = [status |-> Status, collector |-> scan.winner]
        /\ last' = IF scan.disturbed THEN last
                   ELSE [open |-> scan.open, pick |-> scan.pick, event |-> event']
     \/ UNCHANGED <<event, last>>
  /\ pc' = "idle" /\ scan' = NoScan
  /\ UNCHANGED <<machine, stored, edits, row>>

Next ==
  \/ EditCredentials
  \/ StartScan \/ Silent \/ Discover
  \/ \E c \in Collectors : Collect(c)
  \/ EndLoop
  \/ Upsert \/ UpsertFails \/ RecordEvent

Spec == Init /\ [][Next]_vars

-----------------------------------------------------------------------------
Pick == [Collectors -> Credentials \cup {NoCredential}]

TypeOK ==
  /\ machine \in Machines
  /\ stored \subseteq Credentials
  /\ edits \in 0..MaxEdits
  /\ pc \in {"idle", "sweep", "collect", "persist", "event"}
  /\ scan \in [pick : Pick, open : SUBSET Ports,
               tried : [Collectors -> {"no", "skipped", "failed", "ok"}],
               winner : Collectors \cup {None}, errs : SUBSET Collectors,
               dev : [type : Types, told : SUBSET Sections], disturbed : BOOLEAN]
  /\ row \in [type : Types \cup {None}, source : Collectors \cup {"discovery", None},
              deep : Collectors \cup {None}, from : [Sections -> Collectors \cup {None}]]
  /\ event \in [status : {None, "collected", "failed", "discovered"},
                collector : Collectors \cup {None}]

\* The loop goes through the candidates in their order, and only those.
LoopInv ==
  \A c \in Collectors : scan.tried[c] # "no" =>
    c \in Candidates /\ \A d \in Candidates : Rank[d] < Rank[c] => scan.tried[d] # "no"

\* The one that logged in is the last one tried; errors are kept until then.
ResultInv ==
  /\ \A c \in Collectors : scan.tried[c] = "ok" <=> c = scan.winner
  /\ scan.errs = IF scan.winner # None THEN {}
                 ELSE {c \in Collectors : scan.tried[c] = "failed"}
  /\ scan.winner = None => scan.dev.told = {}

\* Whoever did not log in has a reason, and who did was let in.
ReasonInv ==
  \A c \in Collectors :
    /\ scan.tried[c] = "ok" => LogsIn(c)
    /\ scan.tried[c] = "failed" => c # "fritzbox" /\ scan.pick[c] # NoCredential
    /\ scan.tried[c] = "skipped" /\ c # "fritzbox" => scan.pick[c] = NoCredential
    /\ scan.tried[c] \in {"skipped", "failed"} /\ LogsIn(c) => scan.disturbed

PhaseInv ==
  /\ pc = "sweep" => \A c \in Collectors : scan.tried[c] = "no"
  /\ scan.winner # None => pc \in {"persist", "event"}
  /\ pc \in {"persist", "event"} /\ scan.winner = None =>
       \A c \in Candidates : scan.tried[c] # "no"

\* The tables that are cleared and filled again hold one collector's answers, the
\* latest that logged in: software one of them found never stands beside accounts
\* of another (replaceChildren, devices.go:198-243, run after any of eight).
OneLogin == \A s \in Lists : row.from[s] \in {None, row.deep}

\* Types, and what each step of a scan may rely on.
IInv == TypeOK /\ LoopInv /\ ResultInv /\ ReasonInv /\ PhaseInv

\* If any collector of the host's class has a credential that the machine accepts
\* as the first of its kind, the scan ends collected, whatever the others before it
\* made of the host, unless a connection or the database failed (engine.go:137-155).
WorkingCredentialSuffices ==
  pc = "event" /\ ~scan.disturbed /\ (\E c \in Candidates : LogsIn(c)) => Status = "collected"

\* The event a scan leaves is accounted for: collected by the first of the class
\* that could; failed with the error of every collector that had a credential,
\* none masking another; and a host nobody has a credential for is never failed
\* (engine.go:140-148, collector.go:15-18).
OutcomeExplained ==
  pc = "event" =>
    /\ \A c \in Candidates :
         Status = "collected" /\ Rank[c] < Rank[scan.winner]
           => scan.tried[c] \in {"skipped", "failed"}
    /\ Status = "failed" =>
         scan.errs = {c \in Candidates \ {"fritzbox"} : scan.pick[c] # NoCredential}
    /\ Status = "discovered" =>
         \A c \in Candidates \ {"fritzbox"} : scan.pick[c] = NoCredential

\* A scan depends on the host and the credentials, not on the scan before it: an
\* undisturbed one that finds the same ports with the same credentials comes to the
\* same event as the last undisturbed one (processHost's local variables).
RescanAgrees ==
  pc = "event" /\ ~scan.disturbed /\ last.event # NoEvent
    /\ last.open = scan.open /\ last.pick = scan.pick
  => last.event = [status |-> Status, collector |-> scan.winner]
=============================================================================
