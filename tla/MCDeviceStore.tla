---------------------------- MODULE MCDeviceStore ----------------------------
(* Reports as the collectors make them.  srv is a Windows server: WinRM      *)
(* gives its serial, and it answers on two addresses; nas is reached by SSH, *)
(* which never fills the serial.  Both have the bridge MAC "docker", and nas *)
(* spells its host name differently in its two reports.                      *)
EXTENDS DeviceStore

MCMachines == {"srv", "nas"}
MCMacs == {"m-srv", "m-nas", "docker"}
MCRandomMacs == {"docker"}
MCValues ==
  {"", "unknown", "windows", "linux", "mac", "discovery", "ssh", "winrm",
   "srv", "nas", "NAS", "a1", "a2", "a3", "S1", "sw1", "sw2", "Win", "OS"}
MCLowerOf == [h \in MCValues |-> IF h = "NAS" THEN "nas" ELSE h]

Blank ==
  [machine |-> "srv", macs |-> {}, type |-> "unknown", host |-> "", ip |-> "",
   serial |-> "", guid |-> "", source |-> "discovery", sw |-> "", os |-> "nil",
   collected |-> FALSE]

SrvFound == [Blank EXCEPT !.ip = "a1", !.type = "windows"]
SrvWinRM ==
  [SrvFound EXCEPT !.serial = "S1", !.host = "srv", !.macs = {"m-srv", "docker"},
                   !.source = "winrm", !.sw = "sw1", !.os = "Win",
                   !.collected = TRUE]
SrvOther == [SrvWinRM EXCEPT !.ip = "a3"]
NasFound == [Blank EXCEPT !.machine = "nas", !.ip = "a2"]
NasSSH ==
  [NasFound EXCEPT !.type = "mac", !.host = "nas", !.macs = {"m-nas", "docker"},
                   !.source = "ssh", !.sw = "sw2", !.os = "OS",
                   !.collected = TRUE]
\* A locked-down session: host name and nothing else, no OS name either.
NasThin == [NasSSH EXCEPT !.host = "NAS", !.macs = {}, !.os = "", !.type = "linux"]

\* One worker persists one report after the other (a sequential history).
OneWorker == {"w"}
Sequential == [w \in OneWorker |-> {SrvFound, SrvWinRM, NasFound, NasSSH, NasThin}]

\* Two workers: the server is met on both its addresses, and the NAS between.
TwoWorkers == {"w1", "w2"}
TwoAddresses == [w \in TwoWorkers |-> IF w = "w1" THEN {SrvWinRM} ELSE {SrvOther}]
Concurrent == [w \in TwoWorkers |-> IF w = "w1" THEN {SrvWinRM, NasSSH, NasFound} ELSE {SrvOther}]

\* The bridge MAC is shared, and is one that does not identify; srv keeps its serial
\* or, when one worker meets it, its address, nas its address.  Each has a type.
ASSUME ReportsAssumption ==
  MachinesDiffer /\ MachinesKeepAKey /\ OSFromCollectors /\ TypesGiven
=============================================================================
