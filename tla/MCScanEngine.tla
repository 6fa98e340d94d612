---------------------------- MODULE MCScanEngine ----------------------------
(* Three hosts on two workers: one waits while two are processed.  h1 is the  *)
(* hypervisor, h3 of a class without collectors.  An answer to the page's     *)
(* poll carries two of the three events.                                      *)
EXTENDS ScanMonitor

MCNumCollectors == [h \in AllJobs |-> IF h = "h3" THEN 0 ELSE 1]
=============================================================================
