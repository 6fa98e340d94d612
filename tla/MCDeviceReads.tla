---------------------------- MODULE MCDeviceReads ----------------------------
(* The sequential history of MCDeviceStore with somebody looking at it, one    *)
(* device to a page of the list: every second device opens another page.       *)
EXTENDS MCDeviceStore, DeviceReads

\* What RescanIsStable needs besides.
ASSUME SourcesAssumption == \A m \in Machines : OneSource(m)
=============================================================================
