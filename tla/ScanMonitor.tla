---------------------------- MODULE ScanMonitor ----------------------------
(***************************************************************************)
(* The dashboard's page of one scan (ScanDetailPage in                     *)
(* src/web/ui/src/pages.tsx) beside the run it watches.  Each poll is      *)
(* GET /api/scans/{id}, which reads the scan_run row and then, in a        *)
(* statement of its own, the scan_event rows (handleScanDetail in          *)
(* src/internal/api/handlers_read.go): the engine may write in between.    *)
(***************************************************************************)
EXTENDS ScanEngine

CONSTANT EventLimit       \* most events an answer carries

ASSUME MonitorAssumption == EventLimit \in Nat \ {0}

VARIABLE page             \* where the page is, and what it has of the present answer:
                          \* the row's status and total, the hosts with an event

mvars == <<vars, page>>

Closed == [pc |-> "closed", status |-> "none", total |-> 0, shown |-> {}]
Polling == [Closed EXCEPT !.pc = "row"]

MInit == Init /\ page = Closed

\* The list of scans links to runs that have a row.
OpenPage ==
  /\ page.pc = "closed" /\ run.status # "none"
  /\ page' = Polling

\* GetScanRun.
ReadRow ==
  /\ up /\ page.pc = "row"
  /\ page' = [page EXCEPT !.pc = "events", !.status = run.status, !.total = run.discovered]

\* The newest events up to the limit: which of them are newest is left open.
Newest == {s \in SUBSET Reported :
             \/ s = Reported /\ Cardinality(s) <= EventLimit
             \/ Cardinality(s) = EventLimit}

\* Mutant: polling stops once all the discovered hosts have their event.
ReadEventsUntilAll ==
  /\ up /\ page.pc = "events"
  /\ \E s \in Newest :
       page' = IF Cardinality(s) < page.total THEN Polling
               ELSE [page EXCEPT !.pc = "rest", !.shown = s]

\* Mutant: polling goes on until the status reads "finished", which no run has.
ReadEventsForever ==
  /\ up /\ page.pc = "events"
  /\ \E s \in Newest :
       page' = IF page.status # "finished" THEN Polling
               ELSE [page EXCEPT !.pc = "rest", !.shown = s]

\* ListScanEvents, and the answer arrives.  While it says running the page polls
\* on: what it shows meanwhile is left out, and the two seconds of its timer are
\* part of the wait for the next row.
ReadEvents ==
  /\ up /\ page.pc = "events"
  /\ \E s \in Newest :
       page' = IF page.status = "running" THEN Polling
               ELSE [page EXCEPT !.pc = "rest", !.shown = s]

\* Any failure replaces the page by an error message and sets no timer: as good
\* as closed, until the user opens it again.
PollFails ==
  /\ page.pc \in {"row", "events"}
  /\ page' = Closed

\* The effect's cleanup stops the timer, and a late answer is dropped ("live").
Leave ==
  /\ page.pc # "closed"
  /\ page' = Closed

Fetch == (ReadRow \/ ReadEvents \/ PollFails) /\ UNCHANGED vars

MNext ==
  \/ Next /\ UNCHANGED page
  \/ Fetch
  \/ (OpenPage \/ Leave) /\ UNCHANGED vars

MSpec == MInit /\ [][MNext]_mvars

\* A request is answered or fails, and the timer fires; nobody has to open the
\* page or to stay on it.
MFairSpec ==
  /\ MSpec
  /\ WF_mvars(Engine /\ UNCHANGED page)
  /\ \A h \in AllJobs : WF_mvars(Host(h) /\ UNCHANGED page)
  /\ WF_mvars(Fetch)

-----------------------------------------------------------------------------
PageOK ==
  /\ page \in [pc : {"closed", "row", "events", "rest"},
               status : {"none", "running", "ok"}, total : Nat, shown : SUBSET AllJobs]
  /\ page.pc \in {"closed", "row"} => page = [Closed EXCEPT !.pc = page.pc]

\* The inductive invariant: a page that read a terminal row did so after the
\* last write of the run, and what it shows is in the tables.
MInv ==
  /\ IInv /\ PageOK
  /\ page.pc # "closed" => run.status # "none"
  /\ page.pc = "events" => page.status # "none"
  /\ page.status = "ok" => run.status = "ok" /\ page.total = run.discovered
  /\ page.total # 0 => page.total = run.discovered
  /\ page.shown \subseteq Reported
  /\ page.pc = "rest" => page.status = "ok" /\ page.shown \in Newest

\* A page that has stopped polling shows the run as it ended: its terminal
\* status, its total, and all its events up to the limit - although row and
\* events were read apart.
FinalViewComplete ==
  page.pc = "rest" =>
    /\ page.status = run.status /\ page.status # "running" /\ page.total = run.discovered
    /\ IF Cardinality(Reported) <= EventLimit THEN page.shown = Reported
       ELSE page.shown \subseteq Reported /\ Cardinality(page.shown) = EventLimit

\* A page that is opened comes to rest, unless a poll fails, the user leaves it or
\* the run it watches is cut short.
PageSettles ==
  page.pc = "row" ~>
    \/ page.pc \in {"rest", "closed"}
    \/ cancelled \/ ~up \/ faults > 0 \/ \E h \in jobs : At(h, "hung")
=============================================================================
