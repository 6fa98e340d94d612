---------------------------- MODULE SoftwareList ----------------------------
(***************************************************************************)
(* The dashboard's endless software list (Software in                      *)
(* src/web/ui/src/pages.tsx) over GET /api/software, which answers one     *)
(* offset page of the rollup of all installed software (SoftwareRollup in  *)
(* src/internal/store/queries.go).  The user types, re-sorts and scrolls   *)
(* while pages are under way; a scan may change the rollup between two.    *)
(* A browser callback runs to its end: each is one step.                   *)
(***************************************************************************)
EXTENDS SequencesExt, Integers

CONSTANTS Terms,          \* searches: [sort : {"devices", "name"}, matches : SUBSET Titles]
          Titles,         \* name and version of a software, numbered by lower(name), name, version
          Tables,         \* what the software table may count: Titles -> devices
          Page,           \* SOFTWARE_PAGE, the limit of each request
          MaxChanges,     \* bound: changes of the search or the sort
          MaxCommits,     \* bound: scans that change the table meanwhile
          MaxFailures     \* bound: requests that fail

ASSUME ListAssumption ==
  /\ Titles \subseteq Nat /\ IsFiniteSet(Titles)
  /\ Terms \subseteq [sort : {"devices", "name"}, matches : SUBSET Titles]
  /\ Tables \subseteq [Titles -> Nat]
  /\ Page \in 1..1000             \* within the limit the server accepts
  /\ MaxChanges \in Nat /\ MaxCommits \in Nat /\ MaxFailures \in Nat

VARIABLES table,          \* devices that have each title
          term,           \* q and sort, as the page shows them
          items,          \* the rows listed, each with the term it was loaded for
          offset, done,
          busy,           \* the flag that admits one request at a time
          reqs,           \* requests under way
          visible,        \* the row at the end of the list is near the view
          notice,         \* its observer is about to report that
          sound,          \* history: no reset was dropped or has failed
          read,           \* history: the search and the table the last page came from
          changes, commits, failures

listVars == <<table, term, items, offset, done, busy, reqs, visible, notice, sound,
          read, changes, commits, failures>>

\* The rows of a search: those some device has, in an order without ties.
Rows(t, count) == {x \in t.matches : count[x] > 0}

Before(t, count, x, y) ==
  \/ t.sort = "devices" /\ count[x] > count[y]
  \/ (t.sort = "devices" => count[x] = count[y]) /\ x < y

Rank(t, count, x) == Cardinality({y \in Rows(t, count) : Before(t, count, y, x)})

Rollup(t, count) ==
  [i \in 1..Cardinality(Rows(t, count)) |->
     CHOOSE x \in Rows(t, count) : Rank(t, count, x) = i - 1]

PageOf(rows, from) ==
  SubSeq(rows, from + 1, IF from + Page < Len(rows) THEN from + Page ELSE Len(rows))

\* (seen is history: the table the answer is taken from.)
Request(t, reset, from) ==
  [term |-> t, reset |-> reset, from |-> IF reset THEN 0 ELSE from,
   state |-> "sent", batch |-> <<>>, seen |-> table]

\* Mutant: nothing keeps two requests apart.
LoadMoreAlways(t, reset, from) ==
  busy' = TRUE /\ reqs' = Append(reqs, Request(t, reset, from))

\* loadMore: a call while a request is under way is dropped.
LoadMore(t, reset, from) ==
  IF busy THEN UNCHANGED <<busy, reqs>>
  ELSE busy' = TRUE /\ reqs' = Append(reqs, Request(t, reset, from))

\* The page has been mounted and its effects have run.
ListInit ==
  /\ table \in Tables
  /\ term \in Terms
  /\ items = <<>> /\ offset = 0 /\ done = FALSE
  /\ busy = TRUE /\ reqs = <<Request(term, TRUE, 0)>>
  /\ visible = TRUE /\ notice = TRUE
  /\ sound = TRUE /\ read = [term |-> term, table |-> table]
  /\ changes = 0 /\ commits = 0 /\ failures = 0

\* Both effects follow a new term: the reset, and a new observer on the last row.
ChangeTerm ==
  /\ changes < MaxChanges
  /\ changes' = changes + 1
  /\ term' \in Terms \ {term}
  /\ done' = FALSE /\ offset' = 0
  /\ LoadMore(term', TRUE, 0)
  /\ visible' \in IF done THEN BOOLEAN ELSE {visible}
  /\ notice' = TRUE
  /\ sound' = ~busy
  /\ UNCHANGED <<table, items, read, commits, failures>>

\* Scrolling moves the last row into view or out of it, and the observer reports:
\* the browser does so with the frame, before the next movement.
ScrollIn ==
  /\ ~done /\ ~visible /\ ~notice
  /\ visible' = TRUE /\ notice' = TRUE
  /\ UNCHANGED <<table, term, items, offset, done, busy, reqs, sound,
                 read, changes, commits, failures>>

ScrollOut ==
  /\ ~done /\ visible /\ ~notice
  /\ visible' = FALSE /\ notice' = TRUE
  /\ UNCHANGED <<table, term, items, offset, done, busy, reqs, sound,
                 read, changes, commits, failures>>

Notify ==
  /\ notice
  /\ notice' = FALSE
  /\ IF visible THEN LoadMore(term, FALSE, offset) ELSE UNCHANGED <<busy, reqs>>
  /\ UNCHANGED <<table, term, items, offset, done, visible, sound, read,
                 changes, commits, failures>>

\* handleSoftware: one statement, so one state of the table.
AnswerPage(i) ==
  /\ reqs[i].state = "sent"
  /\ reqs' = [reqs EXCEPT ![i].state = "answered", ![i].seen = table,
                          ![i].batch = PageOf(Rollup(reqs[i].term, table), reqs[i].from)]
  /\ UNCHANGED <<table, term, items, offset, done, busy, visible, notice, sound,
                 read, changes, commits, failures>>

Joined(r) ==
  (IF r.reset THEN <<>> ELSE items)
    \o [k \in DOMAIN r.batch |-> [title |-> r.batch[k], term |-> r.term, seen |-> r.seen]]

\* Mutant: a full page is taken for the last one.
DeliverOnce(i) ==
  LET r == reqs[i] IN
  /\ r.state = "answered"
  /\ items' = Joined(r)
  /\ offset' = r.from + Len(r.batch)
  /\ done' = (Len(r.batch) <= Page)
  /\ busy' = FALSE /\ reqs' = RemoveAt(reqs, i)
  /\ visible' \in IF done' THEN {FALSE}
                  ELSE IF Len(items') # Len(items) THEN BOOLEAN ELSE {visible}
  /\ notice' = (~done' /\ (notice \/ done \/ Len(items') # Len(items)))
  /\ read' = [term |-> r.term, table |-> r.seen]
  /\ UNCHANGED <<table, term, sound, changes, commits, failures>>

\* The answer arrives.  The last row is taken away once the list is done;
\* otherwise a list of another length gets a new observer, which reports at once.
Deliver(i) ==
  LET r == reqs[i] IN
  /\ r.state = "answered"
  /\ items' = Joined(r)
  /\ offset' = r.from + Len(r.batch)
  /\ done' = (Len(r.batch) < Page)
  /\ busy' = FALSE /\ reqs' = RemoveAt(reqs, i)
  /\ visible' \in IF done' THEN {FALSE}
                  ELSE IF Len(items') # Len(items) THEN BOOLEAN ELSE {visible}
  /\ notice' = (~done' /\ (notice \/ done \/ Len(items') # Len(items)))
  /\ read' = [term |-> r.term, table |-> r.seen]
  /\ UNCHANGED <<table, term, sound, changes, commits, failures>>

\* Mutant: the flag is lowered only when a page has arrived.
FailBusy(i) ==
  /\ failures < MaxFailures
  /\ failures' = failures + 1
  /\ reqs' = RemoveAt(reqs, i)
  /\ UNCHANGED <<table, term, items, offset, done, busy, visible, notice, sound, read,
                 changes, commits>>

\* A failed request leaves the list, its offset and its end as they are.  The
\* rows of the old term stay when it was the first page of a new one.
Fail(i) ==
  /\ failures < MaxFailures
  /\ failures' = failures + 1
  /\ busy' = FALSE /\ reqs' = RemoveAt(reqs, i)
  /\ sound' = (sound /\ (reqs[i].reset => items = <<>>))
  /\ UNCHANGED <<table, term, items, offset, done, visible, notice, read, changes, commits>>

\* A scan stores another inventory.
Commit ==
  /\ commits < MaxCommits
  /\ commits' = commits + 1
  /\ table' \in Tables \ {table}
  /\ UNCHANGED <<term, items, offset, done, busy, reqs, visible, notice, sound, read,
                 changes, failures>>

FetchPage == \E i \in DOMAIN reqs : AnswerPage(i) \/ Deliver(i) \/ Fail(i)

ListNext == ChangeTerm \/ ScrollIn \/ ScrollOut \/ Notify \/ FetchPage \/ Commit

ListSpec == ListInit /\ [][ListNext]_listVars

\* Requests end and observers report; the user need not do anything.
ListFairSpec == ListSpec /\ WF_listVars(Notify) /\ WF_listVars(FetchPage)

-----------------------------------------------------------------------------
ListRow == [title : Titles, term : Terms, seen : Tables]

PageRequest == [term : Terms, reset : BOOLEAN, from : Nat, state : {"sent", "answered"},
                batch : Seq(Titles), seen : Tables]

ListTypeOK ==
  /\ table \in Tables /\ term \in Terms
  /\ items \in Seq(ListRow)
  /\ offset \in Nat
  /\ done \in BOOLEAN /\ busy \in BOOLEAN /\ sound \in BOOLEAN
  /\ visible \in BOOLEAN /\ notice \in BOOLEAN
  /\ reqs \in Seq(PageRequest)
  /\ read \in [term : Terms, table : Tables]
  /\ changes \in 0..MaxChanges /\ commits \in 0..MaxCommits /\ failures \in 0..MaxFailures

\* The flag and the offset are shared by callbacks of different renders: one
\* request at a time, none for a list that is done, and unless a reset was dropped
\* it is for the present search and asks for the place the offset says.
ListInv ==
  /\ ListTypeOK
  /\ Len(reqs) = IF busy THEN 1 ELSE 0
  /\ done => ~visible /\ ~notice /\ ~busy
  /\ \A i \in DOMAIN reqs :
       /\ IF reqs[i].reset THEN reqs[i].from = 0 /\ offset = 0 ELSE offset \in {0, reqs[i].from}
       /\ sound => reqs[i].term = term /\ reqs[i].from = offset
       /\ reqs[i].state = "answered" =>
            reqs[i].batch = PageOf(Rollup(reqs[i].term, reqs[i].seen), reqs[i].from)

\* The place the next row gets in the rollup: asked for, or about to be.
NextPlace == IF busy THEN reqs[1].from ELSE offset

\* A row stands where it stood in the rollup it was read from.
InPlace(row, k) ==
  LET rows == Rollup(row.term, row.seen) IN k \in DOMAIN rows /\ row.title = rows[k]

\* The pages join, whatever a scan stores between two: as long as the place asked
\* for is where the list ends, every row is in its place, so rows read from one
\* state of the table are in its order without a gap or a repeated row, and a list
\* that is done reaches to the end of the last state read.  Only a request that
\* fails after its reset was dropped, or with it, parts the place from the end;
\* short of that every row is of the present search.
ListExact ==
  (~\E i \in DOMAIN reqs : reqs[i].reset) =>
    /\ sound => NextPlace = Len(items) /\ \A k \in DOMAIN items : items[k].term = term
    /\ NextPlace = Len(items) =>
         /\ \A k \in DOMAIN items : InPlace(items[k], k)
         /\ done => Len(Rollup(read.term, read.table)) <= Len(items)

\* What the page says of itself (pages.tsx:407): a changed search or sort resets
\* the list.  So once nothing is under way, every row belongs to the present one.
RowsBelongToTerm == ~busy => \A k \in DOMAIN items : items[k].term = term

\* Nobody can go on for ever scrolling the end of the list in and out of view
\* without getting to the end: whatever failed or was dropped before, the list
\* goes on loading.
ScrollingEnds == ~([]<>visible /\ []<>(~visible /\ ~done))
=============================================================================
