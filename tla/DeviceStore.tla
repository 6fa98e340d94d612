---------------------------- MODULE DeviceStore ----------------------------
(***************************************************************************)
(* Store.UpsertDevice (src/internal/store/devices.go) run by concurrent    *)
(* scan workers.  A transaction is a sequence of statements; PostgreSQL's  *)
(* READ COMMITTED lets each statement see whatever is committed when it    *)
(* starts, and its own writes.  A transaction's writes stay in its txn     *)
(* record until it commits, while the row lock its INSERT or UPDATE took   *)
(* keeps other writers of that row waiting.                                *)
(*                                                                         *)
(* A device is abstracted to its identity keys, its type and source, one   *)
(* token for its software, users and hardware, and one for its OS.  The    *)
(* machine field of a report is a ghost: the real machine it came from.    *)
(***************************************************************************)
EXTENDS Integers, FiniteSets

CONSTANTS Workers,      \* goroutines that may run UpsertDevice
          Machines,     \* the real machines on the network
          Values,       \* non-MAC field values, None among them
          Macs,         \* interface MACs
          RandomMacs,   \* those with the locally administered bit (or unparseable)
          ReportsOf,    \* [Workers -> the device reports a worker may persist]
          LowerOf,      \* [hostname -> lower(hostname)]
          None,         \* an empty or NULL field
          NoOS,         \* d.OS == nil
          MaxUpserts    \* bound: upserts begun

Report ==
  [machine : Machines, macs : SUBSET Macs, type : Values, host : Values,
   ip : Values, serial : Values, guid : Values, source : Values, sw : Values,
   os : Values \cup {NoOS}, collected : BOOLEAN]

ASSUME StoreAssumption ==
  /\ MaxUpserts \in Nat
  /\ None \in Values /\ NoOS \notin Values
  /\ ReportsOf \in [Workers -> SUBSET Report]
  /\ LowerOf \in [Values -> Values]

VARIABLES rows,         \* device table, committed: id -> row
          kids,         \* child tables, committed: id -> [macs, sw, os]
          txn,          \* worker -> its transaction
          begun,        \* number of upserts begun
          shown,        \* history: id -> field -> what the change timeline says
          owner,        \* history: id -> machines merged into the row
          last          \* history: the last committed upsert

vars == <<rows, kids, txn, begun, shown, owner, last>>

Ids == 1 .. MaxUpserts
NoRow == [type |-> None, host |-> None, ip |-> None, serial |-> None,
          guid |-> None, source |-> None, live |-> FALSE]
NoKids == [macs |-> {}, sw |-> None, os |-> None]
Idle == [pc |-> "idle"]
Exists == {id \in Ids : rows[id].live}

Columns == {"type", "host", "ip", "serial", "guid", "source"}
UniqueKeys == {"serial", "guid"}
Tracked == {"host", "ip", "serial", "type"}

\* The transaction has written its device row, and so holds the row's lock;
\* its entries are in the unique indexes once the check has passed.
HoldsLock(w) == txn[w].pc \in {"unique", "children", "events", "commit"}
Indexed(w) == txn[w].pc \in {"children", "events", "commit"}

-----------------------------------------------------------------------------
\* resolveDevice: the identity keys in priority order.
KeyOrder == <<"serial", "guid", "mac", "host", "ip">>

\* Mutant: randomized MACs identify devices too.
MacsOfAll(r) == r.macs

MacsOf(r) == r.macs \ RandomMacs

HasKey(r, key) == IF key = "mac" THEN MacsOf(r) # {} ELSE r[key] # None

Matches(r, key) ==
  {id \in Exists :
     /\ HasKey(r, key)
     /\ CASE key = "mac"  -> kids[id].macs \cap MacsOf(r) # {}
          [] key = "host" -> LowerOf[rows[id].host] = LowerOf[r.host]
          [] OTHER        -> rows[id][key] = r[key]}

\* What the identity keys rest on: none that identifies one machine is reported
\* of another.  (Randomized MACs may be; an address lent to another machine is out.)
MachinesDiffer ==
  \A v, w \in Workers : \A r \in ReportsOf[v], s \in ReportsOf[w] :
    r.machine # s.machine =>
      /\ r.macs \cap s.macs \subseteq RandomMacs
      /\ \A f \in {"serial", "guid", "ip"} : r[f] # None => s[f] # r[f]
      /\ r.host # None => LowerOf[s.host] # LowerOf[r.host]

TextKeys == {"serial", "guid", "host", "ip"}

\* Every report of machine m carries key f, and as far as the search sees with
\* one value.
Keeps(m, f) ==
  \A v, w \in Workers : \A r \in ReportsOf[v], s \in ReportsOf[w] :
    r.machine = m /\ s.machine = m =>
      /\ r[f] # None
      /\ IF f = "host" THEN LowerOf[r[f]] = LowerOf[s[f]] ELSE r[f] = s[f]

\* One worker persists all reports of m: its upserts do not overlap.
OneSource(m) ==
  \A v, w \in Workers : \A r \in ReportsOf[v], s \in ReportsOf[w] :
    r.machine = m /\ s.machine = m => v = w

\* What it takes to meet a machine again: a key that all its reports carry, and
\* one with a unique index if several workers may persist it at once.
MachinesKeepAKey ==
  \A m \in Machines : \/ \E f \in UniqueKeys : Keeps(m, f)
                      \/ OneSource(m) /\ \E f \in TextKeys : Keeps(m, f)

\* Only a collector's answer has an OS.
OSFromCollectors ==
  \A w \in Workers : \A r \in ReportsOf[w] : ~r.collected => r.os = NoOS

\* A field that says nothing, and that diffDevice passes over.
Empty(f, v) == v = None \/ (f = "type" /\ v = "unknown")

\* What UPDATE keeps the stored value for: NULL, and of the type "unknown" alone.
Unset(f, v) == IF f = "type" THEN v = "unknown" ELSE v = None

\* Every report has a type, "unknown" if no other: processHost sets one before it
\* collects, mergeDevice falls back to it, and a VM's stub is of type vm.
TypesGiven == \A w \in Workers : \A r \in ReportsOf[w] : r.type # None

Inserted(r) == [f \in Columns \cup {"live"} |-> IF f = "live" THEN TRUE ELSE r[f]]
\* Mutant: UPDATE device SET f = $f, without COALESCE.
Overwritten(row, r) == [f \in DOMAIN row |-> IF f = "live" THEN TRUE ELSE r[f]]

Coalesced(row, r) == [f \in DOMAIN row |->
  IF f = "live" \/ Unset(f, r[f]) THEN row[f] ELSE r[f]]

\* Mutant: a changed device type is not recorded.
DiffWithoutType(ex, r) ==
  {[field |-> f, old |-> ex[f], new |-> r[f]] :
     f \in {g \in Tracked \ {"type"} : ~Empty(g, r[g]) /\ r[g] # ex[g]}}

\* Mutant: a field the report leaves empty counts as a removal.
DiffWithRemovals(ex, r) ==
  {[field |-> f, old |-> ex[f], new |-> r[f]] : f \in {g \in Tracked : r[g] # ex[g]}}

\* diffDevice: the fields whose reported value differs from the snapshot read.
DiffDevice(ex, r) ==
  {[field |-> f, old |-> ex[f], new |-> r[f]] :
     f \in {g \in Tracked : ~Empty(g, r[g]) /\ r[g] # ex[g]}}
  \cup {[field |-> "os", old |-> ex.os, new |-> r.os] :
     n \in {r.os} \ {NoOS, None, ex.os}}

\* replaceChildren: child rows are rewritten, os_info only when there is an OS.
Replaced(old, r) ==
  [macs |-> r.macs, sw |-> r.sw, os |-> IF r.os = NoOS THEN old.os ELSE r.os]

-----------------------------------------------------------------------------
Init ==
  /\ rows = [id \in Ids |-> NoRow]
  /\ kids = [id \in Ids |-> NoKids]
  /\ txn = [w \in Workers |-> Idle]
  /\ begun = 0
  /\ shown = [id \in Ids |-> [f \in Tracked |-> None]]
  /\ owner = [id \in Ids |-> {}]
  /\ last = Idle

\* The committed tables and the histories: changed by Commit alone.
committed == <<rows, kids, shown, owner, last>>

Goto(w, t) == txn' = [txn EXCEPT ![w] = t]

Begin(w) ==
  /\ txn[w].pc = "idle"
  /\ begun < MaxUpserts
  /\ begun' = begun + 1
  /\ \E r \in ReportsOf[w] :
       Goto(w, [pc |-> "resolve", r |-> r, key |-> 1, id |-> 0])
  /\ UNCHANGED committed

\* One SELECT ... LIMIT 1 for each key the report carries: any matching row may
\* be returned, and the first key that finds one ends the search.
Resolve(w) ==
  LET t == txn[w]
      found == Matches(t.r, KeyOrder[t.key])
  IN  /\ t.pc = "resolve"
      /\ \/ /\ t.key = 6
            /\ Goto(w, [t EXCEPT !.pc = "insert"])
         \/ /\ t.key < 6 /\ found = {}
            /\ Goto(w, [t EXCEPT !.key = @ + 1])
         \/ /\ t.key < 6
            /\ \E id \in found : Goto(w, [t EXCEPT !.pc = "scalars", !.id = id])
      /\ UNCHANGED <<begun, committed>>

\* The snapshot for the diff takes two more statements.
ReadScalars(w) ==
  /\ txn[w].pc = "scalars"
  /\ Goto(w, [pc |-> "os", r |-> txn[w].r, id |-> txn[w].id, ex |-> rows[txn[w].id]])
  /\ UNCHANGED <<begun, committed>>

ReadOS(w) ==
  LET t == txn[w]
      ex == [f \in Tracked \cup {"os"} |-> IF f = "os" THEN kids[t.id].os ELSE t.ex[f]]
  IN  /\ t.pc = "os"
      /\ Goto(w, [pc |-> "update", r |-> t.r, id |-> t.id,
                  changes |-> DiffDevice(ex, t.r)])
      /\ UNCHANGED <<begun, committed>>

InsertRow(w) ==
  LET t == txn[w]
      free == {i \in Ids \ Exists : \A u \in Workers : HoldsLock(u) => txn[u].id # i}
  IN  /\ t.pc = "insert"
      /\ \E id \in free :
           /\ \A i \in free : id <= i
           /\ Goto(w, [pc |-> "unique", r |-> t.r, id |-> id, changes |-> {},
                       row |-> Inserted(t.r), kids |-> NoKids])
      /\ UNCHANGED <<begun, committed>>

\* Mutant: the row is rewritten from the version read before the lock was free.
UpdateRowUnlocked(w) ==
  LET t == txn[w]
  IN  /\ t.pc = "update"
      /\ Goto(w, [pc |-> "unique", r |-> t.r, id |-> t.id, changes |-> t.changes,
                  row |-> Coalesced(rows[t.id], t.r), kids |-> kids[t.id]])
      /\ UNCHANGED <<begun, committed>>

\* UPDATE waits for the row's lock, then sees the latest committed version.
UpdateRow(w) ==
  LET t == txn[w]
  IN  /\ t.pc = "update"
      /\ \A u \in Workers : HoldsLock(u) => txn[u].id # t.id
      /\ Goto(w, [pc |-> "unique", r |-> t.r, id |-> t.id, changes |-> t.changes,
                  row |-> Coalesced(rows[t.id], t.r), kids |-> kids[t.id]])
      /\ UNCHANGED <<begun, committed>>

\* Another row has w's value of key f: live, and about to change or to vanish
\* only if its writer commits; or written by a transaction still in progress.
Clashes(w, f) ==
  {id \in Exists \ {txn[w].id} : txn[w].row[f] # None /\ rows[id][f] = txn[w].row[f]}
Rivals(w, f) ==
  {u \in Workers \ {w} :
     \/ HoldsLock(u) /\ txn[u].id \in Clashes(w, f)
     \/ Indexed(u) /\ txn[w].row[f] # None /\ txn[u].row[f] = txn[w].row[f]}

\* Mutant: no unique index (only rows already committed are looked at).
PassUniqueUnindexed(w) ==
  /\ txn[w].pc = "unique"
  /\ \A f \in UniqueKeys : Clashes(w, f) = {}
  /\ Goto(w, [txn[w] EXCEPT !.pc = "children"])
  /\ UNCHANGED <<begun, committed>>

\* The unique indexes on serial and ad_guid: no rival is waited for any more,
\* and no committed row has the key, or the statement fails.
PassUnique(w) ==
  /\ txn[w].pc = "unique"
  /\ \A f \in UniqueKeys : Rivals(w, f) = {} /\ Clashes(w, f) = {}
  /\ Goto(w, [txn[w] EXCEPT !.pc = "children"])
  /\ UNCHANGED <<begun, committed>>

\* Mutant: the failed INSERT is tried again, in the same transaction.
UniqueViolationRetried(w) ==
  /\ txn[w].pc = "unique"
  /\ \E f \in UniqueKeys : Clashes(w, f) # {}
  /\ Goto(w, txn[w])
  /\ UNCHANGED <<begun, committed>>

UniqueViolation(w) ==
  /\ txn[w].pc = "unique"
  /\ \A f \in UniqueKeys : Rivals(w, f) = {}
  /\ \E f \in UniqueKeys : Clashes(w, f) # {}
  /\ Goto(w, Idle)
  /\ UNCHANGED <<begun, committed>>

ReplaceChildren(w) ==
  LET t == txn[w]
  IN  /\ t.pc = "children"
      /\ Goto(w, [t EXCEPT !.pc = "events",
                           !.kids = IF t.r.collected THEN Replaced(@, t.r) ELSE @])
      /\ UNCHANGED <<begun, committed>>

\* The change_event rows are inserted, after the row and its children.
InsertChanges(w) ==
  /\ txn[w].pc = "events"
  /\ Goto(w, [txn[w] EXCEPT !.pc = "commit"])
  /\ UNCHANGED <<begun, committed>>

\* An inserted row is born with the values it is inserted with.
Timeline(t) ==
  [f \in Tracked |->
     IF ~rows[t.id].live THEN t.row[f]
     ELSE IF \E c \in t.changes : c.field = f
          THEN (CHOOSE c \in t.changes : c.field = f).new
          ELSE shown[t.id][f]]

Commit(w) ==
  LET t == txn[w]
  IN  /\ t.pc = "commit"
      /\ rows' = [rows EXCEPT ![t.id] = t.row]
      /\ kids' = [kids EXCEPT ![t.id] = t.kids]
      /\ shown' = [shown EXCEPT ![t.id] = Timeline(t)]
      /\ owner' = [owner EXCEPT ![t.id] = @ \cup {t.r.machine}]
      /\ last' = [pc |-> "done", r |-> t.r, id |-> t.id]
      /\ Goto(w, Idle)
      /\ UNCHANGED begun

\* Any statement may fail (cancelled context, lost connection): the deferred
\* Rollback drops everything the transaction wrote.
Fail(w) ==
  /\ txn[w].pc # "idle"
  /\ Goto(w, Idle)
  /\ UNCHANGED <<begun, committed>>

Step(w) ==
  \/ Resolve(w) \/ ReadScalars(w) \/ ReadOS(w)
  \/ InsertRow(w) \/ UpdateRow(w)
  \/ PassUnique(w) \/ UniqueViolation(w)
  \/ ReplaceChildren(w) \/ InsertChanges(w) \/ Commit(w)

AllDone == begun = MaxUpserts /\ (\A w \in Workers : txn[w].pc = "idle") /\ UNCHANGED vars

Next == (\E w \in Workers : Begin(w) \/ Step(w) \/ Fail(w)) \/ AllDone

Spec == Init /\ [][Next]_vars

\* The database answers every statement it can, and a waiter gets its turn.
FairSpec == Spec /\ \A w \in Workers : WF_vars(Step(w))

-----------------------------------------------------------------------------
Row == [type : Values, host : Values, ip : Values, serial : Values,
        guid : Values, source : Values, live : BOOLEAN]
Kids == [macs : SUBSET Macs, sw : Values, os : Values]
Changes == SUBSET [field : Tracked \cup {"os"}, old : Values, new : Values]

\* A transaction's record, by how far it has come.
Searching == [pc : {"resolve", "insert"}, r : Report, key : 1 .. 6, id : {0}]
Found == [pc : {"scalars"}, r : Report, key : 1 .. 6, id : Ids]
Diffing == [pc : {"os"}, r : Report, id : Ids, ex : Row]
Diffed == [pc : {"update"}, r : Report, id : Ids, changes : Changes]
Writing == [pc : {"unique", "children", "events", "commit"}, r : Report, id : Ids,
            changes : Changes, row : Row, kids : Kids]
Txn == {Idle} \cup Searching \cup Found \cup Diffing \cup Diffed \cup Writing

TypeOK ==
  /\ rows \in [Ids -> Row]
  /\ kids \in [Ids -> Kids]
  /\ txn \in [Workers -> Txn]
  /\ begun \in 0 .. MaxUpserts
  /\ shown \in [Ids -> [Tracked -> Values]]
  /\ owner \in [Ids -> SUBSET Machines]

\* No two device rows share a serial or an AD GUID, whichever transactions are
\* in flight.
SerialUnique ==
  \A i, j \in Exists : \A f \in UniqueKeys :
    rows[i][f] # None /\ rows[i][f] = rows[j][f] => i = j

\* A device row is written by one transaction at a time.
RowLocked ==
  \A u, w \in Workers :
    HoldsLock(u) /\ HoldsLock(w) /\ txn[u].id = txn[w].id => u = w

\* A key in the index belongs to its transaction until that ends: no committed
\* row and no other transaction carries it.
KeysHeld ==
  \A w \in Workers : \A f \in UniqueKeys :
    Indexed(w) /\ txn[w].row[f] # None =>
      /\ \A i \in Exists \ {txn[w].id} : rows[i][f] # txn[w].row[f]
      /\ \A u \in Workers \ {w} : Indexed(u) => txn[u].row[f] # txn[w].row[f]

\* What keeps SerialUnique: inductive by itself.
KeysInv == TypeOK /\ RowLocked /\ KeysHeld /\ SerialUnique

\* What a lock holder is about to publish was computed from the row as it still
\* is, and has the stored children until it replaces them.
FromStoredRow(w) ==
  HoldsLock(w) =>
    LET t == txn[w]
    IN  /\ t.id \in Exists =>
             \A f \in Columns : t.row[f] = IF Unset(f, t.r[f]) THEN rows[t.id][f] ELSE t.r[f]
        /\ t.pc \in {"unique", "children"} \/ ~t.r.collected => t.kids = kids[t.id]
        /\ t.row.live

\* A row that was found is never gone before it is updated.
StaysFound(w) == txn[w].pc \in {"scalars", "os", "update"} => txn[w].id \in Exists

\* The inductive strengthening behind NothingForgotten and ShallowKeepsInventory.
PendingInv ==
  /\ \A i \in Ids \ Exists : kids[i] = NoKids
  /\ \A w \in Workers : FromStoredRow(w) /\ StaysFound(w)

\* The inductive invariant: row locks and index entries agree with the tables,
\* and what a lock holder will publish was computed from what is there.
IInv == KeysInv /\ PendingInv

\* "The identity keys used to merge a device discovered via multiple collectors
\* into a single record" (model.go:28-30): a machine never has two rows.
MachineHasOneRow ==
  \A i, j \in Ids : owner[i] \cap owner[j] # {} => i = j

\* The converse: two machines are never merged into one row, although both may
\* carry the same randomized MAC (a container bridge has one on every host).
RowHasOneMachine ==
  \A i \in Ids : \A m, n \in owner[i] : m = n

\* The device table lists the machines: each that was reported once, and nothing
\* else - one after the other, or at the same time when they have a serial.
RowsAreMachines == MachineHasOneRow /\ RowHasOneMachine

\* The change timeline is complete: replaying a device's events over the values
\* it was inserted with gives its row.
TimelineMatchesRow ==
  \A i \in Exists : \A f \in Tracked : shown[i][f] = rows[i][f]

\* A field once known is never lost again, whatever else a later report leaves out
\* (TypesGiven: an empty type would replace the stored one).
NothingForgotten ==
  [][\A i \in Exists : \A f \in Columns :
       Empty(f, rows'[i][f]) => Empty(f, rows[i][f])]_vars

\* A discovery-only pass leaves interfaces, software, users and OS alone.
ShallowKeepsInventory ==
  [][\A w \in Workers : Commit(w) /\ ~txn[w].r.collected => kids' = kids]_vars

\* Persisting the same report twice in a row finds the same device and logs
\* nothing: an unchanged network leaves no trace in the timeline.
RescanIsStable ==
  [][\A w \in Workers :
       Commit(w) /\ last.pc = "done" /\ last.r = txn[w].r =>
         txn[w].id = last.id /\ txn[w].changes = {}]_vars

\* Every upsert ends: no transaction waits for a lock or a unique key for ever.
UpsertsEnd == \A w \in Workers : txn[w].pc # "idle" ~> txn[w].pc = "idle"
=============================================================================
