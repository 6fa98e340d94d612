------------------------- MODULE DeviceStoreProofs -------------------------
(***************************************************************************)
(* The unique keys of the device table, for any number of scan workers,    *)
(* any reports and any number of upserts.                                  *)
(***************************************************************************)
EXTENDS DeviceReads, FiniteSetTheorems, TLAPS

\* A transaction that holds a row's lock has the fields it needs.
LEMMA LockHolder ==
  ASSUME TypeOK, NEW w \in Workers, HoldsLock(w)
  PROVE  txn[w] \in Writing
BY DEF TypeOK, Txn, HoldsLock, Idle, Searching, Found, Diffing, Diffed

\* What the pure helpers return has the stored types.
LEMMA HelperTypes ==
  ASSUME NEW r \in Report, NEW row \in Row, NEW k \in Kids
  PROVE  /\ Inserted(r) \in Row
         /\ Coalesced(row, r) \in Row
         /\ Replaced(k, r) \in Kids
         /\ NoKids \in Kids
         /\ NoRow \in Row
<1>1. Inserted(r) \in Row
  BY DEF Inserted, Report, Row, Columns
<1>2. Coalesced(row, r) \in Row
  BY DEF Coalesced, Report, Row
<1>3. Replaced(k, r) \in Kids /\ NoKids \in Kids
  BY StoreAssumption DEF Replaced, Report, Kids, NoKids
<1>4. NoRow \in Row
  BY StoreAssumption DEF NoRow, Row
<1> QED BY <1>1, <1>2, <1>3, <1>4

\* No row and no transaction: the invariant holds at the start.
LEMMA InitKeysInv == Init => KeysInv
<1> SUFFICES ASSUME Init PROVE KeysInv OBVIOUS
<1>1. rows \in [Ids -> Row] /\ kids \in [Ids -> Kids]
  <2>1. NoRow \in Row /\ NoKids \in Kids
    BY StoreAssumption DEF NoRow, NoKids, Row, Kids
  <2> QED BY <2>1 DEF Init
<1>2. txn \in [Workers -> Txn] /\ \A w \in Workers : txn[w].pc = "idle"
  BY DEF Init, Idle, Txn
<1>3. shown \in [Ids -> [Tracked -> Values]] /\ owner \in [Ids -> SUBSET Machines]
      /\ begun \in 0 .. MaxUpserts
  BY StoreAssumption DEF Init
<1>4. Exists = {}
  BY DEF Init, Exists, NoRow
<1> QED
  BY <1>1, <1>2, <1>3, <1>4
  DEF KeysInv, TypeOK, RowLocked, KeysHeld, SerialUnique, HoldsLock, Indexed

\* A step that ends holding no lock, and leaves the tables alone.
LEMMA PrivateStep ==
  ASSUME KeysInv, NEW w \in Workers, NEW t \in Txn, Goto(w, t), UNCHANGED committed,
         t.pc \notin {"unique", "children", "events", "commit"},
         begun' \in 0 .. MaxUpserts
  PROVE  KeysInv'
<1>1. TypeOK'
  BY DEF KeysInv, TypeOK, Goto, committed
<1>2. ~HoldsLock(w)' /\ ~Indexed(w)'
  BY DEF KeysInv, TypeOK, Goto, HoldsLock, Indexed
<1>3. \A u \in Workers \ {w} : txn'[u] = txn[u]
  BY DEF KeysInv, TypeOK, Goto
<1>4. UNCHANGED <<rows, Exists>>
  BY DEF committed, Exists
<1>5. RowLocked'
  BY <1>2, <1>3 DEF KeysInv, RowLocked, HoldsLock
<1>6. KeysHeld'
  BY <1>2, <1>3, <1>4 DEF KeysInv, KeysHeld, Indexed
<1>7. SerialUnique'
  BY <1>4 DEF KeysInv, SerialUnique
<1> QED BY <1>1, <1>5, <1>6, <1>7 DEF KeysInv

\* A step of a transaction that keeps its row and its place in the indexes.
LEMMA WritingStep ==
  ASSUME KeysInv, NEW w \in Workers, Indexed(w), NEW t \in Writing, Goto(w, t),
         t.id = txn[w].id, t.row = txn[w].row, UNCHANGED <<begun, committed>>
  PROVE  KeysInv'
<1>1. TypeOK'
  BY DEF KeysInv, TypeOK, Goto, committed, Txn
<1>2. txn'[w].id = txn[w].id /\ txn'[w].row = txn[w].row /\ HoldsLock(w)
  BY DEF KeysInv, TypeOK, Goto, Indexed, HoldsLock
<1>3. \A u \in Workers \ {w} : txn'[u] = txn[u]
  BY DEF KeysInv, TypeOK, Goto
<1>4. UNCHANGED <<rows, Exists>>
  BY DEF committed, Exists
<1>5. RowLocked'
  BY <1>2, <1>3 DEF KeysInv, RowLocked, HoldsLock
<1>6. KeysHeld'
  BY <1>2, <1>3, <1>4 DEF KeysInv, KeysHeld, Indexed
<1>7. SerialUnique'
  BY <1>4 DEF KeysInv, SerialUnique
<1> QED BY <1>1, <1>5, <1>6, <1>7 DEF KeysInv

\* An INSERT or UPDATE takes the lock of a row nobody holds.
LEMMA LockStep ==
  ASSUME KeysInv, NEW w \in Workers, NEW t \in Writing, Goto(w, t), t.pc = "unique",
         \A u \in Workers : HoldsLock(u) => txn[u].id # t.id,
         UNCHANGED <<begun, committed>>
  PROVE  KeysInv'
<1>1. TypeOK'
  BY DEF KeysInv, TypeOK, Goto, committed, Txn
<1>2. txn'[w] = t /\ ~Indexed(w)'
  BY DEF KeysInv, TypeOK, Goto, Indexed
<1>3. \A u \in Workers \ {w} : txn'[u] = txn[u]
  BY DEF KeysInv, TypeOK, Goto
<1>4. UNCHANGED <<rows, Exists>>
  BY DEF committed, Exists
<1>5. RowLocked'
  BY <1>2, <1>3 DEF KeysInv, RowLocked, HoldsLock
<1>6. KeysHeld'
  BY <1>2, <1>3, <1>4 DEF KeysInv, KeysHeld, Indexed
<1>7. SerialUnique'
  BY <1>4 DEF KeysInv, SerialUnique
<1> QED BY <1>1, <1>5, <1>6, <1>7 DEF KeysInv

\* The unique check passes only when the key is free, now and in the index.
LEMMA PassUniqueKeysInv ==
  ASSUME KeysInv, NEW w \in Workers, PassUnique(w)
  PROVE  KeysInv'
<1> DEFINE t == [txn[w] EXCEPT !.pc = "children"]
<1>1. txn[w] \in Writing
  BY LockHolder DEF KeysInv, PassUnique, HoldsLock
<1>2. t \in Writing /\ t.id = txn[w].id /\ t.row = txn[w].row
  BY <1>1 DEF Writing
<1>3. TypeOK'
  BY <1>2 DEF KeysInv, TypeOK, PassUnique, Goto, committed, Txn
<1>4. txn'[w].id = txn[w].id /\ txn'[w].row = txn[w].row /\ HoldsLock(w)
  BY <1>2 DEF KeysInv, TypeOK, PassUnique, Goto, HoldsLock
<1>5. \A u \in Workers \ {w} : txn'[u] = txn[u]
  BY DEF KeysInv, TypeOK, PassUnique, Goto
<1>6. UNCHANGED <<rows, Exists>>
  BY DEF PassUnique, committed, Exists
<1>7. RowLocked'
  BY <1>4, <1>5 DEF KeysInv, RowLocked, HoldsLock
<1>8. \A f \in UniqueKeys : txn[w].row[f] # None =>
        /\ \A i \in Exists \ {txn[w].id} : rows[i][f] # txn[w].row[f]
        /\ \A u \in Workers \ {w} : Indexed(u) => txn[u].row[f] # txn[w].row[f]
  BY DEF PassUnique, Clashes, Rivals
<1>9. KeysHeld'
  BY <1>4, <1>5, <1>6, <1>8 DEF KeysInv, KeysHeld, Indexed
<1>10. SerialUnique'
  BY <1>6 DEF KeysInv, SerialUnique
<1> QED BY <1>3, <1>7, <1>9, <1>10 DEF KeysInv

\* A commit publishes a row whose keys nobody else has.
LEMMA CommitKeysInv ==
  ASSUME KeysInv, NEW w \in Workers, Commit(w)
  PROVE  KeysInv'
<1> DEFINE t == txn[w]
<1>1. t \in Writing /\ Indexed(w) /\ HoldsLock(w)
  BY LockHolder DEF KeysInv, Commit, HoldsLock, Indexed
<1>2. t.id \in Ids /\ t.row \in Row /\ t.kids \in Kids /\ t.r.machine \in Machines
  BY <1>1 DEF Writing, Report
<1>3. Timeline(t) \in [Tracked -> Values]
  <2>1. \A f \in Tracked : t.row[f] \in Values
    BY <1>2 DEF Row, Tracked
  <2>2. \A f \in Tracked : shown[t.id][f] \in Values
    BY <1>2 DEF KeysInv, TypeOK
  <2>3. \A c \in t.changes : c.new \in Values
    BY <1>1 DEF Writing, Changes
  <2> QED BY <2>1, <2>2, <2>3 DEF Timeline
<1>4. TypeOK'
  BY <1>2, <1>3 DEF KeysInv, TypeOK, Commit, Goto, Txn
<1>5. ~HoldsLock(w)' /\ ~Indexed(w)'
  BY DEF KeysInv, TypeOK, Commit, Goto, HoldsLock, Indexed, Idle
<1>6. \A u \in Workers \ {w} : txn'[u] = txn[u]
  BY DEF KeysInv, TypeOK, Commit, Goto
<1>7. /\ rows'[t.id] = t.row
      /\ \A i \in Ids \ {t.id} : rows'[i] = rows[i]
      /\ Exists' \subseteq Exists \cup {t.id}
      /\ \A i \in Exists' : i \in Ids
  BY <1>2 DEF KeysInv, TypeOK, Commit, Exists
<1>8. RowLocked'
  BY <1>5, <1>6 DEF KeysInv, RowLocked, HoldsLock
<1>9. KeysHeld'
  <2> SUFFICES ASSUME NEW u \in Workers, NEW f \in UniqueKeys, Indexed(u)', u # w,
                      txn[u].row[f] # None
               PROVE  /\ \A i \in Exists' \ {txn[u].id} : rows'[i][f] # txn[u].row[f]
                      /\ \A v \in Workers \ {u} :
                           Indexed(v)' => txn'[v].row[f] # txn[u].row[f]
    BY <1>5, <1>6 DEF KeysHeld
  <2>1. Indexed(u)
    BY <1>6 DEF Indexed
  <2>2. t.row[f] # txn[u].row[f]
    BY <1>1, <2>1 DEF KeysInv, KeysHeld
  <2> QED BY <1>5, <1>6, <1>7, <2>1, <2>2 DEF KeysInv, KeysHeld, Indexed
<1>10. SerialUnique'
  <2>1. \A i \in Exists \ {t.id} : \A f \in UniqueKeys :
          t.row[f] # None => rows[i][f] # t.row[f]
    BY <1>1 DEF KeysInv, KeysHeld
  <2> QED BY <1>7, <2>1 DEF KeysInv, SerialUnique
<1> QED BY <1>4, <1>8, <1>9, <1>10 DEF KeysInv

\* BEGIN takes up a report and touches nothing stored.
LEMMA BeginKeysInv ==
  ASSUME KeysInv, NEW w \in Workers, Begin(w)
  PROVE  KeysInv'
<1>1. PICK r \in ReportsOf[w] : Goto(w, [pc |-> "resolve", r |-> r, key |-> 1, id |-> 0])
  BY DEF Begin
<1>2. [pc |-> "resolve", r |-> r, key |-> 1, id |-> 0] \in Txn
  BY StoreAssumption DEF Txn, Searching
<1>3. begun' \in 0 .. MaxUpserts /\ UNCHANGED committed
  BY StoreAssumption DEF Begin, KeysInv, TypeOK
<1> QED BY <1>1, <1>2, <1>3, PrivateStep

\* A lookup takes no lock.
LEMMA ResolveKeysInv ==
  ASSUME KeysInv, NEW w \in Workers, Resolve(w)
  PROVE  KeysInv'
<1> DEFINE t == txn[w]
           found == Matches(t.r, KeyOrder[t.key])
<1>1. t \in Searching
  <2>1. t.pc = "resolve"
    BY DEF Resolve
  <2> QED BY <2>1 DEF KeysInv, TypeOK, Txn, Idle, Found, Diffing, Diffed, Writing
<1>2. found \subseteq Ids
  BY DEF Matches, Exists
<1>3. begun' \in 0 .. MaxUpserts /\ UNCHANGED committed
  BY DEF Resolve, KeysInv, TypeOK
<1>4. ASSUME NEW u, u \in Searching \cup Found, Goto(w, u) PROVE KeysInv'
  BY <1>3, <1>4, PrivateStep DEF Txn, Searching, Found
<1>5. CASE t.key = 6 /\ Goto(w, [t EXCEPT !.pc = "insert"])
  <2>1. [t EXCEPT !.pc = "insert"] \in Searching
    BY <1>1 DEF Searching
  <2> QED BY <1>4, <1>5, <2>1
<1>6. CASE t.key < 6 /\ Goto(w, [t EXCEPT !.key = @ + 1])
  <2>1. [t EXCEPT !.key = @ + 1] \in Searching
    BY <1>1, <1>6 DEF Searching
  <2> QED BY <1>4, <1>6, <2>1
<1>7. ASSUME NEW id \in found, Goto(w, [t EXCEPT !.pc = "scalars", !.id = id])
      PROVE  KeysInv'
  <2>1. [t EXCEPT !.pc = "scalars", !.id = id] \in Found
    BY <1>1, <1>2 DEF Searching, Found
  <2> QED BY <1>4, <1>7, <2>1
<1> QED BY <1>5, <1>6, <1>7 DEF Resolve

\* Reading the row takes no lock either.
LEMMA ReadScalarsKeysInv ==
  ASSUME KeysInv, NEW w \in Workers, ReadScalars(w)
  PROVE  KeysInv'
<1> DEFINE u == [pc |-> "os", r |-> txn[w].r, id |-> txn[w].id, ex |-> rows[txn[w].id]]
<1>1. txn[w] \in Found
  BY DEF KeysInv, TypeOK, ReadScalars, Txn, Idle, Searching, Diffing, Diffed, Writing
<1>2. u \in Diffing
  BY <1>1 DEF Found, Diffing, KeysInv, TypeOK
<1>3. begun' \in 0 .. MaxUpserts /\ UNCHANGED committed /\ Goto(w, u)
  BY DEF ReadScalars, KeysInv, TypeOK
<1> QED BY <1>2, <1>3, PrivateStep DEF Txn, Diffing

\* A diff is a set of changes of the stored types.
LEMMA DiffType ==
  ASSUME NEW r \in Report, NEW ex, \A f \in Tracked \cup {"os"} : ex[f] \in Values,
         ex.os \in Values
  PROVE  DiffDevice(ex, r) \in Changes
<1>1. \A f \in Tracked : r[f] \in Values
  BY DEF Tracked, Report
<1>2. \A n \in {r.os} \ {NoOS, None, ex.os} : r.os \in Values
  BY DEF Report
<1> QED BY <1>1, <1>2 DEF DiffDevice, Changes

\* Reading the OS name ends the unlocked part.
LEMMA ReadOSKeysInv ==
  ASSUME KeysInv, NEW w \in Workers, ReadOS(w)
  PROVE  KeysInv'
<1> DEFINE t == txn[w]
           ex == [f \in Tracked \cup {"os"} |-> IF f = "os" THEN kids[t.id].os ELSE t.ex[f]]
           u == [pc |-> "update", r |-> t.r, id |-> t.id, changes |-> DiffDevice(ex, t.r)]
<1>1. t \in Diffing
  BY DEF KeysInv, TypeOK, ReadOS, Txn, Idle, Searching, Found, Diffed, Writing
<1>2. t.r \in Report /\ t.id \in Ids /\ t.ex \in Row /\ kids[t.id] \in Kids
  BY <1>1 DEF Diffing, KeysInv, TypeOK
<1>3. \A f \in Tracked : t.ex[f] \in Values
  BY <1>2 DEF Row, Tracked
<1>4. (\A f \in Tracked \cup {"os"} : ex[f] \in Values) /\ ex.os \in Values
  BY <1>2, <1>3 DEF Kids
<1>5. DiffDevice(ex, t.r) \in Changes
  BY <1>2, <1>4, DiffType
<1>6. u \in Diffed
  BY <1>2, <1>5 DEF Diffed
<1>7. begun' \in 0 .. MaxUpserts /\ UNCHANGED committed /\ Goto(w, u)
  BY DEF ReadOS, KeysInv, TypeOK
<1> QED BY <1>6, <1>7, PrivateStep DEF Txn, Diffed

\* An INSERT locks a row nobody else knows of.
LEMMA InsertRowKeysInv ==
  ASSUME KeysInv, NEW w \in Workers, InsertRow(w)
  PROVE  KeysInv'
<1>1. txn[w].r \in Report
  BY DEF KeysInv, TypeOK, InsertRow, Txn, Idle, Searching, Found, Diffing, Diffed, Writing
<1>2. PICK id \in Ids :
        /\ \A u \in Workers : HoldsLock(u) => txn[u].id # id
        /\ Goto(w, [pc |-> "unique", r |-> txn[w].r, id |-> id, changes |-> {},
                    row |-> Inserted(txn[w].r), kids |-> NoKids])
  BY DEF InsertRow
<1>3. Inserted(txn[w].r) \in Row
  BY <1>1 DEF Inserted, Report, Row, Columns
<1>4. NoKids \in Kids
  BY StoreAssumption DEF NoKids, Kids
<1>5. [pc |-> "unique", r |-> txn[w].r, id |-> id, changes |-> {},
       row |-> Inserted(txn[w].r), kids |-> NoKids] \in Writing
  BY <1>1, <1>3, <1>4 DEF Writing, Changes
<1> QED BY <1>2, <1>5, LockStep DEF InsertRow

\* An UPDATE waits for the row's lock.
LEMMA UpdateRowKeysInv ==
  ASSUME KeysInv, NEW w \in Workers, UpdateRow(w)
  PROVE  KeysInv'
<1> DEFINE t == txn[w]
           u == [pc |-> "unique", r |-> t.r, id |-> t.id, changes |-> t.changes,
                 row |-> Coalesced(rows[t.id], t.r), kids |-> kids[t.id]]
<1>1. t \in Diffed
  BY DEF KeysInv, TypeOK, UpdateRow, Txn, Idle, Searching, Found, Diffing, Writing
<1>2. t.r \in Report /\ rows[t.id] \in Row /\ kids[t.id] \in Kids
  BY <1>1 DEF Diffed, KeysInv, TypeOK
<1>3. u \in Writing
  BY <1>1, <1>2, HelperTypes DEF Diffed, Writing
<1> QED BY <1>3, LockStep DEF UpdateRow

\* Children and events are written under the lock.
LEMMA ChildrenAndEventsKeysInv ==
  ASSUME KeysInv, NEW w \in Workers, ReplaceChildren(w) \/ InsertChanges(w)
  PROVE  KeysInv'
<1> DEFINE t == txn[w]
<1>1. Indexed(w) /\ HoldsLock(w)
  BY DEF ReplaceChildren, InsertChanges, Indexed, HoldsLock
<1>2. t \in Writing /\ t.r \in Report /\ t.kids \in Kids /\ t.row \in Row
  BY <1>1, LockHolder DEF KeysInv, Writing
<1>3. CASE InsertChanges(w)
  <2>1. [t EXCEPT !.pc = "commit"] \in Writing
    BY <1>2 DEF Writing
  <2> QED BY <1>1, <1>2, <1>3, <2>1, WritingStep DEF InsertChanges, Writing
<1>4. CASE ReplaceChildren(w)
  <2> DEFINE u == [t EXCEPT !.pc = "events",
                            !.kids = IF t.r.collected THEN Replaced(@, t.r) ELSE @]
  <2>1. Replaced(t.kids, t.r) \in Kids
    BY <1>2, HelperTypes
  <2>2. u \in Writing /\ u.id = t.id /\ u.row = t.row
    BY <1>2, <2>1 DEF Writing
  <2> QED BY <1>1, <1>4, <2>2, WritingStep DEF ReplaceChildren
<1> QED BY <1>3, <1>4

\* Giving up - after an error or a unique violation - holds nothing back.
LEMMA RollbackKeysInv ==
  ASSUME KeysInv, NEW w \in Workers, UniqueViolation(w) \/ Fail(w)
  PROVE  KeysInv'
<1>1. Idle \in Txn /\ Idle.pc = "idle"
  BY DEF Idle, Txn
<1>2. Goto(w, Idle) /\ UNCHANGED committed /\ begun' \in 0 .. MaxUpserts
  BY DEF UniqueViolation, Fail, KeysInv, TypeOK
<1> QED BY <1>1, <1>2, PrivateStep

\* KeysInv holds in every behaviour, whatever the transactions' interleaving.
LEMMA StoreKeys == Spec => []KeysInv
<1>1. KeysInv /\ [Next]_vars => KeysInv'
  <2> SUFFICES ASSUME KeysInv, [Next]_vars PROVE KeysInv' OBVIOUS
  <2>1. ASSUME NEW w \in Workers, Begin(w) \/ Step(w) \/ Fail(w) PROVE KeysInv'
    BY <2>1, BeginKeysInv, ResolveKeysInv, ReadScalarsKeysInv, ReadOSKeysInv, InsertRowKeysInv,
       UpdateRowKeysInv, PassUniqueKeysInv, ChildrenAndEventsKeysInv, RollbackKeysInv, CommitKeysInv
    DEF Step
  <2>2. CASE UNCHANGED vars
    BY <2>2 DEF vars, KeysInv, TypeOK, RowLocked, KeysHeld, SerialUnique, HoldsLock,
                Indexed, Exists
  <2> QED BY <2>1, <2>2 DEF Next, AllDone
<1> QED BY <1>1, InitKeysInv, PTL DEF Spec

\* No two device rows ever share a serial or an AD GUID.
THEOREM SerialsStayUnique == Spec => []SerialUnique
<1>1. KeysInv => SerialUnique
  BY DEF KeysInv
<1> QED BY <1>1, StoreKeys, PTL

\* The store's variables keep their types.
THEOREM StoreTypes == Spec => []TypeOK
<1>1. KeysInv => TypeOK
  BY DEF KeysInv
<1> QED BY <1>1, StoreKeys, PTL

-----------------------------------------------------------------------------
\* Nothing is pending at the start.
LEMMA InitPending == Init => PendingInv
BY DEF Init, PendingInv, FromStoredRow, StaysFound, HoldsLock, Idle

\* A step of w that changes no table leaves the other transactions' plans valid.
LEMMA OthersPending ==
  ASSUME PendingInv, NEW w \in Workers, UNCHANGED <<rows, kids>>,
         \A u \in Workers \ {w} : txn'[u] = txn[u],
         FromStoredRow(w)', StaysFound(w)'
  PROVE  PendingInv'
<1>1. UNCHANGED Exists
  BY DEF Exists
<1>2. \A u \in Workers \ {w} : FromStoredRow(u)' /\ StaysFound(u)'
  BY <1>1 DEF PendingInv, FromStoredRow, StaysFound, HoldsLock, Unset
<1> QED BY <1>1, <1>2 DEF PendingInv

\* A transaction that takes a lock has what it will publish computed from the
\* row it locked.
LEMMA LockPending ==
  ASSUME KeysInv, PendingInv, NEW w \in Workers, InsertRow(w) \/ UpdateRow(w)
  PROVE  PendingInv'
<1> DEFINE t == txn[w]
<1>1. UNCHANGED <<rows, kids, Exists>>
  BY DEF InsertRow, UpdateRow, committed, Exists
<1>2. \A u \in Workers \ {w} : txn'[u] = txn[u]
  BY DEF InsertRow, UpdateRow, Goto, KeysInv, TypeOK
<1>3. CASE InsertRow(w)
  <2>1. PICK id \in Ids \ Exists :
          Goto(w, [pc |-> "unique", r |-> t.r, id |-> id, changes |-> {},
                   row |-> Inserted(t.r), kids |-> NoKids])
    BY <1>3 DEF InsertRow
  <2>2. txn'[w].pc = "unique" /\ txn'[w].id = id /\ txn'[w].kids = NoKids
        /\ txn'[w].row.live
    BY <2>1 DEF Goto, Inserted, KeysInv, TypeOK
  <2>3. kids[id] = NoKids
    BY DEF PendingInv
  <2>4. FromStoredRow(w)' /\ StaysFound(w)'
    BY <1>1, <2>2, <2>3 DEF FromStoredRow, StaysFound
  <2> QED BY <1>1, <1>2, <2>4, OthersPending
<1>4. CASE UpdateRow(w)
  <2>1. t \in Diffed /\ t.id \in Exists
    BY <1>4 DEF KeysInv, TypeOK, UpdateRow, Txn, Idle, Searching, Found, Diffing, Writing,
                PendingInv, StaysFound
  <2>2. txn'[w].pc = "unique" /\ txn'[w].id = t.id /\ txn'[w].kids = kids[t.id]
        /\ txn'[w].row = Coalesced(rows[t.id], t.r)
    BY <1>4 DEF UpdateRow, Goto, KeysInv, TypeOK
  <2>3. rows[t.id] \in Row /\ rows[t.id].live
    BY <2>1 DEF KeysInv, TypeOK, Exists
  <2>4. \A f \in Columns : Coalesced(rows[t.id], t.r)[f] =
                             IF Unset(f, t.r[f]) THEN rows[t.id][f] ELSE t.r[f]
    BY <2>3 DEF Coalesced, Row, Columns
  <2>5. Coalesced(rows[t.id], t.r).live
    BY <2>3 DEF Coalesced, Row
  <2>7. txn'[w].r = t.r
    BY <1>4 DEF UpdateRow, Goto, KeysInv, TypeOK
  <2>6. FromStoredRow(w)' /\ StaysFound(w)'
    BY <1>1, <2>2, <2>4, <2>5, <2>7 DEF FromStoredRow, StaysFound, Unset
  <2> QED BY <1>1, <1>2, <2>6, OthersPending
<1> QED BY <1>3, <1>4

\* A step that holds no lock afterwards, and found its row if it has one.
LEMMA SearchPending ==
  ASSUME KeysInv, PendingInv, NEW w \in Workers,
         \/ Begin(w) \/ Resolve(w) \/ ReadScalars(w) \/ ReadOS(w)
         \/ UniqueViolation(w) \/ Fail(w)
  PROVE  PendingInv'
<1>1. UNCHANGED <<rows, kids, Exists>>
  BY DEF Begin, Resolve, ReadScalars, ReadOS, UniqueViolation, Fail, committed, Exists
<1>2. \A u \in Workers \ {w} : txn'[u] = txn[u]
  BY DEF Begin, Resolve, ReadScalars, ReadOS, UniqueViolation, Fail, Goto, KeysInv, TypeOK
<1>3. ~HoldsLock(w)' /\ StaysFound(w)'
  <2>1. CASE Begin(w) \/ UniqueViolation(w) \/ Fail(w)
    BY <2>1 DEF Begin, UniqueViolation, Fail, Goto, Idle, HoldsLock, StaysFound, KeysInv, TypeOK
  <2>2. CASE Resolve(w)
    <3> DEFINE t == txn[w]
               found == Matches(t.r, KeyOrder[t.key])
    <3>1. t.pc = "resolve"
      BY <2>2 DEF Resolve
    <3>2. t \in Searching
      BY <3>1 DEF KeysInv, TypeOK, Txn, Idle, Found, Diffing, Diffed, Writing
    <3>3. CASE Goto(w, [t EXCEPT !.pc = "insert"]) \/ Goto(w, [t EXCEPT !.key = @ + 1])
      <4>1. txn'[w].pc \in {"insert", "resolve"}
        BY <3>2, <3>3, <3>1 DEF Goto, Searching, KeysInv, TypeOK
      <4> QED BY <4>1 DEF HoldsLock, StaysFound
    <3>4. ASSUME NEW id \in found, Goto(w, [t EXCEPT !.pc = "scalars", !.id = id])
          PROVE  ~HoldsLock(w)' /\ StaysFound(w)'
      <4>1. txn'[w].pc = "scalars" /\ txn'[w].id = id
        BY <3>2, <3>4 DEF Goto, Searching, KeysInv, TypeOK
      <4>2. id \in Exists
        BY DEF Matches
      <4> QED BY <1>1, <4>1, <4>2 DEF HoldsLock, StaysFound
    <3> QED BY <2>2, <3>3, <3>4 DEF Resolve
  <2>3. CASE ReadScalars(w) \/ ReadOS(w)
    <3>1. txn[w].id \in Exists
      BY <2>3 DEF ReadScalars, ReadOS, PendingInv, StaysFound
    <3>2. txn'[w].pc \in {"os", "update"} /\ txn'[w].id = txn[w].id
      BY <2>3 DEF ReadScalars, ReadOS, Goto, KeysInv, TypeOK
    <3> QED BY <1>1, <3>1, <3>2 DEF HoldsLock, StaysFound
  <2> QED BY <2>1, <2>2, <2>3
<1>4. FromStoredRow(w)'
  BY <1>3 DEF FromStoredRow
<1> QED BY <1>1, <1>2, <1>3, <1>4, OthersPending

\* The later statements keep the row and, unless the pass collected, the children.
LEMMA WritePending ==
  ASSUME KeysInv, PendingInv, NEW w \in Workers,
         PassUnique(w) \/ ReplaceChildren(w) \/ InsertChanges(w)
  PROVE  PendingInv'
<1> DEFINE t == txn[w]
<1>1. UNCHANGED <<rows, kids, Exists>>
  BY DEF PassUnique, ReplaceChildren, InsertChanges, committed, Exists
<1>2. \A u \in Workers \ {w} : txn'[u] = txn[u]
  BY DEF PassUnique, ReplaceChildren, InsertChanges, Goto, KeysInv, TypeOK
<1>3. HoldsLock(w) /\ FromStoredRow(w)
  BY DEF PassUnique, ReplaceChildren, InsertChanges, HoldsLock, PendingInv
<1>4. t \in Writing
  BY <1>3, LockHolder DEF KeysInv
<1>5. CASE PassUnique(w)
  <2>1. txn'[w] = [t EXCEPT !.pc = "children"] /\ t.pc = "unique"
    BY <1>5 DEF PassUnique, Goto, KeysInv, TypeOK
  <2>2. txn'[w].pc = "children" /\ txn'[w].id = t.id /\ txn'[w].row = t.row
        /\ txn'[w].r = t.r /\ txn'[w].kids = t.kids
    BY <2>1, <1>4 DEF Writing
  <2>3. FromStoredRow(w)' /\ StaysFound(w)'
    BY <1>1, <1>3, <2>1, <2>2 DEF FromStoredRow, StaysFound, Unset
  <2> QED BY <1>1, <1>2, <2>3, OthersPending
<1>6. CASE ReplaceChildren(w)
  <2>1. txn'[w] = [t EXCEPT !.pc = "events",
                            !.kids = IF t.r.collected THEN Replaced(@, t.r) ELSE @]
    BY <1>6 DEF ReplaceChildren, Goto, KeysInv, TypeOK
  <2>2. txn'[w].pc = "events" /\ txn'[w].id = t.id /\ txn'[w].row = t.row
        /\ txn'[w].r = t.r /\ (~t.r.collected => txn'[w].kids = t.kids)
    BY <2>1, <1>4 DEF Writing
  <2> QED
    BY <1>1, <1>2, <1>3, <2>2, OthersPending DEF FromStoredRow, StaysFound, Unset
<1>7. CASE InsertChanges(w)
  <2>1. txn'[w] = [t EXCEPT !.pc = "commit"]
    BY <1>7 DEF InsertChanges, Goto, KeysInv, TypeOK
  <2>2. txn'[w].pc = "commit" /\ txn'[w].id = t.id /\ txn'[w].row = t.row
        /\ txn'[w].r = t.r /\ txn'[w].kids = t.kids
    BY <2>1, <1>4 DEF Writing
  <2> QED
    BY <1>1, <1>2, <1>3, <2>2, OthersPending DEF FromStoredRow, StaysFound, Unset
<1> QED BY <1>5, <1>6, <1>7

\* A commit publishes one row and touches no other transaction's.
LEMMA CommitPending ==
  ASSUME KeysInv, PendingInv, NEW w \in Workers, Commit(w)
  PROVE  PendingInv'
<1> DEFINE t == txn[w]
<1>1. t \in Writing /\ HoldsLock(w)
  BY LockHolder DEF KeysInv, Commit, HoldsLock
<1>2. t.id \in Ids /\ t.row.live
  BY <1>1 DEF Writing, PendingInv, FromStoredRow
<1>3. /\ rows'[t.id] = t.row
      /\ \A i \in Ids \ {t.id} : rows'[i] = rows[i] /\ kids'[i] = kids[i]
  BY <1>2 DEF Commit, KeysInv, TypeOK
<1>4. Exists' = Exists \cup {t.id}
  BY <1>2, <1>3 DEF Exists
<1>5. txn'[w].pc = "idle" /\ \A u \in Workers \ {w} : txn'[u] = txn[u]
  BY DEF Commit, Goto, Idle, KeysInv, TypeOK
<1>6. \A u \in Workers \ {w} : HoldsLock(u) => txn[u].id \in Ids \ {t.id}
  <2> SUFFICES ASSUME NEW u \in Workers \ {w}, HoldsLock(u)
               PROVE  txn[u].id \in Ids \ {t.id}
    OBVIOUS
  <2>1. txn[u] \in Writing
    BY LockHolder DEF KeysInv
  <2> QED BY <1>1, <2>1 DEF KeysInv, RowLocked, Writing
<1>7. \A i \in Ids \ Exists' : kids'[i] = NoKids
  BY <1>3, <1>4 DEF PendingInv
<1>8. \A u \in Workers : StaysFound(u)'
  BY <1>4, <1>5 DEF PendingInv, StaysFound
<1>9. ASSUME NEW u \in Workers, HoldsLock(u)' PROVE FromStoredRow(u)'
  <2>1. u # w /\ txn'[u] = txn[u] /\ HoldsLock(u)
    BY <1>5, <1>9 DEF HoldsLock
  <2>2. rows'[txn[u].id] = rows[txn[u].id] /\ kids'[txn[u].id] = kids[txn[u].id]
        /\ txn[u].id # t.id
    BY <1>3, <1>6, <2>1
  <2> QED BY <1>4, <2>1, <2>2 DEF PendingInv, FromStoredRow, Unset
<1>10. \A u \in Workers : FromStoredRow(u)'
  BY <1>9 DEF FromStoredRow
<1> QED BY <1>7, <1>8, <1>10 DEF PendingInv

\* Both invariants together are inductive.
LEMMA StorePending == Spec => [](KeysInv /\ PendingInv)
<1>1. KeysInv /\ PendingInv /\ [Next]_vars => PendingInv'
  <2> SUFFICES ASSUME KeysInv, PendingInv, [Next]_vars PROVE PendingInv' OBVIOUS
  <2>1. ASSUME NEW w \in Workers, Begin(w) \/ Step(w) \/ Fail(w) PROVE PendingInv'
    BY <2>1, LockPending, SearchPending, WritePending, CommitPending DEF Step
  <2>2. CASE UNCHANGED vars
    BY <2>2 DEF vars, PendingInv, FromStoredRow, StaysFound, HoldsLock, Exists, Unset
  <2> QED BY <2>1, <2>2 DEF Next, AllDone
<1> QED BY <1>1, InitPending, StoreKeys, PTL DEF Spec

\* Only a commit changes the tables.
LEMMA OnlyCommitWrites ==
  ASSUME NEW w \in Workers, Begin(w) \/ Step(w) \/ Fail(w), ~Commit(w)
  PROVE  UNCHANGED committed
BY DEF Begin, Step, Resolve, ReadScalars, ReadOS, InsertRow, UpdateRow, PassUnique,
       UniqueViolation, ReplaceChildren, InsertChanges, Fail

\* The inductive invariant holds in every behaviour, for any workers and reports.
THEOREM StoreInvariant == Spec => []IInv
<1>1. KeysInv /\ PendingInv => IInv
  BY DEF IInv
<1> QED BY <1>1, StorePending, PTL

\* A transaction persists one of its worker's reports from its beginning to its end.
Reported == \A w \in Workers : txn[w].pc # "idle" => txn[w].r \in ReportsOf[w]

LEMMA StoreReported == Spec => []Reported
<1>1. Init => Reported
  BY DEF Init, Reported, Idle
<1>2. TypeOK /\ Reported /\ [Next]_vars => Reported'
  <2> SUFFICES ASSUME TypeOK, Reported, [Next]_vars PROVE Reported'
    OBVIOUS
  <2>1. ASSUME NEW w \in Workers, NEW t, Goto(w, t),
               t.pc = "idle" \/ t.r \in ReportsOf[w]
        PROVE  Reported'
    <3>1. txn'[w] = t /\ \A u \in Workers \ {w} : txn'[u] = txn[u]
      BY <2>1 DEF Goto, TypeOK
    <3> QED BY <2>1, <3>1 DEF Reported
  <2>2. ASSUME NEW w \in Workers, Begin(w) PROVE Reported'
    <3>1. PICK r \in ReportsOf[w] : Goto(w, [pc |-> "resolve", r |-> r, key |-> 1, id |-> 0])
      BY <2>2 DEF Begin
    <3> QED BY <2>1, <3>1
  <2>3. ASSUME NEW w \in Workers, Resolve(w) PROVE Reported'
    <3>0. txn[w].pc = "resolve"
      BY <2>3 DEF Resolve
    <3>1. txn[w] \in Searching /\ txn[w].r \in ReportsOf[w]
      BY <3>0 DEF TypeOK, Txn, Idle, Found, Diffing, Diffed, Writing, Reported
    <3>2. \A id : [txn[w] EXCEPT !.pc = "scalars", !.id = id].r = txn[w].r
      BY <3>1 DEF Searching
    <3>3. /\ [txn[w] EXCEPT !.pc = "insert"].r = txn[w].r
          /\ [txn[w] EXCEPT !.key = @ + 1].r = txn[w].r
      BY <3>1 DEF Searching
    <3> QED BY <2>1, <2>3, <3>1, <3>2, <3>3 DEF Resolve
  <2>4. ASSUME NEW w \in Workers, ReadScalars(w) \/ ReadOS(w) \/ InsertRow(w) \/ UpdateRow(w)
        PROVE  Reported'
    <3>1. txn[w].r \in ReportsOf[w]
      BY <2>4 DEF ReadScalars, ReadOS, InsertRow, UpdateRow, Reported
    <3> DEFINE t == txn[w]
    <3>2. CASE ReadScalars(w)
      <4> DEFINE u == [pc |-> "os", r |-> t.r, id |-> t.id, ex |-> rows[t.id]]
      <4>1. Goto(w, u) /\ u.r = t.r
        BY <3>2 DEF ReadScalars
      <4> QED BY <2>1, <3>1, <4>1
    <3>3. CASE ReadOS(w)
      <4>1. PICK ch : Goto(w, [pc |-> "update", r |-> t.r, id |-> t.id, changes |-> ch])
        BY <3>3 DEF ReadOS
      <4> QED BY <2>1, <3>1, <4>1
    <3>4. CASE InsertRow(w) \/ UpdateRow(w)
      <4>1. PICK id, ch, row, k :
              Goto(w, [pc |-> "unique", r |-> t.r, id |-> id, changes |-> ch,
                       row |-> row, kids |-> k])
        BY <3>4 DEF InsertRow, UpdateRow
      <4> QED BY <2>1, <3>1, <4>1
    <3> QED BY <2>4, <3>2, <3>3, <3>4
  <2>5. ASSUME NEW w \in Workers, PassUnique(w) \/ ReplaceChildren(w) \/ InsertChanges(w)
        PROVE  Reported'
    <3>1. txn[w] \in Writing /\ txn[w].r \in ReportsOf[w]
      BY <2>5, LockHolder DEF PassUnique, ReplaceChildren, InsertChanges, HoldsLock, Reported
    <3>2. \A p, k : /\ [txn[w] EXCEPT !.pc = p].r = txn[w].r
                    /\ [txn[w] EXCEPT !.pc = p, !.kids = k].r = txn[w].r
      BY <3>1 DEF Writing
    <3>3. \/ \E p : Goto(w, [txn[w] EXCEPT !.pc = p])
          \/ \E p, k : Goto(w, [txn[w] EXCEPT !.pc = p, !.kids = k])
      BY <2>5, <3>1 DEF PassUnique, ReplaceChildren, InsertChanges, Writing
    <3> QED BY <2>1, <3>1, <3>2, <3>3
  <2>6. ASSUME NEW w \in Workers, UniqueViolation(w) \/ Commit(w) \/ Fail(w) PROVE Reported'
    <3>1. Goto(w, Idle) /\ Idle.pc = "idle"
      BY <2>6 DEF UniqueViolation, Commit, Fail, Idle
    <3> QED BY <2>1, <3>1
  <2>7. CASE UNCHANGED vars
    BY <2>7 DEF vars, Reported
  <2> QED BY <2>2, <2>3, <2>4, <2>5, <2>6, <2>7 DEF Next, AllDone, Step
<1> QED BY <1>1, <1>2, StoreTypes, PTL DEF Spec

\* As every report has a type, no report and no interleaving of reports ever empties
\* a column of a device.
THEOREM ColumnsNeverEmptied == ASSUME TypesGiven PROVE Spec => NothingForgotten
<1> DEFINE Kept == \A i \in Exists : \A f \in Columns :
                     Empty(f, rows'[i][f]) => Empty(f, rows[i][f])
<1>1. KeysInv /\ PendingInv /\ Reported /\ [Next]_vars => [Kept]_vars
  <2> SUFFICES ASSUME KeysInv, PendingInv, Reported, Next PROVE Kept
    BY DEF vars
  <2>1. ASSUME NEW w \in Workers, Commit(w) PROVE Kept
    <3>1. txn[w] \in Writing /\ HoldsLock(w)
      BY <2>1, LockHolder DEF KeysInv, Commit, HoldsLock
    <3>2. \A i \in Exists \ {txn[w].id} : rows'[i] = rows[i]
      BY <2>1 DEF Commit, KeysInv, TypeOK, Exists
    <3>3. rows'[txn[w].id] = txn[w].row
      BY <2>1, <3>1 DEF Commit, KeysInv, TypeOK, Writing
    <3>4. ASSUME NEW f \in Columns, txn[w].id \in Exists, Empty(f, txn[w].row[f])
          PROVE  Empty(f, rows[txn[w].id][f])
      <4>1. txn[w].row[f] = IF Unset(f, txn[w].r[f]) THEN rows[txn[w].id][f] ELSE txn[w].r[f]
        BY <3>1, <3>4 DEF PendingInv, FromStoredRow
      <4>2. txn[w].r.type # None
        BY <2>1, TypesGiven DEF Commit, Reported, TypesGiven
      <4> QED BY <3>4, <4>1, <4>2 DEF Empty, Unset
    <3> QED BY <3>1, <3>2, <3>3, <3>4
  <2>2. CASE UNCHANGED rows
    BY <2>2
  <2> QED BY <2>1, <2>2, OnlyCommitWrites DEF Next, AllDone, vars, committed
<1> QED BY <1>1, StorePending, StoreReported, PTL DEF Spec, NothingForgotten

\* A discovery-only pass leaves every device's inventory as it was, also when a
\* deep scan of the same device runs beside it.
THEOREM ShallowPassKeepsInventory == Spec => ShallowKeepsInventory
<1> DEFINE Kept == \A w \in Workers :
                     Commit(w) /\ ~txn[w].r.collected => kids' = kids
<1>1. KeysInv /\ PendingInv /\ [Next]_vars => [Kept]_vars
  <2> SUFFICES ASSUME KeysInv, PendingInv, Next, NEW w \in Workers, Commit(w),
                      ~txn[w].r.collected
               PROVE  kids' = kids
    BY DEF vars
  <2>1. txn[w].kids = kids[txn[w].id]
    BY DEF PendingInv, FromStoredRow, HoldsLock, Commit
  <2> QED BY <2>1 DEF Commit, KeysInv, TypeOK
<1> QED BY <1>1, StorePending, PTL DEF Spec, ShallowKeepsInventory

-----------------------------------------------------------------------------
\* From the snapshot of a row to the commit no other transaction is between its
\* own two with that row: upserts that overlap are of different devices.
DiffsApart ==
  \A u, w \in Workers :
    /\ txn[u].pc \in {"os", "update"} \/ HoldsLock(u)
    /\ txn[w].pc \in {"os", "update"} \/ HoldsLock(w)
    /\ txn[u].id = txn[w].id
    => u = w

\* The changes are the report's difference to the stored value of a field.
Explains(changes, r, f, stored) ==
  /\ \A c \in changes : c.field = f => c.new = r[f] /\ ~Empty(f, r[f])
  /\ (\E c \in changes : c.field = f) \/ Empty(f, r[f]) \/ r[f] = stored

\* What a transaction has read or computed agrees with the row as it is.
DiffIsCurrent(w) ==
  LET t == txn[w]
  IN  /\ t.pc = "os" => \A f \in Tracked : t.ex[f] = rows[t.id][f]
      /\ t.pc = "update" => \A f \in Tracked : Explains(t.changes, t.r, f, rows[t.id][f])
      /\ HoldsLock(w) => \A f \in Tracked : Timeline(t)[f] = t.row[f]

TimelineInv == TimelineMatchesRow /\ \A w \in Workers : DiffIsCurrent(w)

\* A step of w that changes no table: only w's own record has to be looked at.
LEMMA OthersCurrent ==
  ASSUME TypeOK, TimelineInv, NEW w \in Workers, NEW t, Goto(w, t), UNCHANGED committed,
         DiffIsCurrent(w)'
  PROVE  TimelineInv'
<1>1. \A u \in Workers \ {w} : txn'[u] = txn[u]
  BY DEF Goto, TypeOK
<1>2. \A u \in Workers \ {w} : DiffIsCurrent(u)'
  BY <1>1 DEF TimelineInv, DiffIsCurrent, HoldsLock, Timeline, committed, Explains, Empty
<1>3. TimelineMatchesRow'
  BY DEF TimelineInv, TimelineMatchesRow, committed, Exists
<1> QED BY <1>2, <1>3 DEF TimelineInv

\* What diffDevice finds is what it should: each field with a new value, no other.
LEMMA DiffExplains ==
  ASSUME NEW ex, NEW r, NEW f \in Tracked
  PROVE  Explains(DiffDevice(ex, r), r, f, ex[f])
<1> DEFINE Fields == {g \in Tracked : ~Empty(g, r[g]) /\ r[g] # ex[g]}
           A == {[field |-> g, old |-> ex[g], new |-> r[g]] : g \in Fields}
           B == {[field |-> "os", old |-> ex.os, new |-> r.os] : n \in {r.os} \ {NoOS, None, ex.os}}
<1>1. DiffDevice(ex, r) = A \cup B
  BY DEF DiffDevice
<1>2. f # "os"
  BY DEF Tracked
<1>3. \A c \in B : c.field = "os"
  OBVIOUS
<1>4. \A c \in A : c.field \in Fields /\ c.new = r[c.field]
  OBVIOUS
<1>5. f \in Fields => [field |-> f, old |-> ex[f], new |-> r[f]] \in A
  OBVIOUS
<1>6. f \in Fields => \E c \in A : c.field = f
  BY <1>5
<1> HIDE DEF A, B
<1> QED BY <1>1, <1>2, <1>3, <1>4, <1>6 DEF Explains

\* The snapshot is the row, and the diff is taken against the snapshot.
LEMMA ReadsCurrent ==
  ASSUME TypeOK, TimelineInv, NEW w \in Workers, ReadScalars(w) \/ ReadOS(w)
  PROVE  TimelineInv'
<1> DEFINE t == txn[w]
<1>1. CASE ReadScalars(w)
  <2> DEFINE u == [pc |-> "os", r |-> t.r, id |-> t.id, ex |-> rows[t.id]]
  <2>1. Goto(w, u) /\ UNCHANGED committed
    BY <1>1 DEF ReadScalars
  <2>2. txn'[w] = u /\ rows' = rows
    BY <2>1 DEF Goto, TypeOK, committed
  <2>3. DiffIsCurrent(w)'
    BY <2>2 DEF DiffIsCurrent, HoldsLock
  <2> QED BY <2>1, <2>3, OthersCurrent
<1>2. CASE ReadOS(w)
  <2> DEFINE ex == [f \in Tracked \cup {"os"} |-> IF f = "os" THEN kids[t.id].os ELSE t.ex[f]]
             u == [pc |-> "update", r |-> t.r, id |-> t.id, changes |-> DiffDevice(ex, t.r)]
  <2>1. Goto(w, u) /\ UNCHANGED committed /\ t.pc = "os"
    BY <1>2 DEF ReadOS
  <2>2. txn'[w] = u /\ rows' = rows
    BY <2>1 DEF Goto, TypeOK, committed
  <2>3. ASSUME NEW f \in Tracked PROVE Explains(u.changes, t.r, f, rows[t.id][f])
    <3>1. ex[f] = rows[t.id][f]
      BY <2>1 DEF TimelineInv, DiffIsCurrent, Tracked
    <3> QED BY <3>1, DiffExplains
  <2>4. DiffIsCurrent(w)'
    BY <2>2, <2>3 DEF DiffIsCurrent, HoldsLock
  <2> QED BY <2>1, <2>4, OthersCurrent
<1> QED BY <1>1, <1>2

\* An inserted row starts its own timeline; an updated one goes on from the
\* row that is still the one the diff was taken against.
LEMMA WritesCurrent ==
  ASSUME TypesGiven, KeysInv, PendingInv, Reported, TimelineInv, NEW w \in Workers,
         InsertRow(w) \/ UpdateRow(w)
  PROVE  TimelineInv'
<1> DEFINE t == txn[w]
<1>t. TypeOK
  BY DEF KeysInv
<1>1. CASE InsertRow(w)
  <2>1. PICK id \in Ids \ Exists :
          Goto(w, [pc |-> "unique", r |-> t.r, id |-> id, changes |-> {},
                   row |-> Inserted(t.r), kids |-> NoKids])
    BY <1>1 DEF InsertRow
  <2>2. txn'[w].pc = "unique" /\ txn'[w].id = id /\ UNCHANGED committed
    BY <1>1, <1>t, <2>1 DEF Goto, InsertRow, TypeOK
  <2>3. ~rows'[id].live
    BY <2>2 DEF Exists, committed
  <2>4. DiffIsCurrent(w)'
    BY <2>2, <2>3 DEF DiffIsCurrent, Timeline
  <2> QED BY <1>t, <2>1, <2>2, <2>4, OthersCurrent
<1>2. CASE UpdateRow(w)
  <2>1. PICK u : /\ Goto(w, u) /\ UNCHANGED committed /\ t.pc = "update"
                 /\ u = [pc |-> "unique", r |-> t.r, id |-> t.id, changes |-> t.changes,
                         row |-> Coalesced(rows[t.id], t.r), kids |-> kids[t.id]]
    BY <1>2 DEF UpdateRow
  <2>2. txn'[w] = u /\ rows' = rows /\ shown' = shown
    BY <1>t, <2>1 DEF Goto, TypeOK, committed
  <2>3. t.id \in Exists /\ t.id \in Ids /\ rows[t.id].live
    BY <2>1 DEF PendingInv, StaysFound, Exists
  <2>4. rows[t.id] \in Row
    BY <1>t, <2>3 DEF TypeOK
  <2>5. ASSUME NEW f \in Tracked PROVE Timeline(u)'[f] = u.row[f]
    <3>1. shown[t.id][f] = rows[t.id][f]
      BY <2>3 DEF TimelineInv, TimelineMatchesRow
    <3>2. Explains(t.changes, t.r, f, rows[t.id][f])
      BY <2>1 DEF TimelineInv, DiffIsCurrent
    <3>0. t.r.type # None
      BY <2>1 DEF Reported, TypesGiven
    <3>3. u.row[f] = IF Empty(f, t.r[f]) THEN rows[t.id][f] ELSE t.r[f]
      BY <2>1, <2>4, <3>0 DEF Coalesced, Unset, Empty, Row, Tracked
    <3>4. Timeline(u)'[f] = IF \E c \in t.changes : c.field = f
                            THEN (CHOOSE c \in t.changes : c.field = f).new
                            ELSE shown[t.id][f]
      BY <2>1, <2>2, <2>3 DEF Timeline
    <3>5. CASE \E c \in t.changes : c.field = f
      <4>1. PICK c \in t.changes : c = (CHOOSE d \in t.changes : d.field = f) /\ c.field = f
        BY <3>5
      <4> QED BY <3>2, <3>3, <3>4, <3>5, <4>1 DEF Explains
    <3>6. CASE ~ \E c \in t.changes : c.field = f
      BY <3>1, <3>2, <3>3, <3>4, <3>6 DEF Explains
    <3> QED BY <3>5, <3>6
  <2>6. DiffIsCurrent(w)'
    BY <2>1, <2>2, <2>5 DEF DiffIsCurrent
  <2> QED BY <1>t, <2>1, <2>6, OthersCurrent
<1> QED BY <1>1, <1>2

\* The statements after the row carry its changes along.
LEMMA CarriesCurrent ==
  ASSUME TypeOK, TimelineInv, NEW w \in Workers,
         PassUnique(w) \/ ReplaceChildren(w) \/ InsertChanges(w)
  PROVE  TimelineInv'
<1> DEFINE t == txn[w]
<1>1. HoldsLock(w) /\ t \in Writing
  BY DEF PassUnique, ReplaceChildren, InsertChanges, HoldsLock, TypeOK, Txn, Idle, Searching,
         Found, Diffing, Diffed
<1>2. PICK u : /\ Goto(w, u) /\ UNCHANGED committed
               /\ u.pc \in {"children", "events", "commit"}
               /\ u.id = t.id /\ u.row = t.row /\ u.changes = t.changes
  <2>1. CASE PassUnique(w)
    <3>1. Goto(w, [t EXCEPT !.pc = "children"]) /\ UNCHANGED committed
      BY <2>1 DEF PassUnique
    <3> QED BY <1>1, <3>1 DEF Writing
  <2>2. CASE ReplaceChildren(w)
    <3> DEFINE u == [t EXCEPT !.pc = "events",
                              !.kids = IF t.r.collected THEN Replaced(@, t.r) ELSE @]
    <3>1. Goto(w, u) /\ UNCHANGED committed
      BY <2>2 DEF ReplaceChildren
    <3>2. u.pc = "events" /\ u.id = t.id /\ u.row = t.row /\ u.changes = t.changes
      BY <1>1 DEF Writing
    <3> QED BY <3>1, <3>2
  <2>3. CASE InsertChanges(w)
    <3>1. Goto(w, [t EXCEPT !.pc = "commit"]) /\ UNCHANGED committed
      BY <2>3 DEF InsertChanges
    <3> QED BY <1>1, <3>1 DEF Writing
  <2> QED BY <2>1, <2>2, <2>3
<1>3. txn'[w] = u /\ rows' = rows /\ shown' = shown
  BY <1>2 DEF Goto, TypeOK, committed
<1>4. \A f \in Tracked : Timeline(u)'[f] = u.row[f]
  BY <1>1, <1>2, <1>3 DEF TimelineInv, DiffIsCurrent, Timeline
<1>5. DiffIsCurrent(w)'
  BY <1>2, <1>3, <1>4 DEF DiffIsCurrent
<1> QED BY <1>2, <1>5, OthersCurrent

\* A commit writes row and events together; nobody else is at that row.
LEMMA CommitCurrent ==
  ASSUME TypeOK, TimelineInv, DiffsApart, NEW w \in Workers, Commit(w)
  PROVE  TimelineInv'
<1> DEFINE t == txn[w]
<1>1. t.pc = "commit" /\ HoldsLock(w) /\ t \in Writing /\ t.id \in Ids
  BY DEF Commit, HoldsLock, TypeOK, Txn, Idle, Searching, Found, Diffing, Diffed, Writing
<1>2. ASSUME NEW u \in Workers PROVE DiffIsCurrent(u)'
  <2>1. CASE u = w
    <3>1. txn'[u].pc = "idle"
      BY <2>1 DEF Commit, Goto, Idle, TypeOK
    <3> QED BY <3>1 DEF DiffIsCurrent, HoldsLock
  <2>2. CASE u # w
    <3>1. txn'[u] = txn[u]
      BY <2>2 DEF Commit, Goto, TypeOK
    <3>2. CASE txn[u].pc \in {"os", "update"} \/ HoldsLock(u)
      <4>1. txn[u].id \in Ids \ {t.id}
        BY <1>1, <2>2, <3>2 DEF DiffsApart, HoldsLock, TypeOK, Txn, Idle, Searching, Found,
                                Diffing, Diffed, Writing
      <4>2. rows'[txn[u].id] = rows[txn[u].id] /\ shown'[txn[u].id] = shown[txn[u].id]
        BY <1>1, <4>1 DEF Commit, TypeOK
      <4> QED BY <3>1, <4>2 DEF TimelineInv, DiffIsCurrent, HoldsLock, Timeline, Explains, Empty
    <3>3. CASE ~(txn[u].pc \in {"os", "update"} \/ HoldsLock(u))
      BY <3>1, <3>3 DEF DiffIsCurrent, HoldsLock
    <3> QED BY <3>2, <3>3
  <2> QED BY <2>1, <2>2
<1>3. \A u \in Workers : DiffIsCurrent(u)'
  BY <1>2
<1>4. rows' = [rows EXCEPT ![t.id] = t.row] /\ shown' = [shown EXCEPT ![t.id] = Timeline(t)]
  BY DEF Commit
<1>5. ASSUME NEW i \in Exists', NEW f \in Tracked PROVE shown'[i][f] = rows'[i][f]
  <2>1. CASE i = t.id
    BY <1>1, <1>4, <2>1 DEF TypeOK, TimelineInv, DiffIsCurrent
  <2>2. CASE i # t.id
    <3>1. i \in Ids /\ rows'[i] = rows[i] /\ shown'[i] = shown[i]
      BY <1>4, <2>2 DEF TypeOK, Exists, Ids
    <3>2. i \in Exists
      BY <3>1 DEF Exists
    <3> QED BY <3>1, <3>2 DEF TimelineInv, TimelineMatchesRow
  <2> QED BY <2>1, <2>2
<1> QED BY <1>3, <1>5 DEF TimelineInv, TimelineMatchesRow

\* Beginning, searching and giving up leave nothing half diffed behind.
LEMMA SearchCurrent ==
  ASSUME TypeOK, TimelineInv, NEW w \in Workers,
         Begin(w) \/ Resolve(w) \/ UniqueViolation(w) \/ Fail(w)
  PROVE  TimelineInv'
<1>1. PICK t : Goto(w, t) /\ UNCHANGED committed /\ t.pc \in {"idle", "resolve", "insert", "scalars"}
  <2>1. CASE Begin(w)
    <3>1. PICK r \in ReportsOf[w] : Goto(w, [pc |-> "resolve", r |-> r, key |-> 1, id |-> 0])
      BY <2>1 DEF Begin
    <3> QED BY <2>1, <3>1 DEF Begin
  <2>3. CASE UniqueViolation(w) \/ Fail(w)
    <3>1. Goto(w, Idle) /\ UNCHANGED committed /\ Idle.pc = "idle"
      BY <2>3 DEF UniqueViolation, Fail, Idle
    <3> QED BY <3>1
  <2>2. CASE Resolve(w)
    <3>0. txn[w].pc = "resolve" /\ UNCHANGED committed
      BY <2>2 DEF Resolve
    <3>1. txn[w] \in Searching
      BY <3>0 DEF TypeOK, Txn, Idle, Found, Diffing, Diffed, Writing
    <3>2. \A id : [txn[w] EXCEPT !.pc = "scalars", !.id = id].pc = "scalars"
      BY <3>1 DEF Searching
    <3>3. [txn[w] EXCEPT !.pc = "insert"].pc = "insert" /\ [txn[w] EXCEPT !.key = @ + 1].pc = "resolve"
      BY <3>0, <3>1 DEF Searching
    <3> QED BY <2>2, <3>0, <3>2, <3>3 DEF Resolve
  <2> QED BY <2>1, <2>2, <2>3
<1>2. txn'[w] = t
  BY <1>1 DEF Goto, TypeOK
<1>3. DiffIsCurrent(w)'
  BY <1>1, <1>2 DEF DiffIsCurrent, HoldsLock
<1> QED BY <1>1, <1>3, OthersCurrent

\* As long as upserts that overlap are of different devices, the change timeline is
\* complete: replaying a device's events gives its row, whatever the reports leave
\* out but a type, and whichever statements fail.  (StoreTimeline: two upserts of
\* one device break it.)
THEOREM TimelineComplete ==
  ASSUME TypesGiven PROVE Spec /\ []DiffsApart => []TimelineMatchesRow
<1>1. Init => TimelineInv
  BY DEF Init, TimelineInv, TimelineMatchesRow, Exists, NoRow, DiffIsCurrent, HoldsLock, Idle
<1>2. KeysInv /\ PendingInv /\ Reported /\ TimelineInv /\ DiffsApart /\ [Next]_vars
      => TimelineInv'
  <2> SUFFICES ASSUME KeysInv, PendingInv, Reported, TimelineInv, DiffsApart, [Next]_vars
               PROVE  TimelineInv'
    OBVIOUS
  <2>1. TypeOK
    BY DEF KeysInv
  <2>2. ASSUME NEW w \in Workers, Begin(w) \/ Step(w) \/ Fail(w) PROVE TimelineInv'
    BY <2>1, <2>2, ReadsCurrent, WritesCurrent, CarriesCurrent, CommitCurrent, SearchCurrent DEF Step
  <2>3. CASE UNCHANGED vars
    BY <2>3 DEF vars, TimelineInv, TimelineMatchesRow, Exists, DiffIsCurrent, HoldsLock, Timeline,
                Explains, Empty
  <2> QED BY <2>2, <2>3 DEF Next, AllDone
<1>3. TimelineInv => TimelineMatchesRow
  BY DEF TimelineInv
<1> QED BY <1>1, <1>2, <1>3, StorePending, StoreReported, PTL DEF Spec

-----------------------------------------------------------------------------
\* What some report of machine m says: a key, or an interface's MAC.
Said(m, f, v) == \E w \in Workers : \E r \in ReportsOf[w] : r.machine = m /\ r[f] = v
Carried(m, x) == \E w \in Workers : \E r \in ReportsOf[w] : r.machine = m /\ x \in r.macs

\* A row and its interfaces hold nothing but what was reported of m.
TellsOf(m, row, children) ==
  /\ \A f \in TextKeys : Said(m, f, row[f])
  /\ \A x \in children.macs : Carried(m, x)

OwnerInv ==
  /\ \A i \in Ids \ Exists : owner[i] = {}
  /\ \A i \in Exists : \E m \in Machines : owner[i] = {m} /\ TellsOf(m, rows[i], kids[i])

\* A transaction found a row of its report's machine, and writes what that reported.
PlanInv(w) ==
  LET t == txn[w]
  IN  /\ t.pc # "idle" => t.r \in ReportsOf[w]
      /\ t.pc \in {"scalars", "os", "update"} => owner[t.id] = {t.r.machine}
      /\ HoldsLock(w) => owner[t.id] \subseteq {t.r.machine}
                         /\ TellsOf(t.r.machine, t.row, t.kids)

OneMachine == OwnerInv /\ \A w \in Workers : PlanInv(w)

\* Any key that matches finds a row of the machine the report came from.
LEMMA MatchIsOwn ==
  ASSUME MachinesDiffer, OwnerInv, NEW w \in Workers, NEW r \in ReportsOf[w],
         NEW n \in 1 .. 5, NEW id \in Matches(r, KeyOrder[n])
  PROVE  owner[id] = {r.machine}
<1> DEFINE key == KeyOrder[n]
<1>1. key \in {"serial", "guid", "mac", "host", "ip"}
  BY DEF KeyOrder
<1>2. id \in Exists /\ HasKey(r, key)
  BY DEF Matches
<1>3. PICK m \in Machines : owner[id] = {m} /\ TellsOf(m, rows[id], kids[id])
  BY <1>2 DEF OwnerInv
<1>4. CASE key = "mac"
  <2>1. PICK x \in kids[id].macs : x \in r.macs /\ x \notin RandomMacs
    BY <1>4 DEF Matches, MacsOf
  <2>2. PICK v \in Workers : \E s \in ReportsOf[v] : s.machine = m /\ x \in s.macs
    BY <1>3, <2>1 DEF TellsOf, Carried
  <2>3. PICK s \in ReportsOf[v] : s.machine = m /\ x \in s.macs
    BY <2>2
  <2> QED BY <1>3, <2>1, <2>3 DEF MachinesDiffer
<1>5. CASE key = "host"
  <2>1. LowerOf[rows[id].host] = LowerOf[r.host] /\ r.host # None
    BY <1>2, <1>5 DEF Matches, HasKey
  <2>2. PICK v \in Workers : \E s \in ReportsOf[v] : s.machine = m /\ s["host"] = rows[id]["host"]
    BY <1>3 DEF TellsOf, TextKeys, Said
  <2>3. PICK s \in ReportsOf[v] : s.machine = m /\ s["host"] = rows[id]["host"]
    BY <2>2
  <2> QED BY <1>3, <2>1, <2>3 DEF MachinesDiffer
<1>6. CASE key \in {"serial", "guid", "ip"}
  <2>1. rows[id][key] = r[key] /\ r[key] # None
    BY <1>2, <1>6 DEF Matches, HasKey
  <2>2. PICK v \in Workers : \E s \in ReportsOf[v] : s.machine = m /\ s[key] = rows[id][key]
    BY <1>3, <1>6 DEF TellsOf, TextKeys, Said
  <2>3. PICK s \in ReportsOf[v] : s.machine = m /\ s[key] = rows[id][key]
    BY <2>2
  <2> QED BY <1>3, <1>6, <2>1, <2>3 DEF MachinesDiffer
<1> QED BY <1>1, <1>4, <1>5, <1>6

\* A step of w that changes no table: only w's own plan has to be looked at.
LEMMA OthersPlans ==
  ASSUME TypeOK, OneMachine, NEW w \in Workers, NEW t, Goto(w, t), UNCHANGED committed,
         PlanInv(w)'
  PROVE  OneMachine'
<1>1. \A u \in Workers \ {w} : txn'[u] = txn[u]
  BY DEF Goto, TypeOK
<1>2. UNCHANGED <<rows, kids, owner, Exists>>
  BY DEF committed, Exists
<1>3. \A u \in Workers \ {w} : PlanInv(u)'
  BY <1>1, <1>2 DEF OneMachine, PlanInv, HoldsLock, TellsOf, Said, Carried
<1>4. OwnerInv'
  BY <1>2 DEF OneMachine, OwnerInv, TellsOf, Said, Carried
<1> QED BY <1>3, <1>4 DEF OneMachine

\* Reports come from the worker's collectors; what a search finds is the machine's own.
LEMMA SearchPlans ==
  ASSUME MachinesDiffer, TypeOK, OneMachine, NEW w \in Workers,
         \/ Begin(w) \/ Resolve(w) \/ ReadScalars(w) \/ ReadOS(w)
         \/ UniqueViolation(w) \/ Fail(w)
  PROVE  OneMachine'
<1>1. CASE Begin(w)
  <2>1. PICK r \in ReportsOf[w] :
          Goto(w, [pc |-> "resolve", r |-> r, key |-> 1, id |-> 0]) /\ UNCHANGED committed
    BY <1>1 DEF Begin
  <2>2. txn'[w] = [pc |-> "resolve", r |-> r, key |-> 1, id |-> 0]
    BY <2>1 DEF Goto, TypeOK
  <2>3. PlanInv(w)'
    BY <2>2 DEF PlanInv, HoldsLock
  <2> QED BY <2>1, <2>3, OthersPlans
<1>2. CASE UniqueViolation(w) \/ Fail(w)
  <2>1. Goto(w, Idle) /\ UNCHANGED committed
    BY <1>2 DEF UniqueViolation, Fail
  <2>2. txn'[w].pc = "idle"
    BY <2>1 DEF Goto, TypeOK, Idle
  <2>3. PlanInv(w)'
    BY <2>2 DEF PlanInv, HoldsLock
  <2> QED BY <2>1, <2>3, OthersPlans
<1>3. CASE ReadScalars(w) \/ ReadOS(w)
  <2>1. PICK u : /\ Goto(w, u) /\ UNCHANGED committed /\ u.pc \in {"os", "update"}
                 /\ u.id = txn[w].id /\ u.r = txn[w].r
    BY <1>3 DEF ReadScalars, ReadOS
  <2>2. txn'[w] = u /\ owner' = owner
    BY <2>1 DEF Goto, TypeOK, committed
  <2>3. txn[w].pc \in {"scalars", "os"}
    BY <1>3 DEF ReadScalars, ReadOS
  <2>4. PlanInv(w)'
    BY <2>1, <2>2, <2>3 DEF OneMachine, PlanInv, HoldsLock
  <2> QED BY <2>1, <2>4, OthersPlans
<1>4. CASE Resolve(w)
  <2> DEFINE t == txn[w]
  <2>1. t.pc = "resolve" /\ UNCHANGED committed
    BY <1>4 DEF Resolve
  <2>2. t \in Searching /\ t.r \in ReportsOf[w]
    BY <2>1 DEF TypeOK, Txn, Idle, Found, Diffing, Diffed, Writing, OneMachine, PlanInv
  <2>3. ASSUME NEW u, Goto(w, u), u.r = t.r,
               \/ u.pc \in {"resolve", "insert"}
               \/ u.pc = "scalars" /\ owner[u.id] = {t.r.machine}
        PROVE  OneMachine'
    <3>1. txn'[w] = u /\ owner' = owner
      BY <2>1, <2>3 DEF Goto, TypeOK, committed
    <3>2. PlanInv(w)'
      BY <2>2, <2>3, <3>1 DEF PlanInv, HoldsLock
    <3> QED BY <2>1, <2>3, <3>2, OthersPlans
  <2>4. CASE Goto(w, [t EXCEPT !.pc = "insert"]) \/ Goto(w, [t EXCEPT !.key = @ + 1])
    BY <2>1, <2>2, <2>3, <2>4 DEF Searching
  <2>5. ASSUME t.key < 6, NEW id \in Matches(t.r, KeyOrder[t.key]),
               Goto(w, [t EXCEPT !.pc = "scalars", !.id = id])
        PROVE  OneMachine'
    <3>1. t.key \in 1 .. 5
      BY <2>2, <2>5 DEF Searching
    <3>2. owner[id] = {t.r.machine}
      BY <2>2, <3>1, MatchIsOwn DEF OneMachine
    <3>3. [t EXCEPT !.pc = "scalars", !.id = id].r = t.r
          /\ [t EXCEPT !.pc = "scalars", !.id = id].pc = "scalars"
          /\ [t EXCEPT !.pc = "scalars", !.id = id].id = id
      BY <2>2 DEF Searching
    <3> QED BY <2>3, <2>5, <3>2, <3>3
  <2> QED BY <1>4, <2>4, <2>5 DEF Resolve
<1> QED BY <1>1, <1>2, <1>3, <1>4

\* What a transaction writes is its report, over what the machine's row had.
LEMMA WritePlans ==
  ASSUME KeysInv, PendingInv, OneMachine, NEW w \in Workers,
         \/ InsertRow(w) \/ UpdateRow(w)
         \/ PassUnique(w) \/ ReplaceChildren(w) \/ InsertChanges(w)
  PROVE  OneMachine'
<1> DEFINE t == txn[w]
<1>t. TypeOK
  BY DEF KeysInv
<1>0. t.r \in ReportsOf[w] /\ \A f \in TextKeys : Said(t.r.machine, f, t.r[f])
  BY DEF InsertRow, UpdateRow, PassUnique, ReplaceChildren, InsertChanges, OneMachine, PlanInv, Said
<1>1. ASSUME NEW u, Goto(w, u), UNCHANGED committed, u.r = t.r,
             u.pc \in {"unique", "children", "events", "commit"},
             owner[u.id] \subseteq {t.r.machine}, TellsOf(t.r.machine, u.row, u.kids)
      PROVE  OneMachine'
  <2>1. txn'[w] = u /\ owner' = owner
    BY <1>1, <1>t DEF Goto, TypeOK, committed
  <2>2. PlanInv(w)'
    BY <1>0, <1>1, <2>1 DEF PlanInv, HoldsLock, TellsOf, Said, Carried
  <2> QED BY <1>t, <1>1, <2>2, OthersPlans
<1>2. CASE InsertRow(w)
  <2>1. PICK id \in Ids \ Exists :
          Goto(w, [pc |-> "unique", r |-> t.r, id |-> id, changes |-> {},
                   row |-> Inserted(t.r), kids |-> NoKids])
    BY <1>2 DEF InsertRow
  <2>2. owner[id] = {} /\ UNCHANGED committed
    BY <1>2 DEF OneMachine, OwnerInv, InsertRow
  <2>3. TellsOf(t.r.machine, Inserted(t.r), NoKids)
    BY <1>0 DEF TellsOf, Inserted, NoKids, TextKeys, Columns
  <2> QED BY <1>1, <2>1, <2>2, <2>3
<1>3. CASE UpdateRow(w)
  <2> DEFINE row == Coalesced(rows[t.id], t.r)
  <2>1. /\ Goto(w, [pc |-> "unique", r |-> t.r, id |-> t.id, changes |-> t.changes,
                    row |-> row, kids |-> kids[t.id]])
        /\ UNCHANGED committed /\ t.pc = "update"
    BY <1>3 DEF UpdateRow
  <2>2. t.id \in Exists /\ owner[t.id] = {t.r.machine}
    BY <2>1 DEF PendingInv, StaysFound, OneMachine, PlanInv
  <2>3. TellsOf(t.r.machine, rows[t.id], kids[t.id])
    BY <2>2 DEF OneMachine, OwnerInv
  <2>4. rows[t.id] \in Row
    BY <1>t, <2>2 DEF TypeOK, Exists
  <2>5. \A f \in TextKeys : row[f] \in {rows[t.id][f], t.r[f]}
    BY <2>4 DEF Coalesced, Row, TextKeys
  <2>6. TellsOf(t.r.machine, row, kids[t.id])
    BY <1>0, <2>3, <2>5 DEF TellsOf
  <2> HIDE DEF row
  <2> QED BY <1>1, <2>1, <2>2, <2>6
<1>4. CASE PassUnique(w) \/ ReplaceChildren(w) \/ InsertChanges(w)
  <2>1. HoldsLock(w)
    BY <1>4 DEF PassUnique, ReplaceChildren, InsertChanges, HoldsLock
  <2>2. t \in Writing
    BY <2>1, <1>t DEF HoldsLock, TypeOK, Txn, Idle, Searching, Found, Diffing, Diffed
  <2>3. owner[t.id] \subseteq {t.r.machine} /\ TellsOf(t.r.machine, t.row, t.kids)
    BY <2>1 DEF OneMachine, PlanInv
  <2>4. ASSUME NEW pc \in {"children", "commit"}, Goto(w, [t EXCEPT !.pc = pc]),
               UNCHANGED committed
        PROVE  OneMachine'
    <3>1. /\ [t EXCEPT !.pc = pc].r = t.r /\ [t EXCEPT !.pc = pc].pc = pc
          /\ [t EXCEPT !.pc = pc].id = t.id /\ [t EXCEPT !.pc = pc].row = t.row
          /\ [t EXCEPT !.pc = pc].kids = t.kids
      BY <2>2 DEF Writing
    <3> QED BY <1>1, <2>3, <2>4, <3>1
  <2>5. CASE PassUnique(w) \/ InsertChanges(w)
    BY <2>4, <2>5 DEF PassUnique, InsertChanges
  <2>6. CASE ReplaceChildren(w)
    <3> DEFINE k == IF t.r.collected THEN Replaced(t.kids, t.r) ELSE t.kids
               u == [t EXCEPT !.pc = "events", !.kids = k]
    <3>1. Goto(w, u) /\ UNCHANGED committed
      BY <2>2, <2>6 DEF ReplaceChildren, Writing
    <3>2. u.r = t.r /\ u.pc = "events" /\ u.id = t.id /\ u.row = t.row /\ u.kids = k
      BY <2>2 DEF Writing
    <3>3. \A x \in t.r.macs : Carried(t.r.machine, x)
      BY <1>0 DEF Carried
    <3>4. TellsOf(t.r.machine, t.row, k)
      BY <2>3, <3>3 DEF TellsOf, Replaced
    <3> HIDE DEF u
    <3> QED BY <1>1, <2>3, <3>1, <3>2, <3>4
  <2> QED BY <1>4, <2>5, <2>6
<1> QED BY <1>2, <1>3, <1>4

\* A commit gives the row to the one machine it already belongs to, or to its first.
LEMMA CommitPlans ==
  ASSUME KeysInv, PendingInv, OneMachine, NEW w \in Workers, Commit(w)
  PROVE  OneMachine'
<1> DEFINE t == txn[w]
           m == t.r.machine
<1>t. TypeOK
  BY DEF KeysInv
<1>1. HoldsLock(w) /\ t.pc = "commit"
  BY DEF Commit, HoldsLock
<1>2. t \in Writing /\ t.id \in Ids /\ t.r \in Report /\ m \in Machines
  <2>1. t \in Writing
    BY <1>1, <1>t DEF TypeOK, Txn, Idle, Searching, Found, Diffing, Diffed
  <2> QED BY <2>1 DEF Writing, Report
<1>3. owner[t.id] \subseteq {m} /\ TellsOf(m, t.row, t.kids) /\ t.row.live
  BY <1>1 DEF OneMachine, PlanInv, PendingInv, FromStoredRow
<1>4. /\ rows'[t.id] = t.row /\ kids'[t.id] = t.kids /\ owner'[t.id] = {m}
      /\ \A i \in Ids \ {t.id} : rows'[i] = rows[i] /\ kids'[i] = kids[i] /\ owner'[i] = owner[i]
  BY <1>t, <1>2, <1>3 DEF Commit, TypeOK
<1>5. Exists' = Exists \cup {t.id}
  BY <1>2, <1>3, <1>4 DEF Exists, Ids
<1>6. OwnerInv'
  <2>1. ASSUME NEW i \in Ids \ Exists' PROVE owner'[i] = {}
    BY <1>4, <1>5 DEF OneMachine, OwnerInv
  <2>2. ASSUME NEW i \in Exists'
        PROVE  \E n \in Machines : owner'[i] = {n} /\ TellsOf(n, rows'[i], kids'[i])
    <3>1. CASE i = t.id
      BY <1>2, <1>3, <1>4, <3>1
    <3>2. CASE i # t.id
      <4>1. i \in Exists /\ i \in Ids \ {t.id}
        BY <1>5, <3>2 DEF Exists
      <4> QED BY <1>4, <4>1 DEF OneMachine, OwnerInv
    <3> QED BY <3>1, <3>2
  <2>3. \A i \in Exists' : \E n \in Machines : owner'[i] = {n} /\ TellsOf(n, rows'[i], kids'[i])
    BY <2>2
  <2> QED BY <2>1, <2>3 DEF OwnerInv, TellsOf, Said, Carried, Ids
<1>7. ASSUME NEW u \in Workers PROVE PlanInv(u)'
  <2>1. CASE u = w
    <3>1. txn'[u].pc = "idle"
      BY <1>t, <2>1 DEF Commit, Goto, Idle, TypeOK
    <3> QED BY <3>1 DEF PlanInv, HoldsLock
  <2>2. CASE u # w
    <3>1. txn'[u] = txn[u]
      BY <1>t, <2>2 DEF Commit, Goto, TypeOK
    <3>2. txn[u].pc \in {"scalars", "os", "update"} =>
            owner[txn[u].id] = {txn[u].r.machine} /\ txn[u].id \in Exists
      BY DEF OneMachine, PlanInv, PendingInv, StaysFound
    <3>3. txn[u].pc \in {"scalars", "os", "update"} => owner'[txn[u].id] = {txn[u].r.machine}
      <4>1. CASE txn[u].id = t.id
        BY <1>3, <1>4, <3>2, <4>1
      <4>2. CASE txn[u].id # t.id
        BY <1>4, <3>2, <4>2 DEF Exists
      <4> QED BY <4>1, <4>2
    <3>4. HoldsLock(u) => txn[u].id \in Ids \ {t.id}
      BY <1>1, <1>t, <2>2 DEF KeysInv, RowLocked, HoldsLock, TypeOK, Txn, Idle, Searching,
                              Found, Diffing, Diffed, Writing
    <3>5. HoldsLock(u) => owner'[txn[u].id] = owner[txn[u].id]
      BY <1>4, <3>4
    <3> QED BY <3>1, <3>3, <3>5 DEF OneMachine, PlanInv, HoldsLock, TellsOf, Said, Carried
  <2> QED BY <2>1, <2>2
<1> QED BY <1>6, <1>7 DEF OneMachine

\* Every row belongs to one machine, and so does what is about to be written.
LEMMA StoreOwners ==
  ASSUME MachinesDiffer PROVE Spec => []OneMachine
<1>1. Init => OneMachine
  BY DEF Init, OneMachine, OwnerInv, PlanInv, HoldsLock, Exists, NoRow, Idle
<1>2. KeysInv /\ PendingInv /\ OneMachine /\ [Next]_vars => OneMachine'
  <2> SUFFICES ASSUME KeysInv, PendingInv, OneMachine, [Next]_vars PROVE OneMachine'
    OBVIOUS
  <2>1. TypeOK
    BY DEF KeysInv
  <2>2. ASSUME NEW w \in Workers, Begin(w) \/ Step(w) \/ Fail(w) PROVE OneMachine'
    BY <2>1, <2>2, SearchPlans, WritePlans, CommitPlans DEF Step
  <2>3. CASE UNCHANGED vars
    BY <2>3 DEF vars, OneMachine, OwnerInv, PlanInv, HoldsLock, Exists, TellsOf, Said, Carried
  <2> QED BY <2>2, <2>3 DEF Next, AllDone
<1> QED BY <1>1, <1>2, StorePending, PTL DEF Spec

\* Two machines are never merged into one row, however their upserts interleave
\* and fail, as long as no identity key of one is reported of the other.
THEOREM MachinesStayApart ==
  ASSUME MachinesDiffer PROVE Spec => []RowHasOneMachine
<1>1. OneMachine => RowHasOneMachine
  BY DEF OneMachine, OwnerInv, RowHasOneMachine
<1> QED BY <1>1, StoreOwners, PTL

\* Transactions of two machines are never at one row.
LEMMA SourcesApart ==
  ASSUME \A m \in Machines : OneSource(m), KeysInv, PendingInv, OneMachine PROVE DiffsApart
<1> SUFFICES ASSUME NEW u \in Workers, NEW w \in Workers, u # w,
                    txn[u].pc \in {"os", "update"} \/ HoldsLock(u),
                    txn[w].pc \in {"os", "update"} \/ HoldsLock(w),
                    txn[u].id = txn[w].id
             PROVE  FALSE
  BY DEF DiffsApart
<1>1. ~(HoldsLock(u) /\ HoldsLock(w))
  BY DEF KeysInv, RowLocked
<1>2. \A v \in {u, w} : /\ txn[v].r \in ReportsOf[v] /\ owner[txn[v].id] \subseteq {txn[v].r.machine}
                        /\ txn[v].pc \in {"os", "update"} => owner[txn[v].id] # {}
  BY DEF OneMachine, PlanInv, HoldsLock
<1>3. txn[u].r.machine = txn[w].r.machine
  BY <1>1, <1>2
<1>4. txn[u].r.machine \in Machines
  BY <1>2, StoreAssumption DEF Report
<1> QED BY <1>2, <1>3, <1>4 DEF OneSource

\* So the timeline is complete however many workers there are, when each machine's
\* reports have a type and come from one of them: overlapping upserts of other
\* machines do no harm.
THEOREM TimelinePerMachine ==
  ASSUME TypesGiven, MachinesDiffer, \A m \in Machines : OneSource(m)
  PROVE  Spec => []TimelineMatchesRow
<1>1. KeysInv /\ PendingInv /\ OneMachine => DiffsApart
  BY SourcesApart
<1> QED BY <1>1, StorePending, StoreOwners, TimelineComplete, PTL

-----------------------------------------------------------------------------
\* A search that has passed, without a match, a key its machine keeps, or that
\* has ended with an insert not yet committed.
Missed(t) ==
  \/ t.pc = "resolve" /\ \E n \in 1 .. t.key - 1 :
                            KeyOrder[n] \in TextKeys /\ Keeps(t.r.machine, KeyOrder[n])
  \/ t.pc = "insert"
  \/ t.pc \in {"unique", "children", "events", "commit"} /\ t.id \notin Exists

\* What one worker alone persists, and has not found, is not there.
MissedInv(w) ==
  OneSource(txn[w].r.machine) /\ Missed(txn[w]) => \A i \in Ids : txn[w].r.machine \notin owner[i]

OneRowInv == MachineHasOneRow /\ \A w \in Workers : txn[w].pc # "idle" => MissedInv(w)

\* The rows of a machine carry the keys it keeps, with the value of any report.
LEMMA RowsKeepKeys ==
  ASSUME NEW m, NEW f \in TextKeys, Keeps(m, f), NEW v, Said(m, f, v),
         NEW w \in Workers, NEW r \in ReportsOf[w], r.machine = m
  PROVE  /\ v # None /\ r[f] # None
         /\ IF f = "host" THEN LowerOf[v] = LowerOf[r[f]] ELSE v = r[f]
<1>1. PICK u \in Workers : \E s \in ReportsOf[u] : s.machine = m /\ s[f] = v
  BY DEF Said
<1>2. PICK s \in ReportsOf[u] : s.machine = m /\ s[f] = v
  BY <1>1
<1>3. r[f] # None
  BY DEF Keeps
<1>4. s[f] # None /\ IF f = "host" THEN LowerOf[s[f]] = LowerOf[r[f]] ELSE s[f] = r[f]
  BY <1>2 DEF Keeps
<1> QED BY <1>2, <1>3, <1>4

\* A key that is kept finds the machine's row, if there is one.
LEMMA KeptKeyFinds ==
  ASSUME TypeOK, OwnerInv, NEW w \in Workers, NEW r \in ReportsOf[w], NEW n \in 1 .. 5,
         KeyOrder[n] \in TextKeys, Keeps(r.machine, KeyOrder[n]), Matches(r, KeyOrder[n]) = {}
  PROVE  \A i \in Ids : r.machine \notin owner[i]
<1> DEFINE f == KeyOrder[n]
<1> SUFFICES ASSUME NEW i \in Ids, r.machine \in owner[i] PROVE FALSE
  OBVIOUS
<1>1. i \in Exists /\ TellsOf(r.machine, rows[i], kids[i])
  BY DEF OwnerInv
<1>2. Said(r.machine, f, rows[i][f])
  BY <1>1 DEF TellsOf
<1> HIDE DEF f
<1>3. f \in TextKeys /\ Keeps(r.machine, f) /\ Matches(r, f) = {}
  BY DEF f
<1>4. /\ r[f] # None
      /\ IF f = "host" THEN LowerOf[rows[i][f]] = LowerOf[r[f]] ELSE rows[i][f] = r[f]
  BY <1>2, <1>3, RowsKeepKeys
<1>5. i \in Matches(r, f)
  BY <1>1, <1>3, <1>4 DEF Matches, HasKey, TextKeys
<1> QED BY <1>3, <1>5

\* A step of w that changes no table: only w's own search has to be looked at.
LEMMA OthersMissed ==
  ASSUME TypeOK, OneRowInv, NEW w \in Workers, NEW t, Goto(w, t), UNCHANGED committed,
         t.pc # "idle" => MissedInv(w)'
  PROVE  OneRowInv'
<1>1. \A u \in Workers \ {w} : txn'[u] = txn[u]
  BY DEF Goto, TypeOK
<1>2. txn'[w] = t
  BY DEF Goto, TypeOK
<1>3. \A u \in Workers \ {w} : txn'[u].pc # "idle" => MissedInv(u)'
  BY <1>1 DEF OneRowInv, MissedInv, Missed, committed, Exists
<1>4. MachineHasOneRow'
  BY DEF OneRowInv, MachineHasOneRow, committed
<1> QED BY <1>2, <1>3, <1>4 DEF OneRowInv

\* A search misses a kept key only if there is nothing to find.
LEMMA SearchMisses ==
  ASSUME MachinesKeepAKey, TypeOK, OneMachine, OneRowInv, NEW w \in Workers,
         \/ Begin(w) \/ Resolve(w) \/ ReadScalars(w) \/ ReadOS(w)
         \/ UniqueViolation(w) \/ Fail(w)
  PROVE  OneRowInv'
<1> DEFINE t == txn[w]
<1>1. CASE Begin(w)
  <2>1. PICK r \in ReportsOf[w] :
          Goto(w, [pc |-> "resolve", r |-> r, key |-> 1, id |-> 0]) /\ UNCHANGED committed
    BY <1>1 DEF Begin
  <2>2. txn'[w] = [pc |-> "resolve", r |-> r, key |-> 1, id |-> 0]
    BY <2>1 DEF Goto, TypeOK
  <2>3. MissedInv(w)'
    BY <2>2 DEF MissedInv, Missed
  <2> QED BY <2>1, <2>3, OthersMissed
<1>2. CASE UniqueViolation(w) \/ Fail(w)
  <2>1. Goto(w, Idle) /\ UNCHANGED committed /\ Idle.pc = "idle"
    BY <1>2 DEF UniqueViolation, Fail, Idle
  <2> QED BY <2>1, OthersMissed
<1>3. CASE ReadScalars(w) \/ ReadOS(w)
  <2>1. PICK u : Goto(w, u) /\ UNCHANGED committed /\ u.pc \in {"os", "update"}
    BY <1>3 DEF ReadScalars, ReadOS
  <2>2. txn'[w] = u
    BY <2>1 DEF Goto, TypeOK
  <2>3. MissedInv(w)'
    BY <2>1, <2>2 DEF MissedInv, Missed
  <2> QED BY <2>1, <2>3, OthersMissed
<1>4. CASE Resolve(w)
  <2>1. t.pc = "resolve" /\ UNCHANGED committed
    BY <1>4 DEF Resolve
  <2>2. t \in Searching /\ t.r \in ReportsOf[w] /\ MissedInv(w)
    BY <2>1 DEF TypeOK, Txn, Idle, Found, Diffing, Diffed, Writing, OneMachine, PlanInv, OneRowInv
  <2>3. ASSUME NEW u, Goto(w, u), u.r = t.r, Missed(u) /\ OneSource(t.r.machine) =>
                 \A i \in Ids : t.r.machine \notin owner[i]
        PROVE  OneRowInv'
    <3>1. txn'[w] = u /\ owner' = owner /\ Exists' = Exists
      BY <2>1, <2>3 DEF Goto, TypeOK, committed, Exists
    <3>2. MissedInv(w)'
      BY <2>3, <3>1 DEF MissedInv, OneSource, Missed, Keeps
    <3> QED BY <2>1, <2>3, <3>2, OthersMissed
  <2>4. CASE t.key = 6 /\ Goto(w, [t EXCEPT !.pc = "insert"])
    <3>1. [t EXCEPT !.pc = "insert"].r = t.r
      BY <2>2 DEF Searching
    <3>2. t.r.machine \in Machines
      BY <2>2 DEF Searching, Report
    <3>3. ASSUME OneSource(t.r.machine) PROVE \A i \in Ids : t.r.machine \notin owner[i]
      <4>1. \E f \in TextKeys : Keeps(t.r.machine, f)
        BY <3>2, <3>3 DEF MachinesKeepAKey, UniqueKeys, TextKeys
      <4>2. \E n \in 1 .. 5 : KeyOrder[n] \in TextKeys /\ Keeps(t.r.machine, KeyOrder[n])
        BY <4>1 DEF KeyOrder, TextKeys
      <4>3. Missed(t)
        BY <2>1, <2>4, <4>2 DEF Missed
      <4> QED BY <2>2, <3>3, <4>3 DEF MissedInv
    <3> QED BY <2>3, <2>4, <3>1, <3>3
  <2>5. CASE t.key < 6 /\ Matches(t.r, KeyOrder[t.key]) = {} /\ Goto(w, [t EXCEPT !.key = @ + 1])
    <3> DEFINE u == [t EXCEPT !.key = @ + 1]
    <3>1. u.r = t.r /\ u.pc = "resolve" /\ u.key = t.key + 1 /\ t.key \in 1 .. 5
      BY <2>1, <2>2, <2>5 DEF Searching
    <3>2. ASSUME Missed(u), OneSource(t.r.machine)
          PROVE  \A i \in Ids : t.r.machine \notin owner[i]
      <4>1. PICK n \in 1 .. t.key : KeyOrder[n] \in TextKeys /\ Keeps(t.r.machine, KeyOrder[n])
        <5>1. u.key - 1 = t.key
          BY <3>1
        <5> HIDE DEF u
        <5> QED BY <3>1, <3>2, <5>1 DEF Missed
      <4>2. CASE n = t.key
        BY <2>2, <2>5, <3>1, <4>1, <4>2, KeptKeyFinds DEF OneMachine
      <4>3. CASE n # t.key
        <5>1. n \in 1 .. t.key - 1
          BY <3>1, <4>3
        <5>2. Missed(t)
          BY <2>1, <4>1, <5>1 DEF Missed
        <5> QED BY <2>2, <3>2, <5>2 DEF MissedInv
      <4> QED BY <4>2, <4>3
    <3>3. Goto(w, u)
      BY <2>5
    <3>4. Missed(u) /\ OneSource(t.r.machine) => \A i \in Ids : t.r.machine \notin owner[i]
      BY <3>2
    <3>5. u.r = t.r
      BY <3>1
    <3> HIDE DEF u
    <3> QED BY <2>3, <3>3, <3>4, <3>5
  <2>6. ASSUME NEW id, Goto(w, [t EXCEPT !.pc = "scalars", !.id = id]) PROVE OneRowInv'
    <3> DEFINE u == [t EXCEPT !.pc = "scalars", !.id = id]
    <3>1. u.r = t.r /\ u.pc = "scalars"
      BY <2>2 DEF Searching
    <3>2. ~Missed(u)
      BY <3>1 DEF Missed
    <3>3. Goto(w, u)
      BY <2>6
    <3> HIDE DEF u
    <3> QED BY <2>3, <3>1, <3>2, <3>3
  <2> QED BY <1>4, <2>4, <2>5, <2>6 DEF Resolve
<1> QED BY <1>1, <1>2, <1>3, <1>4

\* What is inserted has just been missed; what is updated has been found.
LEMMA WriteMisses ==
  ASSUME KeysInv, PendingInv, OneMachine, OneRowInv, NEW w \in Workers,
         \/ InsertRow(w) \/ UpdateRow(w)
         \/ PassUnique(w) \/ ReplaceChildren(w) \/ InsertChanges(w)
  PROVE  OneRowInv'
<1> DEFINE t == txn[w]
<1>t. TypeOK
  BY DEF KeysInv
<1>0. t.pc # "idle" /\ MissedInv(w)
  BY DEF InsertRow, UpdateRow, PassUnique, ReplaceChildren, InsertChanges, OneRowInv
<1>1. ASSUME NEW u, Goto(w, u), UNCHANGED committed, u.r = t.r,
             u.pc \in {"unique", "children", "events", "commit"},
             u.id \notin Exists => Missed(t)
      PROVE  OneRowInv'
  <2>1. txn'[w] = u /\ owner' = owner /\ Exists' = Exists
    BY <1>1, <1>t DEF Goto, TypeOK, committed, Exists
  <2>2. MissedInv(w)'
    BY <1>0, <1>1, <2>1 DEF MissedInv, OneSource, Missed
  <2> QED BY <1>t, <1>1, <2>2, OthersMissed
<1>2. CASE InsertRow(w)
  <2>1. PICK id \in Ids \ Exists :
          Goto(w, [pc |-> "unique", r |-> t.r, id |-> id, changes |-> {},
                   row |-> Inserted(t.r), kids |-> NoKids])
    BY <1>2 DEF InsertRow
  <2>2. Missed(t) /\ UNCHANGED committed
    BY <1>2 DEF InsertRow, Missed
  <2> QED BY <1>1, <2>1, <2>2
<1>3. CASE UpdateRow(w)
  <2> DEFINE row == Coalesced(rows[t.id], t.r)
  <2>1. /\ Goto(w, [pc |-> "unique", r |-> t.r, id |-> t.id, changes |-> t.changes,
                    row |-> row, kids |-> kids[t.id]])
        /\ UNCHANGED committed /\ t.pc = "update"
    BY <1>3 DEF UpdateRow
  <2>2. t.id \in Exists
    BY <2>1 DEF PendingInv, StaysFound
  <2> HIDE DEF row
  <2> QED BY <1>1, <2>1, <2>2
<1>4. CASE PassUnique(w) \/ ReplaceChildren(w) \/ InsertChanges(w)
  <2>1. t.pc \in {"unique", "children", "events", "commit"}
    BY <1>4 DEF PassUnique, ReplaceChildren, InsertChanges
  <2>2. t \in Writing
    BY <2>1, <1>t, LockHolder DEF HoldsLock
  <2>3. ASSUME NEW u, Goto(w, u), u.id = t.id, u.r = t.r,
               u.pc \in {"children", "events", "commit"}
        PROVE  OneRowInv'
    BY <1>1, <1>4, <2>1, <2>3 DEF Missed, PassUnique, ReplaceChildren, InsertChanges
  <2>4. CASE PassUnique(w) \/ InsertChanges(w)
    <3>1. \A pc \in {"children", "commit"} :
            [t EXCEPT !.pc = pc].id = t.id /\ [t EXCEPT !.pc = pc].r = t.r
            /\ [t EXCEPT !.pc = pc].pc = pc
      BY <2>2 DEF Writing
    <3> QED BY <2>3, <2>4, <3>1 DEF PassUnique, InsertChanges
  <2>5. CASE ReplaceChildren(w)
    <3> DEFINE u == [t EXCEPT !.pc = "events",
                              !.kids = IF t.r.collected THEN Replaced(@, t.r) ELSE @]
    <3>1. Goto(w, u)
      BY <2>5 DEF ReplaceChildren
    <3>2. u.id = t.id /\ u.r = t.r /\ u.pc = "events"
      BY <2>2 DEF Writing
    <3> HIDE DEF u
    <3> QED BY <2>3, <3>1, <3>2
  <2> QED BY <1>4, <2>4, <2>5
<1> QED BY <1>2, <1>3, <1>4

\* A second row of a machine would have been found, or have clashed in the index.
LEMMA CommitMisses ==
  ASSUME MachinesKeepAKey, KeysInv, PendingInv, OneMachine, OneRowInv, NEW w \in Workers,
         Commit(w)
  PROVE  OneRowInv'
<1> DEFINE t == txn[w]
           m == t.r.machine
<1>t. TypeOK
  BY DEF KeysInv
<1>1. HoldsLock(w) /\ Indexed(w) /\ t.pc = "commit" /\ t.r \in ReportsOf[w]
  BY DEF Commit, HoldsLock, Indexed, OneMachine, PlanInv
<1>2. t \in Writing /\ t.id \in Ids /\ m \in Machines
  <2>1. t \in Writing
    BY <1>1, <1>t, LockHolder
  <2> QED BY <2>1 DEF Writing, Report
<1>3. owner[t.id] \subseteq {m} /\ TellsOf(m, t.row, t.kids) /\ t.row.live
  BY <1>1 DEF OneMachine, PlanInv, PendingInv, FromStoredRow
<1>4. /\ owner' = [owner EXCEPT ![t.id] = @ \cup {m}]
      /\ rows' = [rows EXCEPT ![t.id] = t.row]
  BY DEF Commit
<1>5. Exists \subseteq Exists'
  BY <1>t, <1>2, <1>3, <1>4 DEF Exists, TypeOK, Ids
<1>6. ASSUME NEW i \in Ids, m \in owner[i] PROVE i = t.id
  <2> DEFINE Key(f) == Said(m, f, rows[i][f]) /\ Said(m, f, t.row[f])
  <2>1. i \in Exists /\ TellsOf(m, rows[i], kids[i])
    BY <1>6 DEF OneMachine, OwnerInv
  <2>2. CASE \E f \in UniqueKeys : Keeps(m, f)
    <3>1. PICK f \in UniqueKeys : Keeps(m, f)
      BY <2>2
    <3>2. f \in TextKeys /\ f # "host"
      BY DEF UniqueKeys, TextKeys
    <3>3. Said(m, f, rows[i][f]) /\ Said(m, f, t.row[f])
      BY <1>3, <2>1, <3>2 DEF TellsOf
    <3>4. rows[i][f] = t.r[f] /\ t.row[f] = t.r[f] /\ t.row[f] # None
      BY <1>1, <3>1, <3>2, <3>3, RowsKeepKeys
    <3> QED BY <1>1, <2>1, <3>4 DEF KeysInv, KeysHeld
  <2>3. CASE OneSource(m)
    <3>1. t.id \in Exists
      BY <1>1, <1>6, <2>3 DEF OneRowInv, MissedInv, Missed
    <3>2. m \in owner[t.id]
      BY <1>3, <3>1 DEF OneMachine, OwnerInv
    <3> QED BY <1>2, <1>6, <3>2 DEF OneRowInv, MachineHasOneRow
  <2> QED BY <1>2, <2>2, <2>3 DEF MachinesKeepAKey
<1>7. MachineHasOneRow'
  <2> SUFFICES ASSUME NEW i \in Ids, NEW j \in Ids, NEW n, n \in owner'[i], n \in owner'[j]
               PROVE  i = j
    BY DEF MachineHasOneRow, Ids
  <2>1. \A k \in Ids : n \in owner'[k] => n \in owner[k] \/ (k = t.id /\ n = m)
    BY <1>t, <1>2, <1>4 DEF TypeOK
  <2> QED BY <1>2, <1>6, <2>1 DEF OneRowInv, MachineHasOneRow
<1>8. ASSUME NEW u \in Workers, txn'[u].pc # "idle" PROVE MissedInv(u)'
  <2>1. u # w
    BY <1>t, <1>8 DEF Commit, Goto, Idle, TypeOK
  <2>2. txn'[u] = txn[u]
    BY <1>t, <2>1 DEF Commit, Goto, TypeOK
  <2>3. SUFFICES ASSUME OneSource(txn[u].r.machine), Missed(txn[u])', NEW i \in Ids,
                        txn[u].r.machine \in owner'[i]
                 PROVE  FALSE
    BY <2>2 DEF MissedInv, OneSource, Ids
  <2>4. txn[u].r \in ReportsOf[u] /\ txn[u].pc # "idle"
    BY <1>8, <2>2 DEF OneMachine, PlanInv
  <2>5. txn[u].r.machine # m
    BY <1>1, <2>1, <2>3, <2>4 DEF OneSource
  <2>6. txn[u].r.machine \in owner[i]
    BY <1>t, <1>2, <1>4, <2>3, <2>5 DEF TypeOK
  <2>7. Missed(txn[u])
    BY <1>5, <2>2, <2>3 DEF Missed, Keeps
  <2> QED BY <2>3, <2>4, <2>6, <2>7 DEF OneRowInv, MissedInv
<1> QED BY <1>7, <1>8 DEF OneRowInv

\* A row for each machine that was reported, and no other.
LEMMA StoreMeetsAgain ==
  ASSUME MachinesDiffer, MachinesKeepAKey PROVE Spec => []OneRowInv
<1>1. Init => OneRowInv
  BY DEF Init, OneRowInv, MachineHasOneRow, Idle
<1>2. KeysInv /\ PendingInv /\ OneMachine /\ OneRowInv /\ [Next]_vars => OneRowInv'
  <2> SUFFICES ASSUME KeysInv, PendingInv, OneMachine, OneRowInv, [Next]_vars
               PROVE  OneRowInv'
    OBVIOUS
  <2>1. TypeOK
    BY DEF KeysInv
  <2>2. ASSUME NEW w \in Workers, Begin(w) \/ Step(w) \/ Fail(w) PROVE OneRowInv'
    BY <2>1, <2>2, SearchMisses, WriteMisses, CommitMisses DEF Step
  <2>3. CASE UNCHANGED vars
    BY <2>3 DEF vars, OneRowInv, MachineHasOneRow, MissedInv, Missed, Exists
  <2> QED BY <2>2, <2>3 DEF Next, AllDone
<1> QED BY <1>1, <1>2, StorePending, StoreOwners, PTL DEF Spec

\* The device table is a table of machines, whatever the interleaving and the
\* failures: none has two rows and none shares one, as long as each can be met
\* again - by a key all its reports carry, and that is the serial or the AD GUID
\* if several workers may store it at once.
THEOREM OneRowPerMachine ==
  ASSUME MachinesDiffer, MachinesKeepAKey PROVE Spec => []RowsAreMachines
<1>1. OneRowInv => MachineHasOneRow
  BY DEF OneRowInv
<1> QED BY <1>1, StoreMeetsAgain, MachinesStayApart, PTL DEF RowsAreMachines

-----------------------------------------------------------------------------
\* What a report says is what the row and its OS have.
Agrees(r, row, os) ==
  /\ \A f \in Tracked : Empty(f, r[f]) \/ row[f] = r[f]
  /\ r.os \in {NoOS, None, os}

\* The last report is what its machine's row says.
LastInv ==
  last.pc = "done" =>
    /\ last.id \in Exists /\ owner[last.id] = {last.r.machine}
    /\ Agrees(last.r, rows[last.id], kids[last.id].os)

\* A transaction that comes with the last report once more finds that row, and no
\* difference; and what any transaction is about to publish says what it reports.
RescanInv(w) ==
  LET t == txn[w]
  IN  /\ HoldsLock(w) => /\ \A f \in Tracked : Empty(f, t.r[f]) \/ t.row[f] = t.r[f]
                         /\ t.pc \in {"events", "commit"} => t.r.os \in {NoOS, None, t.kids.os}
      /\ last.pc = "done" /\ t.pc # "idle" /\ last.r = t.r =>
             /\ t.pc # "insert"
             /\ t.pc \in {"scalars", "os", "update"} \/ HoldsLock(w) => t.id = last.id
             /\ t.pc = "os" => \A f \in Tracked : t.ex[f] = rows[t.id][f]
             /\ t.pc = "update" \/ HoldsLock(w) => t.changes = {}

RepeatInv == LastInv /\ \A w \in Workers : RescanInv(w)

\* A report that agrees with what is stored makes no difference.
LEMMA NothingDiffers ==
  ASSUME NEW ex, NEW r, Agrees(r, ex, ex.os)
  PROVE  DiffDevice(ex, r) = {}
BY DEF DiffDevice, Agrees

\* A step of w that changes no table: only w's own transaction has to be looked at.
LEMMA OthersRepeat ==
  ASSUME TypeOK, RepeatInv, NEW w \in Workers, NEW t, Goto(w, t), UNCHANGED committed,
         RescanInv(w)'
  PROVE  RepeatInv'
<1>1. \A u \in Workers \ {w} : txn'[u] = txn[u]
  BY DEF Goto, TypeOK
<1>2. \A u \in Workers \ {w} : RescanInv(u)'
  BY <1>1 DEF RepeatInv, RescanInv, HoldsLock, committed, Empty
<1>3. LastInv'
  BY DEF RepeatInv, LastInv, Agrees, committed, Exists, Empty
<1> QED BY <1>2, <1>3 DEF RepeatInv

\* Whoever comes with the last report finds the row it left.
LEMMA SearchRepeats ==
  ASSUME MachinesDiffer, TypeOK, OneMachine, RepeatInv,
         \A m \in Machines : OneSource(m), OneRowInv, OneRowInv', NEW w \in Workers,
         \/ Begin(w) \/ Resolve(w) \/ ReadScalars(w) \/ ReadOS(w)
         \/ UniqueViolation(w) \/ Fail(w)
  PROVE  RepeatInv'
<1> DEFINE t == txn[w]
<1>1. CASE Begin(w)
  <2>1. PICK r \in ReportsOf[w] :
          Goto(w, [pc |-> "resolve", r |-> r, key |-> 1, id |-> 0]) /\ UNCHANGED committed
    BY <1>1 DEF Begin
  <2>2. txn'[w] = [pc |-> "resolve", r |-> r, key |-> 1, id |-> 0]
    BY <2>1 DEF Goto, TypeOK
  <2>3. RescanInv(w)'
    BY <2>2 DEF RescanInv, HoldsLock
  <2> QED BY <2>1, <2>3, OthersRepeat
<1>2. CASE UniqueViolation(w) \/ Fail(w)
  <2>1. Goto(w, Idle) /\ UNCHANGED committed
    BY <1>2 DEF UniqueViolation, Fail
  <2>2. txn'[w].pc = "idle"
    BY <2>1 DEF Goto, TypeOK, Idle
  <2>3. RescanInv(w)'
    BY <2>2 DEF RescanInv, HoldsLock
  <2> QED BY <2>1, <2>3, OthersRepeat
<1>3. CASE ReadScalars(w)
  <2> DEFINE u == [pc |-> "os", r |-> t.r, id |-> t.id, ex |-> rows[t.id]]
  <2>1. Goto(w, u) /\ UNCHANGED committed /\ t.pc = "scalars"
    BY <1>3 DEF ReadScalars
  <2>2. txn'[w] = u /\ rows' = rows /\ last' = last
    BY <2>1 DEF Goto, TypeOK, committed
  <2>3. RescanInv(w)'
    BY <2>1, <2>2 DEF RepeatInv, RescanInv, HoldsLock
  <2> QED BY <2>1, <2>3, OthersRepeat
<1>4. CASE ReadOS(w)
  <2> DEFINE ex == [f \in Tracked \cup {"os"} |-> IF f = "os" THEN kids[t.id].os ELSE t.ex[f]]
             u == [pc |-> "update", r |-> t.r, id |-> t.id, changes |-> DiffDevice(ex, t.r)]
  <2>1. Goto(w, u) /\ UNCHANGED committed /\ t.pc = "os"
    BY <1>4 DEF ReadOS
  <2>2. txn'[w] = u /\ last' = last
    BY <2>1 DEF Goto, TypeOK, committed
  <2>3. ASSUME last.pc = "done", last.r = t.r PROVE t.id = last.id /\ u.changes = {}
    <3>1. t.id = last.id /\ \A f \in Tracked : t.ex[f] = rows[t.id][f]
      BY <2>1, <2>3 DEF RepeatInv, RescanInv
    <3>2. Agrees(t.r, rows[t.id], kids[t.id].os)
      BY <2>3, <3>1 DEF RepeatInv, LastInv
    <3>3. ex.os = kids[t.id].os /\ \A f \in Tracked : ex[f] = rows[t.id][f]
      BY <3>1 DEF Tracked
    <3>4. Agrees(t.r, ex, ex.os)
      BY <3>2, <3>3 DEF Agrees
    <3> HIDE DEF ex
    <3> QED BY <3>1, <3>4, NothingDiffers
  <2>4. RescanInv(w)'
    BY <2>2, <2>3 DEF RescanInv, HoldsLock
  <2> QED BY <2>1, <2>4, OthersRepeat
<1>5. CASE Resolve(w)
  <2>1. t.pc = "resolve" /\ UNCHANGED committed
    BY <1>5 DEF Resolve
  <2>2. t \in Searching /\ t.r \in ReportsOf[w] /\ t.r.machine \in Machines
    <3>1. t \in Searching
      BY <2>1 DEF TypeOK, Txn, Idle, Found, Diffing, Diffed, Writing
    <3> QED BY <2>1, <3>1 DEF OneMachine, PlanInv, Searching, Report
  <2>3. ASSUME NEW u, Goto(w, u), u.r = t.r,
               \/ u.pc = "resolve"
               \/ u.pc = "insert" /\ (last.pc = "done" => last.r # t.r)
               \/ u.pc = "scalars" /\ (last.pc = "done" /\ last.r = t.r => u.id = last.id)
        PROVE  RepeatInv'
    <3>1. txn'[w] = u /\ last' = last
      BY <2>1, <2>3 DEF Goto, TypeOK, committed
    <3>2. RescanInv(w)'
      BY <2>3, <3>1 DEF RescanInv, HoldsLock
    <3> QED BY <2>1, <2>3, <3>2, OthersRepeat
  <2>4. CASE t.key = 6 /\ Goto(w, [t EXCEPT !.pc = "insert"])
    <3> DEFINE u == [t EXCEPT !.pc = "insert"]
    <3>1. u.r = t.r /\ u.pc = "insert" /\ Goto(w, u)
      BY <2>2, <2>4 DEF Searching
    <3>2. ASSUME last.pc = "done", last.r = t.r PROVE FALSE
      <4>1. owner[last.id] = {t.r.machine} /\ last.id \in Ids
        BY <3>2 DEF RepeatInv, LastInv, Exists
      <4>2. txn'[w] = u /\ owner' = owner
        BY <2>1, <3>1 DEF Goto, TypeOK, committed
      <4> HIDE DEF u
      <4>3. OneSource(t.r.machine) /\ MissedInv(w)'
        BY <2>2, <3>1, <4>2 DEF OneRowInv
      <4> QED BY <3>1, <4>1, <4>2, <4>3 DEF MissedInv, Missed, OneSource, Ids
    <3> HIDE DEF u
    <3> QED BY <2>3, <3>1, <3>2
  <2>5. CASE Goto(w, [t EXCEPT !.key = @ + 1])
    <3> DEFINE u == [t EXCEPT !.key = @ + 1]
    <3>1. u.r = t.r /\ u.pc = "resolve" /\ Goto(w, u)
      BY <2>1, <2>2, <2>5 DEF Searching
    <3> HIDE DEF u
    <3> QED BY <2>3, <3>1
  <2>6. ASSUME t.key < 6, NEW id \in Matches(t.r, KeyOrder[t.key]),
               Goto(w, [t EXCEPT !.pc = "scalars", !.id = id])
        PROVE  RepeatInv'
    <3> DEFINE u == [t EXCEPT !.pc = "scalars", !.id = id]
    <3>1. t.key \in 1 .. 5
      BY <2>2, <2>6 DEF Searching
    <3>2. owner[id] = {t.r.machine} /\ id \in Ids
      BY <2>2, <3>1, MatchIsOwn DEF OneMachine, Matches, Exists
    <3>3. ASSUME last.pc = "done", last.r = t.r PROVE id = last.id
      BY <3>2, <3>3 DEF RepeatInv, LastInv, OneRowInv, MachineHasOneRow, Exists
    <3>4. u.r = t.r /\ u.pc = "scalars" /\ u.id = id /\ Goto(w, u)
      BY <2>2, <2>6 DEF Searching
    <3> HIDE DEF u
    <3> QED BY <2>3, <3>3, <3>4
  <2> QED BY <1>5, <2>4, <2>5, <2>6 DEF Resolve
<1> QED BY <1>1, <1>2, <1>3, <1>4, <1>5

\* What is written says what is reported, and nothing changes when that is known.
LEMMA WriteRepeats ==
  ASSUME OSFromCollectors, KeysInv, PendingInv, OneMachine, RepeatInv, NEW w \in Workers,
         \/ InsertRow(w) \/ UpdateRow(w)
         \/ PassUnique(w) \/ ReplaceChildren(w) \/ InsertChanges(w)
  PROVE  RepeatInv'
<1> DEFINE t == txn[w]
           Known == last.pc = "done" /\ last.r = t.r
<1>t. TypeOK
  BY DEF KeysInv
<1>0. RescanInv(w) /\ t.r \in ReportsOf[w] /\ t.r \in Report
  BY StoreAssumption DEF RepeatInv, OneMachine, PlanInv, InsertRow, UpdateRow, PassUnique,
                         ReplaceChildren, InsertChanges
<1>1. ASSUME NEW u, Goto(w, u), UNCHANGED committed, u.r = t.r,
             u.pc \in {"unique", "children", "events", "commit"},
             \A f \in Tracked : Empty(f, t.r[f]) \/ u.row[f] = t.r[f],
             u.pc \in {"events", "commit"} => t.r.os \in {NoOS, None, u.kids.os},
             Known => u.id = last.id /\ u.changes = {}
      PROVE  RepeatInv'
  <2>1. txn'[w] = u /\ last' = last
    BY <1>1, <1>t DEF Goto, TypeOK, committed
  <2>2. RescanInv(w)'
    BY <1>1, <2>1 DEF RescanInv, HoldsLock, Empty
  <2> QED BY <1>t, <1>1, <2>2, OthersRepeat
<1>2. CASE InsertRow(w)
  <2>1. PICK id \in Ids \ Exists :
          Goto(w, [pc |-> "unique", r |-> t.r, id |-> id, changes |-> {},
                   row |-> Inserted(t.r), kids |-> NoKids])
    BY <1>2 DEF InsertRow
  <2>2. ~Known /\ UNCHANGED committed
    BY <1>0, <1>2 DEF InsertRow, RescanInv
  <2>3. \A f \in Tracked : Inserted(t.r)[f] = t.r[f]
    BY DEF Inserted, Tracked, Columns
  <2> QED BY <1>1, <2>1, <2>2, <2>3
<1>3. CASE UpdateRow(w)
  <2> DEFINE row == Coalesced(rows[t.id], t.r)
  <2>1. /\ Goto(w, [pc |-> "unique", r |-> t.r, id |-> t.id, changes |-> t.changes,
                    row |-> row, kids |-> kids[t.id]])
        /\ UNCHANGED committed /\ t.pc = "update"
    BY <1>3 DEF UpdateRow
  <2>2. rows[t.id] \in Row
    BY <1>t, <2>1 DEF PendingInv, StaysFound, TypeOK, Exists
  <2>3. \A f \in Tracked : Empty(f, t.r[f]) \/ row[f] = t.r[f]
    BY <2>2 DEF Coalesced, Unset, Empty, Row, Tracked
  <2>4. Known => t.id = last.id /\ t.changes = {}
    BY <1>0, <2>1 DEF RescanInv
  <2> HIDE DEF row
  <2> QED BY <1>1, <2>1, <2>3, <2>4
<1>4. CASE PassUnique(w) \/ ReplaceChildren(w) \/ InsertChanges(w)
  <2>1. HoldsLock(w) /\ t \in Writing
    BY <1>4, <1>t, LockHolder DEF PassUnique, ReplaceChildren, InsertChanges, HoldsLock
  <2>2. /\ \A f \in Tracked : Empty(f, t.r[f]) \/ t.row[f] = t.r[f]
        /\ Known => t.id = last.id /\ t.changes = {}
    BY <1>0, <2>1 DEF RescanInv, HoldsLock
  <2>3. ASSUME NEW u, Goto(w, u), UNCHANGED committed, u.r = t.r, u.id = t.id,
               u.row = t.row, u.changes = t.changes, u.pc \in {"children", "events", "commit"},
               u.pc \in {"events", "commit"} => t.r.os \in {NoOS, None, u.kids.os}
        PROVE  RepeatInv'
    BY <1>1, <2>2, <2>3
  <2>4. CASE PassUnique(w)
    <3> DEFINE u == [t EXCEPT !.pc = "children"]
    <3>1. Goto(w, u) /\ UNCHANGED committed
      BY <2>4 DEF PassUnique
    <3>2. u.r = t.r /\ u.id = t.id /\ u.row = t.row /\ u.changes = t.changes /\ u.pc = "children"
      BY <2>1 DEF Writing
    <3> HIDE DEF u
    <3> QED BY <2>3, <3>1, <3>2
  <2>5. CASE InsertChanges(w)
    <3> DEFINE u == [t EXCEPT !.pc = "commit"]
    <3>1. Goto(w, u) /\ UNCHANGED committed /\ t.r.os \in {NoOS, None, t.kids.os}
      BY <1>0, <2>1, <2>5 DEF InsertChanges, RescanInv
    <3>2. /\ u.r = t.r /\ u.id = t.id /\ u.row = t.row /\ u.changes = t.changes
          /\ u.pc = "commit" /\ u.kids = t.kids
      BY <2>1 DEF Writing
    <3> HIDE DEF u
    <3> QED BY <2>3, <3>1, <3>2
  <2>6. CASE ReplaceChildren(w)
    <3> DEFINE k == IF t.r.collected THEN Replaced(t.kids, t.r) ELSE t.kids
               u == [t EXCEPT !.pc = "events", !.kids = k]
    <3>1. Goto(w, u) /\ UNCHANGED committed
      BY <2>1, <2>6 DEF ReplaceChildren, Writing
    <3>2. /\ u.r = t.r /\ u.id = t.id /\ u.row = t.row /\ u.changes = t.changes
          /\ u.pc = "events" /\ u.kids = k
      BY <2>1 DEF Writing
    <3>3. t.r.os \in {NoOS, None, k.os}
      BY <1>0 DEF OSFromCollectors, Replaced
    <3> HIDE DEF u, k
    <3> QED BY <2>3, <3>1, <3>2, <3>3
  <2> QED BY <1>4, <2>4, <2>5, <2>6
<1> QED BY <1>2, <1>3, <1>4

\* A commit leaves its own report as the last one; nobody else has one of the machine.
LEMMA CommitRepeats ==
  ASSUME \A m \in Machines : OneSource(m), KeysInv, PendingInv, OneMachine, RepeatInv,
         NEW w \in Workers, Commit(w)
  PROVE  RepeatInv'
<1> DEFINE t == txn[w]
           m == t.r.machine
<1>t. TypeOK
  BY DEF KeysInv
<1>1. HoldsLock(w) /\ t.pc = "commit" /\ t.r \in ReportsOf[w]
  BY DEF Commit, HoldsLock, OneMachine, PlanInv
<1>2. t \in Writing /\ t.id \in Ids /\ m \in Machines
  <2>1. t \in Writing
    BY <1>1, <1>t, LockHolder
  <2> QED BY <2>1 DEF Writing, Report
<1>3. /\ owner[t.id] \subseteq {m} /\ t.row.live
      /\ \A f \in Tracked : Empty(f, t.r[f]) \/ t.row[f] = t.r[f]
      /\ t.r.os \in {NoOS, None, t.kids.os}
  BY <1>1 DEF OneMachine, PlanInv, PendingInv, FromStoredRow, RepeatInv, RescanInv
<1>4. /\ rows'[t.id] = t.row /\ kids'[t.id] = t.kids /\ owner'[t.id] = {m}
      /\ last' = [pc |-> "done", r |-> t.r, id |-> t.id]
  BY <1>t, <1>2, <1>3 DEF Commit, TypeOK
<1>5. LastInv'
  <2>1. t.id \in Exists'
    BY <1>2, <1>3, <1>4 DEF Exists, Ids
  <2>2. Agrees(t.r, t.row, t.kids.os)
    BY <1>3 DEF Agrees
  <2> QED BY <1>4, <2>1, <2>2 DEF LastInv, Agrees, Empty
<1>6. ASSUME NEW u \in Workers PROVE RescanInv(u)'
  <2>1. CASE u = w
    <3>1. txn'[u].pc = "idle"
      BY <1>t, <2>1 DEF Commit, Goto, Idle, TypeOK
    <3> QED BY <3>1 DEF RescanInv, HoldsLock
  <2>2. CASE u # w
    <3>1. txn'[u] = txn[u]
      BY <1>t, <2>2 DEF Commit, Goto, TypeOK
    <3>2. txn[u].pc # "idle" => txn[u].r # t.r
      BY <1>1, <1>2, <2>2 DEF OneSource, OneMachine, PlanInv
    <3> QED BY <1>4, <3>1, <3>2 DEF RepeatInv, RescanInv, HoldsLock, Empty
  <2> QED BY <2>1, <2>2
<1> QED BY <1>5, <1>6 DEF RepeatInv

\* Persisting the same report twice in a row finds the same device and logs
\* nothing, whatever was stored before: as long as one worker has the reports of a
\* machine, and they keep a key to find it by.
THEOREM RescansLeaveNoTrace ==
  ASSUME MachinesDiffer, MachinesKeepAKey, OSFromCollectors, \A m \in Machines : OneSource(m)
  PROVE  Spec => RescanIsStable
<1>1. Init => RepeatInv
  BY DEF Init, RepeatInv, LastInv, RescanInv, HoldsLock, Idle
<1>2. /\ KeysInv /\ PendingInv /\ OneMachine /\ OneRowInv /\ OneRowInv' /\ RepeatInv
      /\ [Next]_vars
      => RepeatInv'
  <2> SUFFICES ASSUME KeysInv, PendingInv, OneMachine, OneRowInv, OneRowInv', RepeatInv,
                      [Next]_vars
               PROVE  RepeatInv'
    OBVIOUS
  <2>1. TypeOK
    BY DEF KeysInv
  <2>2. ASSUME NEW w \in Workers, Begin(w) \/ Step(w) \/ Fail(w) PROVE RepeatInv'
    BY <2>1, <2>2, SearchRepeats, WriteRepeats, CommitRepeats DEF Step
  <2>3. CASE UNCHANGED vars
    BY <2>3 DEF vars, RepeatInv, LastInv, RescanInv, HoldsLock, Exists, Agrees, Empty
  <2> QED BY <2>2, <2>3 DEF Next, AllDone
<1>3. RepeatInv => \A w \in Workers :
        Commit(w) /\ last.pc = "done" /\ last.r = txn[w].r =>
          txn[w].id = last.id /\ txn[w].changes = {}
  BY DEF RepeatInv, RescanInv, HoldsLock, Commit
<1>4. Spec => []RepeatInv
  BY <1>1, <1>2, StorePending, StoreOwners, StoreMeetsAgain, PTL DEF Spec
<1> QED BY <1>3, <1>4, PTL DEF Spec, RescanIsStable

-----------------------------------------------------------------------------
(* The reader beside the store (DeviceReads).                                  *)

Versions == [row : Row, os : Values, hardware : Values, interfaces : SUBSET Macs,
             software : Values, users : Values]
Answers == Row \cup Values \cup (SUBSET Macs) \cup Nat
Requests == [pc : {"idle", "detail", "device", "list", "pager"}, id : Ids \cup {0},
             offset : Nat, got : Seq(Answers), since : Seq(Versions)]

ReadInv == reader \in Requests /\ ReaderInv

LEMMA CountIsAnswer ==
  ASSUME NEW n \in Nat
  PROVE  n \in Answers
BY Zenon DEF Answers

LEMMA Appended ==
  ASSUME NEW s \in Seq(Answers), NEW v \in Answers
  PROVE  /\ Append(s, v) \in Seq(Answers) /\ Len(s) \in Nat
         /\ Len(Append(s, v)) = Len(s) + 1 /\ Append(s, v)[Len(s) + 1] = v
         /\ \A i \in 1..Len(s) : Append(s, v)[i] = s[i]
OBVIOUS

\* A reader changes nothing: what holds of the store holds of a store that is read.
LEMMA ReadStore == RSpec => Spec
<1>1. RInit => Init
  BY DEF RInit
<1>2. [RNext]_rvars => [Next]_vars
  BY DEF RNext, rvars
<1> QED
  BY <1>1, <1>2, PTL DEF RSpec, Spec

\* Device rows are never deleted.
LEMMA RowsStay ==
  ASSUME IInv, [Next]_vars
  PROVE  Exists \subseteq Exists'
<1>1. ASSUME NEW w \in Workers, Commit(w) PROVE Exists \subseteq Exists'
  <2>1. txn[w] \in Writing /\ HoldsLock(w) /\ txn[w].row.live
    BY <1>1, LockHolder DEF IInv, KeysInv, PendingInv, FromStoredRow, Commit, HoldsLock
  <2> QED
    BY <1>1, <2>1 DEF Commit, IInv, KeysInv, TypeOK, Exists, Writing
<1>2. CASE UNCHANGED rows
  BY <1>2 DEF Exists
<1>3. ASSUME NEW w \in Workers, Begin(w) \/ Step(w) \/ Fail(w), ~Commit(w)
      PROVE  UNCHANGED rows
  BY <1>3 DEF Begin, Step, Fail, Resolve, ReadScalars, ReadOS, InsertRow, UpdateRow, PassUnique,
       UniqueViolation, ReplaceChildren, InsertChanges, committed
<1> QED
  BY <1>1, <1>2, <1>3 DEF Next, AllDone, vars

LEMMA DeviceCount ==
  /\ IsFiniteSet(Exists) /\ Cardinality(Exists) \in Nat
  /\ \A s : s \subseteq Exists => Cardinality(s) <= Cardinality(Exists)
<1>1. IsFiniteSet(Ids) /\ Exists \subseteq Ids
  BY StoreAssumption, FS_Interval DEF Ids, Exists
<1> QED
  BY <1>1, FS_Subset, FS_CardinalityType

LEMMA VersionType ==
  ASSUME NEW row \in Row, NEW k \in Kids
  PROVE  /\ VersionOf(row, k) \in Versions /\ VersionOf(row, k).row = row
         /\ \A i \in 1..6 : VersionOf(row, k)[Detail[i]] \in Answers
<1>1. VersionOf(row, k) \in Versions /\ VersionOf(row, k).row = row
  BY DEF VersionOf, Versions, Kids
<1>2. \A i \in 1..6 : Detail[i] \in {"row", "os", "hardware", "interfaces", "software", "users"}
  BY DEF Detail
<1> QED
  BY <1>1, <1>2 DEF Versions, Answers

LEMMA RowsOfPage ==
  ASSUME NEW offset \in Nat
  PROVE  /\ RowsFrom(offset) \in Nat
         /\ \A total \in 0..Cardinality(Exists) :
              offset = 0 \/ offset < total => RowsFrom(offset) >= Promised(total, offset)
BY DeviceCount, ReadsAssumption DEF RowsFrom, Promised

\* A store step beside a request.
LEMMA StoreBesideReader ==
  ASSUME IInv, IInv', ReadInv, [Next]_vars, Stored
  PROVE  ReadInv'
<1>1. Exists \subseteq Exists'
  BY RowsStay
<1>2. Cardinality(Exists)' \in Nat /\ Cardinality(Exists) \in Nat
      /\ Cardinality(Exists) <= Cardinality(Exists)'
  <2>1. IsFiniteSet(Exists')
    <3>1. IsFiniteSet(Ids) /\ Exists' \subseteq Ids
      BY StoreAssumption, FS_Interval DEF Ids, Exists
    <3> QED
      BY <3>1, FS_Subset
  <2> QED
    BY <1>1, <2>1, DeviceCount, FS_Subset, FS_CardinalityType
<1>3. CASE reader.pc # "detail"
  <2>1. reader' = reader
    BY <1>3 DEF Stored
  <2> QED
    BY <1>2, <1>3, <2>1 DEF ReadInv, ReaderInv, Promised
<1>4. CASE reader.pc = "detail"
  <2> DEFINE new == VersionOf(rows'[reader.id], kids'[reader.id])
  <2>1. reader.id \in Ids /\ rows'[reader.id] \in Row /\ kids'[reader.id] \in Kids
    BY <1>4 DEF ReadInv, ReaderInv, Exists, IInv, KeysInv, TypeOK
  <2>2. new \in Versions
    BY <2>1, VersionType
  <2>3. CASE new = Version(reader.id)
    <3>1. reader' = reader
      BY <2>3 DEF Stored
    <3>2. Version(reader.id)' = Version(reader.id)
      BY <2>3, <3>1 DEF Version
    <3>3. /\ Len(reader.since) > 0 /\ reader.got[1] = reader.since[1].row
          /\ Len(reader.got) \in 1..5 /\ reader.id \in Exists'
          /\ reader.since[Len(reader.since)] = Version(reader.id)'
          /\ \A i \in 1..Len(reader.got) : \E w \in 1..Len(reader.since) :
               reader.got[i] = reader.since[w][Detail[i]]
      BY <1>1, <1>4, <3>2 DEF ReadInv, ReaderInv
    <3> HIDE DEF new
    <3> QED
      BY <1>4, <3>1, <3>3 DEF ReadInv, ReaderInv
  <2>4. CASE new # Version(reader.id)
    <3>1. reader' = [reader EXCEPT !.since = Append(@, new)]
      BY <1>4, <2>4 DEF Stored
    <3> HIDE DEF new
    <3>2. reader' \in Requests
      <4>1. reader \in Requests
        BY DEF ReadInv
      <4>2. Append(reader.since, new) \in Seq(Versions)
        BY <2>2, <4>1 DEF Requests
      <4> QED
        BY <3>1, <4>1, <4>2 DEF Requests
    <3>3. /\ reader'.pc = "detail" /\ reader'.id = reader.id /\ reader'.got = reader.got
          /\ Len(reader'.since) = Len(reader.since) + 1
          /\ reader'.since[Len(reader'.since)] = new
          /\ \A i \in 1..Len(reader.since) : reader'.since[i] = reader.since[i]
          /\ Len(reader.since) \in Nat
      BY <1>4, <2>2, <3>1 DEF ReadInv, Requests
    <3>4. Version(reader.id)' = new
      BY <3>3 DEF Version, new
    <3>5. /\ Len(reader'.since) > 0 /\ reader'.got[1] = reader'.since[1].row
          /\ reader.id \in Exists' /\ Len(reader.got) \in 1..5
          /\ \A i \in 1..Len(reader.got) : \E w \in 1..Len(reader'.since) :
               reader'.got[i] = reader'.since[w][Detail[i]]
      <4>1. /\ Len(reader.since) > 0 /\ reader.got[1] = reader.since[1].row
            /\ reader.id \in Exists /\ Len(reader.got) \in 1..5
            /\ \A i \in 1..Len(reader.got) : \E w \in 1..Len(reader.since) :
                 reader.got[i] = reader.since[w][Detail[i]]
        BY <1>4 DEF ReadInv, ReaderInv
      <4>2. \A w \in 1..Len(reader.since) : w \in 1..Len(reader'.since)
        BY <3>3
      <4>3. 1 \in 1..Len(reader.since) /\ Len(reader'.since) > 0
        BY <3>3, <4>1
      <4> QED
        BY <1>1, <3>3, <4>1, <4>2, <4>3
    <3>6. Version(reader.id)' = reader'.since[Len(reader'.since)]
      BY <3>3, <3>4
    <3> QED
      BY <3>2, <3>3, <3>5, <3>6 DEF ReadInv, ReaderInv
  <2> QED
    BY <2>3, <2>4
<1> QED
  BY <1>3, <1>4

LEMMA ReaderInit == RInit => ReadInv
BY DEF RInit, NoRequest, ReadInv, ReaderInv, Requests

LEMMA OpenDeviceStep ==
  ASSUME IInv, OpenDevice, UNCHANGED vars
  PROVE  ReadInv'
<1>1. PICK id \in Exists :
        reader' = [NoRequest EXCEPT !.pc = "detail", !.id = id, !.since = <<Version(id)>>,
                                    !.got = <<Version(id)[Detail[1]]>>]
  BY DEF OpenDevice
<1>2. id \in Ids /\ rows[id] \in Row /\ kids[id] \in Kids
  BY DEF Exists, IInv, KeysInv, TypeOK
<1>3. /\ Version(id) \in Versions /\ Version(id).row = rows[id]
      /\ Version(id)[Detail[1]] \in Answers /\ Detail[1] = "row"
  BY <1>2, VersionType DEF Version, Detail
<1>4. Exists' = Exists /\ Version(id)' = Version(id)
  BY DEF vars, Exists, Version
<1> HIDE DEF Version
<1>5. reader' = [pc |-> "detail", id |-> id, offset |-> 0, got |-> <<Version(id)[Detail[1]]>>,
                 since |-> <<Version(id)>>]
  BY <1>1 DEF NoRequest
<1>6. reader' \in Requests
  BY <1>2, <1>3, <1>5 DEF Requests
<1>7. ReaderInv'
  BY <1>1, <1>3, <1>4, <1>5 DEF ReaderInv
<1> QED
  BY <1>6, <1>7 DEF ReadInv

LEMMA ReadNextStep ==
  ASSUME IInv, ReadInv, ReadNext, UNCHANGED vars
  PROVE  ReadInv'
<1> DEFINE n == Len(reader.got)
           v == Version(reader.id)[Detail[n + 1]]
           newest == Len(reader.since)
<1>1. reader.pc = "detail" /\ n \in 1..5 /\ newest > 0 /\ reader \in Requests
  BY DEF ReadNext, ReadInv, ReaderInv
<1>2. n + 1 \in 1..6 /\ newest \in Nat /\ newest \in 1..newest
  <2>1. newest \in Nat
    BY <1>1 DEF Requests
  <2> HIDE DEF n, newest
  <2> QED
    BY <1>1, <2>1
<1>3. /\ reader.id \in Ids /\ rows[reader.id] \in Row /\ kids[reader.id] \in Kids
      /\ reader.since[newest] = Version(reader.id) /\ reader.id \in Exists
  BY <1>1 DEF ReadInv, ReaderInv, Exists, IInv, KeysInv, TypeOK
<1>4. v \in Answers
  <2>1. \A i \in 1..6 : Version(reader.id)[Detail[i]] \in Answers
    BY <1>3, VersionType DEF Version
  <2> QED
    BY <1>2, <2>1
<1>5. reader.since[newest][Detail[n + 1]] = v
  BY <1>3
<1> HIDE DEF v
<1>6. /\ reader' \in Requests /\ reader'.id = reader.id /\ reader'.since = reader.since
      /\ reader'.pc = (IF n = 5 THEN "device" ELSE "detail")
      /\ Len(reader'.got) = n + 1 /\ reader'.got[n + 1] = v
      /\ \A i \in 1..n : reader'.got[i] = reader.got[i]
  <2>1. /\ Append(reader.got, v) \in Seq(Answers) /\ Len(Append(reader.got, v)) = n + 1
        /\ Append(reader.got, v)[n + 1] = v
        /\ \A i \in 1..n : Append(reader.got, v)[i] = reader.got[i]
    <3>1. reader.got \in Seq(Answers)
      BY <1>1 DEF Requests
    <3> QED
      BY <1>4, <3>1, Appended
  <2>2. Len(Append(reader.got, v)) = 6 <=> n = 5
    <3> HIDE DEF n
    <3> QED
      BY <1>1, <2>1
  <2>3. reader' = [reader EXCEPT !.got = Append(reader.got, v),
                                 !.pc = IF n = 5 THEN "device" ELSE "detail"]
    BY <1>1, <2>2 DEF ReadNext, v
  <2>4. /\ reader' \in Requests /\ reader'.id = reader.id /\ reader'.since = reader.since
        /\ reader'.pc = (IF n = 5 THEN "device" ELSE "detail")
        /\ reader'.got = Append(reader.got, v)
    <3>1. reader \in Requests
      BY <1>1
    <3> HIDE DEF n
    <3> QED
      BY <2>1, <2>3, <3>1 DEF Requests
  <2> QED
    BY <2>1, <2>4
<1>7. \A i \in 1..n + 1 : \E w \in 1..newest : reader'.got[i] = reader.since[w][Detail[i]]
  <2>1. \A i \in 1..n : \E w \in 1..newest : reader.got[i] = reader.since[w][Detail[i]]
    BY <1>1 DEF ReadInv, ReaderInv
  <2> HIDE DEF n, newest
  <2> QED
    BY <1>1, <1>2, <1>5, <1>6, <2>1
<1>8. reader'.got[1] = reader.since[1].row
  BY <1>1, <1>6 DEF ReadInv, ReaderInv
<1>9. Version(reader.id)' = Version(reader.id) /\ Exists' = Exists
  BY <1>6 DEF vars, Exists, Version
<1> HIDE DEF n
<1>10. n = 5 \/ (n # 5 /\ n + 1 \in 1..5)
  BY <1>1
<1>11. CASE n = 5
  BY <1>1, <1>6, <1>7, <1>8, <1>11 DEF ReadInv, ReaderInv
<1>12. CASE n # 5 /\ n + 1 \in 1..5
  BY <1>1, <1>3, <1>6, <1>7, <1>8, <1>9, <1>12 DEF ReadInv, ReaderInv
<1> QED
  BY <1>10, <1>11, <1>12

LEMMA OpenListStep ==
  ASSUME IInv, NEW offset \in Nat, OpenList(offset), UNCHANGED vars,
         offset # 0 => offset < Cardinality(Exists)
  PROVE  ReadInv'
<1>1. Cardinality(Exists)' = Cardinality(Exists) /\ Cardinality(Exists) \in Nat
  BY DeviceCount DEF vars, Exists
<1>2. reader' = [pc |-> "list", id |-> 0, offset |-> offset, got |-> <<Cardinality(Exists)>>,
                 since |-> <<>>]
  BY DEF OpenList, NoRequest, Listing, ListAnswer
<1>3. reader' \in Requests
  <2>1. Cardinality(Exists) \in Answers
    BY <1>1, CountIsAnswer
  <2>2. <<Cardinality(Exists)>> \in Seq(Answers) /\ <<>> \in Seq(Versions)
    BY <2>1
  <2> QED
    BY <1>2, <2>2 DEF Requests
<1> QED
  BY <1>1, <1>2, <1>3 DEF ReadInv, ReaderInv

LEMMA ReadListStep ==
  ASSUME IInv, ReadInv, ReadList, UNCHANGED vars
  PROVE  ReadInv'
<1> DEFINE n == RowsFrom(reader.offset)
<1>1. Cardinality(Exists)' = Cardinality(Exists) /\ Cardinality(Exists) \in Nat
  BY DeviceCount DEF vars, Exists
<1>2. /\ reader.pc = "list" /\ Len(reader.got) = 1 /\ reader.got[1] \in 0..Cardinality(Exists)
      /\ reader.offset # 0 => reader.offset < reader.got[1]
      /\ reader.offset \in Nat /\ reader.got \in Seq(Answers)
  BY DEF ReadList, ReadInv, ReaderInv, Requests
<1>3. n \in Nat /\ n >= Promised(reader.got[1], reader.offset)
  BY <1>2, RowsOfPage
<1>4. reader' = [reader EXCEPT !.pc = "pager", !.got = Append(@, n)]
  BY DEF ReadList, Listing, ListAnswer
<1> HIDE DEF n
<1>5. /\ Append(reader.got, n) \in Seq(Answers) /\ Len(Append(reader.got, n)) = 2
      /\ Append(reader.got, n)[1] = reader.got[1] /\ Append(reader.got, n)[2] = n
  <2>1. n \in Answers
    BY <1>3, CountIsAnswer
  <2> QED
    BY <1>2, <2>1, Appended
<1>6. /\ reader' \in Requests /\ reader'.pc = "pager" /\ reader'.offset = reader.offset
      /\ reader'.got = Append(reader.got, n)
  BY <1>4, <1>5 DEF ReadInv, Requests
<1> QED
  BY <1>1, <1>2, <1>3, <1>5, <1>6 DEF ReadInv, ReaderInv, Promised

LEMMA AnswerOf ==
  ASSUME ReadInv, reader.pc = "pager"
  PROVE  /\ Answered("total") = reader.got[1] /\ Answered("items") = reader.got[2]
<1>1. (CHOOSE i \in 1..2 : Listing[i] = "total") = 1
  BY DEF Listing
<1>2. (CHOOSE i \in 1..2 : Listing[i] = "items") = 2
  BY DEF Listing
<1> QED
  BY <1>1, <1>2 DEF Answered

LEMMA PagingStep ==
  ASSUME IInv, ReadInv, FirstPage \/ NextPage \/ PrevPage, UNCHANGED vars
  PROVE  ReadInv'
<1>1. CASE FirstPage
  BY <1>1, OpenListStep DEF FirstPage
<1>2. CASE NextPage \/ PrevPage
  <2>1. /\ reader.pc = "pager" /\ reader.offset \in Nat
        /\ reader.got[1] \in 0..Cardinality(Exists) /\ Cardinality(Exists) \in Nat
        /\ reader.offset # 0 => reader.offset < reader.got[1]
    BY <1>2, DeviceCount DEF NextPage, PrevPage, ReadInv, ReaderInv, Requests
  <2>2. CASE NextPage
    <3>1. reader.offset + PageLimit < reader.got[1] /\ OpenList(reader.offset + PageLimit)
      BY <2>1, <2>2, AnswerOf DEF NextPage
    <3>2. reader.offset + PageLimit \in Nat /\ reader.offset + PageLimit < Cardinality(Exists)
      BY <2>1, <3>1, ReadsAssumption
    <3> QED
      BY <3>1, <3>2, OpenListStep
  <2>3. CASE PrevPage
    <3> DEFINE back == IF reader.offset < PageLimit THEN 0 ELSE reader.offset - PageLimit
    <3>1. back \in Nat /\ back < Cardinality(Exists) /\ OpenList(back)
      BY <2>1, <2>3, ReadsAssumption DEF PrevPage
    <3> QED
      BY <3>1, OpenListStep
  <2> QED
    BY <1>2, <2>2, <2>3
<1> QED
  BY <1>1, <1>2

LEMMA ReaderStep ==
  ASSUME IInv, IInv', ReadInv, [RNext]_rvars
  PROVE  ReadInv'
<1>1. CASE Next /\ Stored
  BY <1>1, StoreBesideReader
<1>2. CASE UNCHANGED rvars
  <2>1. UNCHANGED reader /\ Exists' = Exists /\ Version(reader.id)' = Version(reader.id)
    BY <1>2 DEF rvars, vars, Exists, Version
  <2> QED
    BY <2>1 DEF ReadInv, ReaderInv
<1>3. CASE Read /\ UNCHANGED vars
  <2>1. CASE Close
    <3>1. reader' = NoRequest
      BY <2>1 DEF Close
    <3> QED
      BY <3>1 DEF NoRequest, ReadInv, ReaderInv, Requests
  <2> QED
    BY <1>3, <2>1, OpenDeviceStep, ReadNextStep, ReadListStep, PagingStep DEF Read
<1> QED
  BY <1>1, <1>2, <1>3 DEF RNext

LEMMA AlwaysReadInv == RSpec => []ReadInv
<1>1. RInit => ReadInv
  BY ReaderInit
<1>2. IInv /\ IInv' /\ ReadInv /\ [RNext]_rvars => ReadInv'
  BY ReaderStep
<1> QED
  BY <1>1, <1>2, ReadStore, StoreInvariant, PTL DEF RSpec

\* What a request has read so far fits the tables as they are now, whatever was
\* stored between its statements.
THEOREM ReaderInvariant == RSpec => []ReaderInv
<1>1. ReadInv => ReaderInv
  BY DEF ReadInv
<1> QED
  BY <1>1, AlwaysReadInv, PTL

\* A device page may be torn, but nothing on it is older than the row at its top
\* (GetDevice reads the row first, UpsertDevice writes row and children at once).
THEOREM PageNeverBehindRow == RSpec => []InventoryNotBehindRow
<1>1. ASSUME ReadInv PROVE InventoryNotBehindRow
  <2> SUFFICES ASSUME reader.pc = "device" PROVE InventoryNotBehindRow
    BY DEF InventoryNotBehindRow
  <2>1. /\ Len(reader.since) > 0 /\ reader.got[1] = reader.since[1].row
        /\ \A i \in 1..6 : \E w \in 1..Len(reader.since) :
             reader.got[i] = reader.since[w][Detail[i]]
    BY <1>1 DEF ReadInv, ReaderInv
  <2>2. (CHOOSE i \in 1..6 : Detail[i] = "row") = 1
    BY DEF Detail
  <2>3. 1 \in DOMAIN reader.since
    BY <1>1, <2>1 DEF ReadInv, Requests
  <2> QED
    BY <2>1, <2>2, <2>3 DEF InventoryNotBehindRow
<1> QED
  BY <1>1, AlwaysReadInv, PTL

\* A page of the device list has the rows its total promises, and Next never leads
\* to an empty page, however many devices are stored meanwhile (ListDevices, Pager).
THEOREM PagerKeepsItsPromise == RSpec => []PageNotShort
<1>1. ASSUME ReadInv PROVE PageNotShort
  <2> SUFFICES ASSUME reader.pc = "pager" PROVE PageNotShort
    BY DEF PageNotShort
  <2>1. /\ reader.got[2] >= Promised(reader.got[1], reader.offset)
        /\ reader.got[1] \in Nat /\ reader.got[2] \in Nat /\ reader.offset \in Nat
        /\ reader.offset # 0 => reader.offset < reader.got[1]
    BY <1>1, DeviceCount DEF ReadInv, ReaderInv, Requests
  <2>2. reader.offset > 0 => Promised(reader.got[1], reader.offset) > 0
    BY <2>1, ReadsAssumption DEF Promised
  <2>3. Answered("total") = reader.got[1] /\ Answered("items") = reader.got[2]
    BY <1>1, AnswerOf
  <2> QED
    BY <2>1, <2>2, <2>3, ReadsAssumption DEF PageNotShort, Promised
<1> QED
  BY <1>1, AlwaysReadInv, PTL
=============================================================================
