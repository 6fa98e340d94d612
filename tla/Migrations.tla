----------------------------- MODULE Migrations -----------------------------
(***************************************************************************)
(* Store.Migrate (src/internal/store/migrate.go), run by every process     *)
(* that starts with -migrate, and started again by the container's restart *)
(* policy when it fails.  Several processes, of several releases, may      *)
(* migrate at once.  Each migration's DDL and its schema_migrations row    *)
(* commit together; PostgreSQL makes a second creator of the same objects  *)
(* wait for the first, and fail when that one commits.                     *)
(***************************************************************************)
EXTENDS Naturals

CONSTANTS Procs,
          Last,           \* the number of migrations of the newest release
          Release,        \* Procs -> the number of migrations its binary has
          MaxFaults       \* bound: crashes and lost connections in a behaviour

ASSUME MigrationsAssumption ==
  /\ Last \in Nat
  /\ Release \in [Procs -> 0..Last]
  /\ MaxFaults \in Nat

VARIABLES table,          \* the schema_migrations table exists
          applied,        \* version -> how often its DDL was committed
          recorded,       \* schema_migrations rows
          proc,           \* Procs -> its step, version and what it reports applied
          faults

vars == <<table, applied, recorded, proc, faults>>

\* Embedded files in lexical order: version v is the v-th, and releases append.
Versions == 1..Last
Started == [pc |-> "create", v |-> 1, mine |-> {}]

Init ==
  /\ table = FALSE
  /\ applied = [v \in {} |-> 0]
  /\ recorded = {}
  /\ proc = [p \in Procs |-> Started]
  /\ faults = 0

Moves(p, r) == proc' = [proc EXCEPT ![p] = r]
At(p, step) == proc[p].pc = step
Go(p, step) == Moves(p, [proc[p] EXCEPT !.pc = step])

Times(v) == IF v \in DOMAIN applied THEN applied[v] ELSE 0
InTxn(p) == proc[p].pc \in {"record", "commit"}

\* CREATE TABLE IF NOT EXISTS: whoever looked before another process created it
\* fails on the catalogue's unique index all the same.
LookForTable(p) ==
  /\ At(p, "create")
  /\ Go(p, IF table THEN "check" ELSE "creating")
  /\ UNCHANGED <<table, applied, recorded, faults>>

CreateTable(p) ==
  /\ At(p, "creating")
  /\ table' = TRUE
  /\ Go(p, IF table THEN "failed" ELSE "check")
  /\ UNCHANGED <<applied, recorded, faults>>

\* The next version, outside any transaction.
CheckVersion(p) ==
  /\ At(p, "check")
  /\ LET v == proc[p].v
     IN  IF v > Release[p] THEN Go(p, "done")
         ELSE IF v \in recorded THEN Moves(p, [proc[p] EXCEPT !.v = v + 1])
         ELSE Go(p, "apply")
  /\ UNCHANGED <<table, applied, recorded, faults>>

\* Mutant: the DDL runs on the pool, outside the transaction.
ApplySQLDetached(p) ==
  /\ At(p, "apply")
  /\ IF Times(proc[p].v) > 0 THEN Go(p, "failed") /\ UNCHANGED applied
     ELSE /\ applied' = [v \in DOMAIN applied \cup {proc[p].v} |-> Times(v) + 1]
          /\ Go(p, "record")
  /\ UNCHANGED <<table, recorded, faults>>

\* The DDL waits for another transaction that creates the same objects, and
\* fails when they are there; the transaction is then rolled back.
ApplySQL(p) ==
  /\ At(p, "apply")
  /\ \A q \in Procs \ {p} : InTxn(q) => proc[q].v # proc[p].v
  /\ Go(p, IF Times(proc[p].v) > 0 THEN "failed" ELSE "record")
  /\ UNCHANGED <<table, applied, recorded, faults>>

\* The version is the primary key.
RecordVersion(p) ==
  /\ At(p, "record")
  /\ Go(p, IF proc[p].v \in recorded THEN "failed" ELSE "commit")
  /\ UNCHANGED <<table, applied, recorded, faults>>

Commit(p) ==
  /\ At(p, "commit")
  /\ LET v == proc[p].v
     IN  /\ applied' = [w \in DOMAIN applied \cup {v} |-> IF w = v THEN Times(w) + 1 ELSE Times(w)]
         /\ recorded' = recorded \cup {v}
         /\ Moves(p, [pc |-> "check", v |-> v + 1, mine |-> proc[p].mine \cup {v}])
  /\ UNCHANGED <<table, faults>>

\* The process dies or its connection does: what it had not committed is gone.
Fault(p) ==
  /\ faults < MaxFaults /\ proc[p].pc \notin {"done", "failed"}
  /\ faults' = faults + 1
  /\ Go(p, "failed")
  /\ UNCHANGED <<table, applied, recorded>>

\* The answer to COMMIT is lost.
CommitUnheard(p) ==
  /\ faults < MaxFaults /\ At(p, "commit")
  /\ faults' = faults + 1
  /\ LET v == proc[p].v
     IN  /\ applied' = [w \in DOMAIN applied \cup {v} |-> IF w = v THEN Times(w) + 1 ELSE Times(w)]
         /\ recorded' = recorded \cup {v}
  /\ Go(p, "failed")
  /\ UNCHANGED table

\* serve exits with the error; "restart: unless-stopped" starts it again.
Restart(p) ==
  /\ At(p, "failed")
  /\ Moves(p, Started)
  /\ UNCHANGED <<table, applied, recorded, faults>>

Migrate(p) ==
  \/ LookForTable(p) \/ CreateTable(p) \/ CheckVersion(p)
  \/ ApplySQL(p) \/ RecordVersion(p) \/ Commit(p)

Process(p) == Migrate(p) \/ Restart(p)

Served == (\A p \in Procs : At(p, "done")) /\ UNCHANGED vars

Next ==
  \/ \E p \in Procs : Process(p) \/ Fault(p) \/ CommitUnheard(p)
  \/ Served

Spec == Init /\ [][Next]_vars

\* Processes run and are restarted; PostgreSQL answers.
FairSpec == Spec /\ \A p \in Procs : WF_vars(Process(p))

-----------------------------------------------------------------------------
Steps == {"create", "creating", "check", "apply", "record", "commit", "done", "failed"}

TypeOK ==
  /\ table \in BOOLEAN
  /\ recorded \subseteq Versions
  /\ applied \in [DOMAIN applied -> Nat]
  /\ proc \in [Procs -> [pc : Steps, v : 1..(Last + 1), mine : SUBSET Versions]]
  /\ faults \in 0..MaxFaults

\* A version's row and its DDL stand or fall together, and no DDL is committed
\* twice, whichever processes race and wherever they die.
RecordedMeansApplied ==
  DOMAIN applied = recorded /\ \A v \in recorded : applied[v] = 1

\* The schema is always that of some release: versions are applied in order.
NoGaps == \A v \in recorded : \A u \in 1..v : u \in recorded

\* A process serves only on a schema that has all its migrations.
DoneMeansCurrent ==
  \A p \in Procs : At(p, "done") => 1..Release[p] \subseteq recorded

\* A version is reported as applied by one process at most, and is applied.
ReportedOnce ==
  \A p, q \in Procs :
    /\ proc[p].mine \subseteq recorded
    /\ p # q => proc[p].mine \cap proc[q].mine = {}

\* The strengthening: a process is past the versions it has seen recorded, and
\* has the only transaction open on the version it applies.
ProcInv ==
  \A p \in Procs :
    /\ \A u \in 1..(proc[p].v - 1) : u \in recorded
    /\ At(p, "apply") => proc[p].v <= Release[p]
    /\ InTxn(p) => /\ proc[p].v <= Release[p] /\ proc[p].v \notin recorded
                   /\ \A q \in Procs \ {p} : InTxn(q) => proc[q].v # proc[p].v
    /\ At(p, "done") => proc[p].v > Release[p]

IInv == TypeOK /\ RecordedMeansApplied /\ NoGaps /\ ReportedOnce /\ ProcInv

\* Every process serves in the end: one that lost the race for a version fails,
\* is started again and finds the version there.
AllServe == \A p \in Procs : <>At(p, "done")
=============================================================================
