------------------------- MODULE MigrationsProofs -------------------------
(***************************************************************************)
(* Safety of Store.Migrate for any number of processes, any releases and   *)
(* any number of faults.  IInv is inductive: every step but the two that   *)
(* commit leaves the schema alone and moves one process, so the conjuncts  *)
(* about the schema need work only where a version is committed.           *)
(***************************************************************************)
EXTENDS Migrations, TLAPS

USE DEF Versions, Steps


(* A step that moves one process to a record it may have and keeps the     *)
(* schema keeps IInv, if the new record agrees with what is recorded.      *)
LEMMA MoveKeepsIInv ==
  ASSUME IInv, NEW p \in Procs,
         NEW r \in [pc : Steps, v : 1..(Last + 1), mine : SUBSET Versions],
         Moves(p, r), UNCHANGED <<applied, recorded>>,
         table' \in BOOLEAN, faults' \in 0..MaxFaults,
         r.mine \subseteq proc[p].mine,
         \A u \in 1..(r.v - 1) : u \in recorded,
         r.pc = "apply" => r.v <= Release[p],
         r.pc \in {"record", "commit"} =>
           /\ r.v <= Release[p] /\ r.v \notin recorded
           /\ \A q \in Procs \ {p} : InTxn(q) => proc[q].v # r.v,
         r.pc = "done" => r.v > Release[p]
  PROVE  IInv'
<1>1. proc' \in [Procs -> [pc : Steps, v : 1..(Last + 1), mine : SUBSET Versions]]
  BY DEF IInv, TypeOK, Moves
<1>2. proc'[p] = r /\ \A q \in Procs \ {p} : proc'[q] = proc[q]
  BY DEF IInv, TypeOK, Moves
<1>3. TypeOK'
  BY <1>1 DEF IInv, TypeOK
<1>4. RecordedMeansApplied' /\ NoGaps'
  BY DEF IInv, RecordedMeansApplied, NoGaps
<1>5. ReportedOnce'
  BY <1>2 DEF IInv, ReportedOnce
<1>6. ProcInv'
  BY <1>2 DEF IInv, ProcInv, InTxn, At
<1>. QED  BY <1>3, <1>4, <1>5, <1>6 DEF IInv

(* Committing p's version v: it was not recorded, so its DDL had not been  *)
(* applied, no other process reports it, and none has it open.             *)
LEMMA CommitKeepsIInv ==
  ASSUME IInv, NEW p \in Procs, At(p, "commit"),
         NEW r \in [pc : Steps, v : 1..(Last + 1), mine : SUBSET Versions],
         Moves(p, r), UNCHANGED table, faults' \in 0..MaxFaults,
         applied' = [w \in DOMAIN applied \cup {proc[p].v} |->
                      IF w = proc[p].v THEN Times(w) + 1 ELSE Times(w)],
         recorded' = recorded \cup {proc[p].v},
         r.mine \subseteq proc[p].mine \cup {proc[p].v},
         r.pc \in {"check", "failed"},
         r.v \in {proc[p].v, proc[p].v + 1}
  PROVE  IInv'
<1>. DEFINE v == proc[p].v
<1>1. /\ proc \in [Procs -> [pc : Steps, v : 1..(Last + 1), mine : SUBSET Versions]]
      /\ recorded \subseteq Versions /\ Last \in Nat /\ Release \in [Procs -> 0..Last]
  BY MigrationsAssumption DEF IInv, TypeOK
<1>2. v \in Versions /\ v \notin recorded /\ \A u \in 1..(v - 1) : u \in recorded
  BY <1>1 DEF IInv, ProcInv, InTxn, At
<1>3. proc'[p] = r /\ \A q \in Procs \ {p} : proc'[q] = proc[q]
  BY <1>1 DEF Moves
<1>4. RecordedMeansApplied'
  BY <1>2 DEF IInv, RecordedMeansApplied, Times
<1>5. TypeOK'
  <2>1. proc' \in [Procs -> [pc : Steps, v : 1..(Last + 1), mine : SUBSET Versions]]
    BY <1>1 DEF Moves
  <2>2. \A w \in DOMAIN applied' : applied'[w] = 1
    BY <1>4 DEF RecordedMeansApplied
  <2>3. applied' \in [DOMAIN applied' -> Nat]
    BY <2>2
  <2>. QED  BY <2>1, <2>3, <1>2 DEF IInv, TypeOK
<1>6. NoGaps'
  BY <1>1, <1>2 DEF IInv, NoGaps
<1>7. ReportedOnce'
  BY <1>2, <1>3 DEF IInv, ReportedOnce
<1>8. ProcInv'
  <2>1. \A q \in Procs \ {p} : InTxn(q) => proc[q].v # v
    BY DEF IInv, ProcInv, InTxn, At
  <2>2. \A u \in 1..(r.v - 1) : u \in recorded'
    BY <1>1, <1>2
  <2>. QED  BY <1>3, <2>1, <2>2 DEF IInv, ProcInv, InTxn, At
<1>. QED  BY <1>4, <1>5, <1>6, <1>7, <1>8 DEF IInv

(* An empty database.                                                      *)
LEMMA InitIInv == Init => IInv
<1>. SUFFICES ASSUME Init PROVE IInv
  OBVIOUS
<1>1. Started \in [pc : Steps, v : 1..(Last + 1), mine : SUBSET Versions]
  BY MigrationsAssumption DEF Started
<1>2. proc \in [Procs -> [pc : Steps, v : 1..(Last + 1), mine : SUBSET Versions]]
  BY <1>1 DEF Init
<1>3. applied = [w \in {} |-> 0] /\ DOMAIN applied = {}
  BY DEF Init
<1>4. applied \in [DOMAIN applied -> Nat]
  BY <1>3
<1>5. TypeOK
  <2>1. table \in BOOLEAN
    BY Zenon DEF Init
  <2>2. recorded \subseteq Versions /\ faults \in 0..MaxFaults
    BY MigrationsAssumption DEF Init
  <2>. QED  BY Zenon, <1>2, <1>4, <2>1, <2>2 DEF TypeOK
<1>6. RecordedMeansApplied /\ NoGaps
  BY <1>3 DEF Init, RecordedMeansApplied, NoGaps
<1>7. \A p \in Procs : proc[p].pc = "create" /\ proc[p].v = 1 /\ proc[p].mine = {}
  BY DEF Init, Started
<1>8. ReportedOnce
  BY <1>7 DEF ReportedOnce
<1>9. ProcInv
  <2>1. 1..(1 - 1) = {}
    OBVIOUS
  <2>. QED  BY <1>7, <2>1 DEF ProcInv, InTxn, At
<1>. QED  BY <1>5, <1>6, <1>8, <1>9 DEF IInv

(* One case per step of Migrate, then restarts and faults.                 *)
LEMMA NextIInv == IInv /\ [Next]_vars => IInv'
<1>. SUFFICES ASSUME IInv, [Next]_vars PROVE IInv'
  OBVIOUS
<1>. DEFINE Recs == [pc : Steps, v : 1..(Last + 1), mine : SUBSET Versions]
<1>t. /\ proc \in [Procs -> Recs] /\ table \in BOOLEAN /\ faults \in 0..MaxFaults
      /\ recorded \subseteq Versions /\ Last \in Nat /\ MaxFaults \in Nat
      /\ Release \in [Procs -> 0..Last]
  BY MigrationsAssumption DEF IInv, TypeOK
<1>a. ASSUME NEW p \in Procs, Migrate(p) \/ Restart(p) \/ Fault(p) \/ CommitUnheard(p) PROVE IInv'
  <2>p. /\ proc[p] \in Recs
        /\ \A u \in 1..(proc[p].v - 1) : u \in recorded
        /\ At(p, "apply") => proc[p].v <= Release[p]
        /\ InTxn(p) => /\ proc[p].v <= Release[p] /\ proc[p].v \notin recorded
                       /\ \A q \in Procs \ {p} : InTxn(q) => proc[q].v # proc[p].v
    BY <1>a, <1>t DEF IInv, ProcInv
  <2>. DEFINE To(s) == [proc[p] EXCEPT !.pc = s]
  <2>s. \A s \in Steps : /\ To(s) \in Recs /\ To(s).pc = s /\ To(s).v = proc[p].v
                         /\ To(s).mine = proc[p].mine
    BY <2>p
  <2>1. CASE LookForTable(p)
    <3>. PICK s \in {"check", "creating"} : Moves(p, To(s))
      BY <2>1 DEF LookForTable, Go
    <3>. QED  BY <2>1, <2>p, <2>s, <1>t, MoveKeepsIInv DEF LookForTable
  <2>2. CASE CreateTable(p)
    <3>. PICK s \in {"check", "failed"} : Moves(p, To(s))
      BY <2>2 DEF CreateTable, Go
    <3>. QED  BY <2>2, <2>p, <2>s, <1>t, MoveKeepsIInv DEF CreateTable
  <2>3. CASE CheckVersion(p)
    <3>1. CASE proc[p].v > Release[p]
      BY <2>3, <3>1, <2>p, <2>s, <1>t, MoveKeepsIInv DEF CheckVersion, Go
    <3>2. CASE ~(proc[p].v > Release[p]) /\ proc[p].v \in recorded
      <4>. DEFINE r == [proc[p] EXCEPT !.v = proc[p].v + 1]
      <4>1. Moves(p, r)
        BY <2>3, <3>2 DEF CheckVersion
      <4>2. r \in Recs /\ r.pc = "check" /\ r.v = proc[p].v + 1 /\ r.mine = proc[p].mine
        BY <2>3, <2>p, <3>2, <1>t DEF CheckVersion, At
      <4>3. \A u \in 1..(r.v - 1) : u \in recorded
        BY <4>2, <2>p, <3>2, <1>t
      <4>. QED  BY <2>3, <4>1, <4>2, <4>3, <1>t, MoveKeepsIInv DEF CheckVersion
    <3>3. CASE ~(proc[p].v > Release[p]) /\ proc[p].v \notin recorded
      <4>1. Moves(p, To("apply"))
        BY <2>3, <3>3 DEF CheckVersion, Go
      <4>2. proc[p].v <= Release[p]
        BY <3>3, <2>p, <1>t
      <4>. QED  BY <2>3, <4>1, <4>2, <2>p, <2>s, <1>t, MoveKeepsIInv DEF CheckVersion
    <3>. QED  BY <3>1, <3>2, <3>3
  <2>4. CASE ApplySQL(p)
    <3>. PICK s \in {"failed", "record"} :
           Moves(p, To(s)) /\ (s = "record" => ~(Times(proc[p].v) > 0))
      BY <2>4 DEF ApplySQL, Go
    <3>1. s = "record" => proc[p].v \notin recorded
      BY DEF IInv, RecordedMeansApplied, Times
    <3>. QED  BY <2>4, <3>1, <2>p, <2>s, <1>t, MoveKeepsIInv DEF ApplySQL
  <2>5. CASE RecordVersion(p)
    <3>. PICK s \in {"failed", "commit"} : Moves(p, To(s))
      BY <2>5 DEF RecordVersion, Go
    <3>1. InTxn(p)
      BY <2>5 DEF RecordVersion, At, InTxn
    <3>. QED  BY <2>5, <3>1, <2>p, <2>s, <1>t, MoveKeepsIInv DEF RecordVersion
  <2>6. CASE Commit(p)
    <3>. DEFINE r == [pc |-> "check", v |-> proc[p].v + 1, mine |-> proc[p].mine \cup {proc[p].v}]
    <3>1. InTxn(p)
      BY <2>6 DEF Commit, At, InTxn
    <3>2. r \in Recs
      BY <3>1, <2>p, <1>t
    <3>. QED  BY <2>6, <3>2, <1>t, CommitKeepsIInv DEF Commit
  <2>7. CASE Restart(p)
    <3>1. Started \in Recs /\ Started.pc = "create" /\ Started.v = 1 /\ Started.mine = {}
      BY <1>t DEF Started
    <3>. QED  BY <2>7, <3>1, <1>t, MoveKeepsIInv DEF Restart
  <2>8. CASE Fault(p)
    BY <2>8, <2>p, <2>s, <1>t, MoveKeepsIInv DEF Fault, Go
  <2>9. CASE CommitUnheard(p)
    <3>1. At(p, "commit") /\ Moves(p, To("failed")) /\ faults' \in 0..MaxFaults
      BY <2>9, <1>t DEF CommitUnheard, Go
    <3>. QED  BY <2>9, <3>1, <2>s, <1>t, CommitKeepsIInv DEF CommitUnheard
  <2>. QED  BY <1>a, <2>1, <2>2, <2>3, <2>4, <2>5, <2>6, <2>7, <2>8, <2>9 DEF Migrate
<1>b. CASE UNCHANGED vars
  BY <1>b DEF IInv, TypeOK, RecordedMeansApplied, NoGaps, ReportedOnce, ProcInv, InTxn, At, vars
<1>. QED  BY <1>a, <1>b DEF Next, Process, Served

(* Whatever processes race and wherever they fail, the schema and its      *)
(* version table agree and every process knows its place in them.          *)
THEOREM MigrationsInvariant == Spec => []IInv
<1>. QED  BY InitIInv, NextIInv, PTL DEF Spec

(* No migration's DDL is committed without its row, or twice.              *)
THEOREM RowsMatchDDL == Spec => []RecordedMeansApplied
<1>1. IInv => RecordedMeansApplied
  BY DEF IInv
<1>. QED  BY <1>1, MigrationsInvariant, PTL

(* The schema is always that of some release.                              *)
THEOREM VersionsInOrder == Spec => []NoGaps
<1>1. IInv => NoGaps
  BY DEF IInv
<1>. QED  BY <1>1, MigrationsInvariant, PTL

(* No version is reported as applied twice.                                *)
THEOREM VersionsReportedOnce == Spec => []ReportedOnce
<1>1. IInv => ReportedOnce
  BY DEF IInv
<1>. QED  BY <1>1, MigrationsInvariant, PTL

(* A process that serves has every migration of its own release.           *)
THEOREM ServesCurrent == Spec => []DoneMeansCurrent
<1>1. IInv => DoneMeansCurrent
  <2>. SUFFICES ASSUME IInv, NEW p \in Procs, At(p, "done"), NEW u \in 1..Release[p]
                PROVE  u \in recorded
    BY DEF DoneMeansCurrent
  <2>1. proc[p].v \in 1..(Last + 1) /\ proc[p].v > Release[p] /\ Release[p] \in 0..Last /\ Last \in Nat
    BY MigrationsAssumption DEF IInv, TypeOK, ProcInv
  <2>. QED  BY <2>1 DEF IInv, ProcInv
<1>. QED  BY <1>1, MigrationsInvariant, PTL
=============================================================================
