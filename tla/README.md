# A TLA+ verification of motzworks

motzworks scans a network without agents: it finds live hosts, logs in to them with stored
credentials, normalises what it learns into one inventory of devices in PostgreSQL, serves that
inventory to a dashboard, and repeats the scans on a schedule. This directory holds TLA+ models of
the parts where the order of events decides whether the inventory is right, the TLC runs that check
them on small instances, and TLAPS proofs of every safety property of those runs for every instance.

Contents: [the system](#1-the-system) · [modules and code](#2-modules-and-the-code-they-model) ·
[runs](#3-the-runs) · [fairness](#4-fairness) · [proofs](#5-the-proofs) ·
[disagreements found](#6-where-code-and-documentation-disagree) · [not modelled](#7-not-modelled) ·
[plan](#8-plan)

To check: `tlc -config PoolSafe.cfg MCWorkerPool` (the runs of section 3) and
`tlapm WorkerPoolProofs.tla` (the proofs of section 5), inside this directory.

## 1. The system

One Go process (`motzworks serve`) holds the API, the scheduler and the scan engine; the CLI
(`motzworks scan`) runs the engine alone. PostgreSQL holds all state that outlives a process.

```
 dashboard --HTTP--> API --goroutine--> engine.Run <--call-- scheduler.runDue
                      |                   |    \
                      |         discovery.Discover  worker.Run --> processHost per live host
                      |                   |                          |  fingerprint, collectors
                      |              worker.Run                      v
                      +---- store (PostgreSQL) <---- UpsertDevice, scan_run, scan_event rows
```

| component | source | state it keeps | operations | hard behaviour | what makes it correct |
|---|---|---|---|---|---|
| worker pool | `internal/worker/pool.go` | a semaphore channel, a WaitGroup, a slice of results | `Run` | a dispatcher and up to *n* goroutines; a cancellation at any point | width respected; complete results on return; one writer per slot; it returns |
| device store | `store/devices.go`, `0001_init.sql` | `device` and its child tables, `change_event` | `UpsertDevice`, called by every scan worker | concurrent READ COMMITTED transactions; partial reports of the same machine by different collectors | one row per machine, one machine per row; nothing known is lost; a complete timeline |
| scan engine | `scan/engine.go`, `store/scanrun.go` | `scan_run`, `scan_event`, `relationship` rows; per-host results in memory | `Run`, `processHost` | every database call may fail or its answer be lost; cancellation; a process that dies; hosts that fall silent | an ok run is complete; progress never exceeds its total; the row leaves `running` |
| discovery, rate limiter | `discovery/discovery.go` | a token bucket with a ticker goroutine | `Expand`, `Discover` | many hosts wait on one bucket; ticks are received late; address arithmetic at the end of a family | exact expansion; bounded bursts; no live host lost; the goroutine ends |
| scheduler, scan triggers | `scheduler/scheduler.go`, `store/targets.go`, `api/handlers_admin.go` | `schedule`, `scan_target`, `credential` rows; the due list of a pass | `runDue`, `handleTriggerScan`, the admin CRUD | lists read once and used for hours while rows are edited; shutdown between two steps | never early; every schedule recurs; what was deleted stops being used |
| schema migrations | `store/migrate.go` | the schema, `schema_migrations` | `Migrate` | several processes of several releases start at once, die and are restarted | DDL and row together, once, in order; every process comes to serve |
| host collection | `scan/engine.go` (`processHost`), `scan/credentials.go`, `collector/collector.go`, `fingerprint`, `cmd/motzworks/collectors.go` | the registry's order; per scan the errors and the result so far | `ClassifyByPorts`, `For`, `DecryptCredentials`, the collection loop | which collector wins with which credential; one that fails before one that works; a class that flips between scans | an event accounted for; a working credential suffices; no row of two logins |
| collectors | `collector/*` | none | `Collect` of eight products | partial failures reported as success | the kinds of credential each takes, what it may report |
| sessions, users, audit | `api/server.go`, `auth`, `store/users.go`, `store/audit.go`, `cmd/motzworks/user.go` | signed cookies, `app_user`, `audit_log` | login, logout, admin requests, `user add` | a token outlives the role it names; an audit row is a second, best-effort call | a lost role works on for one session at most; the log lacks nothing but what a fault took |
| read API | `api/handlers_read.go`, `store/queries.go` | none | lists, details, rollups, CSV | answers of several statements over rows a scan rewrites meanwhile | what is shown together was there together, or the later part is newer; a total's promise is kept |
| dashboard | `web/ui/src/pages.tsx` | the rows loaded so far, an offset, a busy flag, timers and observers | endless list, polling, pager | late answers of superseded requests; callbacks of different renders sharing a flag | pages join exactly; the poller stops, on a complete view; scrolling gets to the end |
| vault, CLI, config, logging, Zabbix views, metrics | | | | none that interleaves | not modelled |

How they interact: the scheduler and the API both call `engine.Run`, the scheduler in its own loop
(one scan after the other, under the process's context), the API in a goroutine of its own under
`context.Background()`. The engine calls `Discover`, then `worker.Run` with one job per live host;
`Discover` itself is a `worker.Run` with one job per address. Every job persists its host with
`UpsertDevice`, from as many goroutines as the pool is wide, and several scans may overlap. Nothing
but the database is shared between scans. The dashboard only talks HTTP: each request is answered
by statements of its own, without a transaction around them.

## 2. Modules and the code they model

`map` in `PROJECT.json` gives the source lines of each definition; this is the outline.

### JobPool — what the pool promises
The abstract specification of `worker.Run`: a set of jobs, each pending, active, finished or skipped;
at most `Width` active; after a cancellation at most one more is admitted (`grace`); `Return` only
once every job is settled. `ScanEngine` and `Discovery` are built over it (they EXTEND it and use
its actions as the pool's steps), so what they show rests on the promise and not on the channels.

### WorkerPool — how it keeps it
One action per operation on the context, the semaphore channel, the WaitGroup or the results slice:
`CheckContext`, `RecordCancelled`, `Dispatch` (the blocking send, `wg.Add`, `go`), `StartJob`,
`StoreResult`, `ReleaseSlot` and `SignalDone` (the two deferred calls, in the order they run),
`ReturnResults`; `Cancel` may come between any two. `Concurrency` is the argument before it is
clamped. `ImplementsPool` is the refinement `WorkerPool => JobPool`: a job is *finished* when it
gives its place in the semaphore back, which is before `wg.Done()`.

### DeviceStore — concurrent upserts
Each action is one SQL statement of `UpsertDevice` under READ COMMITTED: `Resolve` (one SELECT per
identity key, in the order serial, AD GUID, MAC, host name, IP), `ReadScalars` and `ReadOS` (the
snapshot for the diff), `InsertRow` or `UpdateRow` (taking the row lock, with COALESCE), `PassUnique`
or `UniqueViolation` (waiting for rival index entries, then passing or failing), `ReplaceChildren`,
`InsertChanges`, `Commit`; `Fail` is any statement's failure and the deferred rollback. A
transaction's writes live in its own record until `Commit`. Data is abstracted to the identity keys,
type and source, one token for software, users and hardware, and one for the OS. A ghost field says
which `machine` a report really came from; history variables are `shown` (what the timeline says),
`owner`, `last`. Which values a statement leaves alone is as in the code: the UPDATE spares a column for
NULL and the type for `unknown` (`Unset`), while `diffDevice` also passes over an empty type (`Empty`).

### ScanEngine — one run
`CreateRun`, `DiscoverHosts`, `SetDiscovered`, the pool's steps, `FinishRun`; per host `Collect`,
`UpsertHost`, `RecordEvent`, `UpsertRelated`, `LinkRelated`, `FinishHost`. Each database call draws
an outcome: ok, an error, or *lost* (it took effect and its answer did not arrive); on a cancelled
context it does nothing and fails. `Cancel` and `Crash` may come between any two steps. A related
device may turn out to be the host's own row, and is then not linked. `Collect` is
one collector: no credential, failure, success, or — SSH — silence for ever.

### ScanMonitor — the page that watches a run
Extends ScanEngine by one `page`: `OpenPage`, then polls of two statements, `ReadRow` (GetScanRun) and
`ReadEvents` (ListScanEvents, at most `EventLimit` of the newest), between which the engine may write.
While the row said running the page polls again; otherwise it rests on what it has. `PollFails`
replaces the page by an error and sets no timer, `Leave` drops whatever arrives late.

### DeviceReads — pages that read while scans store
Extends DeviceStore by one `reader`, a request with the answers it has so far. A device page is
GetDevice's six statements (`Detail`), the row first; a list is ListDevices' count and page
(`Listing`), from which the pager's `NextPage` and `PrevPage` derive the next offset. Whole upserts
commit in between. `since` is history: the versions of the device since the request began. The list
is the one without a search; under a filter an upsert may take a device out of it, and the pager's
promise with it.

### SoftwareList — the endless list
The state of the `Software` page (`items`, `offset`, `done`, `busy`), the requests under way, and the
browser's observer on the list's last row: `visible` is whether that row is near the view, `notice`
whether the observer is about to say so. `ChangeTerm` runs both effects of a changed search or sort;
`Notify` and `ChangeTerm` call `LoadMore`, which a raised flag turns into nothing; `AnswerPage` is the
server's one statement, a page of `Rollup` (every row of the search at its `Rank`), `Deliver` or `Fail`
the end of the request; `Commit` is a scan that changes the table, at any point. History: each row carries
the state of the table it was read from (`seen`), `read` is the search and the state of the last page, and
`sound` says that no reset was dropped or has failed. A callback runs to its end and is one step. An
observer reports with the frame, before the user can scroll again.

### Scheduler — what starts scans
The tables the administrator edits (`CreateTarget` ... `DeleteCredential`), the pass (`ListDue`,
`ListCredentials`, `Advance`, `StartScan`, `EndScan`; `ListCredentialsFails`, `AdvanceFails`), the ad-hoc
request (`Request`, `LoadTarget`, `LoadCredentials`, `LoadFails`, `StartAdHoc`), the clock and the process
(`Stop`, `Exit`, `Restart`). Time is the time left until `next_run_at`. A scan is one step here; `Hang` is
a scan that `ScanEngine` leaves hung.

### Discovery — which addresses, and how fast
`Expand` over both families, with addresses as numbers up to `Top`, a prefix as a block whose size divides
their number, and `After` of the last address the invalid one, as `netip.Addr.Next` has it; then the sweep
over the pool with the token bucket, the ticker's channel of one place and the limiter's goroutine, whose
two channel operations are two steps: `TakeTick` receives, `PutToken` sends unless the bucket is full, so
that it may be held up with a tick in hand while the next one waits. Closing `stop` ends it at its next
select (`EndRefill`).

### Migrations — several processes, several releases
`LookForTable`/`CreateTable` (the check of `IF NOT EXISTS` and the creation are two steps),
`CheckVersion` outside a transaction, `ApplySQL` waiting for another transaction that creates the
same objects, `RecordVersion`, `Commit`; `Fault`, `CommitUnheard` and `Restart`.

### HostCollection — what repeated scans make of one address
The machine behind an address stays the same: its open ports, the products it `speaks`, the
credentials it `admits` and the sections of a device it `has`. `StartScan` reads and unseals the
credentials (`FirstOf`: the first of a kind by name), `Discover` draws any subset of the ports and of
the SNMP answer, the rest being lost; then the collectors of the class take their turns in the order of
registration: `Skip` (ErrNoCredential), `Fail` (the error is joined to the others), `Succeed` (the
device replaces the one discovery made), `EndLoop`. `Upsert` or `UpsertFails` and `RecordEvent` leave
the row and the event; `EditCredentials` may come between any two steps. Each of the eight collectors
contributes its classes and kinds of credential (`Registry`), when it is let in (`LogsIn`), the types
it may tell and the sections it is sure to fill, may fill or leaves out (`Told`). `row.from` says, for
every section, whose answers the row holds. A machine's credentials have distinct names in the model
(the column is not unique; between equal names PostgreSQL's order is arbitrary).

### Sessions — logins, cookies, admin requests and the audit log
Requests run side by side: a login is `BeginLogin`, `LookUp` (which reads role and hash) or `Refuse`,
`IssueToken` (the expiry, computed later), `Audit` or `AuditFails`, `Respond`; an admin request is
`BeginMutation` with the browser's cookie, `Authorize` (the middleware: signature, expiry, role, all
from the token), then `Reject` (400, 404), `Mutate` or `MutateFails` (500, also when the statement
took effect and its answer was lost), and the audit row. `AddUser` is the command line's `user add`,
which creates an account or replaces its role; `Restart` ends the requests in flight and, without a
configured secret, the sessions. Time is the ticks a token has `left`. History variables: `held`, the
ticks since an account last was an admin's, and `missing`, what happened in a user's name less the
rows that tell of it.

### Conventions
Every constant has a named assumption. Modules that carry proofs use recursive functions and folds
and no RECURSIVE operator. A definition marked "Mutant" is a variant of the one below it with a
plausible bug; it is not part of any specification and shows which bug the properties notice.

## 3. The runs

| run | module | question | bounds, and why they suffice |
|---|---|---|---|
| PoolSafe | MCWorkerPool | does `worker.Run` keep JobPool's promise? | 4 jobs, 2 workers: the semaphore is full with two jobs still to come, so a cancellation falls before, during and after the blocked send |
| StoreSequential | MCDeviceReads | does a history of partial reports keep one row per machine and its timeline, and what does a page see that reads meanwhile? | one worker, 6 upserts of 5 reports of two machines that share a bridge MAC: discovery-only, WinRM, SSH, and a session that yields a host name only; one reader, one device to a page, so that the second device opens a second page |
| StoreConcurrent | MCDeviceStore | do the locks and unique indexes hold up under two workers? | 6 upserts; one machine on two addresses with a serial, and another beside it |
| StoreTimeline | MCDeviceStore | *violation*: the timeline matches the row | 3 upserts by 2 workers |
| EngineRuns | MCScanEngine | what do the rows of a run say, and what does a page that polls them come to show, whatever fails? | 3 hosts, 2 workers, one related VM, one failing call, cancellation, crash, a silent host; answers of at most 2 events, so that a full run exceeds the limit |
| SchedulerRuns | MCScheduler | are schedules neither early, lost nor haunted by deleted rows? | 2 schedules (intervals 1 and 2) over a target whose scan may fall silent, a credential, an ad-hoc request that may not parse; any number of failing statements. The schedules interact through the pass alone, so one target gives each the other's scans, edits and failures in its way; the proofs cover any number of targets |
| DiscoverySweep | MCDiscovery | exact expansion, bounded bursts, no host lost | 4 addresses per family, 2 tokens a second, lists with every kind of spec, host bits set, the last address, overlaps and errors |
| MigrationsRace | MCMigrations | do concurrent starts of two releases end with everyone serving? | 3 processes (one a release behind), 3 migrations, 2 faults |
| HostScans | MCHostCollection | which collector wins, what is left in the row and the event? | any number of scans of one of four machines, of which any port or SNMP answer may be lost; 7 credentials (two for SSH, one that cannot be unsealed and shadows nothing), 3 edits: enough to add the credentials of two collectors of a class and take one away |
| SessionsRun | MCSessions | does a role end with the session, and what does the audit log lack? | one account, one browser, two requests at a time, sessions of 2 ticks, one fault: the account is demoted before, between and after lookup, expiry, check and mutation; a second account adds no interaction, and the proof covers any number |
| SoftwareScroll | MCSoftwareList | do the pages join, whatever a scan stores between two, and does scrolling get to the end? | 4 titles, 2 to a page, so that the last page of a full list is empty; three searches (both orders, and one that a page satisfies), 2 changes of them, 1 scan that reorders and removes titles, 2 failed requests: a change may fall on any point of a request, and a failure on a reset and on a later page |
| SoftwareStale | MCSoftwareList | *violation*: the rows shown belong to the search shown | one change, no scan, no failure |

**Named bounds.** `MaxUpserts` (upserts begun), `MaxFaults` (failing database calls, or crashes and lost
connections), `Last` (migrations that exist), `Top` (the last address), `MaxEdits` (edits of credentials),
`Requests` (requests in flight), `TTL` (ticks a session lasts), `MaxChanges`, `MaxCommits`, `MaxFailures`
(changed searches, scans, failed requests of the software list). `EventLimit`, `PageLimit` and `Page` are
the code's own limits (1000, 50, 100), small. Each bound caps a counter in a guard; none hides a step of
the code. `CHECK_DEADLOCK FALSE` is said where the system really stops: a pool that has returned, a
software list that is complete. The other modules have an explicit stuttering end action, so that any
other stop is reported.

**What the passing runs show.**
- *Pool.* Never more than max(1, concurrency) jobs at once, complete results on return, and — a
  detail of `pool.go:35` — exactly one job may start after a cancellation: the one that was already
  waiting for a place. Scans rely on the first two; the third is in JobPool as `grace`.
- *Store.* For any sequence of reports that have a type: no column that was once filled is emptied, a pass
  that collected nothing leaves the children alone, machines sharing a Docker bridge MAC stay apart, the
  timeline ends at the row, persisting the same report again logs nothing. Under concurrency the unique
  indexes on serial and AD GUID keep a machine *that has one* in one row, and no transaction waits for
  ever.
- *Engine.* A run marked ok processed every live host to its end; without failed calls it has one
  event per host and every related device stored and linked. Nothing is written for a run after its
  row says ok, so a poller that stops there has seen everything. Lost answers never let
  `hosts_found` exceed the devices that exist. `SettlesUndisturbed` states exactly when a run's row
  leaves `running`: unless it is cancelled, dies, loses a database call or meets a silent host.
- *Scan page.* A page that has stopped polling shows the final row and all the events, up to the
  limit, although it read them apart: the row first, and nothing is written after it says ok
  (`FinalViewComplete`, whose mutant is a page that stops at the last announced event). It stops in the
  end, under the conditions of `SettlesUndisturbed`, a failed poll and the user's leaving apart.
- *Device pages.* A device page may mix two scans, but never shows an inventory that is older than
  the row above it, which names the collector and the time (`InventoryNotBehindRow`: the order of the
  statements is what gives it). The pager leads to no empty page, since the total is counted before
  the page is read and devices are never deleted (`PageNotShort`).
- *Software list.* Every listed row stands where it stood in the state of the table it was read from: rows
  of one state are in its order, none missing and none twice, and a list that is done reaches to the end
  of the last state read, whatever scans stored in between (`ListExact`; rows of *different* states may
  repeat, see section 6). Only a request that fails with or after a dropped reset puts rows in the wrong
  place. Whatever failed or was dropped, the list goes on: nobody can scroll its end in and out of view
  for ever.
- *Scheduler.* However old the list a pass works from, no schedule advances before it is due
  (`OnlyWhenDue`), no scan begins after the stop signal, every enabled schedule recurs, however often a
  statement fails, as long as no scan hangs for ever, and a deleted target or credential eventually stops
  being used.
- *Discovery.* `Expand` yields each denoted address once, also when a prefix ends at the last
  address of its family. In any `RatePerSec` intervals of the ticker at most
  `2 * RatePerSec + 1` hosts get a token: a full bucket, the refill, and a tick the limiter's goroutine
  had in hand with another waiting.
- *Migrations.* DDL and version row commit together and once; no gaps; a process that serves has its
  release's schema; with restarts everyone comes to serve, also from the race in
  `CREATE TABLE IF NOT EXISTS`.
- *Host collection.* If any collector of the class has a credential the machine accepts, an
  undisturbed scan ends collected, whatever the others made of the host; a failed event names every
  collector that had a credential; a host nobody has one for is never failed. Interfaces, software and
  accounts of a row always stem from one login, although the class may flip and eight collectors
  write them. Two undisturbed scans that see the same ports with the same credentials agree.
- *Sessions.* Whoever is let into an admin handler held the role within the last session's length
  and the tick that checking a password may take; a demoted account stops acting in the end. Without
  a fault each login, refused login and admin request has its row or is just getting it; faults
  only ever take rows away, they never make one that tells of nothing.

## 4. Fairness

- *Goroutines.* Weak fairness of each goroutine's own steps: Go's scheduler runs every runnable one.
  Nothing makes a *job* return: `RunReturns` assumes that each one does, as a premise.
- *Blocked sends and receives* become enabled and stay so (the dispatcher is the only sender on the
  semaphore), so weak fairness is enough. Tokens are different: several hosts receive from one
  bucket; `Discovery` assumes weak fairness only of "some host takes a step", and a sweep still ends
  because each host needs a single token. The limiter's goroutine ends although its select may prefer a
  tick: strong fairness of `EndRefill` says that a choice Go makes at random falls on `stop` some time.
- *PostgreSQL*, once asked, answers every statement that waits for nothing; a lock's waiter goes on once it is
  free. `Fail`, `Fault`, `Cancel` and `Crash` are never fair: nothing makes them happen.
- *Collectors.* WinRM, WMI, SNMP and the HTTP ones have a timeout, which is the justification for
  the fairness of `Collect`. SSH has none past its dial, so a host of `Unresponsive` may take the
  branch that never ends; no fairness applies there.
- *Scheduler.* The ticker ticks, time passes, and a scan that does not hang ends. Its statements may fail
  any number of times; strong fairness of `ListCredentials` and of each `Advance` says that one which is
  tried for ever is answered for once. The administrator is under no obligation.
- *Scan page.* A request is answered or fails and the timer fires (`Fetch`); no fairness on opening or
  leaving the page.
- *Software list.* Requests end (`FetchPage`) and the observer reports (`Notify`). The user is free:
  `ScrollingEnds` says what follows if they scroll on.
- *Sessions.* Handlers come to their end and time passes; nobody has to log in, and the command line
  does what it likes. `HostCollection` states safety only and needs no fairness.
- *Restart* of a failed process is fair in `Migrations`: `docker-compose.prod.yml` says
  `restart: unless-stopped`.

## 5. The proofs

All proofs are about the specifications above with their constants arbitrary (within the named
assumptions). Nothing else is assumed, except what six theorems of the device store name in their
statements: conditions on what is reported (`TypesGiven`, `MachinesDiffer`, `MachinesKeepAKey`, `OneSource`,
`OSFromCollectors`), which the MC modules ASSUME of their reports so that TLC evaluates them, and
`DiffsApart`, on the behaviour.

| module | theorems | the inductive invariant, and why it is needed |
|---|---|---|
| WorkerPoolProofs | `PoolInvariant`, `ConcurrencyBounded`, `ReturnsComplete`, `OneLateDispatch`, `ResultsWrittenOnce`, `PoolImplemented` | `IInv`: the semaphore and the WaitGroup *equal* the number of goroutines that still owe them a decrement (`CounterInv`), and the dispatcher has visited exactly the jobs before `next`. The bound on running jobs alone is not inductive: the channel's count has to be tied to the goroutines. `CancelInv` carries "no send is pending once a cancellation was acted upon", from which at most one late dispatch and the refinement's `grace` follow |
| DeviceStoreProofs | `StoreInvariant`, `SerialsStayUnique`, `ColumnsNeverEmptied`, `ShallowPassKeepsInventory`, `MachinesStayApart`, `TimelineComplete`, `TimelinePerMachine`, `OneRowPerMachine`, `RescansLeaveNoTrace`, `ReaderInvariant`, `PageNeverBehindRow`, `PagerKeepsItsPromise` | `IInv` is `KeysInv` and `PendingInv`. `KeysInv`: rows are written by one lock holder at a time, and a key in the index is carried by no committed row and no other transaction, so a commit cannot create a duplicate. `PendingInv`: what a lock holder is about to publish was computed from the row as it *still* is — without it, a COALESCE computed from an older version could empty a column. `ColumnsNeverEmptied` and `TimelineComplete` need that every report has a type (`TypesGiven`): an empty one would replace the stored type, and without an event. `MachinesStayApart` assumes that no identity key of a machine is reported of another (`MachinesDiffer`) and needs no order of the upserts: every key of a row was reported by its one owner (`OneMachine`), so whatever a search finds belongs to the report's machine, and still does when the row is written. `TimelineComplete` assumes that upserts which overlap are of different devices from the diff on (`DiffsApart`); `DiffIsCurrent` says that the diff of a transaction is against the row as it still is, which is exactly what the StoreTimeline run loses. `TimelinePerMachine` derives `DiffsApart` from the reports: two transactions on one row would be of one machine, and so of one worker. `OneRowPerMachine` needs that a machine can be met again, by a key all its reports carry, and a unique one if several workers store it: `OneRowInv` adds the searches under way, of which one that has passed a key its machine keeps (`Missed`) proves that there is no row to find. `RescansLeaveNoTrace` follows the worker's previous report through the next upsert (`RepeatInv`): the row agrees with it, a search for it ends there, and the diff is empty. `ReaderInv` ties each answer to the version it was read from, and the versions to the table (`RowsStay`: a row that was there stays) |
| ScanEngineProofs | `EngineInvariant`, `OkIsComplete`, `ProgressStaysWithinTotal`, `RowsBackEvents`, `NothingFollowsFinish`, `MonitorInvariant`, `LastPollShowsAll`, `HostsRunOnPool`, `HostsBounded`; of SoftwareList `RollupListsRows`, `RequestsTakeTurns`, `ListedRowsAreRollup` | `IInv`: a host's slot in the pool goes along with its step (`SlotInv`), its step with what it has stored (`HostInv`), and the run's step with its row (`RunInv`). That ok means complete is not inductive: `CalmInv` says it of every single host on the way, as long as no call has failed. `MInv` adds the page: what it read of a settled row is still so, because nothing follows it. `HostsRunOnPool` shows the engine to be a client of JobPool, from whose steps the bound on hosts at once follows. `RollupListsRows`: the ranks of the rows are distinct and below their number, so they fill every place. `ListInv` and `ListExact` are inductive only together: that a page continues the list rests on the one request under way asking for the next place (`NextPlace`), and on its answer being a page of the state it carries (`seen`) |
| SchedulerProofs | `SchedulerInvariant`, `SchedulesHaveTargets`, `AdvancedOnlyWhenDue`, `NoScanAfterStop` | a schedule in a pass's due list still has no time left, however old the list: only an UPDATE of `Advance` or `AdvanceFails` sets it back, and both remove it from the list |
| DiscoveryProofs | `LimiterInvariant`, `BurstsBounded`, `SweepFindsAll`, `ExpandedOnce`, `SweepRunsOnPool` | `IInv` is the types, `SweepInv` (without a cancellation, a probe that is over has found its host if that answers) and `BurstInv`: grants, the tokens still held, the tick in the channel and the one in the goroutine's hand are bounded *together*; the bound on grants alone says nothing about what the bucket may still give. `ExpandedOnce` needs no invariant but an induction over each walk, made on a set of numbers that has a least element (`SetInduction`): a recursive function of the model exists by a witness that satisfies its equation, and is the only one. A prefix is one block of addresses, the walk over it ends with its last address or with the invalid one after `Top`, and `AddNew` keeps each address once |
| MigrationsProofs | `MigrationsInvariant`, `RowsMatchDDL`, `VersionsInOrder`, `ServesCurrent`, `VersionsReportedOnce` | two processes are never in the transaction of one version, and what is recorded is a prefix, the DDL of each applied once |
| HostCollectionProofs | `CollectionInvariant`, `TablesOfOneLogin`, `WorkingCredentialCollects`, `EventsExplained`, `RescansAgree` | `IInv`: the collectors tried are an initial part of the candidates (`LoopInv`), the errors are exactly those of the collectors that failed (`ResultInv`), and each one that did not log in has a reason (`ReasonInv`). `RescanAgrees` compares two scans, so the remembered one has to be characterised too: its event is what an undisturbed scan of its ports and credentials *must* come to, and that is determined by them alone (the first candidate in the order that logs in, by well-foundedness of the ranks) |
| SessionsProofs | `SessionsInvariant`, `RoleOutlivedBoundedly`, `AuditLogComplete` | `IInv`: `TokenInv` bounds, for each token in a cookie or a request, the time its owner has been without the role by the part of the session that is used up (`Backed`); a tick adds to one what it takes from the other. A login between lookup and expiry has its own bound (`waited`). `AuditComplete` relates `missing` to the *number* of requests being recorded, whose changes are counted once for all actions (`Same`, `Enters`, `Leaves`) |

Each inductive invariant is also an invariant of the module's run, but for `ReaderInv` and those of the
theorems with a hypothesis, which are proved only; the conjuncts of the first (`AtMostOneLateDispatch`,
`SerialUnique`, `NoOrphanSchedule`, `NoGaps`, `ReportedOnce`, `AuditComplete`) are checked as part of
it. `BurstInv` with nothing left to grant is `BurstBounded`. The step lemmas follow the disjuncts of `Next`;
refinement maps each step of `worker.Run` to a step of JobPool or a stutter.

How the code meets the hypotheses of the device store: `processHost` gives every report a type, and
`mergeDevice` falls back to it when a collector gives none (`engine.go:129-133`, 206-208); a VM stub is of
type vm (`proxmox/parse.go:86`). `processHost` and the collectors give every report
of a probed host the address that was probed, so a machine with one address keeps a key. A scan probes an
address once, so as long as scans do not overlap and no hypervisor lists the machine as a VM its upserts
come one after the other, as from one worker. A machine with two addresses may be stored by two workers
at once and keeps a key only if every pass of it, discovery-only ones included, reports its serial or AD
GUID. Without such a key `RowsAreMachines` does not hold: a machine met by address only, and then without
it, is two.

**Only model-checked.** Liveness (`RunReturns`, `UpsertsEnd`, `SettlesUndisturbed`, `PageSettles`,
`RecurringScans`, `DeletedRetires`, `SweepEnds`, `AllServe`, `DemotedRetires`, `ScrollingEnds`): TLAPS
does not reason about fairness and ENABLED here. Every invariant and every action property of a passing
run is the statement of a theorem.

## 6. Where code and documentation disagree

Each of these is a run that TLC must find violated; `findings` in `PROJECT.json` quotes both sides.

1. **StoreTimeline** — the diff is taken against a snapshot read before the row lock
   (`devices.go:66`); an upsert that commits in between changes the row without a matching event.
2. **SoftwareStale** — a search or sort changed while a page is loading is not loaded: `loadMore`
   returns at once (`pages.tsx:386`), and the effect is not run again. The late page of the old search
   appears under the new one, and scrolling appends the new one's *second* page to it. "Reset and load
   the first page whenever the search term or sort changes" (`pages.tsx:407`).

Met while modelling, and visible in the source without a run:
- Two workers that persist one machine without a serial at once insert it twice (`devices.go:54`):
  lookup and INSERT are separate statements and only serial and AD GUID are unique, while
  `model.go:28-30` names host name and MACs as merge keys too.
- `FinishScanRun` uses the run's own context (`engine.go:116`), and nothing else settles the row: a
  scheduled scan cut off by a shutdown, or a killed process, leaves it `running` for ever, and a page
  that watches it polls for ever. `SettlesUndisturbed` and `PageSettles` name the exception.
- When `SetDiscovered` fails, its error is dropped (`engine.go:86`): events then outnumber a total of 0
  for the whole run (the premise of `ProgressWithinTotal`).
- The scan page shows at most 1000 events (`queries.go:449`); a larger run is cut without a word.
- The first page of a new search that *fails* leaves the old rows listed, and the next scroll appends
  to them (`pages.tsx:399-404`; the history variable `sound` marks it, `ListExact` says what is left).
- An empty device type would replace the stored one (`devices.go:71` spares `unknown` only), without an
  event (`devices.go:188`). No caller passes one (`TypesGiven`).
- "every ordering ends with name,version tiebreakers so it's fully deterministic and offset pages don't
  drop or repeat rows" (`queries.go:266-268`): they do when a scan changes the table between two pages.
  Each page is a statement of its own, the rows shift under its OFFSET (line 286), and one is listed twice
  or left out. `ListExact` states what remains: the place of each row in the state its page was read from,
  and an end that reaches the last of these.
- A device page is read in six statements without a transaction and may show the row and OS of one
  scan above the software of the next (`queries.go:149-199`).
- `devices.csv` holds 500 devices at most (`handlers_read.go:54`), `docs/API.md:24` just says "CSV export".
- A Proxmox VM stub is persisted as *collected* (`engine.go:171`) although it carries no software,
  users or interfaces (`proxmox/parse.go:84-93`), so it empties what a login to the VM had gathered;
  `devices.go:35-38` says that a shallow scan never erases inventory.
- "dial + command timeout" (`ssh.go:24`) bounds the dial only: a host that falls silent in the
  handshake or in a command keeps its worker for ever (`Unresponsive` in ScanEngine has this).
- A Linux host that also answers SNMP is of class snmp and, when the SNMP collector is the one that
  logs in, loses the software list an SSH login had filled: `replaceChildren` clears all lists.
- Only the first credential of a kind by name is ever tried, on every host; the match rules of
  `PLAN.md:103-104` are not implemented. A new credential may shadow the one that worked.
- A `login_failed` row is also written when the query failed and the password was right
  (`server.go:210-213`); a client that goes away takes the audit row of its request along
  (`server.go:197` uses the request's context).
- A role lives in the token until it expires; `user add` cannot end a session (`server.go:127`).
- A scheduler that dies between `Advance` and the scan, or loses the answer to it, skips that run: the
  next one is an interval later, a choice that avoids repeating a scan that kills the process.
- `pool.go:20-21` says that no new job starts after a cancellation; one does (JobPool's `grace`).
- A discovery-only pass overwrites type and source established by a collector (`devices.go:67-71`).
- Ad-hoc scans started through the API are neither rate limited nor jittered
  (`handlers_admin.go:49-54`), `README.md:30-32` says both are. SNMP probes are never limited.
- `handleTriggerScan` answers 202 also for specs that do not parse; no scan run ever appears
  (`handlers_admin.go:11-12`).
- `RatePerSec`, "cap on hosts probed per second" (`discovery.go:51`), is the rate in the long run;
  a second may see twice as many and one more (`BurstBounded`).
- IPv6 ranges are accepted although `discovery.go:70` says they are not supported, and one whose
  ends carry different zones does not end.
- Runs started by the scheduler carry no target id (`engine.go:74`).
- Logouts are never audited (`server.go:235-242`); `README.md:25-27` lists them among what the audit
  log records.

## 7. Not modelled

- **Vault** — a pure function of key and text; no state, no interleaving.
- **Command line, configuration, logging, Zabbix views, metrics** — sequential glue and read-only
  SQL; the values they pass (concurrency, rate, jitter) are the constants of the models.
- **Parsers of the collectors** — text to record, covered by the repository's own tests; what
  matters to the models is which *kind* of result a collector returns and which sections of a device
  it may leave empty.
- **Statistics, changes, CSV, devices of a software** — one statement each, or several whose answers
  are not compared; the pages that show them fetch once.
- Inside what is modelled: hardware, users and software are one token; the SQL planner's choice among
  several matching rows is a nondeterministic choice; which events are the newest is left open (`Newest`);
  the addresses of a machine do not move between machines (DHCP), because no definition of the right
  answer exists for a bare address; IPv6 zones; ids are never reused.

## 8. Plan

The order is that of importance: what corrupts the inventory first, then what stops scanning, then
what shows wrong data.

1. *Done:* WorkerPool and JobPool; DeviceStore; ScanEngine over JobPool; Scheduler; Discovery over
   JobPool; Migrations; HostCollection; Sessions; DeviceReads; ScanMonitor; SoftwareList; proofs for
   all of them.
2. **Addresses that move** — DHCP in DeviceStore, once the code decides whose row a bare address is.
3. **Overlapping scans** — two engines over one DeviceStore: `TimelineComplete` without `DiffsApart`
   does not hold, and a version of the upsert that locks before it diffs would be the refinement to
   state.
