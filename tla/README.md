# NetOps Console: a TLA+ verification project

NetOps Console is a small web application with which an operator discovers the
devices of a network, runs diagnostics and custom actions against them, and
keeps the history of what was seen. It is one process and one event loop:
FastAPI, SQLAlchemy's asyncio sessions, SQLite in WAL mode, and external
programs (`nmap`, `ping`, `traceroute`, `ssh`) started as child processes. It
is deliberately run with a single worker.

This directory holds TLA+ models of the parts of that program whose
correctness depends on the ORDER of things: which step of which request, task,
child process, commit or restart comes before which. Line numbers refer to the
files under `app/`; `PROJECT.json` lists, for every definition that models
code, the lines it stands for.

## 1. Inventory

The four mechanisms every component shares:

* **The event loop.** Handlers and background tasks interleave only at
  `await`. The HTTP middleware is plain ASGI, so a client that disconnects does
  not cancel its handler; background scans are cancelled only when the loop is
  torn down.
* **Sessions.** One `AsyncSession` per request or task, `expire_on_commit=False`.
  An object is a copy of a row as loaded; a flush writes the columns whose value
  differs from the loaded one, and no others. A failed flush leaves the session
  refusing commits until it is rolled back.
* **SQLite.** One writer at a time: the lock is taken by the first flush of a
  transaction and released by its commit. Waiting writers give up after
  `busy_timeout` (5 s). A transaction that only reads takes no snapshot: each
  query sees what is committed when it runs. Foreign keys are enforced, and the primary key of the
  newest row is used again once that row is deleted.
* **The execution engine.** Every child process goes through it.

| Component (code) | State | Operations | Hard behaviour | What makes it correct |
|---|---|---|---|---|
| Execution engine (`core/execution.py`) | two semaphores; the process groups | `run` | contention, spawn errors, timeouts, processes that ignore signals, cancellation at shutdown | permits are conserved; programs, not only coroutines, are bounded; results are complete; every accepted call returns |
| Discovery life cycle (`modules/discovery`) | `discovery_run` rows; tasks | request, scan, reconcile, finish, prune, clean up at start | exceptions at any step, failing flushes, crashes between two commits | a run's status agrees with what was stored; recovery closes only dead runs; every run is closed |
| Device inventory (`discovery/service.py`, `devices`, `diagnostics`) | `device`, `device_observation`, `change_event` | upsert, absence sweep, ping, edit, remove | stale copies of rows, address reuse, overlapping scans | one row per host, MACs kept, complete sweeps, removals stick, answers are stored, the log of edits is true |
| Diagnostics (`modules/diagnostics`) | `diagnostic_result` | run, show | engine refusals, unparsable output | every execution recorded |
| Actions (`modules/actions`) | `action_definition`, `action_execution` | create, toggle, delete, execute | a definition or a credential deleted under a running command, concurrent toggles, a dying process | a record tells what ran, its reference resolves, history ends only by retention |
| Credentials and host keys (`modules/credentials`, `modules/ssh/client.py`) | `credential`, `ssh_host_key` | store, assign, delete, probe, trust, revoke, run over SSH | a device that changes keys between review, acceptance and connection; acceptances and revocations that race; a deletion that takes assignments with it | only reviewed keys are stored; a command is sent only to a holder of an accepted key; trust ends only by a decision; an assignment that ends is named by an event |
| Authentication (`modules/auth`, `core/session.py`) | user row, in-memory throttle, signed cookie | set up, log in, log out, change password, reset | counters read before an `await` and written after; cookies that carry the session and answers that overtake each other | a burst is bounded; a lock in force holds; no session outlives its lifetimes |
| Settings (`modules/settings`) | `setting` rows | load, save | two forms saved at once, query by query; the engine built once | a form is stored as one unit, and no setting changes without an event |
| History, comparison, audit (`modules/history`, `modules/audit`) | none of its own (reads) | timeline, compare, page | equal timestamps, limits, rows that appear or are pruned between two queries, silent scans | every transition told once; a comparison says what both scans found, or nothing; no row skipped or repeated |
| Retention (`core/retention.py`) | none of its own | prune | running beside writers | only rows outside the window go |
| Database (`core/db.py`) | engine, session factory | sessions | see above | – |
| Parsers and explanations (`discovery/parser.py`, `diagnostics/parsers.py`, `explain`) | none | pure functions | text | – |
| Validation, redaction, encryption (`core`) | none | pure functions | text, keys | – |
| CLI, entry point (`cli.py`, Docker files) | key file, database file, user row | bootstrap, reset-password, back-up, health | `reset-password` runs beside the server | – |
| Web shell (`main.py`, templates, configuration) | none | routing, rendering | start-up clean-up | – |

Interactions: discovery, diagnostics, actions and SSH call the engine;
discovery writes the inventory, which diagnostics and removals also write;
`lifespan()` runs the clean-up of discovery before the first request;
discovery ends with retention. `PROJECT.json` gives the hazards of each
component, at the line where each bites.

## 2. The modules

| Module | Models | Role |
|---|---|---|
| `ExecutionEngine` | `core/execution.py` | calls, permits, process groups, timers |
| `AdmissionGate` | | what the engine promises its callers |
| `MCExecutionEngine` | | names the calls for TLC |
| `ExecutionEngineProofs` | | theorems about it, the refinement of `AdmissionGate` among them |
| `RunLedger` | | what the discovery service promises about its run rows |
| `DiscoveryRuns` | `discovery/routes.py`, `service.py`, the start-up of `main.py` | the life of a run |
| `MCDiscoveryRuns` | | for TLC, with the history of failures the handler cannot answer |
| `DiscoveryRunsProofs` | | theorems about it, the refinement of `RunLedger` among them |
| `Inventory` | `upsert_device` and the sweep, ping updates, `delete_device` | concurrent writers of the device table |
| `MCInventory` | | networks and symmetry for TLC |
| `InventoryProofs` | | theorems about it |
| `Executions` | `actions/service.py` and `routes.py`, the recording of `diagnostics/service.py`, `delete_credential` | records of what ran, and the definitions they refer to |
| `ExecutionJournal` | | what the audit trail promises |
| `MCExecutions` | | symmetry for TLC |
| `ExecutionsProofs` | | theorems about it, the refinement of `ExecutionJournal` among them |
| `HostKeys` | `credentials/routes.py` and `service.py`, `ssh/client.py` | reviews, revocations and connections over one device's `ssh_host_key` rows |
| `TrustLedger` | | what host-key trust promises |
| `MCHostKeys` | | keys, their types and symmetry for TLC |
| `HostKeysProofs` | | theorems about it, the refinement of `TrustLedger` among them |
| `Accounts` | `modules/auth`, `core/session.py`, `core/middleware.py`, `cli.py` (bootstrap, reset-password) | logins, sessions and the throttle over one user row |
| `MCAccounts` | | symmetry for TLC |
| `AccountsProofs` | | theorems about it |
| `OperatorChanges` | `modules/settings`, `devices/routes.py` (edit, remove), `credentials` (create, delete, assign), `history/changes.py` | concurrent changes by hand and their events |
| `MCOperatorChanges` | | symmetry for TLC |
| `OperatorChangesProofs` | | theorems about it |
| `AuditLog` | `audit/routes.py`, `core/retention.py` | one reader's walk through four tables |
| `MCAuditLog` | | symmetry for TLC |
| `ScanHistory` | `history/service.py`, the observations of `discovery/service.py`, `core/retention.py` | timelines and comparisons of what scans recorded |
| `MCScanHistory` | | symmetry for TLC |
| `HistoryProofs` | | theorems about `AuditLog` and `ScanHistory` |

### ExecutionEngine

`pc[c]` is the place of one call inside `run()`, `_spawn()` and `_terminate()`;
`free` the two semaphores; `leader`, `helper` and `signal` the process group of
the call. The actions follow the code: `Reject`, `Busy` and `Admit` are the
checks and the acquisition (`locked()` and `acquire()` of an unlocked semaphore
do not suspend, so they are one step); `Spawn` and `SpawnFails`;
`Complete` (`communicate()` needs the child reaped AND both pipes at
end-of-file); the timers `ExpireAlive`, `ExpireReaped`, `GraceExpires`,
`KillEnds`; `GraceEnds`; `Shutdown` and `Cancel`. `Fork`, `LeaderExits` and
`HelperExits` are the operating system: they may happen at any time, or never.
Time is abstracted: an armed timer may fire at any moment.

`AdmissionGate` is the engine as a caller sees it: a call is outside, inside, or gone
with one of four answers, and a set of programs runs. Busy is said only while the
call's own pool is full. The refinement maps the places of a call's
coroutine to `place`, and the direct children that are alive, unkilled and not
abandoned at shutdown to `programs`.

### DiscoveryRuns and RunLedger

`row` is what is committed of a run's row, `stored` what is committed of its
findings, `task` the place of its background task, `lock` the session holding
the write lock, `broken` the sessions that need a rollback. The findings and the
status are committed by two transactions (`CommitFindings`, `Finish`).
`FlushFails`, `OtherException`, `LoadFails` and `RecoverFails` are the failures a
configuration may admit through `Faults`; `MarkFailed` and `MarkFailedRaises`
the exception handler of `_scan()`; `Crash` loses the tasks and whatever
was not committed; `Recover` is `fail_interrupted_runs()`.

`MCDiscoveryRuns` adds the history `lost`: the runs that met a failure the handler cannot answer (a write or
a commit that fails, a row that does not load, a clean-up that raises). Every other run is closed in
the end, whatever happened to these (`EveryRunCloses`).

`RunLedger` is the same service without tasks, sessions, slots or locks. The
refinement maps its `status` to the status column of the row and its `stored`
to `stored`.

### Inventory

`device` is the committed table; `draft` the table as the scan that holds the
write lock sees it; `pending` and `obs` its observations before and after the
commit. Pings and removals load a row, wait, and later write only what
differs from the loaded copy: `ping[p].status` and `removal[q].deleted` are the
loaded values that decide what is written. The clock is the number of
scans started (`epoch`): `last_seen < scanned_at` is the only comparison of times
that matters, and it only asks whether a device was seen since a scan began.
`Matches` may hold several rows; the code takes the first one its query returns,
the model any. `SweepAndCommit`, `BreakAndCommit` and `RollBack` are the three
ways out of `reconcile()`: its end, an exception whose handler commits the
half-done draft, and a rollback.

Not modelled in it: host names, notes, vendors, ports and the average latency.
No property depends on them, and no branch of the modelled code either.

### Executions

`request[r]` is one call of `execute()` or `run_diagnostic()` with its locals: the
copy of the definition it loaded, the status it decided, and whether it will
stamp `credential.last_used_at`. `ran` is what really started, `journal` and
`link` what the tables hold: they can disagree, and the properties relate them.
`Load` to `End` are the steps up to `_finish()`; `Record` and `RecordFails` its
commit, which the database takes only if the definition (the foreign key) and the
credential (the row to update) still exist; `Prune` the retention that every
request ends with; `Escape` an exception that no clause catches. `Create`,
`ToggleCommit` and `DeleteCommit` are the library's handlers, each a load and a
commit with anything in between; `NextId` is SQLite's `max(id) + 1`, so a
stale edit may meet another definition under its id. `name` tells definitions ever
created apart, which ids cannot. `log` keeps the last change event of each name.
`Crash` forgets requests and edits in flight; their commands are not undone.

`ExecutionJournal` is the trail without requests, edits, sessions and crashes: `started`
is `ran`, `entry` the journal, `defined` the ids that have a row. An entry is written once and truly,
refers only to what is there, and ends by retention alone.

Diagnostics are requests without a definition. Merged: the two ways to be refused before
and inside the engine; the device and the operator, whose rows are never deleted
while the application runs (devices are only marked) and so cannot break a foreign key.

### HostKeys

`offers` is the set of keys the device can prove to hold (a server has one of each
of several types), and `Rebuild` changes it at any time: a reinstalled device, or
another host at its address. `row` is the device's rows by primary key, a null
value where the row is absent or another device's. A review goes through
`Probe` (a key is shown), `ProbeAgain` (the acceptance reads the device again and
compares fingerprints), `Find` (`trust()` looks for a row of the type), and one of
`TrustKnown`, `TrustReplaces`, `TrustInserts`, `TrustFails`; each of these awaits the network
or the database, so each is a step. A revocation is `RevokeLoad` and
`RevokeCommit`. An action copies one of the rows (`Load`; `trusted_key_for()`
has no order, so any of them) and connects if the device can prove that key. A
row that was revoked and whose id was used again is updated by a stale
`TrustReplaces`: its type then disagrees with its key, and `Connect` refuses it.

`TrustLedger` knows three sets of keys: `accepted` (by reviews that ended in trust), `recorded` (the keys of
the rows) and `reached` (the peers of the commands sent). That acceptance and record are one
step, however many the code takes, is what it promises.

Merged or left out: the two queries of a revocation; which credential is used; rows of
several devices; the text of events.

### Accounts

`account` is the committed user row; `request[r]` one request with its copies: of
the session, which it got from the cookie (`Send`) and gives back with its answer
(`Answers`), and of the row, loaded in `Load` or `LoadUser` and written column by
column in `CommitFailure` and `CommitSuccess`. Answers arrive in any order
(`Deliver`) or never (`DeliverNothing`), so `cookie[b]` may go back in time. The
throttle (`attempts`, `tracked`) is asked in `Login`, before the first await, and
told in `RecordFailure`, after the last. `life` is what the server saw of each
session, which no cookie carries: `SessionsExpire` compares the two. `ahead` is history
as well: the requests that loaded the row before the lock on record was written, the only
ones `LocksHold` lets touch it. `Crash` is a
restart: requests and the throttle are lost, cookies and the row are not.
`ResetPassword` is another process; its load and its commit are one step that
allows every result the two could have.

Left out: password values and hashes (a comparison is a choice of outcome), the
must-change flag, `last_login_at`, user deactivation (nothing in the code
deactivates a user), and cookies of answers that leave the session as it was (a
refused login that came with a session sends the same one back).

### OperatorChanges

`request[r]` is one handler: what was submitted (`form`), what it loaded first
(`before`), what it read or found on the way, and the events it commits.
`SaveLoad`, one `SavePut` per setting, `SaveShow` and `SaveCommit` are the queries
of the settings form; autoflush writes what is dirty before each of them, so the
write lock (`writer`) is taken somewhere on the way. The other handlers load and
commit: `Edit…`, `Remove…`, `Create…`, `Delete…`, `Assign…`, `Unassign…`. `Commits`
is the end of each of them. A row goes by its primary key, which may be another's
by then. `EditEvent` is what `describe_changes()` says of a field: old and new value, or,
for the fields in `Summarised` (the notes), only that it changed. `newKeys`, `newRows` and
`newFields` are history: what others committed since a request loaded, by which the
properties name the exact window that stays open.

Left out: device removal's other columns and revival by scans (`Inventory`), the
ranges of settings, secrets, and the text of events.

### AuditLog

`log` is the rows of the four tables with their times, `pager` one reader from the
first page to the last: `Open`, one `Fetch` per table (each sees what is stored at
that moment), `Show` (merge, sort, cut), `Follow`. `Record` commits a row of any
time, because a record's time is taken when its command begins. `Older` is the
comparison SQLite makes: of text, where a discovery run's `CURRENT_TIMESTAMP` has no
fraction and is therefore less than the same instant written with one. Rows of
equal time come in any order.

### ScanHistory

`run` holds the rows of scans, `observed` every observation ever committed, `pruned` how many of
them, the oldest, retention has deleted, and `address` where each device answered last.
The order of `observed` stands for `observed_at`: the observations of a run carry one time
and are committed together, so retention takes whole runs from the front (the guard of
`PruneObservations`). `StoreObservations` admits that several addresses answer with one
device's MAC. `Timeline(d)` is the loop of `scan_events()` over the last `SourceLimit`
observations of the device, a recursive function from observations to the loop's variables;
`Told` is one turn, and `Titles` the event it adds, if any. `compared` is a request
for a comparison, whose four queries (`CompareLatest`/`ComparePrevious` or
`CompareChosen`, `CompareLoad`, two `CompareRows`) race scans and retention, and
`Report` is what `compare_runs()` makes of what it loaded. `StartRun` keeps the runs
above `MaxCompared` for the time when nothing else is running and no comparison is
open, and they are not compared or finished: they are there to lengthen timelines.

Left out: names, vendors, MACs as a difference between sightings, the other sources of a
timeline (diagnostics, actions, changes: one entry per row), its cut at 200 events, the
coverage counts, device removals.

## 3. The runs

| Run | Bounds | What it shows |
|---|---|---|
| `engine` | two scans over one discovery permit, one other command over one permit | `PermitsConserved`, `ProgramsBounded`, `ResultIsComplete`, `AcceptedCallReturns`, and `GateSpec`: the engine implements `AdmissionGate` |
| `discovery` | three runs, one slot, two restarts, every fault | `VerdictMatchesFindings`, `InterruptedRunsAreOver`, `ClosedRunsStayClosed`, `EveryRunCloses`, and `LedgerSpec`: the service implements `RunLedger` |
| `inventory` | two scans over a network and a part of it, one ping, one removal; three ids, two addresses, two MACs | `IdentityIsUnique`, `NeverPresentAndAbsent`, `RowsKeepTheirMac`, `ScanAccountsForRange`, `RemovalSticks` |
| `executions` | two executions, two edits, two ids, two definitions ever created, one restart, every fault | `RecordTellsWhatRan`, `LinksResolve`, `HistorySurvives`, `EventsAreTrue`, and `JournalSpec`: the trail implements `ExecutionJournal` |
| `hostkeys` | three reviews, two revocations, one action; two keys of one type and one of another, two row ids, one change of the device's keys | `KeysWereReviewed`, `CommandsReachReviewedHosts`, `KeysStayTrusted`, and `LedgerSpec`: trust implements `TrustLedger` |
| `accounts` | two requests of any kind, one browser, two addresses, a throttle that keeps one and refuses after one failure, threshold two, at most three failures in a row, a window, a lock and two lifetimes of one tick each, three instants, two sessions | `BurstIsBounded`, `SessionsExpire`, `LocksHold` |
| `changes` | three requests of any kind, two settings of two values, two devices of two fields of which one is summarised, two credential names, two ids of each table | `SavesAreWhole`, `SavesAreRecorded`, `EditLogIsTrue`, `AssignmentsLeaveATrace` |
| `audit` | four records of any kind and time, three times of which the outer two are whole seconds, pages of two | `OnlyRunsRepeat`, `WalkIsComplete` |
| `history` | two devices on two addresses, one port, three runs of which two overlap and are compared, timelines of three observations | `TimelineIsTrue`, `ComparisonIsTrue` |
| `discovery_stranded` | two runs, failing flushes, no restart | finding 1 |
| `executions_deleted` | one execution, one edit, one id, no fault, no restart | finding 2 |
| `inventory_ping` | two scans, one ping; two ids, two addresses, one MAC | finding 3 |

Why the bounds are enough. A permit is contended as soon as there is one call
more than permits, and the two pools do not interact, so two scans, one permit
and one other call give every case of the engine. Three discovery runs let one
hold the slot, one be refused and one write at a time; a second restart lets
the clean-up meet rows that the first one closed. Three ids let a device be duplicated if the code
allowed it while two hosts exist, two MACs and the absence of one let an address
be handed on, and nested networks let one scan sweep what the other does not.
Two executions and two edits over two ids let an id be used again while a stale
toggle, a stale deletion and a late record still refer to its former owner. Three
reviews and a revocation are the least that update a row of another type through a
reused id; two revocations race each other; one change of keys separates
any two readings of the device, since the initial keys are arbitrary.
Two logins are the least that load one row or pass the throttle's check together,
and a limit of one failure makes the second matter; a third failure is the least whose lock would be longer than the second's, so the clamp matters;
with locks and lifetimes of one tick, three instants have a lock or a session alive, expiring and
expired, and a lock written late end before the one it replaces. No login and no
password change begins once the bounded number of sessions has been opened. Three requests
are a writer, one that overtakes it and one that reuses what the second left free; two
settings let two forms mix. Four records on pages of two make a second page and a third, one
record behind the cursor and one tie, with runs that do and do not end a second. Three
observations hold a sighting, a silence and a return, and a limit of three lets the oldest
go; two runs are all that a comparison reads.
Every invariant, every action property and every refinement the passing runs check is
proved for every value of the constants as well (section 5); so are the type invariants.

Deadlock is not checked: calls, runs, pings, removals, executions, edits, reviews and
changes are one-shot in the models, and clocks, records and ids are bounded, so
every behaviour may end. What must not end too early is stated as liveness instead.

Symmetry is used only in runs without liveness properties, over values that the modules
never tell apart: MACs, devices, requests, records, addresses of logins and names;
not over settings' values, one of which is the default, nor a device's fields, one of which is summarised, nor over scanned addresses, which a scan
lists in order.

**Fairness.** `ExecutionEngine!Fairness`: asyncio resumes an accepted
coroutine and fires an armed timer. Nothing is assumed of the processes, so
`AcceptedCallReturns` holds even if none ever reacts to a signal.
`DiscoveryRuns!Fairness`: the loop resumes a task that can go on (the engine
bounds the scan itself, which the previous property shows), and a stopped
container is started again, as its restart policy says. No fairness is assumed
of requests, faults or crashes.

**Mutants.** For every property of a passing run the modules hold a mutant
of one definition of the model, marked `Mutant:`, which stands for a plausible
bug (a release skipped on an error path, a sweep with `<=` for `<`, a
match that ignores removed rows, the loaded row written back whole, a handler
removed, a second worker, a page query without the extra row, a status taken for results). The property is violated when the mutant takes the
place of the definition, so each of them depends on the code being as it is.

## 4. Findings

1. `discovery_stranded`: when a flush fails inside `execute_run()`, the handler
   writes through the same session without rolling it back; its own commit raises
   and the run stays on "running" until the next restart
   (`discovery/routes.py:77`).
2. `executions_deleted`: a definition deleted while its action runs makes the
   insert of the record violate its foreign key; the command ran, and no record says so
   (`actions/service.py:288`), against "cannot erase the record that it ran"
   (`models/action.py:91-92`).
3. `inventory_ping`: of a device that was online when its ping began, an answer writes no status,
   so a scan that marks it offline meanwhile wins over the answer
   (`diagnostics/service.py:285`), against "online whatever the last scan concluded" (`:269-270`).

The models also admit these; the passing properties are worded around them, and no run
is spent on each:

* A timeout that fires when the child has been reaped, while a helper still holds the
  output pipes, signals nobody (`core/execution.py:267`), against "the whole process group
  is killed" (`:10`).
* A crash between the two commits of a successful scan leaves it closed with "No results were
  recorded" (`discovery/service.py:186`), although all were (`:304`).
* Two hosts of one scan that report the same MAC give one device two present observations
  in one run (`discovery/service.py:279`), against "one observation per device in range"
  (`discovery/routes.py:69`); the timeline and the comparison stay true of them.
* A second removal that loaded an already removed row, and commits after a scan listed the device
  again, records `device_removed` and leaves the device listed (`devices/routes.py:251`), against
  "no window in which one exists without the other" (`history/changes.py:9-11`).
* A save that submits what it loaded first, over another save in between, changes a
  setting without an event, against "there is no window in which one exists without the other"
  (`history/changes.py:9-11`), and the stored settings can mix two forms, each saved "as one unit"
  (`settings/service.py:121`). `SavesAreRecorded` and
  `SavesAreWhole` name the window.
* An edit's event is computed from what it loaded: after another edit of the same field it tells of a
  value that was no longer there, or of a change that was none (`devices/routes.py:219`). `EditLogIsTrue`
  names the window (`newFields`).
* An assignment made while its credential is being deleted goes without an event of its own, and
  a stale unassignment or deletion may meet another row under its id (`credentials/routes.py:115`).
* A password change ends no session that was opened before it (`auth/routes.py:149`), nor a log-out
  a cookie that an overtaken answer brings back. Concurrent failures count once
  (`auth/service.py:88`), and a failure that loaded the account before a lock can write its own over it, which
  may end earlier (`:90`); a rehash racing a password change writes an old password's hash back
  (`:105`); `reset-password` writes only what its copy did not hold (`cli.py:88`), so a failure that commits
  in between keeps its lock.
* The audit pager shows a discovery run that ends a page again on the next, and skips
  records that share the last one's time (`audit/routes.py:149`, `:165`), against `:9-12`.
* With more than 100 observations the oldest visible sighting reads "First recorded"
  (`history/service.py:338`), against "the first scan that saw it" (`docs/DEVICE_HISTORY.md:26`). A port that
  changed across a scan without ports is never told, because a sighting is compared with the one
  before it. A run whose observations retention deleted reads "found no hosts" (`:447`).

## 5. What is proved

TLAPS checks the following for every value of the constants that satisfies the
`ASSUME` of each module (finite sets of calls or runs, pools of at least one
permit, null values outside their sets).

* `ExecutionEngineProofs`: `TypeCorrect`, `PermitsAlwaysReturned`,
  `ResultsComplete`, `ProgramsAreBounded`, `EngineImplementsGate`. The inductive invariant is
  `TypeOK /\ PermitsConserved /\ CallHistory`. `PermitsConserved` counts, so
  each step is first classified as one that keeps, takes or gives back a permit
  (`Keeps`, `Takes`, `Gives`), and only then is the cardinality argument made.
  `CallHistory` ties the place of a call to its processes and signals: it is what
  shows that a live program nobody killed still holds its permit, hence
  `ProgramsBounded`. The refinement rests on the same invariant: the free permits tell
  whether the gate has room (`GateRoom`), and every way out but the shutdown's leaves the
  call's child dead or killed (`GateLeaves`), which is why `CallHistory` also says that no call is
  before its last wait once SIGKILL was sent.
* `DiscoveryRunsProofs`: `TypeCorrect`, `VerdictsMatchFindings`,
  `InterruptedMeansOver`, `ClosedStaysClosed`, `ServiceImplementsLedger`.
  The invariant says what a living task implies about its row (`AliveInv`), what a
  row and a task imply about the findings (`RowInv`), which task holds the lock
  (`LockInv`) and that nothing lives while the process is down (`DownInv`).
  `VerdictMatchesFindings` alone is not inductive: `Finish` writes the
  verdict decided steps earlier, so the invariant must say what that verdict already
  promises about `stored`. The refinement has one case per action: a step
  of the ledger or a stutter.
* `InventoryProofs`: `TypeCorrect`, `HostsHaveOneRow`, `ObservationsAgree`,
  `MacsAreKept`, `RemovedStaysRemoved`, `ScansAccountForTheirRange`. Identity is carried by the committed table and by the
  draft; the draft is an extension of the table that no other writer changes
  (`WriterInv`, `DraftExtends`); every pending observation names a device of
  the draft seen since the scan began (`PendingInv`), which is why the sweep cannot
  contradict it. A scan turns successful only by its own sweep (`SuccessIsSwept`): then what it saw has its
  draft, online, and what else the range holds was swept or is younger than the scan.
* `ExecutionsProofs`: `TypeCorrect`, `RecordsTellTheTruth`,
  `LinksAlwaysResolve`, `HistoryIsKept`, `EventsTellTheTruth`, `TrailImplementsJournal`. The invariant adds what
  a request's phase says of `ran` and of the status it decided, since `Record`
  writes what was decided steps earlier, and that a request which has not
  recorded yet has no entry, which makes an entry written once.
  A deletion clears the references in the very step that removes their target, and a
  record is only taken while its definition exists: these two carry `LinksResolve`.
  The refinement needs besides that whatever is old enough for retention is on record
  (`OldIsRecorded`): otherwise `Prune` could make an entry of nothing.
* `HostKeysProofs`: `TypeCorrect`, `TrustIsReviewed`, `CommandsAreSafe`, `TrustIsKept`,
  `TrustImplementsLedger`, assuming only null values outside their sets and a type for each key. A review that
  is past the comparison carries the key the device confirmed (`ReviewInv`); an
  action that connects checks a key that was accepted (`ActionInv`), although its row
  may be gone by then. The proof first says what each actor may change
  (`ReviewChanges`, `RevokeChanges`, `ActionChanges`), then uses that what was
  accepted stays accepted (`AcceptedGrows`). For the refinement, `RowWritten` shows that writing
  one row takes at most one key from the set on record, though two rows may hold the same one.
* `AccountsProofs`: `TypeCorrect`, `BurstsAreBounded`, `SessionsDoExpire`, `LocksDoHold`.
  `BurstIsBounded` is not inductive: a login past the check will charge its address
  later, so `BurstInv` counts the logins in flight from an address with its failures.
  `RequestInv` and `CookieInv` say that every copy of a session, in a browser or in a
  request, carries the session's opening time and a last use no later than the
  server's (`Fits`), hence a stale cookie can only end a session earlier; and that a failure that will
  write a lock has reached the threshold itself. For the lock, `LockInv` (`LocksInductive`) says that a request
  which is not `ahead` of the lock on record loaded that very lock, unless it was cleared, and that
  a request past the check loaded no lock in force: so whoever writes while a lock is in force was ahead of it.
* `OperatorChangesProofs`: `TypeCorrect`, `SavesStoreTheForm`, `SavesLeaveAnEvent`,
  `TheEditLogIsTrue`, `EndedAssignmentsAreNamed`. `RequestInv` ties what each
  request read to what is stored now, or to the history of what others changed since
  (`SaveSound`, `EditSound`, `GrantSound`): a setting not in `newKeys` and a field not in `newFields`
  still have the value read, and an assignment not in `newRows` is among the holders found. An event about
  a field comes only from the commit of an edit (`OwnCommit`, `OnlyEditsSpeak`).
* `HistoryProofs`, the audit log: `TypeCorrect`, `RowsAreNotRepeated`, `WalksAreComplete`. What was shown
  is no older than the cursor, what is fetched is (`CursorInv`); a promised row not yet shown lies
  beyond the cursor (`OwedInv`); and a promised row of a table already queried is either fetched
  or outnumbered by a whole page and one more rows that are no older (`QueriedInv`), which is what makes
  the cut safe.
* `HistoryProofs`, scans: `HistoryInvariant`, `HistoryTypeCorrect`, `ComparisonsAreTrue`,
  `TimelinesAreTrue`. `ObservedInv` says that a run with observations has settled whether it looked at ports,
  and that each sighting agrees, `StockInv` that retention left no run halved,
  and `LoadedInv` that a comparison loaded all of a run's observations or none: a run records once and retention
  takes whole runs. So a report of two runs with results tells what both found, even if neither is stored any
  more. The timeline is a loop over observations, and what holds after each turn is an induction
  over them. The library's induction rules are out of the provers' reach, so both the
  function's equations and the loop's summary (`TimelineState`) are shown by the first turn at
  which they would fail: `LeastNumber`, proved without them from well-foundedness of the numbers. From
  the summary, `SpellsAreTold` and `ChangesAreTold` are the two halves of `TimelineIsTrue`.

* The abstract specifications say enough by themselves. `GateBoundsPrograms`,
  `LedgerMatchesFindings`, `JournalIsTrue` and `LedgerIsTrustworthy` derive the safety invariants of each
  component (`ProgramsBounded`; `VerdictMatchesFindings`; `RecordTellsWhatRan` and `LinksResolve`;
  `KeysWereReviewed` and `CommandsReachReviewedHosts`) from its abstract specification alone, without
  the component's `Spec` or invariant: whatever replaces the code and still refines the
  abstract module keeps them.

Only model-checked: the two liveness properties, `AcceptedCallReturns` and `EveryRunCloses` (fairness
and `ENABLED` are outside the prover's reach), and the three violations of section 4.

## 6. What is not modelled

Text: parsers, explanations, validation, redaction and encryption are pure functions
that unit tests reach well, and so is the schema of action templates. Rendering and routing
change no state. Back-up, the health check and key generation are sequential.
Connection pooling and pragmas are taken from how the code uses them. Within the modelled parts,
what each module leaves out is listed with it in section 2: mostly names, vendors, labels, averages and
secrets, which no modelled branch depends on.

## 7. What could come next

* `HostKeys` for several devices and with its change events.
* A composition of `Inventory` and `DiscoveryRuns` that maps `stored` to the observations of a run.
* Abstract specifications of the accounts (what a session and a lock promise) and of the settings.
