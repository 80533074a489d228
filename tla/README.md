# MCP Asset Gateway: specifications and proofs

The gateway stands between MCP clients and the assets of an organisation (databases,
hosts, clusters, Jenkins, Git repositories, other MCP servers). Every tool call passes
the same path: authenticate the client, compute its live grants, audit the start,
execute through an adapter, audit the end. This directory holds TLA+ models of that
program, TLC runs on small instances, and TLAPS proofs for all instances.

## 1. Inventory

One process, started by `app/main.py` (HTTP) or `app/stdio_server.py` (stdio), owns the
data directory (`Store.acquire` holds a file lock). Inside it:

| Component | State | Operations | Interacts with |
|---|---|---|---|
| Execution core, `core/gateway.py`, `asset_types/base.py` | three layers of semaphores, `db_slots`, `audit_failed`, `active_requests`, `contexts`, worker threads, the `audit_log` row of each request | `call`, `account_operation`, `refresh`, `test`, `db`, `maintenance` | adapters, store, grants |
| Authorization data, `core/manager.py`, `Gateway.entries` | tables `assets`, `accounts`, `clients`, `grants` with revisions, tool and code versions, catalogs | `save`, `delete`, `rotate`, `entries`, `ensure_catalogs` | execution core (inside `prepare`), plugin lifecycle |
| Sessions and settings, `core/manager.py` | `admin_users`, `admin_sessions`, `settings` | `login`, `session`, `logout`, `change_password`, `update_settings` | every administrative endpoint |
| Store, `core/db.py` | SQLite in WAL mode, one `BEGIN IMMEDIATE` writer | `connect`, `migrate`, `backup` | all of the above, through four database threads |
| Plugin lifecycle, `plugins/service.py`, `core/registry.py` | tables `plugins`, `plugin_versions`, `plugin_jobs`; the type registry; the pools | `install`, `enable`, `disable`, `switch`, `uninstall` | registry, worker pools, grants (code versions) |
| Worker processes, `plugins/process.py`, `plugins/worker.py` | one pipe and lock per process, the pool's list, the error window | `call`, `request`, `drain`, `stop`, `kill` | lifecycle, execution core |
| Installation and market, `plugins/installer.py`, `plugins/market.py`, `plugins/manifest.py` | unpack directory, version directory, cached index | `run`, `index`, `download` | lifecycle |
| Git mirror, `asset_types/gitrepo.py` | clone directory, `state.json`, sync threads, retry time | `ensure_repo`, `sync`, the read tools | execution core (blocking runner) |
| Kubernetes, Jenkins, Redis, MySQL adapters, `asset_types/*.py` | the connection of one call, a signed log cursor held by the client | `execute`, `health` with many tools | execution core, servers that others use too |
| SSH, SFTP, MCP proxy adapters, `asset_types/*.py` | connections of one call | `execute`, `health`, `discover` | execution core |
| Pure rules, `core/tool_rules.py`, `RateLimit` in `core/security.py` | a window of time stamps per key | `enforce_rules`, `check` | `prepare`, `call` |
| Front ends, CLI, scripts, web console | none of their own | routing, framing, packaging | the components above |

`PROJECT.json` lists the same components with their status, and under `hazards` the
lines at which the code can go wrong in ways that a test would hardly reach.

What is hard, and what must hold:

- **Execution core.** A coroutine per request, four database threads whose jobs are
  shielded from cancellation, sixteen worker threads that outlive their callers, a
  maintenance timer, a process that may die. Execution must be audited before it
  happens; answers must agree with the trail; permits must be returned exactly once;
  every request must end.
- **Authorization data.** Administrators change accounts, grants and tokens while calls
  are in flight and while catalogs are discovered. A call must be checked against the
  state of the transaction that audits it; a catalog of an old configuration must not
  be stored over a new one; a grant confirmed for one version must not cover another.
- **Sessions and settings.** A password change or an expiry must win against a login or
  a request in flight; a lost update of a setting must be refused.
- **Plugin lifecycle.** Database, registry and pools change in separate steps without a
  lock around them. Whatever fails or interleaves, a plugin that serves calls must be
  the version the database names, and calls in flight must drain.
- **Worker processes.** Replies are matched to requests over one pipe; a timeout or a
  cancellation must not hand the reply of one call to another.
- **Installation.** Files are moved before rows are inserted; a crash between must leave
  a state from which the installation can be repeated.
- **Git mirror.** Threads clone and reset a work tree that tools read; nothing locks it. A
  tool must read one whole commit of the remote its asset names, and in the end the newest.
- **Adapters.** Each call talks to a server that others change meanwhile, over a connection
  that may break or be cut anywhere. An error must not deny what was done, an exit status
  must be the command's, a cut result must say that it is cut, and a client that pages
  through a growing log must not miss a line.

## 2. Plan

| Order | Module | Models | Composes | Status |
|---|---|---|---|---|
| 1 | `ToolCall` (+ `ToolCall_proofs`, `MCToolCall`) | execution core | store jobs, runner, maintenance | done |
| 2 | `Grants` (+ `Grants_proofs`, `MCGrants`) | save, delete, rotate, entries, refresh, artifact change | an abstract call (prepare as one transaction) | done |
| 3 | `WorkerPool` (+ `WorkerPool_proofs`, `MCWorkerPool`) | one pipe per worker, start, handshake, timeouts, cancellation, respawn, drain, stop | `process.py` with `worker.py` | done, section 5 |
| 4 | `PluginLifecycle` (+ `PluginLifecycle_proofs`, `MCPluginLifecycle`) | enable, disable, switch, uninstall with crashes | registry, pools, `Grants`' code versions | done, section 6 |
| 5 | `AuditTrail` (proofs in `ToolCall_proofs`) | what the trail promises, abstractly | implemented by `ToolCall` | done, section 3 |
| 6 | `Installer` (+ `Installer_proofs`) | an installation job step by step, uninstallation, crashes | its end is `_record_installed` of `PluginLifecycle` | done, section 7 |
| 7 | `GitMirror` (+ `GitMirror_proofs`) | clone and refresh threads, retry, readers, a changed address | runs in `ToolCall`'s worker threads | done, section 8 |
| 8 | `Sessions` (+ `Sessions_proofs`) | login, session, logout, change_password, cleanup | none | done, section 9 |
| 9 | `JenkinsLog`, `JenkinsCall`, `JobSearch`, `PodExec`, `Manifest`, `KeyScan`, `SqlCall` | one call, or one series of calls, of an adapter with its server | each is an `execute` of `ToolCall` | done, section 10 |
| | `MCParts` (+ `MCParts_proofs`) | instantiates rows 6 to 9 | one state space, section 11 | done |

Every safety property that a run checks and finds true has a theorem. Left of the plan: the
trail of account operations, of which nothing is promised that `AuditTrail` could state. A
module for the pure rules (`enforce_rules`, `RateLimit`) was planned and dropped, see
section 12.

No module of the project declares a RECURSIVE operator.

## 3. The execution core: `ToolCall`

### State

| Variable | Code |
|---|---|
| `audit[r]` | `status` of the `audit_log` row of request `r`; the row's key is unique |
| `pc[r]` | the await at which the coroutine of `r` stands |
| `db[r]` | its wait in `Gateway.db`: for a permit, for the job, or the result it has not yet seen |
| `begun[r]` | `started_audit` of `call`, `begun` of `account_operation` |
| `out[r]`, `reply[r]` | the status to record and the answer of the caller |
| `worker[r]` | `ctx.worker_future` |
| `slots`, `clientSlots`, `runnerSlots` | the counters of `Gateway.slots`, `client_slots`, `BlockingRunner.slots` |
| `jobs` | database jobs in the executor (`Gateway.db_slots` bounds them) |
| `auditFailed` | `Gateway.audit_failed`, the latch |
| `maint`, `snap` | the maintenance coroutine and the set it handed to `maintain_db` |
| `ran`, `restarts` | history: the adapter was entered; number of crashes |

### Actions

`Enter`, `AdmissionFails`, `AcquireLocal`, `AcquireGlobal`, `AcquireTimeout`, `Prepared`,
`NotPrepared`, `ContextFails`, `StartAsync`, `StartThread`, `Executed`, `Deadline`,
`Recorded`, `NotRecorded` are the stretches of `Gateway.call` and
`Gateway.account_operation` between two awaits; the event loop runs such a stretch without
interruption. `Cancel` throws `CancelledError` into any of these awaits and may do so
repeatedly. `Submit`, `RunInsert`, `RunUpdate`, `JobFails` are `Gateway.db` and the
transactions it runs: a job outlives the coroutine that was cancelled while awaiting it,
and its result is then dropped. `ThreadEnds` is the end of a worker thread with the
callbacks attached to it. `MaintenanceTick`, `MaintenanceRuns`, `LatchCleared` are the
maintenance timer, the transaction of `maintain_db` and the assignment after it.
`StorageError` is `handle_storage` of the HTTP front end, `Restart` a crash followed by
`Store.migrate`.

`Conclude` is the end of the first `try` of `call` (release of the permits, then the record
of the end) and the end of the `try` of `account_operation` (record while still holding the
permit, release in `finally`).

### Abstractions

- A database transaction is one step: SQLite has one writer (`BEGIN IMMEDIATE`), and a
  failed transaction is rolled back. Which of the four threads runs a job first is open.
- Grants, schemas and parameter rules are one choice in `RunInsert`: accepted or refused.
- The time limits of two seconds on permits and the deadline are actions that may happen
  whenever the awaited thing has not (`AcquireTimeout`, `Deadline`); semaphores grant in any
  order, which includes the first-come order of asyncio.
- The refresh that `ensure_catalogs` runs inside a call is an account operation of its own;
  the reads before the audit row (`account_snapshot`, the target query) are the one step
  `AdmissionFails` or its absence, they take no part in the count of database permits.
- Retention deletes only closed rows of days ago and the `audit.recovered` row is not a
  request's; both are left out. `start` and `stop` are not modelled, a crash is.
- A request is used once, its id being a fresh UUID.

### Runs

| Run | Instance | Shows |
|---|---|---|
| `calls` | two calls of one client with one client permit, two global and runner permits, two database permits, one crash | all safety properties of calls |
| `call_and_operation` | one call and one account operation that compete for one global permit, two database permits, no crash, fairness | permits across both kinds of request, liveness |
| `stale_recovery` | one call | the recovery of `maintain_db` works on a stale set (a finding) |

Two requests are the smallest number that compete for a permit and for the order of jobs;
with a permit less than requests every wait, time-out and hand-over occurs. Two database
permits are reached by a cancelled call alone (its late `prepare` and its `denied`), so
`DB_BUSY` occurs. One crash is enough since a crash resets everything but the rows. The
theorems cover what the bounds leave open.

### Properties

- `AuditBeforeExecution`: an adapter is entered only for a committed started row, which
  never turns into a denial although abandoned jobs still run.
- `NotExecutedIsTrue`: BUSY, AUDIT_UNAVAILABLE and denials mean that nothing was executed.
- `AnswerIsAudited`: the row of an answered call says what the caller was told.
- `EndedCallAccounted`: a call that ends leaves a closed row, a job that will close it or the
  latch. It names the one hole: a cancellation that meets the recording itself while it
  waits for a permit of `db_slots`, or between its failure and the coroutine's turn.
- `ImplementsTrail`: every behaviour is one of `AuditTrail`, under the mapping below.
- `CapacityConserved`: each semaphore plus the requests and threads that occupy it is
  constant.
- `RunnerNeverRefuses`: the BUSY branch of `BlockingRunner.run` is dead, because its sixteen
  permits are not fewer than the sixteen of `Gateway.slots` and a thread keeps both kinds.
- `RequestEnds`, `PermitsReturn`: liveness.
- `RecoveryIsExact` (violated): see the finding in `PROJECT.json`.

### The abstract specification: `AuditTrail`

`AuditTrail` knows of a call only its row, whether its asset was reached (`ran`) and what
its caller was told. `Start`, `Deny`, `Execute`, `End`, `Recover`, `Tell` and `Crash` are what
may happen to these: execution needs an open or orphaned row, a denial is final, an outcome
is recorded once and is `ok` only of a call that ran, an answer has to agree with the row and
with `ran` at the moment it is given, and after it nothing is executed any more. There are
no coroutines, jobs, permits or latches in it.

`ToolCall` instantiates it for its calls with `row` = `audit` of the calls, `ran`, and `told`
derived from `pc` and `reply` (`Told`). Two things make the refinement more than a table of
names. A cancelled call leaves its insert in the executor, so that `Start` may come after
`Tell`: the abstract row then waits for the recovery. And a call that the recovery took for
an orphan may still record its own end (`End` from `interrupted`).

### Fairness

`LoopFairness` is weak fairness of each coroutine's next stretch and of the database jobs of
each request: the event loop is a fair queue of ready callbacks, every wait has a timer, and
SQLite waits at most five seconds for its lock. Cancellation, crashes, storage errors and
new requests carry no fairness. `ThreadFairness` (worker threads end) is not part of the
specification: `RequestEnds` holds without it, which is the point of the deadline;
`PermitsReturn` names it as its premise, because a thread that never ends keeps its permits.

### Proofs

`ToolCall_proofs` proves for every finite set of requests and every number of permits
(assumptions `RequestsAssumption`, `SlotsAssumption`, `RunnerAssumption` of `ToolCall`):

- `TypeCorrect`: `Spec => []TypeOK`.
- `ExecutionIsAudited` and `RefusalIsTrue` from the inductive invariant `StartInv`.
  `AuditBeforeExecution` is not inductive: it needs that `begun` is set only after the
  coroutine has seen the commit, and that every job still in the executor is an update to a
  final status or an insert, since those may run long after their coroutine is gone.
- `CapacityIsConserved` and `RunnerAlwaysFree` from `PermitInv`, the conservation law joined
  with where a running thread leaves its coroutine (`WorkerInv`). `OneRequestMoves` reduces a
  step to the one request that moves; `ReleasePermits` covers the hand-over to the thread.
- `TrailImplemented`: `Spec => ImplementsTrail`.
- `AnswersAudited` (`AnswerIsAudited`) and `EndsAccounted` (`EndedCallAccounted`).

`TrailImplemented` says that every step of `ToolCall` is a step of `AuditTrail` or leaves its
three variables alone. The mapping alone does not do it: that an update in the executor may
still be applied (`End`) needs to know what it will write and that nothing else closed the row,
that an answer agrees with the row needs to know how the coroutine came to the point where it
answers. `TrailInv` says this for each call in five parts: an update in the executor writes what
the call concluded with (`QueuedEnding`), a closed row holds that (`RowEnd`), only what ran can
succeed (`SuccessRan`), the answer to come fits the status being recorded (`AnswerFits`), and
the row is as the coroutine was told that it is (`RecordedEnd`). Each part speaks of one call,
so that a step of another call keeps it by `Same`.

`AnswerIsAudited` follows from the same invariant: the row of an answered call is closed and
nothing is left in the executor that could write it once more. `EndedCallAccounted` is about
the step in which a call ends, and holds of each action that ends one: whoever ends without
its row closed leaves a job with the final status behind or has set the latch, except for the
cancellation that the property names.

`RequestEnds` and `PermitsReturn` are model-checked only: fairness and ENABLED are outside
the prover.

## 4. The authorization data: `Grants`

### State

| Variable | Code |
|---|---|
| `asset`, `account`, `client` | the rows of these tables; a deleted row keeps its contents with `live = FALSE` |
| `grant` | the rows of `grants` with their members (`grant_clients`, `grant_accounts`), `tool_versions_json` and `code_versions_json` |
| `reserved` | the setting `reserved_ids` |
| `artifact` | `artifact_hash` of the type in the registry, `None` for its placeholder |
| `refresh[a]` | a `Gateway.refresh` under way: the snapshot it took and what it discovered; `refresh_locks` allows one per account |
| `call[k]` | a tool call between authentication, `prepare` and dispatch, with the token and configuration it saw |
| `edits` | number of administrators' transactions (bound `MaxEdits`) |
| `source`, `confirmed`, `confirmedCode` | history: the configuration the stored catalog came from; what administrators submitted |

### Actions

`CreateAsset` ... `DeleteGrant` are the accepted requests of `Manager.save`, `delete` and
`rotate`, each one write transaction, cascades included. A request that carries another
revision than its row's is refused and changes nothing; since it is an accepted request for
the row it read, refused requests are not steps of the model. What makes that comparison
sufficient, that a revision never names two contents, is a property
(`RevisionNamesContent`) and not an assumption. `SaveGrant` takes what the administrator
submitted as two flags: given versions have to equal the current ones, missing ones stand
for those of the row (`VersionsRetained`, `CodeRetained`). `ReviseGrant` is the save that
only renames or disables, which keeps members and versions.

`account_snapshot`, `begin`, `discover`, `SaveCatalog` are the three transactions of a
refresh and the upstream request between them; `RefreshFails` ends it anywhere, by an error,
a cancellation or a crash. `authenticate`, `prepare`, `denied`, `execute` are the
transactions of a call and the dispatch that follows. `SwitchPlugin` is what
`PluginService` does to the registry. `AgeCatalog` and `Expire` are the passage of time.

### Abstractions

- The accounts are of a plugin type with a dynamic catalog, to which both bindings of a
  group apply. A built-in proxied type is the case in which the artifact never changes, a
  static plugin the case in which the catalog never does.
- A catalog holds one tool or none, and an account that is a member of a group has that tool
  in its entry. Versions of tools are compared one by one in the code.
- A connection, a credential with its configuration, a tool definition and an artifact are
  model values: the code only compares them.
- The uuid of a group is new. Names, notes, policies and parameter rules are left out.
- Time is not counted: a catalog is fresh or not, a token expired or not.

### Runs

| Run | Instance | Shows |
|---|---|---|
| `grants` | one asset, account, client, group and call, two values of everything, three edits | what is let through was confirmed; a withdrawn token stays out |
| `grants_from_scratch` | an empty database, two accounts of one asset, two connections, five edits, no calls | refreshes, references and revisions |
| `code_switch_race` | as `grants`, with one edit | the dispatch reads the registry again (a finding) |

Three edits are what a stale approval takes: confirm a group, change the configuration
behind it, confirm again or restore. Five edits are what a recreated row takes: create the
asset and the account, delete one, try to create it again, save; or create asset, two
accounts and a group over both, then lead the asset to another server. Values are
interchangeable in `grants` (`Symmetry`, no liveness is checked there). The theorems below
lift every bound, `MaxEdits` included.

### Properties

- `CallsConfirmed`: a call is let through only for a definition that an administrator
  submitted for that group and account under the connection and credential in force, and an
  artifact submitted for the same group.
- `RevocationWins`: a call that was authenticated with a token which is rotated, or whose
  client is deleted, before its admission is never let through, whatever becomes of the
  client then: saved, enabled, given a new expiry, rotated once more, created again under the
  same identity. Disabling and expiry are not final in this sense: a call that is admitted
  after the client was enabled again is let through, as in the code.
- `CatalogIsCurrent`: a slow discovery never stores the catalog of an older configuration.
- `ReferencesLive`: members and assets exist, so `entries` never fails for want of a row.
- `RevisionNamesContent`: equal revisions of an identity are equal contents, also across
  deletion (`reserved_ids`) and cascades (`revision=revision+1`).
- `ExecutedCodeConfirmed` (violated): the artifact that executes a call was confirmed. The
  comparison is made in `prepare`, in a database thread; `Gateway.call` reads the registry
  again when it resumes. See the finding in `PROJECT.json`.

None of these is about liveness: every action is a request or an event that need not come.

### Proofs

`Grants_proofs` proves all five properties and `TypeOK` for every set of rows, values and
every number of edits, from `ObjectsAssumption` and `ValuesAssumption`:

- `MembersExist` is inductive with `TypeOK`.
- `CatalogsAreCurrent` needs `RefreshInv`: a refresh under way holds revisions that existed
  and, if they are still the current ones, the current configuration (`SnapshotsMatch`).
  This in turn needs that a row that comes to exist was never there before
  (`DeletedReserved`): without reserved ids the revisions of a deleted and recreated account
  would match an old refresh.
- `OnlyConfirmedCalls` needs `VersionsConfirmed`: every version a group holds was submitted
  under the configuration its member has now. The cascades keep it, as `RevisionNamesContent`
  is kept by `CascadeRises`, which counts the members of the group.
- `WithdrawalIsFinal` and `RevisionsNameContents` are action properties. The first needs that
  the tokens of an identity only grow, across deletion and creation, and that a call never
  holds a later one than was given out (`TokensPast`); the second uses `DeletedReserved` and
  `DeletedClients`.

## 5. The worker processes: `WorkerPool`

### State

| Variable | Code |
|---|---|
| `workers`, `closed` | `PluginProcessPool.workers`, `.closed` |
| `phase`, `rest` | where the owner of the pool stands in `start`, `drain`, `stop`, and the workers the loop of `stop` has left |
| `lock[w]` | `WorkerProcess.lock`: its holder and the waiters in their order |
| `proc[w]` | the current process of the worker: whether it lives, the lines in its two pipes, the call it executes, `guard` of `worker.py` |
| `call[c]` | a call: its await, its worker, its outcome, the id of the answer it was given |
| `ran`, `crashes` | history; bound |

A process that has exited is `dead` until asyncio has its return code and `down` after: in
between `alive` still holds, so that `_pick` can choose it. `SIGKILL` makes a process
`dead`; `kill` then waits for `down`, five seconds at most.

### Actions

`Request` is `request` up to its first await: prune, pick or create, and take the lock or
join its queue, in one step of the event loop. `Acquire` is the wake-up of the first waiter,
which comes later than the release. `Started`, `StartFails`, `Read`, `Disconnected`,
`Timeout`, `KillEnds` are what the awaits of `WorkerProcess.call` can end with; `Cancel` ends
any of them and gives back the lock, without a kill. `Load` ... `Reap` are the process, a
plugin that may answer, hang or die. `_spawn`, `Accept`, `Reject` are `start` with its
handshake, which is a call like the others (`Hello`); `Close` ... `Stopped` are `drain` and
`stop`. `shutdown` writes its line without the lock, and `Flushed` is the end of its `drain`,
which comes at once where there is room in the pipe, and has no deadline where there is none.

### Abstractions

- A line is an id and a kind. Whether a plugin answers with a result or an error of its own
  is open; `long` stands for a line above the 64 KiB at which `readline` of an asyncio stream
  raises `ValueError`. It drops the line or what it has received of it, so that the rest may
  follow (`tail`). The branch for `MAX_LINE` is never reached.
- Whether `drain` sees no locked worker or its grace ends is open (`Drained`).
- A pipe is full while the line of a request in `Large` lies in it; the other lines fit
  together, however many there are.
- Two waits of five seconds, in `_handshake` and `shutdown`, where nothing depends on them, are
  no states.
- Statistics, recent errors and log files are left out.

### Runs

| Run | Instance | Shows |
|---|---|---|
| `worker_pool` | three requests, two workers, plugins that answer with a result or a long line, no crash but failing loads | the safety properties |
| `worker_pool_ends` | two requests, one of them with a line that fills the pipe, one worker, all answers, one crash | both liveness properties |
| `worker_handshake` | two requests, two workers | the missing handshake (a finding) |

Three requests on two workers are what it takes to queue behind a worker, to find it dead
and to read what a third one left. Requests are interchangeable (`RequestSymmetry`, in the run
without liveness). Errors and crashes of a plugin end a call as results and failing loads
do and are left to the second run, which checks a queue behind one hanging process.

### Properties

- `OwnReply`: the id check protects the caller from the answers that cancelled calls and
  overlong lines leave in the pipe.
- `FailedCallStopped`, `RunOnce`: a call reported as timed out, crashed or garbled is not
  being executed by any process, will not be, and is not repeated.
- `PoolBounded`, `StopReaps`: the bound of the pool, the end of the processes that `stop` asked
  to leave. It is not true that no process is left after `stop`: see the hazard of
  `process.py:226` in `PROJECT.json`.
- `CallEnds`: a hanging process delays its callers by deadlines only.
- `StopEnds`: every pool that is closed is stopped, under the premise that `shutdown` is not
  for ever `Stuck` before a full pipe. Its `drain` (process.py:134) is outside the
  `wait_for` of the next line: a process that does not read, with a long line of a cancelled
  call in its pipe, keeps `stop`, and with it disable and uninstall, waiting, although the
  docstring of `shutdown` says that it kills after a timeout. Without the premise the
  property is false.
- `GuardBeforeUse` (violated): plugin code runs with the outbound guard of the handshake. Only
  the first process of a pool gets the handshake.

### Fairness

The event loop runs: waiters wake, deadlines fire, kills and starts return. Nothing is
assumed of a plugin, nor that anybody cancels, crashes or closes. `Timeout` is fair because
both awaits of `call` are inside `wait_for`. Of the two awaits of `shutdown` only the second
is: `ExitTimeout` is fair and enabled after the drain (`waiting`), `Flushed` is fair and
enabled only when there is room again or the process is gone.

### Proofs

`WorkerPool_proofs` proves all six safety properties for any number of requests, workers and
crashes, from `PoolAssumption`, in four invariants that rest on each other:

- `BaseInv`, types and queues: a call waits in one queue at one place. `TypeCorrect` follows.
- `PipeInv`, what is in the pipes: the lines that can still make a process execute a call are
  unique, belong to one worker, and exist only before the call is executed (`Lines`); of a
  call that is not at its worker any more there is a trace only if it was cancelled or met an
  overlong line (`Tied`, `Lingering`); a process that was killed says nothing (`AllHushed`).
  `NotRunTwice` and `FailuresStopped` follow. That the lines are unique is what makes the
  single assignment of `doing` an execution at most once.
- `ResultInv`: what was answered was executed, and the id says by whom (`RepliesOwned`).
- `PoolInv`: a worker is in the pool once, because the request that brings it is used once
  (`PoolKeepsBound`). `StopLeavesNone` needs `BaseInv` only.

The lemmas about `Moves` reduce a step to the call and the process that it changes; those
about `Without` say what becomes of a queue when one leaves it. `CallEnds` and `StopEnds` are
liveness and model-checked only; `GuardBeforeUse` does not hold.

## 6. The plugin lifecycle: `PluginLifecycle`

### State

| Variable | Code |
|---|---|
| `plugin`, `status`, `typeRow` | the plugin's rows of `plugins`, `plugin_versions`, `asset_types` |
| `used`, `files` | the types with assets; the versions whose files are on disk |
| `kind[t]` | `TypeRegistry._kinds`: the task whose pool serves the type, a placeholder, or nothing |
| `pools`, `pool[o]` | the entry of the plugin in `PluginService.pools`; the pool that an activation made |
| `op[o]` | an operation: its await and its local variables |
| `last`, `before`, `history`, `faults`, `crashes` | history; bounds |

### Actions

An operation is a chain of actions that ends at each await: `enable` is `Begin`, then
`_activate`; `switch`, which is also the end of an upgrade job, is `Check`,
`_precheck_accounts`, `SwitchVersion`, `Resume`, then `_activate` if the plugin is enabled;
`disable` and `uninstall` are the rest. `_activate` is `Register` (the loop over the types
and the swap of the pools, between which the code does not wait), or `Refused` followed by
`Restore` and `Reinstate`, the two loops of its `except` branch, then `MarkEnabled` and
`DrainOld`. `Restart` is a crash, `reconcile_types` and the start of the recovery, which is a
task of its own, `Boot`. `DbFails` is a transaction that raises; the operation ends there, as
no caller repairs anything.

### Abstractions

- The read of a row of `asset_types` and the registration of its placeholder are one step,
  and so are the reads at the start of `_switch`, of which only the revision is used later.
- Types of other plugins appear as the refusal that they cause. Accounts appear as the types
  that have assets.
- `drain` closes its pool and waits; its inner steps are `WorkerPool`'s.
- The cancellation of an operation is not modelled apart from the crash.
- How a version comes to its directory is `Installer`. Here every version is installed from
  the start and `_record_installed` may write its row again, which sets the status
  "installed" even on a version in use.

### Runs

| Run | Instance | Shows |
|---|---|---|
| `plugin_lifecycle` | three operations, two at once, two versions of which the second adds a type in front of the other, one failing transaction, two crashes | the invariants |
| `failed_upgrade` | two operations one after the other, no failing transaction | the rollback of an activation (a finding) |

Two overlapping operations show every conflict of a revision; a third one meets what a
failed one left behind. The second crash can hit the recovery from the first. Operations are
interchangeable (`AnyOp`); the second type is what it takes to fail after a success.

### Properties

- `ActiveIsCurrent`: whatever overlaps or fails, the database has one active version at most,
  and it is the current one.
- `ServedIsRecorded`: at rest, registry and pools are what the database says. The code
  changes them before the database and has no rollback across the two, so that this is stated
  as long as no operation overlapped another (`overlap`) and none failed after it had changed
  something (`halfway`).
- `RestartRepairs`: a restart, after any history, leaves each type that has a row served by the
  current version of an enabled plugin or a placeholder, unless the rollback of the recovery's
  activation failed itself (`unwound`). Of a type without a row it would not be true, see below.
- `FailedSwitchRestores` (violated): a failed upgrade leaves the types with the version that
  served them. `_restore_placeholder` registers over a type that is registered, which is
  refused.

### Proofs

`PluginLifecycle_proofs` proves `TypeCorrect` and `CurrentIsActive` (`ActiveIsCurrent`) for
any number of operations, versions and types, from `LifecycleAssumption` alone. The inductive
invariant `IInv` adds to both that a task under way knows a version (`GoodRow`): without it
`_mark_enabled` could make a version current that does not exist. Each transaction has a
lemma, and so has each action.

`ServedAsRecorded` (`ServedIsRecorded`) and `StartRepairs` (`RestartRepairs`) tie the registry to
what each task still has to do. The invariant (`Inv` of the module, checked by TLC before it
was proved) has these parts:

- `Unserved`: a task that has not registered yet is not in `pools`; without it the pool that a
  refused activation stops could be the one in use.
- `Alone`: without `overlap` one task at most is under way.
- `Orderly` with `Standing`: for each point, what a task that is alone has done so far. After
  `Register` the new pool serves its version and only the replaced one is open beside it
  (`Swapped`); during the rollback of an `enable` each type of the current version is served
  as before, or by the stopped pool with the former server among the displaced, in which case
  the rollback is going to fail (`Unwinding`); after `PopPool` nothing is open.
- `BootAlone` with `Repairing`: the recovery starts from placeholders and has no company.

`Moves` gives what a step of a task changes at all, `Advance` what an action has to show for
`ServedIsRecorded`, `BootEnds` for `RestartRepairs`.

The attempt to prove `RestartRepairs` for every order of a manifest showed that it was too
strong as first stated, for every type: the rollback calls `_restore_placeholder` (service.py:514),
which does nothing for a type without a row, so that a type registered before the refusal
stays in the registry with the pool that was stopped. The instance had such a type at the end
of its manifest only, where it is never registered before a refusal; it is in front now. The
docstring of `_activate` (service.py:452) says that a failure leaves nothing half enabled; no
asset can have such a type, and the next activation replaces it.

## 7. Installation: `Installer`

### State and actions

One version of one plugin. `market` is the hash in the signed index, `dir` the version
directory (and what a second `shutil.move` put into it), `row` the hash in
`plugin_versions`, `job` the installation jobs with their rows in `plugin_jobs`, `removal`
where an uninstallation stands. `confirmed` and `history` are history.

`install` and `install_offline` are the requests, which check the hash that was confirmed.
A job is then `_insert_job`, `MarkRunning`, `run` (is the manifest on disk?), `_install`
(download or upload, hash, unpacking, environment, handshake), `Move`, `_record_installed`,
`Switched` for an upgrade, `MarkDone`, or `_fail_job`. Each update of the progress is a task
of its own, `_update_job_progress`, which runs when it likes. `uninstall`, `_delete_plugin`,
`RemoveFiles` are the removal. `DbFails`, `Crash` and `stop` end jobs anywhere; `stop` leaves
a move that has begun to its thread.

### Abstractions

- What an artifact contains is its hash. The checks of `_install` are one step that
  succeeds or fails; a successful one has found the hash.
- The switch of an upgrade is `PluginLifecycle`'s and one step here.
- Of the progress only 0, something between and 100 are told apart.

### Properties

- `OnlyConfirmed`: what comes to the directory or its row was confirmed by an administrator,
  although the index is signed anew and the market serves what it likes between the
  confirmation and the download.
- `InstalledIsRecorded`: at rest the row names what is on disk, also after a crash between
  `Move` and `_record_installed`, if no two operations overlapped and no removal was cut.
- `DoneIsComplete`: a job that is done says 100 percent for good.

`Installer_proofs` proves `ConfirmedOnly`, `DoneJobsAreComplete` and `InstallationsAreRecorded`
for any number of jobs, contents and faults. None of the properties is inductive. That a job
records nothing unconfirmed needs that what it carries (`art`, `got`) was confirmed, that a
late update leaves 100 percent alone needs the status and the progress of every job (`JobOK`).
`InstalledIsRecorded` needs `Tidy`: while operations follow one another, one at most is at
work (`OneAtWork`); it moves only where nothing lies and records what lies there, a removal
takes the row before the files, and what lies there without a row is about to be recorded
(`RecordFollowsFiles`).

## 8. The Git working copy: `GitMirror`

### State and actions

`repo` is the directory of an account: the remote it was cloned from, the commits whose files
are in its work tree (two during a reset), what was fetched last, whether `.git/HEAD`
(`is_repo`) and `.git/index.lock` are there, and whether files were removed (`torn`).
`staging`, `state`, `due`, `sync`, `reader` are the staging directories, `_states` of the
account, the age of the state file, the threads and the tool calls; `url` and `head` are the
asset and its remotes. The age is `never` from the start where `refresh_interval_seconds` is
0: `_maybe_refresh` then starts nothing.

`Ask`, `Check`, `_maybe_refresh`, `_start`, `_await_preparing` are `ensure_repo` in the worker
thread of a call, a step for each look at something that another thread writes.
`RemoveStale`, `GitClone`, `RemoveOld`, `RemoveEnds`, `Replace` are a clone,
`validate_cached_remote`, `GitFetch`, `ResetStarts`, `ResetEnds` a refresh, `Succeed`,
`TooLarge`, `prepare_git`, `SyncFails` their ends. `shutil.rmtree` removes file after file
while others look: `Tear` is its beginning, after which `.git/HEAD` may still be there or not,
`Gone` its end, which leaves behind what a reset wrote meanwhile. `FailureAges`, `CopyAges`, `Push`, `ChangeUrl`, `Crash` are the world.

### Abstractions

- A commit is its remote and a number. A reset mixes the old and the new commit until it ends.
- A removal has three stages: whole, torn with or without `.git/HEAD`, gone. On a torn copy
  git may fail or not, and a reset repairs what it finds unless the removal goes on.
- The interval is chosen at the start and does not change. Of a staging directory that an
  ended thread left behind nothing is kept, as no later thread looks into it.
- A child that is killed at its deadline leaves what it had done so far.
- What the tools read out of the tree, and the output rules, are left out.

### Properties

- `TreeOfOrigin`: without two threads at once, a copy holds commits of its remote only,
  although the directory is named by the account alone and the address changes.
- `WholeWhenQuiet`: when no thread is at work and no reset or removal was cut off, what
  passes for a copy is one whole commit, also after races.
- `CatchesUp`: if tools keep asking, a copy is there again and again, and unless refreshing is
  disabled, they end up reading the newest commit or nothing. It is checked with two
  readers, whose threads collide in every way before. The formula names its premises:
  somebody asks again and again, the address stays, nothing was cut off (a lock left behind
  would refuse every later reset) and threads stop racing. More does not hold: a reader that
  found no copy long ago may start a clone at any time, which replaces a good copy, so that
  there is none for a moment.

Fairness: a thread that has begun goes on (every `git` child has a deadline), and time passes
(`FailureAges`, `CopyAges`; the latter is disabled for an interval of 0). That anybody asks,
or that a call goes on, is no assumption of the specification; the first is a premise of the
property.

### Proofs

`GitMirror_proofs` proves `CopyOfOrigin` (`TreeOfOrigin`) and `QuietCopyIsWhole`
(`WholeWhenQuiet`) for any number of readers, threads, addresses, commits and events, under
`MirrorAssumption` (the first address is one, the bound is a number). The invariant is, beside
the types, `OneRemote`: while threads follow one another, the one at work has made sure that
it refreshes a copy of its own remote, and has fetched from it; and `LockedWhole`: a copy is
mixed only under its lock or while it is being removed, the lock is there only while some
thread resets, and what is torn and still passes for a copy some thread is removing. The
second does not care about races, as a clone takes the place of a directory that is gone.
`CatchesUp` is liveness and model-checked only.

## 9. Sessions of administrators: `Sessions`

`password_hash`, `sessions` and `time` are the row of `admin_users`, the rows of
`admin_sessions` and the clock; `requests[q]` is what a request remembers between its
transactions. Login is `LoginVerified` (the row is read, the slow hash compared outside any
transaction) and `LoginOpens`, where the row is read again. `Admitted` is the session check
of a later request, whose own transaction comes afterwards: `logout`, or `OldVerified` and
`PasswordChanged`. `Cleanup` is `maintain_db`, `Restart` the end of the process.

Every setting of a password has its own salt, so that hashes are numbers. What a session is
otherwise used for, the CSRF token and the lockout after failing logins are left out;
`update_settings` is one transaction guarded by a revision.

`SessionsFollowPassword`: a cookie opens nothing that was not opened with the password now in
force. `Sessions_proofs` proves it as `PasswordWins` for any number of requests, rows,
passwords and ticks, under `BoundsAssumption` (the bounds are numbers). The invariant
(`OpenFollows`) forgets the clock: what holds of every session that was not revoked holds of
those that have not expired; and before there is a password nothing is under way.

## 10. Calls of the adapters

Each module is one call, or one series of calls, with the server on the other side; the
server and the network are marked external in `PROJECT.json` and do what their protocols
allow. The steps of the gateway are those of the code between two awaits or blocking reads.

| Module | Code | State and actions | Property |
|---|---|---|---|
| `JenkinsLog` | `read_log`, `lines`, the cursor | A client pages (`ReadFrom`, `ReadTail`, `ReadOn`) through the log of a build that is being written (`StartLine`, `Extend`, `EndLine`). Lines have sizes; `limit`, the scan budget and the output budget cut a page (`Forward`, `Backward`), `Reread` takes back an unfinished line | `NothingSkipped`: each line that a cursor has passed was returned as it finally reads |
| `JenkinsCall` | the writing tools, `jenkins_http.py`, `pinned.py` | Reads, crumb, one POST; Jenkins performs it or not (`Perform`), and what answers may be a proxy (`RespondDone`, `RespondNot`, `Lost`); `Receive`, `Breaks`, `Deadline` choose the error | `DefiniteAnswer`: an error that says that nothing was done is true, now and later; "submitted" is true; nothing is done twice |
| `JobSearch` | `find_scm` | The queue of folders, the entries counted against the budget, folders and jobs that cannot be read; the tree grows meanwhile, and folders may refer to each other | `CutIsMarked`: a result without the mark has looked at each job that was there |
| `PodExec` | `exec_stream`, `k8s_exec.py` | A command, the frames under way and how the connection ends; the loop over frames with its fragments of three channels (`Receive`, `BytesMessage`, `Overrun`, `Return`, `Fails`) | `ExitIsReal`: an exit code is that of a command that has ended, with all its output |
| `Manifest` | `apply_manifest` | One PATCH after the other; an answer may be lost after the object was applied | `CountIsTrue` (part of `DefiniteAnswer`): what an error counts as applied is in effect |
| `KeyScan` | `connect` and `scan_keys` of Redis | The way back from TLS, a SCAN iteration for each pattern, with limit, budget and rounds; the server returns batches as SCAN allows | `CutIsMarked`: a result without the mark names each key that a pattern matches |
| `SqlCall` | `connect`, `query`, `execute_write`, `list_tables`, `describe_table` of MySQL | The way back from TLS, the queries of a tool one after the other, rows until a limit or the budget | `CutIsMarked`: an answer without the mark holds every row asked for |

Notes:

- `JenkinsLog`: a page that ends before an unfinished line which alone exceeds the output
  budget repeats its last line until that line ends; it skips nothing.
- `KeyScan`: a pattern that ends after its hundred rounds leaves `truncated` unset. The
  property excludes it by name (`gave_up`).
- `SqlCall`: where a query is cut, its connection is closed and the tool's later queries are
  refused or not made, as in the code.

## 11. The run `parts`

`MCParts` puts the modules of sections 7 to 10, which share no state with each other, into
one state space: the initial states choose a `part`, only that part moves, the others keep
their initial values. Properties are each module's own, of the part chosen; `DefiniteAnswer`
and `CutIsMarked` are the conjunctions over the adapters for which they are the same
question. Nothing is composed by this: it is one run in place of eleven.

| Part | Instance | What the bounds reach |
|---|---|---|
| `installer` | two jobs, two contents, one fault | two jobs of one version, a job and an uninstallation, an upload against the market, a crash anywhere |
| `git` | two readers, two threads, one address, one event (a push, a failure or a crash), both intervals, fairness | every race of two threads, and that tools recover from each |
| `git1` | one reader, two threads, two addresses, three events, both intervals | a changed address, threads that outlive it, crashes |
| `sessions` | two requests, two rows, three passwords, time to 3, idle 1, lifetime 2 | two logins against two changes of the password, both kinds of expiry |
| `log` | two builds of three lines, sizes to 2, limits 1 and 2, page budget 3, scan budget 7 | each of the three limits alone and together, a line that grows between two pages |
| `exec` | two units for each stream, an output limit of 1, two frames under way | fragments, a cut in the middle of a message, every end of the connection |
| `jenkins`, `manifest` | every tool; three documents | an error before, at and after each step |
| `scan` | three keys, two overlapping patterns that match all three, limit 2, budget 4, rounds 3 | the limit on keys and the budget, each alone and together, at the key where it bites; keys returned twice |
| `find` | two folders with at most two entries, a budget of 2 | a folder that lists itself or the root, a budget that ends at the last entry and inside a folder |
| `sql` | up to four rows of size 1 or 2, two allowed, a budget of 3 | a limit of the statement below, at and above that of the answer; the budget cuts after one row, or the row limit after two |

There is no symmetry: one of the properties is about liveness. The run has about a million
states.

### Proofs

`MCParts_proofs` proves every invariant of the run except those of `Installer_proofs` for every
value of the constants, under `PartsAssumption`: bounds are numbers, names differ, and a build,
a line and a password have room for one. The instance of a part shares nothing with another,
so that for each part X three facts suffice: the steps of `PartsNext` that move X are steps of
its module (`XMoves`), the initial states fulfil its `Inv` (`XBegins`), and the steps keep it
(`XKept`). Git and sessions take the invariants of their proof modules. The other modules
state theirs in a last section, "What makes ... inductive":

| Theorem | Property | What the invariant adds |
|---|---|---|
| `NoLineIsSkipped` | `NothingSkipped` | `NotAhead`: a cursor is not ahead of the lines there are, unless the client began there. That a page of `Forward` or `Backward` has no hole is a lemma about the sums of sizes that the code adds up; the sums stay opaque in it |
| `AnswersTell` | `DefiniteAnswer` | `PostTells`, `CallTells`: the state of the POST says whether it had its effect, for each answer of Jenkins and of a proxy; `AppliedSoFar`, `PatchTells`: what was sent before the document in turn is in effect, and nothing after it |
| `ExitCodesAreReal` | `ExitIsReal` | `InOrder`: the frames under way lead from what `exec_stream` knows to what the command has written, one view after each frame; `StatusLast`, `StatusTrue`: the status follows all output |
| `CutsAreMarked` | `CutIsMarked` | `RowsOf`: no query has sent more than its part may have, and only a SELECT is cut by the server; `FoundSoFar`: what the iteration in turn has returned is found; `Walked`, `Grown`: what a visited folder held at first is read, visited or queued |
| `CopiesKeepOrigin`, `QuietCopiesAreWhole` | `TreeOfOrigin`, `WholeWhenQuiet` | section 8 |
| `CookiesFollowPassword` | `SessionsFollowPassword` | section 9 |
| `TypesAreKept` | `PartsTypeOK` | all of these together |

Two things had to be restated to be proved. The folders that a search reaches are those in
every set that is closed under the lists of its members (`Reachable`), not the result of a
recursion. And where a proof goes by induction, over the frames of a connection or the lines
of a page, it takes the least number for which a claim fails (`LeastNatural`), as the
induction theorems of the library take an operator.

`CatchesUp` stays with TLC.

## 12. Not modelled

- **Parameter rules and rate limit.** `enforce_rules` and `RateLimit.check` are pure functions
  of a few lines over strings and time stamps. A model would be the code again, and unit tests
  reach their cases. In `ToolCall` they are the refusal of `prepare`.
- **SSH and SFTP.** Sequential blocking reads and writes under the deadline and the worker
  threads of `ToolCall`; nothing of them survives a call.
- **MCP proxy.** Paged discovery with two limits, whose result is the catalog that `Grants`
  stores. The check of the address for each request is in `JenkinsCall` (`Denied`).
- **Read tools** of the adapters that are one request, and what they make of its answer.
- **Vault, network policy, configuration, legacy import, command line.** Encryption and
  address matching are pure functions, the rest start-up parsing and scripts that run alone.
- **`update_settings`.** One transaction guarded by a revision, as the saves of `Grants`.
- **Plugin SDK, build scripts, web console.** Code that runs inside plugins, offline, or in
  the browser; every rule that the console shows is enforced by the API.

Disagreements between code and documents that were met and have no run of their own:

- `docs/asset-kubernetes.md:25` says that a manifest that fails in part reports how many
  documents are in effect. An invalid later document and a broken connection report no count
  (`Manifest`: `Fail(None)`), and the message of a dry run counts as if they were.
- `docs/plugins.md:46` says that an interrupted installation can be tried again. After a crash
  between `Move` and `_record_installed` it ends with VERSION_CONFLICT (`run` of `Installer`).
- The row of a job that was cut off by a crash stays pending or running.
- A MySQL write whose connection breaks is answered with MYSQL_TIMEOUT, which does not say that
  the state is unknown (`unclear` in `SqlCall`).
