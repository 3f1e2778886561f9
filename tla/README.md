# navop: a verification development

navop is a desktop workbench for servers and databases (Rust, GPUI, about 800,000
lines): SSH terminals, SFTP, database clients, an AI agent, extensions, and a set of
saved connections and credentials that its users carry from device to device. This
directory holds TLA+ models of the parts of it that are hard to get right:

* **personal sync**, which decides whether the saved records survive, from the event
  queue of one application down to the lock file two applications fight over, with its
  stores on a directory, on WebDAV and in a Git clone;
* **what connections share**: the registry of SSH sessions, the SFTP transfers, the
  commands that an agent and a user run in the same terminal, and the queue between a
  terminal's transport and its parser.

    tlc -workers 2 -config MCPersonalSync.cfg MCPersonalSync.tla     one run
    tlapm PersonalSync_proofs.tla                                    one proof module

`PROJECT.json` lists every run, every definition with the source lines it models, the
findings, the hazards and the theorems.

## 1. Inventory

### 1.1 Personal sync

| component | state | operations | interacts with |
|---|---|---|---|
| runtime, `navop_app/src/personal_sync_runtime.rs` | active configuration, running runtime, status with a generation, `pending_auto_drain` | reconcile with the settings, enqueue an event, start and finish a drain, watcher callback, 60 s timer, sync now, test, resolve, re-encrypt, wipe | worker, connection events, UI |
| worker, `core/src/cloud_sync/personal/worker.rs` | `pending`, `active`, `dirty` | `enqueue`, `drain_once`, `run_pass` | local source, store, conflict table, planner |
| planner, `planner.rs` | none | `plan` over three snapshots | worker |
| local source, `local_source.rs` | none: the connection and credential tables | `list_items`, `export_item`, `apply_remote`, `mark_synced`, `delete_item` | repositories |
| conflict table and resolver, `conflict_sink.rs`, `conflict_resolver.rs` | one row per paused record, with the remote snapshot | pause, forget, list; use cloud, use local | worker, store, repositories |
| WebDAV store, `webdav_store.rs` | lock object, `index.json`, record and tombstone files on a server with GET and PUT | acquire and release the lock, list, upsert, tombstone, `mutate_index` | other devices, the server |
| Git store, `git_store.rs` | a clone, the dirty flag | write and mark dirty, `flush`, `probe`, push and pull with self-healing | git, other devices by way of the remote |
| directory store, `directory_store.rs` | record files, lock file | `list_records`, `upsert_record`, `tombstone_record`, `acquire_lock` | other processes |
| forms, home list and deletion, `home_tab/*`, `port_forwarding_view/src/form_window.rs` | the list last loaded, what an open form remembers | open, save, delete, refresh | repositories, runtime |

What is hard here, and what has to hold:

* *Runtime.* Drains start from four places (local change, timer, watcher, button), run as
  detached futures and report back to a foreground that may have been reconfigured in
  between. Correct: one pass per worker, a "syncing" status always has a task that ends
  it, and an event that was queued is taken by a pass.
* *Pass.* It reads the rows, then the records, then the conflicts, and applies its
  decisions one await at a time while the user edits, deletes and resolves, while other
  devices run passes of their own, and while the store, the network or the application may
  fail. Correct: no edit is lost without the user being asked, deletions stick, a paused
  record is left alone, no device overwrites what it has not read, and the devices end up
  with the same records.
* *Lock.* A file with a nonce and a TTL, created, read, replaced and removed with separate
  file-system calls. Correct: one holder at a time, and no leftover blocks the others.
* *WebDAV.* No conditional requests: the lock is a PUT and a read-back, the index is read,
  changed and written back, and every request may fail with or without effect. Correct:
  passes overlap only when the code lets them, what a pass reported as stored is there.
* *Git.* A flush and a probe run git in one clone, with stashes, rebases and a flag that is
  cleared before the push. Correct: no accepted change is dropped, and when nothing
  failed everything reaches the remote.

### 1.2 Connections and terminals

| component | state | operations | interacts with |
|---|---|---|---|
| SSH session registry, `ssh/src/session_registry.rs` | slots with generation, waiters, lease count and idle candidate; lifecycle; task count | acquire, clone and release a lease, retire, creation flight, reaper, shutdown | session managers, every SSH client of the program |
| SFTP transfers, `sftp_transfer/src/{executor,scheduler,operation,record}.rs` | a lane per connection, a record per transfer, token and flag | reserve, commit, cancel, execute with a retry, finish | task panel, SFTP provider |
| task panel, `core/src/background_tasks.rs` | status of each entry | register, mark running, request cancel, finish | executors, UI |
| execution supervisor, `terminal/src/exec_supervisor/`, with its actor in `ssh_backend.rs` and `pty_backend.rs` | readiness of the shell, active request, table of senders, timers | start, cancel, time-out, user input, OSC marks, interrupt, disconnect | agent, user, shell |
| ingress queue, `terminal/src/ingress_queue.rs` | byte semaphore, byte counter, data channel, abort token | send, try to send, abort, receive, consume | transport tasks, parser |

What is hard here, and what has to hold:

* *Registry.* Leases outlive their generation; one reaper with one permit serves all keys;
  shutdown meets flights that are still creating. Correct: the count the reaper trusts is
  that of its generation, no acquire waits for an answer nobody sends, idle sessions go, no
  session in use is disconnected, nothing appears after shutdown.
* *Transfers.* Cancellation triggers a token at once and reaches the transfer later, when it
  may be queued, running, waiting to be retried or finished. Correct: lanes, records and
  panel agree, and a cancelled transfer costs nobody his place in the queue.
* *Commands.* The shell's marks come late and in either order, the user types at the same
  prompt. Correct: an exit code is that of its own command, a request reported as not
  submitted was not, and every request gets an answer.
* *Ingress.* The counter is changed outside the semaphore, sends are aborted or dropped at
  any await. Correct: the budget is kept, the answer of a send is true, and sends end.

### 1.3 The rest of the program (not modelled)

| component | state and operations | what is hard |
|---|---|---|
| team sync engine, `core/src/cloud_sync/engine.rs` and neighbours | queue, keys, teams, pending deletions | key rotation during sync, retries |
| MCP approvals, `public_mcp/src/approval*.rs` | pending requests, grants | time-out against a late answer |
| agent runtime, `agent_runtime/src/runtime/` | input queue, active turn | input that arrives while a turn ends, interruption |
| extension adapter, `extension-plugin-adapter/` | activations, jobs, blobs | deactivation against running jobs |
| Windows RDP shutdown, `windows_rdp_host/src/shutdown_registry.rs` | registrations, drain progress | late completions, time-outs |
| update checks, modem transfer | small state machines, ZMODEM | protocol errors |
| views, database drivers, parsers, themes, vendored code | layout, I/O, pure data | out of scope |

## 2. Modules

| module | models | state |
|---|---|---|
| `PersonalSyncRuntime` | runtime and the worker's queue | `config runtime status owner pendingDrain worker task` |
| `PersonalSyncPlanner` | the planner, as set definitions | none |
| `PersonalSync` | pass, repositories, conflicts, resolution, forms, users; EXTENDS the planner | `row shown form deletions conflict pass resolving remote lock now used abandoned` |
| `DirectoryLock` | lock file of the directory and Git stores | `name content pc nonce handle expired used` |
| `WebDavStore` | WebDAV store under the passes of several devices | `lockFile expired index file tombstone device` |
| `GitStore` | Git store, its clone and git's outcomes | `dirty accepted marking work staged ahead remote stash rebasing unmerged behind gitTask` |
| `SessionLeases` | what the session registry promises (abstract) | `current uses shut open` |
| `SshSessionRegistry` | registry, reaper and shutdown; refines `SessionLeases` | `slot generation lifecycle client flight manager due reaper tasks report` |
| `SftpTransfers` | lanes, records, jobs and panel entries | `lane state token flag job panel` |
| `TerminalExec` | supervisor, actor, timers, user and shell | `initSent readiness inputDirty active answer timers keptBack wire marks shell` |
| `TerminalIngress` | ingress queue | `size send hold acquiring free pendingBytes queue parsing receiver open aborted` |
| `PersonalSyncRuntime_proofs`, `PersonalSync_proofs` (with the planner), `DirectoryLock_proofs`, `SyncStores_proofs` (`WebDavStore` and `GitStore`), `SshSessionRegistry_proofs`, `SftpTransfers_proofs`, `TerminalExec_proofs` (with `MCServices`), `TerminalIngress_proofs` (with `MCConnections`) | theorems and proofs, each about the module it is named after | |
| `MC*` | model values for TLC; `MCConnections` and `MCServices` put three services side by side | |

`PersonalSync` takes from the layers below what they promise: a store with atomic writes
checked against an expected version, and an exclusive lock. `DirectoryLock` shows how far
the directory store keeps the second promise. `PersonalSyncRuntime` shows which passes
are started; `PersonalSync` starts them at any time.

### 2.1 PersonalSyncRuntime

A **task** is a spawned future with the foreground continuation that takes its result.
The code gives every operation a generation number and compares it with the newest
one; the model keeps `owner`, the task that holds the newest. `BeginOperation`,
`StartRuntimeDrain`, `OperationDone` and `DrainDone` are `begin_operation`,
`start_runtime_drain`, `finish_operation` and `finish_operation_and_maybe_drain`;
`Enqueue`, `BeginDrain`, `NothingToDrain` and `FinishDrain` are the worker's methods, one
action per critical section of its mutex. The watcher's drains (`WatcherEvent`,
`WatchDone`) never touch the status, as in the code. A change of settings replaces the
worker (`ReconcileStarts`), may find that the watcher cannot be started
(`ReconcileFails`), or switches sync off (`ReconcileOff`); tasks of the old runtime go on.

### 2.2 PersonalSync

A **content** is the set of user edits it carries: `{1,3}` is edit 3 made on top of edit 1.
Checksums are equal exactly when contents are. This makes "an edit was lost" a statement
about sets. A row carries its cloud id, its modification time and its sync baseline,
as the tables do.

A pass of the worker is the sequence `BeginPass`, `ListItems`, `ListRecords`,
`ReadPaused`, the deletions of this device (`ForgetDeleted`, `PauseDeleted`,
`PushDelete`), the remote tombstones (`ApplyTombstone`), `MakePlan`, and then the plan in the order
of `apply_plan`: uploads and cloud updates (each followed by `MarkWritten`), local
updates, downloads, marks, conflicts, `EndPass`. Every await point is a boundary between
actions. A version the store refuses, a row that is gone, a fault (`PassFails`) and the end
of the application (`Restart`) all end it, and its events are then gone, as in
`drain_once`.

Use cloud is one action (it awaits nothing that others change); use local reads the record
again (`UseLocalReads`), writes (`UseLocalWrites`) and marks (`UseLocalMarks`), without the
store lock. The user creates rows, deletes them, and opens and saves forms, which write
back the cloud id and the baseline they were opened with. What the user sees is the list
the home page loaded last (`shown`, with `FreshList = FALSE`), which passes do not reload;
the vault reads the row of a credential itself (`FreshList = TRUE`).

### 2.3 DirectoryLock

One action per file-system call: `create_new`, `write_all`, read and judge, open, write and
rename the temp file, read back, read and remove. Files keep their identity when they
are renamed or replaced, so a write through an old handle lands where it does on disk. A
lock file that is missing, empty or unparsable is `Torn`, which `lock_is_stale` treats as
stale.

### 2.4 WebDavStore

One request per action, or the reads that precede a write: `LoadLock`, `PutLock`, `ReadBack`
are `acquire_lock`; `List` the GETs of `list_records`; `Upsert` and `Tombstone` the version
check of the two writers, then `PutTombstone`, `PutRecord`, and `LoadIndex`, `PutIndex` of
`mutate_index`, which tries again once when the PUT is rejected (`PutIndexRejected`);
`CheckLock` and `ReleaseLock` are `release_lock`. As in the code, a lock request that fails
lets the pass run without a lock (`LoadLockFails`, `PutLockFails`, `ReadBackFails`). `RequestFails` ends a pass at any request, with or without
the request's effect on the server; `Abandon` kills the device. An upload with the
collections it creates first (MKCOL) is one request. A file is its version and whether it
is marked as deleted. Three history variables say what the properties need:
`stored`, the last version a pass reported as stored; `overlap`, two passes were in progress
together; `excuse`, something happened that the code knowingly lets through.

### 2.5 GitStore

One git command per action; a task is a flush or a probe, and what git does is modelled
from how the store reads its outcome (`classify_failure`): success, merge conflict, wrong
credentials, any other failure. A change is a write of a pass; the model follows it from the worktree to
the index, the commits ahead, the remote, or the stash. `Mishap` is a command that fails
although nothing in the clone makes it, `RemoteMoves` a push of another device that does or
does not collide with the commits ahead. `auto_push`, which the application always sets, is
taken to be on. `mended` and `discarded` are history: whether something failed since
everything was last pushed, and what git was told to throw away.

### 2.6 SshSessionRegistry and SessionLeases

An action is what the code does under one hold of the registry lock, with the notifications
it sends right after. A generation stands for a `CreationToken` and for the manager its flight
produces. `AcquireReady`, `AcquireJoins` and `AcquireStarts` are the three arms of `acquire`;
a client that waits is in the waiters of a slot, and `Notify` is the outcome its channel
receives. `Publish`, `FailFlight`, `StaleFlight` end a flight. An idle candidate has an
identity, as in the code, and its deadline is only past or not (`Deadline`). The reaper looks,
waits, and acts on what it selected earlier (`ReaperLooks`, `ReaperExpires`); its permit is
that of `Notify`. `ManagerStopped`, `ShutdownConverges` and `ShutdownTimesOut` are
`run_shutdown`.

`SessionLeases` states the promise without counts, waiters, flights or reaper: what is current,
who uses what, what was disconnected. `Expire` is the only way to disconnect a generation of a
registry that is open, and it needs nobody to use it. `KeepsPromise` is the refinement: `uses` is
mapped to the leases the clients really hold, not to the counter.

### 2.7 SftpTransfers

Executor and panel run on the UI thread, one handler per action; the jobs and the watchers of the
tokens run beside them. `Starts` is the loop of `take_startable` and `start_transfer` as a whole: the
prefix of the queue that holds enough transfers whose token was not triggered. `RequestCancel`
triggers the token, `ApplyCancellation` is the watcher, some time later or never. The panel's entry
follows `BackgroundTaskManager`, which refuses outcomes by status (`PanelAfter`).

### 2.8 TerminalExec

The supervisor's methods with the effects the actor applies in the same turn; two channels to
and from the shell (`wire`, `marks`); timers that are never disarmed, only ignored
(`TimerIsDue`). The shell is external: it runs lines, sends its marks, and sends the finish before
or after the next prompt. `buffered` tells SSH, whose actor keeps user input back while it serves
other commands (`FlushInput`), from a local terminal.

A write holds what its maker put into it: one line, several, text after the last of them, text alone, or
Ctrl+C (`Inputs`). `UserTypes` is a `Write` of the user or of a tool that writes for him (`User`,
`ExternalInput`); `SendInit` the initialization commands, sent at once when the login is
done; a request's command may have several lines, too (`Submit`). `on_input` looks for a newline
anywhere in a write (`LeavesText`) and takes what holds one for one submitted line. Two histories say where
that is wrong: `disturbed`, prompts may come that were not waited for, because something was typed before
the shell was ready, the foreground was interrupted or the shell reintegrated; `multiline`, a
write held more than one line, or text after its line. `Reintegrate` is the script that is injected
on request into whatever shell runs.

Left out: captured output; what the terminal itself answers to the shell
(`TerminalResponse`); the login's expect steps and the injection of the integration at login with its
Ctrl+C on a time-out, which go out past the supervisor, so that their effect on a
session is like that of `Reintegrate`; ZMODEM; continuation lines.

### 2.9 TerminalIngress

A send goes through the awaits of `send_data`: permits, counter, slot, last look at the abort token,
push. A reservation is `permits`, `counted`, or `uncounted` between the two fields of
`ByteReservation` being dropped. `Serve` is tokio's semaphore, first come first served. The order in
which senders get a freed chunk slot and the control lane are left out.

### 2.10 MCConnections and MCServices

Each puts three services side by side and lets one of them run (`focus`). This loses nothing: the
services share no state in the models, and none of the properties relates two of them; it gives one run
where three would do.

## 3. Properties and runs

Passing runs:

| run | instance | shows |
|---|---|---|
| `runtime` | 2 futures, 2 workers, an event besides the full scan, a configuration with and one without auto sync | `TypeOK`, `OnePassPerWorker`, `SyncingHasOwner`, and under fairness `EventsAreTaken` |
| `sync` | 2 devices, 2 rows each, 1 record, 3 edits, 2 deletions; forms stay open across passes | `TypeOK`, `NoSilentLoss`, `DeletionSticks`, `NoBlindOverwrite`, `PausedUntouched`, and under fairness `Converges` |
| `sync_failures` | 2 rows per device, 3 cloud ids, 2 edits, 2 deletions from a list older than the rows, one failure or restart at any step, lock contention; symmetric | `NoSilentLoss`, `NoBlindOverwrite` |
| `sync_busy` | the user acts while passes and resolutions run; clocks 3 s apart; several writes per second; a row that cannot be deleted | `VersionsIdentify` |
| `lock_recovery` | 2 processes, one of them killed at any point, passes longer than the TTL | `TypeOK`, and under fairness `Recovers` |
| `connections` | registry: 2 clients, 1 key, 2 generations, 3 candidates; SFTP: 3 transfers, 1 upload, a lane of 1; ingress: 3 chunks of 1 or 2 bytes, 2 bytes, 1 slot | registry: `LeaseAccounting`, `NoStrandedWaiter`, `CleanReport`, `ClosedForGood`, `KeepsPromise`, and under fairness `IdleIsReaped`; SFTP: `LanesMatchRecords`, `LaneWorkConserving`, `PanelAgrees`, `EveryTransferFinishes`; ingress: `BudgetKept`, `AnswersAreTrue`, `EverySendEnds` |
| `services` | WebDAV: 2 devices, 1 record, 3 nonces, 2 versions, 1 trouble; Git: 2 tasks, 2 changes, 1 mishap, 1 move of the remote; terminal: 2 requests, 1 further write or interrupt, up to 2 lines in a write; symmetric in the requests | WebDAV: `PassesExclude`, `ReadBackArbitrates`, `IndexedFilesExist`, `UpsertSticks`; Git: `ChangeKept`, `NothingLeftBehind`; terminal: `CompletionIsOwn`, `FailedNeverWritten`, `AgentCommandOnCleanLine`, `PendingIsTimed` |

Runs in which the program does not do what its own texts say:

| run | property | what the code does |
|---|---|---|
| `tombstone_pass` | `ExportFindsRow` | the pass that applies a remote deletion plans an upload of the row it has just deleted, and fails |
| `edit_during_pass` | `NoSilentLoss` | an edit saved between the listing and the local update is overwritten, without a conflict |
| `busy_lock` | `DeletionSticks` | a pass that finds the lock taken has already dropped its deletion events; the next one downloads the deleted record |
| `stale_list` | `DeletionSticks` | a connection deleted from a list that predates its first upload names no record, and is downloaded again |
| `lock_exclusion` | `Exclusion` | a lock file between creation and its first write counts as stale, and is taken over: two holders |

**The properties.** `NoSilentLoss`: an edit some user saved is in a row, a live record or
the snapshot of a conflict, unless a user deleted it or decided against it. `DeletionSticks`: a pass
brings back nothing its own user deleted. `NoBlindOverwrite`: what a pass replaces in the
store is what it read. `PausedUntouched`: passes change neither a paused record nor its
row. `VersionsIdentify`: two equal versions are the same record, which is what an expected
version is worth. `Converges`: when the users have stopped and the conflicts are settled,
every device holds exactly the live records. `SyncingHasOwner` matters because
`start_runtime_drain` returns at once while the status is syncing: without an owner sync
would stop until the next restart. `EventsAreTaken` is the wake-up that must not be lost
between `pending`, `dirty`, `pending_auto_drain` and the timer.

*WebDAV.* `PassesExclude`: two passes overlap only after a lock request failed, a lock was
overdue, or a lock file was written over one that was not there when the writer looked.
`ReadBackArbitrates`: of two devices that were both between PUT and read-back, one passes.
`UpsertSticks`: as long as passes did not overlap, what was reported as stored is in index
and file, wherever later passes were cut short. `IndexedFilesExist`: the order of the writes
leaves no index entry without a file and no deleted file without a tombstone.
*Git.* `ChangeKept`: through pulls, rebases, stashes and pops of two tasks an accepted change
stays in the clone or on the remote, unless git was told to discard it. `NothingLeftBehind`:
with nothing in progress, nothing dirty and nothing gone wrong, all of it is on the remote.
*Terminal.* `CompletionIsOwn`, `FailedNeverWritten`, `AgentCommandOnCleanLine` are what the agent
believes of an answer, the first and the third only as long as every write came to a ready terminal and
held one line or text without a newline (`disturbed`, `multiline`; section 5 says what happens
otherwise); `PendingIsTimed` is why it gets one: a request without an answer is the
active one, and a timer of the phase it is in is running.
*Registry.* `LeaseAccounting` relates the counter to the leases clients hold; `NoStrandedWaiter`
relates waiters to flights; `CleanReport` is what a report of convergence is worth.
*Transfers.* `PanelAgrees` matters because the panel refuses every outcome but "cancelled" for an
entry that is being cancelled: a transfer that finished otherwise would cancel for ever there.
*Ingress.* `AnswersAreTrue`: a refused chunk is never parsed, so it may be sent again; an accepted one
is parsed unless the receiver was aborted.

**Bounds.** Two devices are enough for every race of one record: a third would play the part of one of them
at another time. Three edits on one record give each device an edit of its own on top of
a shared one; two deletions give both devices one. Two rows and three cloud ids (`sync_failures`; one id is kept in
reserve for the failure) let a pass fail after half of its plan: between two uploads of one pass. One failure is enough for every single point of a pass;
several failures of different passes are independent of each other except through the
store, which the bound does not vary. `FewVersions` (`sync_busy`) bounds the versions, because
with a clock of whole seconds two devices may take turns overwriting each other for as long
as a second lasts. `MaxTime` and the identities in `DirectoryLock` are recycled or capped
where nothing refers to them any more. `RoomForRecord` keeps a cloud id in reserve for
every row that will need one, so that no behaviour stops for lack of an id.

In `connections`, two generations are one to be replaced and one that replaces it while a lease of the first
is still held; two clients give a clone, a join and a stale release; of three candidates one
is in the slot, one may be in the reaper's hands, and one is always free. Three transfers in a
lane of one (the code has three) are one that runs, one to be cancelled in the queue and one behind it.
Three chunks and two bytes make a large chunk wait behind a small one while a third wants in.
In `services`, three nonces let two devices hold one each while the file has an
older one; two versions are one creation and one update or deletion; the store's failures are bounded by one, a
rejected PUT of the index, which the store itself tries again, not being counted. Two git tasks are a
flush and a probe or two flushes; two changes are one to be stashed and one to be written
meanwhile. Two requests are one that was cancelled, timed out or finished, and the next one that its
late marks reach. `MaxKeys` counts the writes of users and tools, the initialization commands, interrupts,
reintegrations and the further lines of the requests' commands, one in all: one thing that comes between.
Two lines in a write (`MaxLines`) are one that submits it and one, or text, that is left. Requests are
interchangeable, hence the symmetry; the run states safety only.

Deadlock is checked in every run but these two: there generations, versions, nonces and
mishaps may be used up and everything be finished, where the bounded system stops.

**Assumptions of a run** are constants: `QuietUser` (the user acts between passes),
`FineClock` (no two writes within a second), `Skew`, `FreshList`, `LongForms`,
`Contended`. They are there because some properties do not hold without them; section 5
lists which.

**Fairness.** A task that was started runs on (the store calls have time-outs, the rest is
local). A pass is started on each device again and again: the timer fires every 60 seconds
and a pass only needs the lock to be free at some of these moments, hence strong
fairness of `BeginPass`. A user closes the form at some time and settles a conflict that
stays; strong, since either is possible only between passes. In the runtime, strong fairness of the timer is
limited to moments when no operation is shown. In `DirectoryLock` a regular process tries
again every 60 seconds, and time passes; nobody is obliged to stay away, so `Recovers`
holds against others that come and go, within the bound on their attempts. The reaper's
task is polled and its timers elapse; `IdleIsReaped` also needs the clients to rest, since the reaper's
`select!` is biased towards notifications. A transfer's job ends because every SFTP request has a time
limit (`SFTP_REQUEST_TIMEOUT_SECS`, `sftp/src/russh_impl.rs:75`) and its handler is run; of the
watchers of cancellation nothing is assumed. Tasks that send to a terminal are polled, and the
parser goes on receiving and consuming until it is aborted. `services` is checked for safety only.

## 4. Proofs

`PersonalSyncRuntime_proofs`, for any number of tasks, workers, events and
configurations: `RuntimeInv` is inductive (`RuntimeInvariant`), hence `OnePass`,
`SyncingEnds` and `TypeCorrect`. `OnePassPerWorker` alone is not inductive: one must
know that a running task has set `active` on its worker, which is what `TaskShape` adds;
and that a worker slot is reused only when no task refers to it.

`PersonalSync_proofs`, of the planner: `PlannedOnce`, every item that is not paused is on exactly
one list and a paused one on none. The last arm of the `match` in `plan_existing_item` is
therefore unreachable.

Of the passes, for any devices, rows, records, clocks, failures and bounds:
`SyncTypes` proves `SyncInv`, which is `TypeOK` (with: exactly the device in a pass holds
the lock) and `PlansKnown`: a plan only names records its pass has read. The second is
needed for the first, because applying a plan reads `records[k]` as a record.
`VersionsAreSound` proves `VersionsIdentify`. The argument is `GoodStep`: a step changes
a record only by raising its version, a snapshot is either kept or read from the store, and
a conflict takes a record from the snapshot of its own device's pass. One lemma per group
of actions shows `GoodStep`; one short lemma derives the property from it.

`PausedStayUntouched` and `NothingOverwrittenBlindly` are about a pass and a user who acts between passes
(`QuietUser`, and `FreshList`: the user acts on the rows as they are). `QuietInv` says what such a user
leaves to a pass: a cloud id names one row of a device, the rows still answer to the items the pass has listed,
and what it plans, has deleted or has just written is not paused. So the row of a paused record is not the row of any planned
item, and every write of the pass carries the version it has read (`VersionsAreSound`) or follows a tombstone.
Without `FreshList` the list on screen may name the row of another record; the theorem does not claim that case.

`NothingIsLost` proves `NoSilentLoss`, with other devices, faults, restarts, contention, rows that
cannot be deleted and long forms in it, for a user who acts between passes on fresh rows (`QuietUser`, `FreshList`), and
for clocks by which times identify records (`FineClock`, `SameClocks`: no two writes within a second, the same time on
every device). `LossInv` is the account of where an edit is: an edit that was once in a live record stays in a live
record or is decided against (`EditsLast`), because whatever replaces a record *descends* from it. A row, a form or the event of a deletion
descends from the record whose time is its baseline: it has that record's edits, or its user has decided about
them. A snapshot is the record or one that it replaced (`Past`). Where the planner compares times it compares descent, as long as
times identify records; hence the two assumptions on clocks, and section 5 says what happens without them.

`SshSessionRegistry_proofs`, for any finite set of clients and any keys, generations and
candidates: `RegistryInv` is inductive (`RegistryInvariant`). `LeaseAccounting` needs all of its
parts. `Generations` says that a generation stands for one key, has its flight before its
manager, and has at most one slot, so that the leases of one generation are counted in one place;
`Counted` says that every lease of a published slot is one that its release will count, and
that there is an idle candidate exactly while there is no lease. `Waiters` is both directions of
`NoStrandedWaiter`: who waits is in a slot, and who is in a slot waits for that key. `Tasks`
relates the counter of tasks to flights and reaper, which is why a shutdown that finds it zero
leaves nobody who could still disconnect or publish (`Ending`, `CleanMeansEnded`). The counts are
cardinalities of sets of clients and of flights, hence the assumption that the clients are finite.
`RegistryKeepsPromise` is the refinement: the initial states are related, and one lemma per action
maps a step to `Establish`, `Use`, `Share`, `EndUse`, `Withdraw`, `Expire` or `CloseDown` of `SessionLeases` or to a stutter; where it
maps `ReaperExpires` to `Expire`, `Counted` provides that nobody uses what is disconnected.

`SftpTransfers_proofs`, for any transfers, connections and limit: `SftpInv` is inductive. A lane's
queue lists each transfer it should exactly once; it is full while anything waits
(`LaneMatches`); an entry of the panel is the record, or is being cancelled because somebody asked
for it (`EntryMatches`); a job runs exactly for the busy transfers (`Jobs`). The hard part is
`Starts`, which starts a prefix of the queue: the least prefix with enough transfers in it exists
(`LeastNumber`, `PrefixLength`) and fills the lane or empties the queue.

`TerminalExec_proofs`, for any requests, any amount of typing and any number of lines in a write, in two layers. `RequestsInv`
(who waits for an answer is the active request, under a timer of its phase; only a request that is not written fails
as if it never was; nothing is left of a closed session) gives `FailedNeverWritten` and `PendingIsTimed`.
`CompletionIsOwn` and `AgentCommandOnCleanLine` speak of marks that come late, and need to know
where everything is that will bring a prompt. `ExecInv` says: as long as nothing disturbed the
session and every write held one line or none (`Orderly`), that is one thing at one place, the input the actor keeps back, the channel to the shell, the shell, or
the marks on their way back, and the terminal counts as ready only when it is nowhere
(`InKept`, `InWire`, `InShell`, `InMarks`, `AtRest`); and no finish on its way can be taken for that of the
observed command (`OwnMarks`).

`SyncStores_proofs`, of the Git store, for any tasks and changes: `GitInv` is inductive. `ChangeKept` is inductive with
the types alone. `NothingLeftBehind` needs `TakenUp`: as long as nothing went wrong, whatever is on
the way has somebody who will take it up: a commit not yet pushed has a flush that will push, what was added a task at its commit,
what was written the flag or a flush that has not added yet, and a stash the flag.

Of the WebDAV store, for any devices, records and nonces: `DavInv` is inductive. `IndexedFilesExist`
needs `JobsFit`, what a device that is at a certain request has written before.
`UpsertSticks` needs `Alone`: while passes do not overlap, the one in progress writes later versions
only, the file before the index, and has read the index as it is. `ReadBackArbitrates` needs `Rivalry`: once
one of two rivals has passed, the other does not find its nonce any more. `PassesExclude` needs `Exclusive`: while nothing
excuses an overlap, the lock in the file is that of the one holder, is neither released nor overdue,
and the lock that a device about to write its own has seen stands no more, if it is still there.

`DirectoryLock_proofs`, for any processes: `LockInv` gives `TypeOK`, for which the next file needs an
identity that nothing refers to (`SupplyAssumption`: the lock, the temp file and one handle per process are
fewer than the files). `ExcludesUntilTakenOver` is what is left of `Exclusion`, which the run `lock_exclusion`
refutes: there is one holder at a time as long as every takeover begins with a lock file that is still there
and whose writer is not at work on it (`LeftBehind`). So the two ways to lose exclusion are those that hypothesis names: judging
a lock that its process is still writing or still holds, and judging one that has just been removed.

`ConnectionsServe` and `ServicesServe` say that every behaviour of the two compositions is one of each of its three
services, so the theorems above hold of all three together; `ConnectionsTypes` and `ServicesTypes` are instances of it.

`TerminalIngress_proofs`, for any chunks, sizes and budgets, has two invariants. `AnswersInv`: a chunk
is queued or delivered only if its send was accepted; while the receiver receives, or has ended by itself, an
accepted chunk is one or the other; and when the last handle is gone no send is in progress, so that
the receiver that finds the queue empty then has parsed all of it. `BudgetInv`: free permits and
reservations add up to the budget and the counter is the sum of the counted reservations (`Accounts`);
which step of a send has which reservation (`SendsFit`); a chunk is in the queue or with the parser once, and
waits for permits once (`QueueFits`, `WaitersFit`). `BudgetKept` alone is not inductive: that the
counter stays above zero needs that every chunk which is taken off it was counted. The sums are
those of the community modules, recursive over sets; `SumIsVolume` shows that such a sum is the number of pairs of a
chunk and one of its bytes, by the least set for which it would not be, and the laws of sums then are those of
cardinalities.

The assumptions are those of the modules: distinct marker values, natural bounds, natural
clock offsets, finitely many clients of the registry, more files than there are processes and nonces enough in
`DirectoryLock`, a write of at least one line, and requests that are not named like the
other things a terminal's channel carries. Nothing else is assumed.

The prover found two mistakes of the models. Two arms of the `CASE` in `AfterPull` (`GitStore`) overlapped,
which TLC resolves by order and TLA+ leaves open; the second arm now says what the first excludes. And
`UNION S \ T` (`PersonalSync`) was read in one way by TLC and in another by the prover; it now has parentheses.

Only model-checked:

* liveness (`EventsAreTaken`, `Converges`, `Recovers`, `IdleIsReaped`, `EveryTransferFinishes`,
  `EverySendEnds`): out of the prover's reach;
* `DeletionSticks`: it needs an account of every event and every decision of a user, besides that of the edits, and
  fails with events that are lost, a deletion that is refused, rows that cannot be deleted, or long forms (section 5).

## 5. Limits

What the model shows and no run claims:

* With clocks that differ, or with several writes within one second, the planner can take
  a remote change for an old one; `NoSilentLoss` then fails. `VersionsIdentify` says that the versions
  themselves keep their worth there, and nothing of what the planner makes of the times.
* A credential that cannot be deleted leaves a conflict; what the user then gets is not stated as a property.
* A form that was opened before the first upload of its row and saved after it uploads the
  record again under a new id, and so does an edit of an entry on a stale list; the same
  happens when the application is killed between an upload and `mark_synced`. Records
  are then duplicated, not lost.
* Use cloud during a pass that has planned the download of the same record leaves two rows
  with one cloud id, and the devices do not converge. Use cloud applies the
  snapshot of the conflict, which the next pass replaces when the store has moved on.
* A row deleted after a pass has taken its events and before it lists the rows is
  downloaded again by that pass; the next one pushes the deletion and uploads the row
  again. `DeletionSticks` therefore needs `QuietUser`.
* A deletion that becomes a conflict during a pass is not among the paused records of that
  pass, so a row that came back as above is uploaded over the record the pass has just
  paused; `worker_tests.rs:267` describes the opposite. `PausedUntouched` and, when the other
  device resolves at that moment, `NoBlindOverwrite` need `QuietUser` too.
* A form that was opened before the first upload of its row and saved after it makes the row nameless again. Deleting that row
  queues no event, and the record of the first upload is downloaded again: with `LongForms` and two cloud ids
  `DeletionSticks` does not hold.
* A pass whose deletion the store refuses, because another device settled a conflict on that record meanwhile,
  ends, and the rest of its events are gone, as those of any pass that fails; the other records it should have deleted are downloaded again.
  It takes two records, two deletions and a conflict; `sync` has one record and does not reach it.
* A credential that a connection still refers to is not deleted (`Referenced`); the remote
  deletion becomes a conflict, whose "use local" brings the record back on every device.

Left out: encryption and checksums (contents stand for them), workspaces and
`finalize_pass`, rows with sync disabled and team rows (the source filters them), missing
storage at start-up, the manifest and the layout of the package, re-encryption and wiping
of the cloud data, and the two-statement insert of a download.
The Git store is not a store of the kind `PersonalSync` assumes: it works on a clone, with the
lock in the clone, and `GitStore` speaks of the way of a change to the remote only.

What the newer models show and no run claims:

* *WebDAV.* When the PUT of a record succeeds and the rewriting of the index fails for good, the file is one
  version ahead of the index. `list_records` returns the version of the file, the next update expects it, and `upsert_record`
  compares it with that of the index: `Conflict` at this and every later pass. The comment at
  `webdav_store.rs:16-19` has the next full scan restore what concurrent writers lost of the index; this
  difference needs one device only, and no scan removes it.
* *WebDAV.* `PassesExclude` is worth what `excuse` leaves: PUT without a precondition hides a lock
  that was written between the read and the PUT, and a device that read the file before the winner's PUT may
  write after the winner has read back; then both pass. `release_lock` reads and then overwrites, too.
* *Git.* A push that failed is not retried until the next change, since the flag was cleared. A flush that
  runs while a probe has the changes stashed finds nothing to commit; a pop takes the stash
  pushed last, whoever pushed it; a rebase that stops after the stash stays stopped; conflict markers that a pop
  leaves are committed by the next flush.
* *Terminal.* Over SSH the command of a request can overtake input of the user that the actor keeps
  back (`ssh_backend.rs:916`) and then runs on a line with text. Type-ahead, or a prompt
  after an interrupt, does the same on any terminal: the next prompt counts as a clean line.
* *Terminal.* `on_input` takes one write for one submitted line if it holds a newline anywhere
  (`exec_supervisor/mod.rs:151-156`). After `ls`, newline, `pwd`, newline in one write, pasted or sent by a tool, the prompt behind
  `ls` counts as the awaited one: a request submitted there is answered with the exit code of `pwd`. After
  `ls`, newline, `foo` the text is on the line at that prompt, `input_dirty` is false, and the
  command of the request is appended to it; the comment at `mod.rs:158-161` calls the Ctrl+C that is missing here
  safer than that. Without `~multiline`, TLC finds `CompletionIsOwn` and
  `AgentCommandOnCleanLine` violated in this way with one such write. Several initialization commands, or an agent's command of
  several lines, have the first effect, and neither property is claimed after them.
* *Terminal.* Initialization commands do not withdraw a waiting request (`TerminalInputSource::InitCommand`),
  and may be sent while a command runs; prompts then come that nobody waited for (`disturbed`).
* *Registry.* While clients come and go without pause, an overdue candidate may wait.

Not modelled in these components: the session manager behind a slot and its reconnects, the
drop of a registry that was not shut down, progress and history of transfers,
the control lane of the queue, WebDAV's probe and manifest; of the terminal, what section 2.8 lists.

## 6. Plan

1. `DeletionSticks` as a theorem, from an account of which edits a device has decided about and what still
   says so (event, conflict, row); the planner's remaining facts (which list, for which comparison of times).
2. `VersionedStore`, an abstract store with compare-and-set, which each backend refines or is shown not to;
   re-encryption and wiping as further writers; the WebDAV conflict above as a run of its own.
3. Composition of `PersonalSyncRuntime` with the pass: what a dropped event costs.
4. `Approvals`, `AgentInput`, `ShutdownRegistry`, the team engine's queue: one module each, largest
   hazard first; the smaller runs above give way to them where they overlap.
