------------------------ MODULE PersonalSyncRuntime ------------------------
(***************************************************************************)
(* The scheduling of personal-sync passes inside one running application: *)
(* the event queue of PersonalSyncWorker (core/cloud_sync/personal/        *)
(* worker.rs) and the GPUI-side runtime that starts, tags and finishes the *)
(* tasks draining it (navop_app/personal_sync_runtime.rs).                 *)
(*                                                                         *)
(* A task is one spawned future together with the foreground continuation *)
(* that receives its result.  The code tags every operation with a         *)
(* generation number and only ever compares it with the newest one, so the *)
(* model keeps `owner`, the task holding the newest generation; "no task   *)
(* holds it any more" is NoTask.                                           *)
(***************************************************************************)
EXTENDS FiniteSets, Naturals

CONSTANTS
    Task,         \* slots for futures in flight (a bound: the code has no limit)
    Worker,       \* slots for PersonalSyncWorker instances still referenced
    Event,        \* PersonalSyncEvent values other than FullScan
    FullScan,     \* PersonalSyncEvent::FullScan
    Config,       \* the runtime configurations the settings can name
    AutoConfig,   \* those of them with auto_sync switched on
    Off,          \* sync disabled or not configured
    NoTask, NoWorker

ASSUME RuntimeAssumption ==
    /\ FullScan \notin Event
    /\ AutoConfig \subseteq Config
    /\ Off \notin Config
    /\ NoTask \notin Task
    /\ NoWorker \notin Worker

VARIABLES
    config,       \* active_config, Off for None
    runtime,      \* the worker of the running runtime, NoWorker for None
    status,       \* PersonalSyncRuntimeStatus
    owner,        \* the task whose generation is the newest
    pendingDrain, \* pending_auto_drain
    worker,       \* WorkerState of each worker: pending, active, dirty
    task          \* the futures in flight

vars == <<config, runtime, status, owner, pendingDrain, worker, task>>

Status == {"Disabled", "Ready", "Syncing", "Failed"}

WorkerState == [pending : SUBSET (Event \cup {FullScan}),
                active : BOOLEAN, dirty : BOOLEAN]

TaskState == [kind : {"none", "drain", "watch", "operation"},
              on : Worker \cup {NoWorker},
              pc : {"idle", "spawned", "running", "flushing", "done"},
              ok : BOOLEAN]

FreshWorker == [pending |-> {}, active |-> FALSE, dirty |-> FALSE]

IdleTask == [kind |-> "none", on |-> NoWorker, pc |-> "idle", ok |-> TRUE]

FreeTask == {t \in Task : task[t].pc = "idle"}

(***************************************************************************)
(* PersonalSyncWorker::enqueue, under the worker's mutex.                  *)
(***************************************************************************)
Enqueue(w, e) ==
    worker' = [worker EXCEPT ![w].pending = @ \cup {e},
                             ![w].dirty = @ \/ worker[w].active]

(***************************************************************************)
(* begin_operation for task t: the newest generation is now t's.           *)
(***************************************************************************)
BeginOperation(t, kind, w) ==
    /\ task' = [task EXCEPT ![t] =
                  [kind |-> kind, on |-> w, pc |-> "spawned", ok |-> TRUE]]
    /\ owner' = t
    /\ status' = "Syncing"

\* start_runtime_drain, called while the status is st: it does nothing when a
\* sync is already shown or no runtime runs.
StartRuntimeDrain(st) ==
    IF st = "Syncing" \/ runtime = NoWorker
    THEN status' = st /\ UNCHANGED <<owner, task>>
    ELSE \E t \in FreeTask : BeginOperation(t, "drain", runtime)

\* Faulty variant: a failed operation leaves the status alone.
StatusAfterSuccess(t, ok) == IF owner = t /\ ok THEN "Ready" ELSE status

\* The status once task t finished with outcome ok: an outdated generation
\* changes nothing.
StatusAfter(t, ok) ==
    IF owner # t THEN status ELSE IF ok THEN "Ready" ELSE "Failed"

Init ==
    /\ config = Off
    /\ runtime = NoWorker
    /\ status = "Disabled"
    /\ owner = NoTask
    /\ pendingDrain = FALSE
    /\ worker = [w \in Worker |-> FreshWorker]
    /\ task = [t \in Task |-> IdleTask]

-----------------------------------------------------------------------------
(***************************************************************************)
(* The settings change: a new runtime (or none, when its watcher cannot be *)
(* started) replaces the old one, whose tasks keep running.                *)
(***************************************************************************)
\* Worker slots that neither the runtime nor any task refers to.
UnusedWorker ==
    Worker \ ({runtime} \cup {task[t].on : t \in Task})

ReconcileStarts(c) ==
    /\ config # c \/ runtime = NoWorker
    /\ config' = c
    /\ \E w \in UnusedWorker :
          /\ runtime' = w
          /\ worker' = [worker EXCEPT ![w] = FreshWorker]
    /\ status' = "Ready"
    /\ UNCHANGED <<owner, pendingDrain, task>>

ReconcileFails(c) ==
    /\ config # c \/ runtime = NoWorker
    /\ config' = c
    /\ runtime' = NoWorker
    /\ status' = "Failed"
    /\ UNCHANGED <<owner, pendingDrain, worker, task>>

ReconcileOff ==
    /\ config' = Off
    /\ runtime' = NoWorker
    /\ status' = "Disabled"
    /\ owner' = NoTask
    /\ pendingDrain' = FALSE
    /\ UNCHANGED <<worker, task>>

(***************************************************************************)
(* Sources of work.                                                        *)
(***************************************************************************)
\* enqueue_auto_sync_event: a local change, or the 60 second timer.
AutoEvent(e) ==
    /\ config \in AutoConfig
    /\ runtime # NoWorker
    /\ FreeTask # {}
    /\ Enqueue(runtime, e)
    /\ StartRuntimeDrain(status)
    /\ pendingDrain' = (pendingDrain \/ status = "Syncing")
    /\ UNCHANGED <<config, runtime>>

PeriodicTick == AutoEvent(FullScan)

\* The directory watcher of the running runtime drains on its own, without
\* telling the runtime's status.
WatcherEvent(e) ==
    /\ config \in AutoConfig
    /\ runtime # NoWorker
    /\ Cardinality(FreeTask) > 1
    /\ Enqueue(runtime, e)
    /\ \E t \in FreeTask :
          task' = [task EXCEPT ![t] = [kind |-> "watch", on |-> runtime,
                                       pc |-> "spawned", ok |-> TRUE]]
    /\ UNCHANGED <<config, runtime, status, owner, pendingDrain>>

\* sync_now while the runtime of the current configuration runs.
SyncNow ==
    /\ runtime # NoWorker
    /\ FreeTask # {}
    /\ Enqueue(runtime, FullScan)
    /\ StartRuntimeDrain(status)
    /\ UNCHANGED <<config, runtime, pendingDrain>>

\* An operation that drains no queue of the running worker.
StartOperation ==
    /\ config # Off
    /\ Cardinality(FreeTask) > 1
    /\ \E t \in FreeTask : BeginOperation(t, "operation", NoWorker)
    /\ UNCHANGED <<config, runtime, pendingDrain, worker>>

TestConnection == StartOperation

\* One conflict or a batch of them; what it changes is in PersonalSync.
ResolveConflicts == StartOperation

\* sync_now without a runtime: a full scan by a worker of its own.
TemporaryScan == runtime = NoWorker /\ StartOperation

(***************************************************************************)
(* The tasks.                                                              *)
(***************************************************************************)
\* Faulty variant: begin_drain does not look at `active`.
BeginDrainAnyway(t) ==
    LET w == task[t].on IN
    /\ task[t].pc = "spawned"
    /\ task[t].kind \in {"drain", "watch"}
    /\ worker[w].pending # {}
    /\ worker' = [worker EXCEPT ![w].pending = {}, ![w].active = TRUE]
    /\ task' = [task EXCEPT ![t].pc = "running"]
    /\ UNCHANGED <<config, runtime, status, owner, pendingDrain>>

\* begin_drain with work to do: the queued events become this pass's.
BeginDrain(t) ==
    LET w == task[t].on IN
    /\ task[t].pc = "spawned"
    /\ task[t].kind \in {"drain", "watch"}
    /\ ~ worker[w].active
    /\ worker[w].pending # {}
    /\ worker' = [worker EXCEPT ![w].pending = {}, ![w].active = TRUE]
    /\ task' = [task EXCEPT ![t].pc = "running"]
    /\ UNCHANGED <<config, runtime, status, owner, pendingDrain>>

\* begin_drain returning None: drain_once succeeds at once.
NothingToDrain(t) ==
    LET w == task[t].on IN
    /\ task[t].pc = "spawned"
    /\ task[t].kind \in {"drain", "watch"}
    /\ worker[w].active \/ worker[w].pending = {}
    /\ task' = [task EXCEPT ![t].pc = "flushing"]
    /\ UNCHANGED <<config, runtime, status, owner, pendingDrain, worker>>

\* Faulty variant: finish_drain is skipped when the pass failed.
FinishDrainIfOk(t, ok) ==
    LET w == task[t].on IN
    /\ task[t].pc = "running"
    /\ worker' = IF ok
                 THEN [worker EXCEPT
                         ![w].active = FALSE,
                         ![w].dirty = FALSE,
                         ![w].pending = @ \cup (IF worker[w].dirty THEN {FullScan} ELSE {})]
                 ELSE worker
    /\ task' = [task EXCEPT ![t].ok = ok,
                            ![t].pc = IF ok THEN "flushing" ELSE "done"]
    /\ UNCHANGED <<config, runtime, status, owner, pendingDrain>>

\* run_pass returned and finish_drain ran; a failed pass skips the flush.
FinishDrain(t, ok) ==
    LET w == task[t].on IN
    /\ task[t].pc = "running"
    /\ worker' = [worker EXCEPT
                    ![w].active = FALSE,
                    ![w].dirty = FALSE,
                    ![w].pending = @ \cup (IF worker[w].dirty THEN {FullScan} ELSE {})]
    /\ task' = [task EXCEPT ![t].ok = ok,
                            ![t].pc = IF ok THEN "flushing" ELSE "done"]
    /\ UNCHANGED <<config, runtime, status, owner, pendingDrain>>

Flush(t, ok) ==
    /\ task[t].pc = "flushing"
    /\ task' = [task EXCEPT ![t].ok = ok, ![t].pc = "done"]
    /\ UNCHANGED <<config, runtime, status, owner, pendingDrain, worker>>

WatchDone(t) ==
    /\ task[t].kind = "watch"
    /\ task[t].pc = "done"
    /\ task' = [task EXCEPT ![t] = IdleTask]
    /\ UNCHANGED <<config, runtime, status, owner, pendingDrain, worker>>

\* finish_operation, for an operation of any outcome.
OperationDone(t, ok) ==
    /\ task[t].kind = "operation"
    /\ task' = [task EXCEPT ![t] = IdleTask]
    /\ status' = StatusAfter(t, ok)
    /\ owner' = IF owner = t THEN NoTask ELSE owner
    /\ UNCHANGED <<config, runtime, pendingDrain, worker>>

\* Faulty variant: the follow-up drain starts although no runtime is left.
DrainDoneUnchecked(t) ==
    LET st == StatusAfter(t, task[t].ok) IN
    /\ task[t].kind = "drain"
    /\ task[t].pc = "done"
    /\ pendingDrain' = FALSE
    /\ IF pendingDrain /\ st # "Syncing"
       THEN BeginOperation(t, "drain", runtime)
       ELSE /\ task' = [task EXCEPT ![t] = IdleTask]
            /\ status' = st
            /\ owner' = IF owner = t THEN NoTask ELSE owner
    /\ UNCHANGED <<config, runtime, worker>>

\* finish_operation_and_maybe_drain: the flag is consumed, and a drain for the
\* events that came meanwhile reuses the slot of the task that ends.
DrainDone(t) ==
    LET st == StatusAfter(t, task[t].ok) IN
    /\ task[t].kind = "drain"
    /\ task[t].pc = "done"
    /\ pendingDrain' = FALSE
    /\ IF pendingDrain /\ st # "Syncing" /\ runtime # NoWorker
       THEN BeginOperation(t, "drain", runtime)
       ELSE /\ task' = [task EXCEPT ![t] = IdleTask]
            /\ status' = st
            /\ owner' = IF owner = t THEN NoTask ELSE owner
    /\ UNCHANGED <<config, runtime, worker>>

-----------------------------------------------------------------------------
Reconcile ==
    \/ ReconcileOff
    \/ \E c \in Config : ReconcileStarts(c) \/ ReconcileFails(c)

Arrival ==
    \/ PeriodicTick
    \/ SyncNow
    \/ TestConnection \/ ResolveConflicts \/ TemporaryScan
    \/ \E e \in Event : AutoEvent(e) \/ WatcherEvent(e)

TaskStep(t) ==
    \/ BeginDrain(t) \/ NothingToDrain(t)
    \/ \E ok \in BOOLEAN : FinishDrain(t, ok) \/ Flush(t, ok) \/ OperationDone(t, ok)
    \/ WatchDone(t) \/ DrainDone(t)

Next ==
    \/ Reconcile
    \/ Arrival
    \/ \E t \in Task : TaskStep(t)

Spec == Init /\ [][Next]_vars

(***************************************************************************)
(* Fairness: every future runs to its end (each store call has a timeout   *)
(* or is local), and the 60 second timer fires again and again at moments  *)
(* when no operation is shown: the user does not keep one operation going  *)
(* after the other forever.                                                *)
(***************************************************************************)
Fairness ==
    /\ \A t \in Task : WF_vars(TaskStep(t))
    /\ SF_vars(status # "Syncing" /\ PeriodicTick)

FairSpec == Spec /\ Fairness

-----------------------------------------------------------------------------
TypeOK ==
    /\ config \in Config \cup {Off}
    /\ runtime \in Worker \cup {NoWorker}
    /\ status \in Status
    /\ owner \in Task \cup {NoTask}
    /\ pendingDrain \in BOOLEAN
    /\ worker \in [Worker -> WorkerState]
    /\ task \in [Task -> TaskState]
    /\ \A t \in Task : task[t].kind \in {"drain", "watch"} => task[t].on \in Worker

\* drain_once may be entered by the runtime, by any number of watcher
\* callbacks and by sync_now at the same time; at most one of them is inside
\* run_pass of the same worker.
OnePassPerWorker ==
    \A t, u \in Task :
        (task[t].pc = "running" /\ task[u].pc = "running" /\ task[t].on = task[u].on)
            => t = u

\* How a task's parts fit together; with the two invariants around it, this is
\* what every step preserves.
TaskShape ==
    \A t \in Task :
        /\ task[t].kind = "none" <=> task[t].pc = "idle"
        /\ task[t].pc = "running" =>
              /\ task[t].kind \in {"drain", "watch"}
              /\ worker[task[t].on].active

\* While the status says "syncing", no automatic or manual trigger starts a
\* drain (start_runtime_drain returns early).  So there must always be a task
\* in flight that owns the newest generation and will take the status back;
\* otherwise personal sync stops for good.
SyncingHasOwner ==
    status = "Syncing" =>
        /\ owner \in Task
        /\ task[owner].kind \in {"drain", "operation"}

RuntimeInv == TypeOK /\ TaskShape /\ OnePassPerWorker /\ SyncingHasOwner

\* No wake-up is lost: with auto sync on, an event queued on the running worker
\* is taken by a pass, however the runtime's drains, the watcher's drains and
\* conflict resolutions overlap (unless the settings replace the runtime).
EventsAreTaken ==
    \A w \in Worker, e \in Event \cup {FullScan} :
        (runtime = w /\ config \in AutoConfig /\ e \in worker[w].pending)
            ~> (runtime # w \/ config \notin AutoConfig \/ e \notin worker[w].pending)
=============================================================================
