--------------------- MODULE PersonalSyncRuntime_proofs ---------------------
(***************************************************************************)
(* The safety invariants of PersonalSyncRuntime, for any number of tasks,  *)
(* workers, events and configurations.                                     *)
(***************************************************************************)
EXTENDS PersonalSyncRuntime, TLAPS

\* A fresh application (no runtime, no task) satisfies the inductive invariant.
LEMMA InitInv == Init => RuntimeInv
<1> SUFFICES ASSUME Init PROVE RuntimeInv
  OBVIOUS
<1>1. TypeOK
  BY DEF Init, TypeOK, Status, WorkerState, TaskState, FreshWorker, IdleTask
<1>2. TaskShape /\ OnePassPerWorker /\ SyncingHasOwner
  BY DEF Init, TaskShape, OnePassPerWorker, SyncingHasOwner, IdleTask
<1> QED
  BY <1>1, <1>2 DEF RuntimeInv

\* Every handler of the runtime and every step of a task preserves the inductive
\* invariant; one step per action.
LEMMA NextInv == RuntimeInv /\ [Next]_vars => RuntimeInv'
<1> SUFFICES ASSUME RuntimeInv, [Next]_vars PROVE RuntimeInv'
  OBVIOUS
<1> USE RuntimeAssumption
<1> USE DEF RuntimeInv, TypeOK, TaskShape, OnePassPerWorker, SyncingHasOwner,
            Status, WorkerState, TaskState, FreshWorker, IdleTask
<1>1. CASE ReconcileOff
  BY <1>1 DEF ReconcileOff
<1>2. ASSUME NEW c \in Config, ReconcileStarts(c) PROVE RuntimeInv'
  <2>1. PICK w \in UnusedWorker :
          /\ runtime' = w
          /\ worker' = [worker EXCEPT ![w] = FreshWorker]
    BY <1>2 DEF ReconcileStarts
  <2> QED
    BY <1>2, <2>1 DEF ReconcileStarts, UnusedWorker
<1>3. ASSUME NEW c \in Config, ReconcileFails(c) PROVE RuntimeInv'
  BY <1>3 DEF ReconcileFails
<1>4. ASSUME NEW e \in Event \cup {FullScan}, AutoEvent(e) PROVE RuntimeInv'
  <2>1. CASE status = "Syncing" \/ runtime = NoWorker
    BY <2>1, <1>4 DEF AutoEvent, Enqueue, StartRuntimeDrain
  <2>2. CASE ~ (status = "Syncing" \/ runtime = NoWorker)
    <3>1. PICK t \in FreeTask : BeginOperation(t, "drain", runtime)
      BY <2>2, <1>4 DEF AutoEvent, StartRuntimeDrain
    <3>2. /\ worker' \in [Worker -> WorkerState]
          /\ \A w \in Worker : worker'[w].active = worker[w].active
      BY <1>4 DEF AutoEvent, Enqueue
    <3> QED
      BY <3>1, <3>2, <2>2, <1>4 DEF AutoEvent, BeginOperation, FreeTask
  <2> QED
    BY <2>1, <2>2
<1>5. ASSUME NEW e \in Event, WatcherEvent(e) PROVE RuntimeInv'
  BY <1>5 DEF WatcherEvent, Enqueue, FreeTask
<1>6. CASE SyncNow
  <2>1. CASE status = "Syncing" \/ runtime = NoWorker
    BY <2>1, <1>6 DEF SyncNow, Enqueue, StartRuntimeDrain
  <2>2. CASE ~ (status = "Syncing" \/ runtime = NoWorker)
    <3>1. PICK t \in FreeTask : BeginOperation(t, "drain", runtime)
      BY <2>2, <1>6 DEF SyncNow, StartRuntimeDrain
    <3>2. /\ worker' \in [Worker -> WorkerState]
          /\ \A w \in Worker : worker'[w].active = worker[w].active
      BY <1>6 DEF SyncNow, Enqueue
    <3> QED
      BY <3>1, <3>2, <2>2, <1>6 DEF SyncNow, BeginOperation, FreeTask
  <2> QED
    BY <2>1, <2>2
<1>7. CASE TestConnection \/ ResolveConflicts \/ TemporaryScan
  <2>1. StartOperation
    BY <1>7 DEF TestConnection, ResolveConflicts, TemporaryScan
  <2> QED
    BY <2>1 DEF StartOperation, BeginOperation, FreeTask
<1>8. ASSUME NEW t \in Task, BeginDrain(t) PROVE RuntimeInv'
  BY <1>8 DEF BeginDrain
<1>9. ASSUME NEW t \in Task, NothingToDrain(t) PROVE RuntimeInv'
  BY <1>9 DEF NothingToDrain
<1>10. ASSUME NEW t \in Task, NEW ok \in BOOLEAN, FinishDrain(t, ok) PROVE RuntimeInv'
  BY <1>10 DEF FinishDrain
<1>11. ASSUME NEW t \in Task, NEW ok \in BOOLEAN, Flush(t, ok) PROVE RuntimeInv'
  BY <1>11 DEF Flush
<1>12. ASSUME NEW t \in Task, WatchDone(t) PROVE RuntimeInv'
  BY <1>12 DEF WatchDone
<1>13. ASSUME NEW t \in Task, NEW ok \in BOOLEAN, OperationDone(t, ok) PROVE RuntimeInv'
  BY <1>13 DEF OperationDone, StatusAfter
<1>14. ASSUME NEW t \in Task, DrainDone(t) PROVE RuntimeInv'
  <2> DEFINE again == pendingDrain /\ StatusAfter(t, task[t].ok) # "Syncing"
                      /\ runtime # NoWorker
  <2>1. CASE again
    <3>1. /\ BeginOperation(t, "drain", runtime)
          /\ pendingDrain' = FALSE
          /\ UNCHANGED <<config, runtime, worker>>
          /\ runtime \in Worker
      BY <2>1, <1>14 DEF DrainDone
    <3> QED
      BY <3>1 DEF BeginOperation
  <2>2. CASE ~ again
    <3>1. /\ task[t].kind = "drain" /\ task[t].pc = "done"
          /\ task' = [task EXCEPT ![t] = IdleTask]
          /\ status' = StatusAfter(t, task[t].ok)
          /\ owner' = IF owner = t THEN NoTask ELSE owner
          /\ pendingDrain' = FALSE
          /\ UNCHANGED <<config, runtime, worker>>
      BY <2>2, <1>14 DEF DrainDone
    <3>2. status' \in Status /\ (status' = "Syncing" => owner # t /\ status = "Syncing")
      BY <3>1 DEF StatusAfter
    <3>3. TypeOK'
      BY <3>1, <3>2
    <3>4. TaskShape' /\ OnePassPerWorker'
      BY <3>1
    <3>5. SyncingHasOwner'
      BY <3>1, <3>2
    <3> QED
      BY <3>3, <3>4, <3>5
  <2> QED
    BY <2>1, <2>2
<1>15. CASE UNCHANGED vars
  BY <1>15 DEF vars
<1> QED
  BY <1>1, <1>2, <1>3, <1>4, <1>5, <1>6, <1>7, <1>8, <1>9, <1>10, <1>11,
     <1>12, <1>13, <1>14, <1>15
     DEF Next, Reconcile, Arrival, PeriodicTick, TaskStep

\* The inductive invariant holds in every reachable state: types, the shape of a
\* task, one pass per worker and an owner for every "syncing".
THEOREM RuntimeInvariant == Spec => []RuntimeInv
  BY InitInv, NextInv, PTL DEF Spec

\* PersonalSyncWorker: drain_once, entered by any number of callers, never runs
\* two passes of one worker at the same time (the `active` flag of begin_drain).
THEOREM OnePass == Spec => []OnePassPerWorker
<1>1. RuntimeInv => OnePassPerWorker
  BY DEF RuntimeInv
<1> QED
  BY <1>1, RuntimeInvariant, PTL

\* PersonalSyncRuntime: whenever the status is Syncing, a task in flight owns the
\* newest generation and will end it, whatever reconciles happened meanwhile.
THEOREM SyncingEnds == Spec => []SyncingHasOwner
<1>1. RuntimeInv => SyncingHasOwner
  BY DEF RuntimeInv
<1> QED
  BY <1>1, RuntimeInvariant, PTL

\* Every variable keeps its type; a drain always runs on a worker.
THEOREM TypeCorrect == Spec => []TypeOK
<1>1. RuntimeInv => TypeOK
  BY DEF RuntimeInv
<1> QED
  BY <1>1, RuntimeInvariant, PTL
=============================================================================
