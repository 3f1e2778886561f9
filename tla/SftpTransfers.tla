---------------------------- MODULE SftpTransfers ----------------------------
(***************************************************************************)
(* SFTP transfers (sftp_transfer/executor.rs, scheduler.rs, operation.rs,  *)
(* record.rs) together with their entries in the background task panel     *)
(* (core/background_tasks.rs): a lane per connection that runs a few       *)
(* transfers and queues the others, uploads that are retried once, and     *)
(* cancellation, which triggers a token at once and is applied to the      *)
(* transfer by a watcher some time later.  Executor and panel run on the   *)
(* UI thread, a handler at a time; the transfer jobs run beside them.      *)
(***************************************************************************)
EXTENDS FiniteSets, FiniteSetsExt, Naturals, Sequences

CONSTANTS
    Transfer, Connection,
    ConnectionOf,   \* transfer to connection
    Upload,         \* the transfers that are uploads
    MaxConcurrent   \* MAX_CONCURRENT_TRANSFERS_PER_CONNECTION

ASSUME SftpAssumption ==
    /\ ConnectionOf \in [Transfer -> Connection]
    /\ Upload \subseteq Transfer
    /\ MaxConcurrent \in Nat \ {0}

VARIABLES
    lane,       \* connection to ConnectionLane
    state,      \* transfer to SftpTransferState, or where it is before that
    token,      \* transfers whose cancellation token was triggered
    flag,       \* transfers whose cancelled flag is set
    job,        \* the task that executes a transfer
    panel       \* BackgroundTaskStatus of the transfer's entry

sftpVars == <<lane, state, token, flag, job, panel>>

Finished == {"Succeeded", "Failed", "Cancelled"}
Active == {"Queued", "Running", "Cancelling"}

SftpInit ==
    /\ lane = [c \in Connection |-> [running |-> {}, pending |-> <<>>]]
    /\ state = [t \in Transfer |-> "none"]
    /\ token = {} /\ flag = {}
    /\ job = [t \in Transfer |-> "none"]
    /\ panel = [t \in Transfer |-> "none"]

SftpTypeOK ==
    /\ lane \in [Connection -> [running : SUBSET Transfer, pending : Seq(Transfer)]]
    /\ state \in [Transfer -> {"none", "reserved", "dropped"} \cup Active \cup Finished]
    /\ token \subseteq Transfer /\ flag \subseteq token
    /\ job \in [Transfer ->
           {"none", "first", "pause", "second", "ok", "error", "stopped", "done"}]
    /\ panel \in [Transfer -> {"none"} \cup Active \cup Finished]

-----------------------------------------------------------------------------
\* BackgroundTaskManager::finish: only these outcomes are accepted, any other
\* leaves the status alone.
PanelAfter(status, outcome) ==
    IF \/ status = "Running"
       \/ status = "Queued" /\ outcome # "Succeeded"
       \/ status = "Cancelling" /\ outcome = "Cancelled"
    THEN outcome ELSE status

PanelRuns(status) == IF status = "Queued" THEN "Running" ELSE status

\* TransferRecord::finish: a triggered token wins over the job's result.
CancellationWins(t) == t \in token \/ t \in flag \/ job[t] = "stopped"

\* Faulty variant: the job's result, whatever was asked meanwhile.
JobOutcome(t) ==
    IF job[t] = "stopped" THEN "Cancelled"
    ELSE IF job[t] = "ok" THEN "Succeeded" ELSE "Failed"

Outcome(t) ==
    IF CancellationWins(t) THEN "Cancelled"
    ELSE IF job[t] = "ok" THEN "Succeeded" ELSE "Failed"

\* Faulty variant: a transfer cancelled in the queue takes a place.
First(pending, n) == SubSeq(pending, 1, Min({n, Len(pending)}))

\* The shortest prefix of the queue that holds n transfers whose token was
\* not triggered, or the whole queue.
Prefix(pending, n) ==
    LET Fresh(k) == Cardinality({i \in 1..k : pending[i] \notin token})
        enough == {k \in 0..Len(pending) : Fresh(k) = n}
    IN SubSeq(pending, 1, IF enough = {} THEN Len(pending) ELSE Min(enough))

\* take_startable and start_transfer, over and over: up to n transfers leave
\* the queue for the lane; one whose token was triggered while it waited is
\* finished as cancelled instead, and the next takes its place.  The lane is
\* what is left of it, and "also" transfers finish in the same handler.
Starts(c, running, pending, n, also, stateOf, panelOf) ==
    LET taken == Prefix(pending, n)
        from == {taken[i] : i \in DOMAIN taken}
        skipped == from \cap token
        started == from \ token
    IN  /\ lane' = [lane EXCEPT ![c] =
               [running |-> running \cup started,
                pending |-> SubSeq(pending, Len(taken) + 1, Len(pending))]]
        /\ state' = [t \in Transfer |->
               IF t \in started THEN "Running" ELSE IF t \in skipped THEN "Cancelled" ELSE stateOf[t]]
        /\ panel' = [t \in Transfer |->
               IF t \in started THEN PanelRuns(panelOf[t])
               ELSE IF t \in skipped THEN PanelAfter(panelOf[t], "Cancelled") ELSE panelOf[t]]
        /\ job' = [t \in Transfer |->
               IF t \in started THEN "first" ELSE IF t \in also THEN "done" ELSE job[t]]

-----------------------------------------------------------------------------
Reserve(t) ==
    /\ state[t] = "none"
    /\ state' = [state EXCEPT ![t] = "reserved"]
    /\ UNCHANGED <<lane, token, flag, job, panel>>

DropReservation(t) ==
    /\ state[t] = "reserved"
    /\ state' = [state EXCEPT ![t] = "dropped"]
    /\ UNCHANGED <<lane, token, flag, job, panel>>

\* commit_request: the transfer joins its lane, which starts what it can.
CommitReserved(t) ==
    /\ state[t] = "reserved"
    /\ LET c == ConnectionOf[t] IN
       Starts(c, lane[c].running, Append(lane[c].pending, t),
              MaxConcurrent - Cardinality(lane[c].running), {},
              [state EXCEPT ![t] = "Queued"], [panel EXCEPT ![t] = "Queued"])
    /\ UNCHANGED <<token, flag>>

\* request_cancel, from the executor or from the panel.
RequestCancel(t) ==
    /\ panel[t] \in {"Queued", "Running"}
    /\ token' = token \cup {t}
    /\ panel' = [panel EXCEPT ![t] = "Cancelling"]
    /\ UNCHANGED <<lane, state, flag, job>>

\* Faulty variant: the transfer stays in the queue.
StillQueued(t) == lane

WithoutQueued(t) ==
    LET pending == lane[ConnectionOf[t]].pending
        position == Min({i \in DOMAIN pending : pending[i] = t})
    IN [lane EXCEPT ![ConnectionOf[t]].pending =
           SubSeq(@, 1, position - 1) \o SubSeq(@, position + 1, Len(@))]

\* The watcher of the token: apply_cancellation and cancel_queued.
ApplyCancellation(t) ==
    /\ t \in token \ flag
    /\ state[t] \in Active
    /\ flag' = flag \cup {t}
    /\ IF state[t] = "Queued"
       THEN /\ lane' = WithoutQueued(t)
            /\ state' = [state EXCEPT ![t] = "Cancelled"]
            /\ panel' = [panel EXCEPT ![t] = PanelAfter(@, "Cancelled")]
       ELSE /\ state' = [state EXCEPT ![t] = "Cancelling"]
            /\ UNCHANGED <<lane, panel>>
    /\ UNCHANGED <<token, job>>
-----------------------------------------------------------------------------
\* The provider's call ends: done, failed for good, or stopped because it saw
\* the flag (execute_transfer).
JobEnds(t) ==
    /\ job[t] \in {"first", "second"}
    /\ \/ job' = [job EXCEPT ![t] = "ok"]
       \/ job' = [job EXCEPT ![t] = "error"]
       \/ t \in flag /\ job' = [job EXCEPT ![t] = "stopped"]
    /\ UNCHANGED <<lane, state, token, flag, panel>>

\* The first attempt of an upload fails in a way that may pass.
UploadFails(t) ==
    /\ t \in Upload
    /\ job[t] = "first"
    /\ job' = [job EXCEPT ![t] = IF t \in flag THEN "stopped" ELSE "pause"]
    /\ UNCHANGED <<lane, state, token, flag, panel>>

\* Faulty variant: the retry of a cancelled upload never returns.
RetryUnlessCancelled(t) ==
    /\ job[t] = "pause" /\ t \notin flag
    /\ job' = [job EXCEPT ![t] = "second"]
    /\ UNCHANGED <<lane, state, token, flag, panel>>

\* UPLOAD_RETRY_DELAY has passed.
RetryUpload(t) ==
    /\ job[t] = "pause"
    /\ job' = [job EXCEPT ![t] = IF t \in flag THEN "stopped" ELSE "second"]
    /\ UNCHANGED <<lane, state, token, flag, panel>>

\* finish_transfer: the record is closed and the lane goes on.
FinishTransfer(t) ==
    /\ job[t] \in {"ok", "error", "stopped"}
    /\ LET c == ConnectionOf[t]
           running == lane[c].running \ {t}
           outcome == Outcome(t)
       IN Starts(c, running, lane[c].pending,
                 IF Cardinality(running) < MaxConcurrent THEN 1 ELSE 0, {t},
                 [state EXCEPT ![t] = outcome], [panel EXCEPT ![t] = PanelAfter(@, outcome)])
    /\ UNCHANGED <<token, flag>>

-----------------------------------------------------------------------------
SftpNext ==
    \E t \in Transfer :
        \/ Reserve(t) \/ DropReservation(t) \/ CommitReserved(t)
        \/ RequestCancel(t) \/ ApplyCancellation(t)
        \/ JobEnds(t) \/ UploadFails(t) \/ RetryUpload(t)
        \/ FinishTransfer(t)

\* Tasks are polled, the retry delay elapses, and the provider's calls end,
\* each SFTP request having a time limit (SFTP_REQUEST_TIMEOUT_SECS).
\* Nothing is assumed of the watchers.
SftpFairness ==
    \A t \in Transfer : WF_sftpVars(JobEnds(t) \/ RetryUpload(t) \/ FinishTransfer(t))

SftpSpec == SftpInit /\ [][SftpNext]_sftpVars /\ SftpFairness

-----------------------------------------------------------------------------
\* A lane holds exactly the transfers that the executor's records call
\* running or queued, each queued one once, never more than the limit at a
\* time, and a job runs for exactly the running ones: whatever is cancelled,
\* skipped or started while another finishes (ConnectionLanes, executor.rs).
LanesMatchRecords ==
    \A c \in Connection :
        LET mine == {t \in Transfer : ConnectionOf[t] = c}
            queued == {t \in mine : state[t] = "Queued"}
            running == {t \in mine : state[t] \in {"Running", "Cancelling"}}
        IN  /\ lane[c].running = running
            /\ Cardinality(running) <= MaxConcurrent
            /\ {lane[c].pending[i] : i \in DOMAIN lane[c].pending} = queued
            /\ Len(lane[c].pending) = Cardinality(queued)
            /\ running = {t \in mine : job[t] \notin {"none", "done"}}

\* No transfer waits while its connection has room for it: a transfer that
\* was cancelled in the queue costs nobody his place (executor.rs, complete).
LaneWorkConserving ==
    \A c \in Connection :
        lane[c].pending # <<>> => Cardinality(lane[c].running) = MaxConcurrent

\* The panel ends with the same verdict as the transfer, and until then it
\* shows the same state or that cancelling was asked for: since the panel
\* refuses any outcome but "cancelled" for a task that is being cancelled, an
\* outcome it refused would leave an entry that cancels for ever.
PanelAgrees ==
    \A t \in Transfer :
        \/ panel[t] = state[t]
        \/ panel[t] = "none" /\ state[t] \in {"reserved", "dropped"}
        \/ panel[t] = "Cancelling" /\ state[t] \in {"Queued", "Running"} /\ t \in token

\* A transfer that was committed ends, however long the queue before it and
\* whoever in it is cancelled.
EveryTransferFinishes ==
    \A t \in Transfer : state[t] = "Queued" ~> state[t] \in Finished
=============================================================================
