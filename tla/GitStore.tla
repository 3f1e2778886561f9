------------------------------ MODULE GitStore ------------------------------
(***************************************************************************)
(* The Git sync store (core/cloud_sync/personal/git_store.rs): one clone,  *)
(* a pass that writes record files into it, and the flushes and probes     *)
(* that run git in it, each action one command.  A flush commits and       *)
(* pushes; both pull with the self-healing of pull_with_self_heal.  What   *)
(* git does is modelled from how the store reads its outcome: success, a   *)
(* merge conflict, or any other failure.  Another device pushes to the     *)
(* same remote, and the program may be restarted.                          *)
(***************************************************************************)
EXTENDS Naturals, Sequences

CONSTANTS
    GitTask,        \* flushes and probes that may be in progress together
    Change,         \* writes of passes to record files that git tracks
    MaxMishap,      \* commands that fail by themselves, and restarts (a bound)
    MaxRemoteMoves  \* pushes of the other device (a bound)

ASSUME GitAssumption == {MaxMishap, MaxRemoteMoves} \subseteq Nat

VARIABLES
    dirty,      \* GitSyncStore::dirty
    accepted,   \* changes the pass has written into the clone
    marking,    \* a change was written and mark_dirty comes next
    work,       \* changes in the worktree only
    staged,     \* changes added to the index
    ahead,      \* changes committed and not pushed
    remote,     \* changes on the remote
    stash,      \* the stash, last pushed first
    rebasing,   \* a rebase has stopped
    unmerged,   \* files with conflict markers
    behind,     \* what the remote has that the clone has not
    gitTask,    \* the command each task comes to, and why it runs
    moves, mishaps,
    mended,     \* history: since everything was last pushed no task failed, and
                \* no flush ran while another task had the changes stashed
    discarded   \* history: changes git was told to throw away

clone == <<work, staged, ahead, remote, stash, rebasing, unmerged, behind>>
gitVars == <<dirty, accepted, marking, clone, gitTask, moves, mishaps, mended, discarded>>

Steps == {"idle", "status", "add", "commit", "push", "pull", "abort", "pullAgain",
          "abortAgain", "stash", "reset", "pullStashed", "pop", "popFailed", "pushAgain"}

Rest == [at |-> "idle", why |-> "flush"]

GitInit ==
    /\ dirty = FALSE /\ marking = FALSE
    /\ accepted = {} /\ work = {} /\ staged = {} /\ ahead = {} /\ remote = {}
    /\ stash = <<>>
    /\ rebasing = FALSE /\ unmerged = FALSE
    /\ behind = "nothing"
    /\ gitTask = [t \in GitTask |-> Rest]
    /\ moves = 0 /\ mishaps = 0
    /\ mended = TRUE
    /\ discarded = {}

GitTypeOK ==
    /\ {dirty, marking, rebasing, unmerged, mended} \subseteq BOOLEAN
    /\ {accepted, work, staged, ahead, remote, discarded} \subseteq SUBSET Change
    /\ stash \in Seq(SUBSET Change)
    /\ behind \in {"nothing", "commits", "collisions"}
    /\ gitTask \in [GitTask -> [at : Steps, why : {"flush", "probe"}]]
    /\ moves \in 0..MaxRemoteMoves /\ mishaps \in 0..MaxMishap

-----------------------------------------------------------------------------
\* upsert_record and tombstone_record write a file ...
WriteFile(c) ==
    /\ c \notin accepted
    /\ ~marking
    /\ accepted' = accepted \cup {c}
    /\ work' = work \cup {c}
    /\ marking' = TRUE
    /\ UNCHANGED <<dirty, staged, ahead, remote, stash, rebasing, unmerged, behind, gitTask, moves, mishaps, mended, discarded>>

\* ... and mark the store dirty.
MarkDirty ==
    /\ marking
    /\ dirty' = TRUE
    /\ marking' = FALSE
    /\ UNCHANGED <<accepted, clone, gitTask, moves, mishaps, mended, discarded>>

RemoteMoves ==
    /\ moves < MaxRemoteMoves
    /\ moves' = moves + 1
    /\ behind' \in {"commits", "collisions"}
    /\ UNCHANGED <<dirty, accepted, marking, work, staged, ahead, remote, stash, rebasing, unmerged, gitTask, mishaps, mended, discarded>>

\* The program is restarted: the flag and the tasks are gone.
Restart ==
    /\ mishaps < MaxMishap
    /\ mishaps' = mishaps + 1
    /\ dirty' = FALSE /\ marking' = FALSE
    /\ gitTask' = [t \in GitTask |-> Rest]
    /\ mended' = FALSE
    /\ UNCHANGED <<accepted, clone, moves, discarded>>

-----------------------------------------------------------------------------
Goes(t, step) == gitTask' = [gitTask EXCEPT ![t].at = step]

\* Faulty variant: a task that failed is not over.
StopsDead(t) == gitTask' = [gitTask EXCEPT ![t].at = "failed"] /\ mended' = FALSE

\* The task ends with an error.
GivesUp(t) == gitTask' = [gitTask EXCEPT ![t] = Rest] /\ mended' = FALSE

\* A command that fails although nothing in the clone makes it.
Mishap == mishaps < MaxMishap /\ mishaps' = mishaps + 1

\* flush takes the flag before anything is committed.
BeginFlush(t) ==
    /\ gitTask[t].at = "idle"
    /\ dirty
    /\ dirty' = FALSE
    /\ gitTask' = [gitTask EXCEPT ![t] = [at |-> "status", why |-> "flush"]]
    /\ mended' = (mended /\ stash = <<>>)
    /\ UNCHANGED <<accepted, marking, clone, moves, mishaps, discarded>>

BeginProbe(t) ==
    /\ gitTask[t].at = "idle"
    /\ gitTask' = [gitTask EXCEPT ![t] = [at |-> "pull", why |-> "probe"]]
    /\ UNCHANGED <<dirty, accepted, marking, clone, moves, mishaps, mended, discarded>>

Status(t) ==
    /\ gitTask[t].at = "status"
    /\ IF work \cup staged = {} /\ ~unmerged
       THEN gitTask' = [gitTask EXCEPT ![t] = Rest]
       ELSE Goes(t, "add")
    /\ UNCHANGED <<dirty, accepted, marking, clone, moves, mishaps, mended, discarded>>

\* git add resolves what was unmerged, conflict markers and all.
Add(t) ==
    /\ gitTask[t].at = "add"
    /\ staged' = staged \cup work
    /\ work' = {}
    /\ unmerged' = FALSE
    /\ Goes(t, "commit")
    /\ UNCHANGED <<dirty, accepted, marking, ahead, remote, stash, rebasing, behind, moves, mishaps, mended, discarded>>

\* "Nothing to commit" counts as success; unmerged files are an error.
Commit(t) ==
    /\ gitTask[t].at = "commit"
    /\ IF unmerged
       THEN GivesUp(t) /\ UNCHANGED <<staged, ahead>>
       ELSE /\ ahead' = ahead \cup staged
            /\ staged' = {}
            /\ Goes(t, "push")
            /\ UNCHANGED mended
    /\ UNCHANGED <<dirty, accepted, marking, work, remote, stash, rebasing, unmerged, behind, moves, mishaps, discarded>>

\* status, add or commit fails: the flush ends, its flag already cleared.
CommandFails(t) ==
    /\ gitTask[t].at \in {"status", "add", "commit"}
    /\ Mishap
    /\ GivesUp(t)
    /\ UNCHANGED <<dirty, accepted, marking, clone, moves, discarded>>

\* Faulty variant: the flag is cleared when the push is done.
PushDoneClears(t) ==
    /\ gitTask[t].at \in {"push", "pushAgain"}
    /\ behind = "nothing"
    /\ ~rebasing
    /\ remote' = remote \cup ahead
    /\ ahead' = {}
    /\ dirty' = FALSE
    /\ gitTask' = [gitTask EXCEPT ![t] = Rest]
    /\ mended' = (mended \/ (work \cup staged = {} /\ stash = <<>> /\ ~unmerged))
    /\ UNCHANGED <<accepted, marking, work, staged, stash, rebasing, unmerged, behind, moves, mishaps, discarded>>

PushDone(t) ==
    /\ gitTask[t].at \in {"push", "pushAgain"}
    /\ behind = "nothing"
    /\ ~rebasing
    /\ remote' = remote \cup ahead
    /\ ahead' = {}
    /\ gitTask' = [gitTask EXCEPT ![t] = Rest]
    /\ mended' = (mended \/ (work \cup staged = {} /\ stash = <<>> /\ ~unmerged))
    /\ UNCHANGED <<dirty, accepted, marking, work, staged, stash, rebasing, unmerged, behind, moves, mishaps, discarded>>

\* The remote has more commits, HEAD is detached by a rebase, or the network
\* is down: once, the store pulls and pushes again.
PushFails(t) ==
    /\ gitTask[t].at \in {"push", "pushAgain"}
    /\ IF behind = "nothing" /\ ~rebasing THEN Mishap ELSE UNCHANGED mishaps
    /\ IF gitTask[t].at = "push"
       THEN Goes(t, "pull") /\ UNCHANGED mended
       ELSE GivesUp(t)
    /\ UNCHANGED <<dirty, accepted, marking, clone, moves, discarded>>

\* Wrong credentials end the task at any push or pull.
AuthFails(t) ==
    /\ gitTask[t].at \in {"push", "pushAgain", "pull", "pullAgain"}
    /\ Mishap
    /\ GivesUp(t)
    /\ UNCHANGED <<dirty, accepted, marking, clone, moves, discarded>>

-----------------------------------------------------------------------------
Pulls == {"pull", "pullAgain", "pullStashed"}

\* git refuses to pull over changed files, or in the middle of a rebase.
PullRefused == rebasing \/ work \cup staged # {}

\* A pull brought the clone up to date.
AfterPull(t) ==
    CASE gitTask[t].at = "pullStashed" -> Goes(t, "pop")
      [] gitTask[t].at # "pullStashed" /\ gitTask[t].why = "flush" -> Goes(t, "pushAgain")
      [] OTHER -> gitTask' = [gitTask EXCEPT ![t] = Rest]

PullDone(t) ==
    /\ gitTask[t].at \in Pulls
    /\ ~unmerged /\ ~PullRefused
    /\ behind = "collisions" => ahead = {}
    /\ behind' = "nothing"
    /\ AfterPull(t)
    /\ UNCHANGED <<dirty, accepted, marking, work, staged, ahead, remote, stash, rebasing, unmerged, moves, mishaps, mended, discarded>>

\* MergeConflict: abort the rebase and try once more, except after a stash.
PullConflicts(t) ==
    /\ gitTask[t].at \in Pulls
    /\ \/ unmerged /\ UNCHANGED <<rebasing, unmerged>>
       \/ /\ ~unmerged /\ ~PullRefused
          /\ behind = "collisions" /\ ahead # {}
          /\ rebasing' = TRUE /\ unmerged' = TRUE
    /\ Goes(t, CASE gitTask[t].at = "pull" -> "abort"
                [] gitTask[t].at = "pullAgain" -> "abortAgain"
                [] OTHER -> "popFailed")
    /\ UNCHANGED <<dirty, accepted, marking, work, staged, ahead, remote, stash, behind, moves, mishaps, mended, discarded>>

\* CommandFailed: stash the sync package and try once more.
PullFails(t) ==
    /\ gitTask[t].at \in Pulls
    /\ ~unmerged
    /\ IF PullRefused THEN UNCHANGED mishaps ELSE Mishap
    /\ CASE gitTask[t].at = "pull" -> Goes(t, "stash") /\ UNCHANGED mended
         [] gitTask[t].at = "pullAgain" -> GivesUp(t)
         [] OTHER -> Goes(t, "popFailed") /\ UNCHANGED mended
    /\ UNCHANGED <<dirty, accepted, marking, clone, moves, discarded>>

\* git rebase --abort restores the branch, and the files as committed.
Abort(t) ==
    /\ gitTask[t].at \in {"abort", "abortAgain"}
    /\ IF rebasing
       THEN /\ rebasing' = FALSE /\ unmerged' = FALSE
            /\ discarded' = discarded \cup work \cup staged
            /\ work' = {} /\ staged' = {}
       ELSE UNCHANGED <<rebasing, unmerged, discarded, work, staged>>
    /\ IF gitTask[t].at = "abort"
       THEN Goes(t, "pullAgain") /\ UNCHANGED mended
       ELSE GivesUp(t)
    /\ UNCHANGED <<dirty, accepted, marking, ahead, remote, stash, behind, moves, mishaps>>

-----------------------------------------------------------------------------
\* git stash push succeeds without a new stash when nothing has changed.
Stash(t) ==
    /\ gitTask[t].at = "stash"
    /\ ~unmerged
    /\ IF work \cup staged = {}
       THEN UNCHANGED <<stash, mended>>
       ELSE /\ stash' = <<work \cup staged>> \o stash
            /\ mended' = (mended /\ \A u \in GitTask \ {t} : gitTask[u] = Rest)
    /\ work' = {} /\ staged' = {}
    /\ Goes(t, "pullStashed")
    /\ UNCHANGED <<dirty, accepted, marking, ahead, remote, rebasing, unmerged, behind, moves, mishaps, discarded>>

StashFails(t) ==
    /\ gitTask[t].at = "stash"
    /\ IF unmerged THEN UNCHANGED mishaps ELSE Mishap
    /\ Goes(t, "reset")
    /\ UNCHANGED <<dirty, accepted, marking, clone, moves, mended, discarded>>

\* git checkout of the sync package, its result ignored; it refuses
\* unmerged files and leaves what was added.
Reset(t) ==
    /\ gitTask[t].at = "reset"
    /\ IF unmerged
       THEN UNCHANGED <<work, discarded>>
       ELSE /\ discarded' = discarded \cup work
            /\ work' = {}
    /\ Goes(t, "pullStashed")
    /\ UNCHANGED <<dirty, accepted, marking, staged, ahead, remote, stash, rebasing, unmerged, behind, moves, mishaps, mended>>

\* Faulty variant: every stash goes with the one that is applied.
PopClears(t) ==
    /\ gitTask[t].at \in {"pop", "popFailed"}
    /\ stash # <<>> /\ ~unmerged
    /\ work' = work \cup Head(stash)
    /\ stash' = <<>>
    /\ IF gitTask[t].at = "pop" THEN AfterPull(t) /\ UNCHANGED mended ELSE GivesUp(t)
    /\ UNCHANGED <<dirty, accepted, marking, staged, ahead, remote, rebasing, unmerged, behind, moves, mishaps, discarded>>

\* git stash pop takes the stash pushed last, whoever pushed it.
PopDone(t) ==
    /\ gitTask[t].at \in {"pop", "popFailed"}
    /\ stash # <<>> /\ ~unmerged
    /\ work' = work \cup Head(stash)
    /\ stash' = Tail(stash)
    /\ IF gitTask[t].at = "pop" THEN AfterPull(t) /\ UNCHANGED mended ELSE GivesUp(t)
    /\ UNCHANGED <<dirty, accepted, marking, staged, ahead, remote, rebasing, unmerged, behind, moves, mishaps, discarded>>

\* A failed pop is only logged: there was nothing to pop, or the stash stays
\* and the files may be left with conflict markers.
PopFails(t) ==
    /\ gitTask[t].at \in {"pop", "popFailed"}
    /\ IF stash = <<>> \/ unmerged
       THEN UNCHANGED <<unmerged, mishaps>>
       ELSE Mishap /\ unmerged' \in BOOLEAN
    /\ IF gitTask[t].at = "pop"
       THEN AfterPull(t) /\ mended' = (mended /\ stash = <<>>)
       ELSE GivesUp(t)
    /\ UNCHANGED <<dirty, accepted, marking, work, staged, ahead, remote, stash, rebasing, behind, moves, discarded>>

-----------------------------------------------------------------------------
GitTaskStep(t) ==
    \/ BeginFlush(t) \/ BeginProbe(t)
    \/ Status(t) \/ Add(t) \/ Commit(t) \/ CommandFails(t)
    \/ PushDone(t) \/ PushFails(t) \/ AuthFails(t)
    \/ PullDone(t) \/ PullConflicts(t) \/ PullFails(t) \/ Abort(t)
    \/ Stash(t) \/ StashFails(t) \/ Reset(t)
    \/ PopDone(t) \/ PopFails(t)

GitNext ==
    \/ \E c \in Change : WriteFile(c)
    \/ MarkDirty
    \/ RemoteMoves
    \/ Restart
    \/ \E t \in GitTask : GitTaskStep(t)

GitSpec == GitInit /\ [][GitNext]_gitVars

-----------------------------------------------------------------------------
\* A change the store accepted is never dropped on the way: it is on the
\* remote, committed, in the worktree or in a stash, through every pull,
\* rebase, stash and pop of two tasks that share the clone, unless git was
\* told to throw it away (reset_sync_package, or an aborted rebase under a
\* pass that kept writing).
ChangeKept ==
    \A c \in accepted :
        \/ c \in work \cup staged \cup ahead \cup remote \cup discarded
        \/ \E i \in DOMAIN stash : c \in stash[i]

\* When nothing is in progress, the store is not dirty and nothing went
\* wrong since everything was last pushed, every accepted change is on the
\* remote: clearing the flag before the commit loses nothing by itself, with
\* flushes that overlap each other, probes and writes (flush, take_dirty).
NothingLeftBehind ==
    (mended /\ ~dirty /\ ~marking /\ \A t \in GitTask : gitTask[t] = Rest)
        => accepted \subseteq remote \cup discarded
=============================================================================
