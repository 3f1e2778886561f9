------------------------- MODULE SshSessionRegistry -------------------------
(***************************************************************************)
(* The registry of shared SSH sessions (ssh/session_registry.rs): clients  *)
(* that acquire, clone and release leases, the detached flights that       *)
(* create managers, retirement, the reaper of idle generations, and the    *)
(* shutdown of the service.  An action is what the code does under one     *)
(* hold of the registry lock, with the notifications it sends right after. *)
(*                                                                         *)
(* A generation stands for a CreationToken and for the manager its flight  *)
(* produces; an idle candidate for its identity, reused when nothing       *)
(* refers to it any more; its deadline is only past or not.                *)
(***************************************************************************)
EXTENDS FiniteSets, Naturals

CONSTANTS
    Client,         \* tasks that acquire, each holding at most one lease
    Key,            \* connection keys
    MaxGeneration,  \* generations created (a bound)
    Candidate,      \* identities of idle candidates
    NoKey, NoCandidate

ASSUME RegistryAssumption ==
    /\ MaxGeneration \in Nat
    /\ IsFiniteSet(Client)
    /\ NoKey \notin Key
    /\ NoCandidate \notin Candidate

Generation == 1..MaxGeneration
None == 0

VARIABLES
    slot,        \* key to its RegistrySlot
    generation,  \* next_generation
    lifecycle,   \* SshSessionServiceState
    client,      \* where each client is in acquire, and its lease
    flight,      \* creation tasks that run: generation to key, or NoKey
    manager,     \* what has become of a generation's manager
    due,         \* candidates whose deadline has passed
    reaper,      \* the reaper: where it is, what it waits for, its permit
    tasks,       \* task_count
    report       \* what shutdown returned

registryVars ==
    <<slot, generation, lifecycle, client, flight, manager, due, reaper, tasks, report>>

NoSlot == [kind |-> "none", gen |-> None, waiters |-> {}, leases |-> 0, idle |-> NoCandidate]
Creating(g, waiting) == [NoSlot EXCEPT !.kind = "creating", !.gen = g, !.waiters = waiting]
Ready(g, count, idle) ==
    [NoSlot EXCEPT !.kind = "ready", !.gen = g, !.leases = count, !.idle = idle]

Away == [at |-> "away", key |-> NoKey, gen |-> None, counted |-> FALSE]
Waiting(k) == [Away EXCEPT !.at = "waiting", !.key = k]
Again(k) == [Away EXCEPT !.at = "again", !.key = k]
Lease(k, g, counts) == [at |-> "leased", key |-> k, gen |-> g, counted |-> counts]

NoSchedule == [key |-> NoKey, gen |-> None, idle |-> NoCandidate]

RegistryInit ==
    /\ slot = [k \in Key |-> NoSlot]
    /\ generation = 0
    /\ lifecycle = "running"
    /\ client = [c \in Client |-> Away]
    /\ flight = [g \in Generation |-> NoKey]
    /\ manager = [g \in Generation |-> "none"]
    /\ due = {}
    /\ reaper = [at |-> "off", next |-> NoSchedule, permit |-> FALSE]
    /\ tasks = 0
    /\ report = "none"

RegistryTypeOK ==
    /\ slot \in [Key ->
           [kind : {"none", "creating", "ready"}, gen : Generation \cup {None},
            waiters : SUBSET Client, leases : 0..Cardinality(Client),
            idle : Candidate \cup {NoCandidate}]]
    /\ generation \in 0..MaxGeneration
    /\ lifecycle \in {"running", "shuttingDown", "stopped"}
    /\ client \in [Client ->
           [at : {"away", "waiting", "again", "leased"}, key : Key \cup {NoKey},
            gen : Generation \cup {None}, counted : BOOLEAN]]
    /\ flight \in [Generation -> Key \cup {NoKey}]
    /\ manager \in [Generation -> {"none", "live", "reaping", "closing", "closed"}]
    /\ due \subseteq Candidate
    /\ reaper \in [at : {"off", "look", "wait"}, permit : BOOLEAN,
           next : [key : Key \cup {NoKey}, gen : Generation \cup {None},
                   idle : Candidate \cup {NoCandidate}]]
    /\ tasks \in 0..(MaxGeneration + 1)
    /\ report \in {"none", "clean", "timedOut"}

-----------------------------------------------------------------------------
\* IdleCandidate::new: an identity nothing refers to, its deadline ahead.
FreshCandidates == Candidate \ ({slot[k].idle : k \in Key} \cup {reaper.next.idle})

\* Faulty variant: whatever generation the slot of the key has.
CurrentKey(k, g, kind) == slot[k].kind = kind

\* token.is_same_flight: the slot of k is that of generation g.
Current(k, g, kind) == slot[k].kind = kind /\ slot[k].gen = g

\* Faulty variant: the reaper is not told.
WakeNobody(r) == r

\* notify_one on the reaper: a permit when nobody waits.
WakeReaper(r) == [r EXCEPT !.permit = TRUE]

\* Faulty variant: waiters hear of a published generation only.
NotifyPublished(waiters, outcome) ==
    client' = [c \in Client |->
        IF c \in waiters /\ outcome = "published" THEN Again(client[c].key) ELSE client[c]]

\* notify_waiters: what a waiting acquire does with the outcome.
Notify(waiters, outcome) ==
    client' = [c \in Client |->
        IF c \notin waiters THEN client[c]
        ELSE IF outcome = "failed" THEN Away ELSE Again(client[c].key)]

\* The idle slots the reaper may select, those overdue first.
IdleKeys == {k \in Key : slot[k].kind = "ready" /\ slot[k].leases = 0
                         /\ slot[k].idle # NoCandidate}
EarliestIdle ==
    IF \E k \in IdleKeys : slot[k].idle \in due
    THEN {k \in IdleKeys : slot[k].idle \in due}
    ELSE IdleKeys

Cancelled == lifecycle # "running"

-----------------------------------------------------------------------------
\* The first acquire that is admitted starts the reaper's task.
StartReaper(r) == IF r.at = "off" THEN [r EXCEPT !.at = "look"] ELSE r

\* Faulty variant: the reaper's task is not counted.
ReaperUncounted == 0

\* ... and counts it.
ReaperTask == IF reaper.at = "off" THEN 1 ELSE 0

\* Faulty variant: the lifecycle is not looked at under the lock.
AlwaysAdmitted == TRUE

Admitted == lifecycle = "running"

Asks(c, k) ==
    \/ client[c].at = "away"
    \/ client[c].at = "again" /\ client[c].key = k

\* acquire, the slot is Ready: one more lease, and it is idle no longer.
AcquireReady(c, k) ==
    /\ Asks(c, k)
    /\ Admitted
    /\ slot[k].kind = "ready"
    /\ slot' = [slot EXCEPT ![k] = Ready(@.gen, @.leases + 1, NoCandidate)]
    /\ client' = [client EXCEPT ![c] = Lease(k, slot[k].gen, TRUE)]
    /\ reaper' = IF slot[k].idle # NoCandidate THEN WakeReaper(reaper) ELSE reaper
    /\ UNCHANGED <<generation, lifecycle, flight, manager, due, tasks, report>>

\* acquire, another acquire is creating: wait for the outcome of its flight.
AcquireJoins(c, k) ==
    /\ Asks(c, k)
    /\ Admitted
    /\ slot[k].kind = "creating"
    /\ slot' = [slot EXCEPT ![k] = Creating(@.gen, @.waiters \cup {c})]
    /\ client' = [client EXCEPT ![c] = Waiting(k)]
    /\ UNCHANGED <<generation, lifecycle, flight, manager, due, reaper, tasks, report>>

\* acquire, no slot: a new generation and a detached flight for it.
AcquireStarts(c, k) ==
    /\ Asks(c, k)
    /\ Admitted
    /\ slot[k].kind = "none"
    /\ generation < MaxGeneration
    /\ generation' = generation + 1
    /\ slot' = [slot EXCEPT ![k] = Creating(generation', {c})]
    /\ client' = [client EXCEPT ![c] = Waiting(k)]
    /\ flight' = [flight EXCEPT ![generation'] = k]
    /\ reaper' = StartReaper(reaper)
    /\ tasks' = tasks + 1 + ReaperTask
    /\ UNCHANGED <<lifecycle, manager, due, report>>

\* acquire after shutdown began: an error.
AcquireRefused(c) ==
    /\ client[c].at = "again"
    /\ lifecycle # "running"
    /\ client' = [client EXCEPT ![c] = Away]
    /\ UNCHANGED <<slot, generation, lifecycle, flight, manager, due, reaper, tasks, report>>

\* The future of a waiting acquire is dropped; its sender sends to nobody.
CancelAcquire(c) ==
    /\ client[c].at \in {"waiting", "again"}
    /\ client' = [client EXCEPT ![c] = Away]
    /\ slot' = [k \in Key |-> [slot[k] EXCEPT !.waiters = @ \ {c}]]
    /\ UNCHANGED <<generation, lifecycle, flight, manager, due, reaper, tasks, report>>

-----------------------------------------------------------------------------
\* take_current_creation: the flight's slot is taken if it still is its own.
TakesSlot(g) == Current(flight[g], g, "creating")

EndFlight(g) ==
    /\ flight' = [flight EXCEPT ![g] = NoKey]
    /\ tasks' = tasks - 1

\* finish_creation with a manager: published, idle from the start.
Publish(g) ==
    /\ flight[g] # NoKey
    /\ TakesSlot(g)
    /\ lifecycle = "running"
    /\ FreshCandidates # {}
    /\ LET idle == CHOOSE i \in FreshCandidates : TRUE IN
        /\ slot' = [slot EXCEPT ![flight[g]] = Ready(g, 0, idle)]
        /\ due' = due \ {idle}
    /\ Notify(slot[flight[g]].waiters, "published")
    /\ manager' = [manager EXCEPT ![g] = "live"]
    /\ reaper' = WakeReaper(reaper)
    /\ EndFlight(g)
    /\ UNCHANGED <<generation, lifecycle, report>>

\* finish_creation with an error, or the flight cancelled (CreationCleanup).
FailFlight(g) ==
    /\ flight[g] # NoKey
    /\ TakesSlot(g)
    /\ slot' = [slot EXCEPT ![flight[g]] = NoSlot]
    /\ Notify(slot[flight[g]].waiters, "failed")
    /\ EndFlight(g)
    /\ UNCHANGED <<generation, lifecycle, manager, due, reaper, report>>

\* The slot was retired or drained meanwhile: the result is dropped.
StaleFlight(g) ==
    /\ flight[g] # NoKey
    /\ ~TakesSlot(g)
    /\ EndFlight(g)
    /\ UNCHANGED <<slot, generation, lifecycle, client, manager, due, reaper, report>>

-----------------------------------------------------------------------------
\* RegistryLease::release, also from Drop.
Release(c) ==
    /\ client[c].at = "leased"
    /\ client' = [client EXCEPT ![c] = Away]
    /\ LET k == client[c].key
            own == client[c].counted /\ Current(k, client[c].gen, "ready")
                   /\ slot[k].leases > 0
       IN
        \/ /\ ~own
           /\ UNCHANGED <<slot, due, reaper>>
        \/ /\ own
           /\ slot[k].leases > 1
           /\ slot' = [slot EXCEPT ![k].leases = @ - 1]
           /\ UNCHANGED <<due, reaper>>
        \/ /\ own
           /\ slot[k].leases = 1
           /\ FreshCandidates # {}
           /\ LET idle == CHOOSE i \in FreshCandidates : TRUE IN
               /\ slot' = [slot EXCEPT ![k] = Ready(@.gen, 0, idle)]
               /\ due' = due \ {idle}
           /\ reaper' = WakeReaper(reaper)
    /\ UNCHANGED <<generation, lifecycle, flight, manager, tasks, report>>

\* RegistryLease::clone, given to a client that has none.
CloneLease(c, d) ==
    /\ client[c].at = "leased"
    /\ client[d].at = "away"
    /\ LET k == client[c].key
            counts == client[c].counted /\ Current(k, client[c].gen, "ready")
       IN
        /\ client' = [client EXCEPT ![d] = Lease(k, client[c].gen, counts)]
        /\ slot' = IF counts
                   THEN [slot EXCEPT ![k] = Ready(@.gen, @.leases + 1, NoCandidate)]
                   ELSE slot
        /\ reaper' = IF counts /\ slot[k].idle # NoCandidate
                     THEN WakeReaper(reaper) ELSE reaper
    /\ UNCHANGED <<generation, lifecycle, flight, manager, due, tasks, report>>

\* retire: the slot goes, its manager stays with whoever uses it.
Retire(k) ==
    /\ slot[k].kind # "none"
    /\ slot' = [slot EXCEPT ![k] = NoSlot]
    /\ Notify(slot[k].waiters, "superseded")
    /\ reaper' = WakeReaper(reaper)
    /\ UNCHANGED <<generation, lifecycle, flight, manager, due, tasks, report>>
-----------------------------------------------------------------------------
\* The deadline of a candidate passes.
Deadline(i) ==
    /\ \E k \in Key : slot[k].idle = i
    /\ i \notin due
    /\ due' = due \cup {i}
    /\ UNCHANGED <<slot, generation, lifecycle, client, flight, manager, reaper, tasks, report>>

\* next_idle_candidate: select what to wait for, nothing if nothing is idle.
ReaperLooks ==
    /\ reaper.at = "look"
    /\ ~Cancelled
    /\ \/ /\ IdleKeys = {}
          /\ reaper' = [reaper EXCEPT !.at = "wait", !.next = NoSchedule]
       \/ \E k \in EarliestIdle :
             reaper' = [reaper EXCEPT !.at = "wait",
                 !.next = [key |-> k, gen |-> slot[k].gen, idle |-> slot[k].idle]]
    /\ UNCHANGED <<slot, generation, lifecycle, client, flight, manager, due, tasks, report>>

\* reaper_notify.notified: select again.
ReaperNotified ==
    /\ reaper.at = "wait"
    /\ reaper.permit
    /\ reaper' = [at |-> "look", next |-> NoSchedule, permit |-> FALSE]
    /\ UNCHANGED <<slot, generation, lifecycle, client, flight, manager, due, tasks, report>>

\* Faulty variant: a lease taken meanwhile does not count.
IsExpired(n) == Current(n.key, n.gen, "ready") /\ n.idle \in due

\* take_expired_manager: the slot is still that very idle candidate's.
IsCurrentExpired(n) ==
    /\ Current(n.key, n.gen, "ready")
    /\ slot[n.key].leases = 0
    /\ slot[n.key].idle = n.idle
    /\ n.idle \in due

\* sleep_until elapsed: the generation leaves its slot and is disconnected.
ReaperExpires ==
    /\ reaper.at = "wait"
    /\ reaper.next # NoSchedule
    /\ reaper.next.idle \in due
    /\ IF IsCurrentExpired(reaper.next)
       THEN /\ slot' = [slot EXCEPT ![reaper.next.key] = NoSlot]
            /\ manager' = [manager EXCEPT ![reaper.next.gen] = "reaping"]
       ELSE UNCHANGED <<slot, manager>>
    /\ reaper' = [reaper EXCEPT !.at = "look", !.next = NoSchedule]
    /\ UNCHANGED <<generation, lifecycle, client, flight, due, tasks, report>>

\* disconnects.join_next: a disconnect ended, with or without an error.
Disconnected(g) ==
    /\ manager[g] = "reaping"
    /\ reaper.at = "wait"
    /\ manager' = [manager EXCEPT ![g] = "closed"]
    /\ reaper' = [reaper EXCEPT !.at = "look", !.next = NoSchedule]
    /\ UNCHANGED <<slot, generation, lifecycle, client, flight, due, tasks, report>>

\* The reaper sees the cancellation: disconnects under way are aborted.
ReaperStops ==
    /\ reaper.at # "off"
    /\ Cancelled
    /\ reaper' = [reaper EXCEPT !.at = "off", !.next = NoSchedule]
    /\ manager' = [g \in Generation |-> IF manager[g] = "reaping" THEN "closed" ELSE manager[g]]
    /\ tasks' = tasks - 1
    /\ UNCHANGED <<slot, generation, lifecycle, client, flight, due, report>>

-----------------------------------------------------------------------------
ReadyGenerations == {slot[k].gen : k \in {k \in Key : slot[k].kind = "ready"}}

\* begin_shutdown: drain the slots, gate the published managers, fail the
\* acquires that wait, and cancel every task of the registry.
BeginShutdown ==
    /\ lifecycle = "running"
    /\ lifecycle' = "shuttingDown"
    /\ slot' = [k \in Key |-> NoSlot]
    /\ manager' = [g \in Generation |->
                      IF g \in ReadyGenerations THEN "closing" ELSE manager[g]]
    /\ Notify(UNION {slot[k].waiters : k \in Key}, "failed")
    /\ UNCHANGED <<generation, flight, due, reaper, tasks, report>>

\* shutdown_for_registry of one manager ended.
ManagerStopped(g) ==
    /\ manager[g] = "closing"
    /\ report = "none"
    /\ manager' = [manager EXCEPT ![g] = "closed"]
    /\ UNCHANGED <<slot, generation, lifecycle, client, flight, due, reaper, tasks, report>>

\* run_shutdown, every manager stopped and wait_for_tasks returned.
ShutdownConverges ==
    /\ lifecycle = "shuttingDown"
    /\ \A g \in Generation : manager[g] # "closing"
    /\ tasks = 0
    /\ lifecycle' = "stopped"
    /\ report' = "clean"
    /\ UNCHANGED <<slot, generation, client, flight, manager, due, reaper, tasks>>

\* run_shutdown, the deadline elapsed: what is left is aborted.
ShutdownTimesOut ==
    /\ lifecycle = "shuttingDown"
    /\ lifecycle' = "stopped"
    /\ report' = "timedOut"
    /\ manager' = [g \in Generation |-> IF manager[g] = "closing" THEN "closed" ELSE manager[g]]
    /\ UNCHANGED <<slot, generation, client, flight, due, reaper, tasks>>

-----------------------------------------------------------------------------
ClientStep(c) ==
    \/ \E k \in Key : AcquireReady(c, k) \/ AcquireJoins(c, k) \/ AcquireStarts(c, k)
    \/ AcquireRefused(c)
    \/ CancelAcquire(c)
    \/ Release(c)
    \/ \E d \in Client : CloneLease(c, d)

FlightStep(g) == Publish(g) \/ FailFlight(g) \/ StaleFlight(g)

ReaperStep ==
    \/ ReaperLooks \/ ReaperNotified \/ ReaperExpires \/ ReaperStops
    \/ \E g \in Generation : Disconnected(g)

ShutdownStep ==
    \/ BeginShutdown \/ ShutdownConverges \/ ShutdownTimesOut
    \/ \E g \in Generation : ManagerStopped(g)

RegistryNext ==
    \/ \E c \in Client : ClientStep(c)
    \/ \E g \in Generation : FlightStep(g)
    \/ \E k \in Key : Retire(k)
    \/ \E i \in Candidate : Deadline(i)
    \/ ReaperStep
    \/ ShutdownStep

\* Tokio polls the reaper's task and its timers elapse.
RegistryFairness ==
    /\ WF_registryVars(ReaperLooks \/ ReaperNotified \/ ReaperExpires)
    /\ \A i \in Candidate : WF_registryVars(Deadline(i))

RegistrySpec == RegistryInit /\ [][RegistryNext]_registryVars /\ RegistryFairness
-----------------------------------------------------------------------------
Leases(g) == {c \in Client : client[c].at = "leased" /\ client[c].gen = g}

\* A published slot counts exactly the clients that hold a counted lease of
\* its generation, whatever was retired, replaced, cloned or released in
\* between, and it is idle exactly when it counts none.  The count is what
\* the reaper trusts (lease_count, session_registry.rs).
LeaseAccounting ==
    \A k \in Key : slot[k].kind = "ready" =>
        /\ slot[k].leases = Cardinality({c \in Leases(slot[k].gen) : client[c].counted})
        /\ slot[k].leases = 0 <=> slot[k].idle # NoCandidate

\* An acquire that waits is in the waiters of a slot whose flight still
\* runs: neither retirement nor a failed, cancelled or superseded flight
\* leaves it waiting for an outcome nobody will send.
NoStrandedWaiter ==
    \A c \in Client : client[c].at = "waiting" =>
        LET k == client[c].key IN
            /\ slot[k].kind = "creating"
            /\ c \in slot[k].waiters
            /\ flight[slot[k].gen] = k

\* Once shutdown has begun no slot and no manager generation appears again,
\* whichever flights were still creating one.
ClosedForGood ==
    [][lifecycle # "running" =>
          /\ lifecycle' # "running"
          /\ \A k \in Key : slot'[k] = NoSlot
          /\ \A g \in Generation : manager'[g] = "live" => manager[g] = "live"]_registryVars

\* A shutdown that reports full convergence has left no creation flight, no
\* reaper and no manager that is still being stopped or disconnected.
CleanReport ==
    report = "clean" =>
        /\ \A g \in Generation : flight[g] = NoKey /\ manager[g] \notin {"reaping", "closing"}
        /\ reaper.at = "off"

\* Once the clients let the registry be, an idle generation does not stay
\* for ever: it is retired or the reaper's timer finds it, however the last
\* notifications, the deadlines and the reaper's look at the slots interleave.
\* (While clients come and go without pause the reaper may be notified each
\* time before it sees a deadline, since its select! is biased.)
ClientsRest == <>[][client' = client]_registryVars

IdleIsReaped ==
    ClientsRest =>
        \A k \in Key :
            (slot[k].kind = "ready" /\ slot[k].leases = 0) ~> slot[k].leases > 0 \/ slot[k].kind # "ready"

\* The registry keeps the promise of SessionLeases: in particular the reaper
\* never disconnects a generation that a client still uses.
Promise == INSTANCE SessionLeases WITH
    NoGeneration <- None,
    current <- [k \in Key |-> IF slot[k].kind = "ready" THEN slot[k].gen ELSE None],
    uses <- [c \in Client |-> client[c].gen],
    shut <- {g \in Generation : manager[g] \in {"reaping", "closing", "closed"}},
    open <- (lifecycle = "running")

KeepsPromise == Promise!LeasesSpec
=============================================================================
