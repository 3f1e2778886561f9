--------------------- MODULE SshSessionRegistry_proofs ---------------------
(***************************************************************************)
(* The safety properties of the SSH session registry and its refinement of *)
(* SessionLeases, for any clients, keys, generations and candidates.       *)
(***************************************************************************)
EXTENDS SshSessionRegistry, FiniteSetTheorems, TLAPS

Slot ==
    [kind : {"none", "creating", "ready"}, gen : Generation \cup {None},
     waiters : SUBSET Client, leases : Nat, idle : Candidate \cup {NoCandidate}]

ClientState ==
    [at : {"away", "waiting", "again", "leased"}, key : Key \cup {NoKey},
     gen : Generation \cup {None}, counted : BOOLEAN]

\* Types that need no counting argument.
Types ==
    /\ slot \in [Key -> Slot]
    /\ generation \in 0..MaxGeneration
    /\ lifecycle \in {"running", "shuttingDown", "stopped"}
    /\ client \in [Client -> ClientState]
    /\ flight \in [Generation -> Key \cup {NoKey}]
    /\ manager \in [Generation -> {"none", "live", "reaping", "closing", "closed"}]
    /\ due \subseteq Candidate
    /\ reaper \in [at : {"off", "look", "wait"}, permit : BOOLEAN,
           next : [key : Key \cup {NoKey}, gen : Generation \cup {None},
                   idle : Candidate \cup {NoCandidate}]]
    /\ tasks \in Int
    /\ report \in {"none", "clean", "timedOut"}

\* What a slot, a client and the reaper's choice look like in each of their states.
Shapes ==
    /\ \A k \in Key :
        /\ slot[k].kind = "none" => slot[k] = NoSlot
        /\ slot[k].kind = "creating" => slot[k].leases = 0 /\ slot[k].idle = NoCandidate
        /\ slot[k].kind = "ready" => slot[k].waiters = {}
        /\ slot[k].kind # "none" => slot[k].gen \in Generation
    /\ \A c \in Client :
        /\ client[c].at = "leased" <=> client[c].gen # None
        /\ client[c].at # "away" => client[c].key \in Key
    /\ reaper.next # NoSchedule => reaper.next.key \in Key

\* A generation goes through its flight, its slot and its users in this
\* order, and stands for one key only.
Generations ==
    /\ \A k \in Key : slot[k].kind # "none" =>
        /\ slot[k].gen <= generation
        /\ \A l \in Key \ {k} : slot[l].kind # "none" => slot[l].gen # slot[k].gen
        /\ slot[k].kind = "creating" => flight[slot[k].gen] = k
        /\ slot[k].kind = "ready" => manager[slot[k].gen] = "live"
    /\ \A g \in Generation :
        /\ flight[g] # NoKey => g <= generation /\ manager[g] = "none"
        /\ g > generation => manager[g] = "none"
    /\ \A c \in Client : client[c].at = "leased" => manager[client[c].gen] # "none"

\* The waiters of a slot are the clients that wait for its key.
Waiters ==
    /\ NoStrandedWaiter
    /\ \A k \in Key : \A c \in slot[k].waiters :
          client[c].at = "waiting" /\ client[c].key = k

\* The leases of generation g when the clients are as in "clients".
LeasesIn(clients, g) ==
    {c \in Client : clients[c].at = "leased" /\ clients[c].gen = g}

\* Every lease of a published slot is one that counts, and the count is kept.
Counted ==
    \A k \in Key : slot[k].kind = "ready" =>
        /\ \A c \in LeasesIn(client, slot[k].gen) : client[c].counted /\ client[c].key = k
        /\ slot[k].leases = Cardinality(LeasesIn(client, slot[k].gen))
        /\ slot[k].leases = 0 <=> slot[k].idle # NoCandidate

\* The creation tasks that run when the flights are as in "flights".
FlightsIn(flights) == {g \in Generation : flights[g] # NoKey}

\* The tasks counted are the flights and the reaper, and a disconnect under
\* way is the reaper's.
Tasks ==
    /\ tasks = Cardinality(FlightsIn(flight)) + (IF reaper.at = "off" THEN 0 ELSE 1)
    /\ \A g \in Generation : manager[g] = "reaping" => reaper.at # "off"

Ending ==
    /\ lifecycle # "running" => \A k \in Key : slot[k] = NoSlot
    /\ report # "none" => lifecycle = "stopped"
    /\ CleanReport

RegistryInv ==
    Types /\ Shapes /\ Generations /\ Waiters /\ Counted /\ Tasks /\ Ending

-----------------------------------------------------------------------------
\* The sets the counts are about are finite.
LEMMA FiniteSets ==
    ASSUME NEW clients, NEW g
    PROVE  IsFiniteSet(LeasesIn(clients, g)) /\ Cardinality(LeasesIn(clients, g)) \in Nat
<1>1. LeasesIn(clients, g) \in SUBSET Client
  BY DEF LeasesIn
<1> QED
  BY <1>1, FS_Subset, FS_CardinalityType, RegistryAssumption

LEMMA FlightsFinite ==
    ASSUME NEW flights
    PROVE  IsFiniteSet(FlightsIn(flights)) /\ Cardinality(FlightsIn(flights)) \in Nat
<1>1. FlightsIn(flights) \in SUBSET Generation /\ IsFiniteSet(Generation)
  BY FS_Interval, RegistryAssumption DEF FlightsIn, Generation
<1> QED
  BY <1>1, FS_Subset, FS_CardinalityType

\* Steps that change no lease leave every count of leases alone.
LEMMA LeasesKept ==
    ASSUME NEW before, NEW after,
           \A c \in Client : (before[c].at = "leased" \/ after[c].at = "leased")
                                 => after[c] = before[c]
    PROVE  \A g : LeasesIn(after, g) = LeasesIn(before, g)
  BY DEF LeasesIn

\* A client that gets a lease of generation g is one more user of g.
LEMMA LeaseGained ==
    ASSUME NEW before, NEW after, NEW c \in Client, NEW g,
           before[c].at # "leased", after[c].at = "leased", after[c].gen = g,
           \A d \in Client \ {c} : after[d] = before[d]
    PROVE  /\ LeasesIn(after, g) = LeasesIn(before, g) \cup {c}
           /\ Cardinality(LeasesIn(after, g)) = Cardinality(LeasesIn(before, g)) + 1
           /\ \A h : h # g => LeasesIn(after, h) = LeasesIn(before, h)
<1>1. LeasesIn(after, g) = LeasesIn(before, g) \cup {c} /\ c \notin LeasesIn(before, g)
  BY DEF LeasesIn
<1>2. \A h : h # g => LeasesIn(after, h) = LeasesIn(before, h)
  BY DEF LeasesIn
<1>3. Cardinality(LeasesIn(before, g) \cup {c}) = Cardinality(LeasesIn(before, g)) + 1
  BY <1>1, FiniteSets, FS_AddElement
<1> QED
  BY <1>1, <1>2, <1>3

\* A client that gives its lease of generation g back is one less.
LEMMA LeaseLost ==
    ASSUME NEW before, NEW after, NEW c \in Client, NEW g,
           before[c].at = "leased", before[c].gen = g, after[c].at # "leased",
           \A d \in Client \ {c} : after[d] = before[d]
    PROVE  /\ LeasesIn(after, g) = LeasesIn(before, g) \ {c}
           /\ Cardinality(LeasesIn(after, g)) = Cardinality(LeasesIn(before, g)) - 1
           /\ \A h : h # g => LeasesIn(after, h) = LeasesIn(before, h)
<1>1. LeasesIn(after, g) = LeasesIn(before, g) \ {c} /\ c \in LeasesIn(before, g)
  BY DEF LeasesIn
<1>2. \A h : h # g => LeasesIn(after, h) = LeasesIn(before, h)
  BY DEF LeasesIn
<1>3. Cardinality(LeasesIn(before, g) \ {c}) = Cardinality(LeasesIn(before, g)) - 1
  BY <1>1, FiniteSets, FS_RemoveElement
<1> QED
  BY <1>1, <1>2, <1>3

\* Steps that change no lease and publish nothing keep the counts.
LEMMA CountsKept ==
    ASSUME Counted,
           \A c \in Client : (client[c].at = "leased" \/ client'[c].at = "leased")
                                 => client'[c] = client[c],
           \A k \in Key : slot'[k].kind = "ready" =>
               /\ slot[k].kind = "ready" /\ slot'[k].gen = slot[k].gen
               /\ slot'[k].leases = slot[k].leases /\ slot'[k].idle = slot[k].idle
    PROVE  Counted'
<1>1. \A g : LeasesIn(client', g) = LeasesIn(client, g)
  BY LeasesKept
<1>2. \A g : \A c \in LeasesIn(client, g) : client'[c] = client[c]
  BY DEF LeasesIn
<1> QED
  BY <1>1, <1>2 DEF Counted

\* The fields of the records that steps put into slots and clients.
LEMMA Records ==
    /\ NoSlot \in Slot /\ NoSlot.kind = "none" /\ NoSlot.waiters = {}
    /\ \A g \in Generation, waiting \in SUBSET Client :
        LET s == Creating(g, waiting) IN
        /\ s \in Slot
        /\ s.kind = "creating" /\ s.gen = g /\ s.waiters = waiting
        /\ s.leases = 0 /\ s.idle = NoCandidate
    /\ \A g \in Generation, n \in Nat, i \in Candidate \cup {NoCandidate} :
        LET s == Ready(g, n, i) IN
        /\ s \in Slot
        /\ s.kind = "ready" /\ s.gen = g /\ s.waiters = {}
        /\ s.leases = n /\ s.idle = i
    /\ Away \in ClientState /\ Away.at = "away" /\ Away.gen = None
    /\ \A k \in Key :
        /\ Waiting(k) \in ClientState
        /\ Waiting(k).at = "waiting" /\ Waiting(k).key = k /\ Waiting(k).gen = None
        /\ Again(k) \in ClientState
        /\ Again(k).at = "again" /\ Again(k).key = k /\ Again(k).gen = None
<1> USE DEF Slot, ClientState
<1>1. /\ NoSlot \in Slot /\ NoSlot.kind = "none" /\ NoSlot.waiters = {}
      /\ Away \in ClientState /\ Away.at = "away" /\ Away.gen = None
  BY DEF NoSlot, Away
<1>2. ASSUME NEW g \in Generation, NEW waiting \in SUBSET Client
      PROVE  LET s == Creating(g, waiting) IN
        /\ s \in Slot
        /\ s.kind = "creating" /\ s.gen = g /\ s.waiters = waiting
        /\ s.leases = 0 /\ s.idle = NoCandidate
  BY DEF Creating, NoSlot
<1>3. ASSUME NEW g \in Generation, NEW n \in Nat, NEW i \in Candidate \cup {NoCandidate}
      PROVE  LET s == Ready(g, n, i) IN
        /\ s \in Slot
        /\ s.kind = "ready" /\ s.gen = g /\ s.waiters = {}
        /\ s.leases = n /\ s.idle = i
  BY DEF Ready, NoSlot
<1>4. ASSUME NEW k \in Key
      PROVE  /\ Waiting(k) \in ClientState
             /\ Waiting(k).at = "waiting" /\ Waiting(k).key = k /\ Waiting(k).gen = None
             /\ Again(k) \in ClientState
             /\ Again(k).at = "again" /\ Again(k).key = k /\ Again(k).gen = None
  BY DEF Waiting, Again, Away
<1> QED
  BY <1>1, <1>2, <1>3, <1>4

LEMMA LeaseRecord ==
    ASSUME NEW k \in Key, NEW g \in Generation, NEW counts \in BOOLEAN
    PROVE  /\ Lease(k, g, counts) \in ClientState
           /\ Lease(k, g, counts).at = "leased" /\ Lease(k, g, counts).key = k
           /\ Lease(k, g, counts).gen = g /\ Lease(k, g, counts).counted = counts
  BY DEF Lease, ClientState

\* What membership in Slot and in ClientState says of the fields.
LEMMA Fields ==
    /\ \A s \in Slot :
        /\ s.kind \in {"none", "creating", "ready"} /\ s.gen \in Generation \cup {None}
        /\ s.waiters \in SUBSET Client /\ s.leases \in Nat
        /\ s.idle \in Candidate \cup {NoCandidate}
    /\ \A s \in ClientState :
        /\ s.at \in {"away", "waiting", "again", "leased"} /\ s.key \in Key \cup {NoKey}
        /\ s.gen \in Generation \cup {None} /\ s.counted \in BOOLEAN
    /\ \A g \in Generation : g \in Nat /\ 1 <= g /\ g <= MaxGeneration /\ g # None
  BY RegistryAssumption DEF Slot, ClientState, Generation, None

\* acquire of a published slot keeps the invariant.
LEMMA AcquireReadyKeeps ==
    ASSUME RegistryInv, NEW c \in Client, NEW k \in Key, AcquireReady(c, k)
    PROVE  RegistryInv'
<1>a. Types /\ Shapes /\ Generations /\ Waiters /\ Counted /\ Tasks /\ Ending
  BY DEF RegistryInv
<1> DEFINE s == Ready(slot[k].gen, slot[k].leases + 1, NoCandidate)
           l == Lease(k, slot[k].gen, TRUE)
<1>b. /\ client[c].at \in {"away", "again"}
      /\ slot[k].kind = "ready"
      /\ slot' = [slot EXCEPT ![k] = s]
      /\ client' = [client EXCEPT ![c] = l]
      /\ reaper' = reaper \/ reaper' = [reaper EXCEPT !.permit = TRUE]
      /\ lifecycle = "running"
      /\ UNCHANGED <<generation, lifecycle, flight, manager, due, tasks, report>>
  BY DEF AcquireReady, Asks, Admitted, WakeReaper
<1>c. /\ s \in Slot /\ s.kind = "ready" /\ s.gen = slot[k].gen /\ s.waiters = {}
      /\ s.leases = slot[k].leases + 1 /\ s.idle = NoCandidate
      /\ l \in ClientState /\ l.at = "leased" /\ l.key = k
      /\ l.gen = slot[k].gen /\ l.counted = TRUE
  <2>1. /\ slot[k].gen \in Generation
        /\ slot[k].leases + 1 \in Nat
        /\ NoCandidate \in Candidate \cup {NoCandidate}
    BY <1>a, <1>b, Fields DEF Types, Shapes
  <2>2. /\ s \in Slot /\ s.kind = "ready" /\ s.gen = slot[k].gen /\ s.waiters = {}
        /\ s.leases = slot[k].leases + 1 /\ s.idle = NoCandidate
    BY <2>1, Records
  <2>3. /\ l \in ClientState /\ l.at = "leased" /\ l.key = k
        /\ l.gen = slot[k].gen /\ l.counted = TRUE
    BY <2>1, LeaseRecord, Zenon
  <2> QED
    BY <2>2, <2>3
<1> HIDE DEF s, l
<1>1. Types'
  BY <1>a, <1>b, <1>c, Fields DEF Types, Shapes
<1>2. Shapes'
  BY <1>a, <1>b, <1>c, Fields DEF Types, Shapes, NoSchedule
<1>3. Generations'
  BY <1>a, <1>b, <1>c, Fields DEF Types, Shapes, Generations
<1>4. Waiters'
  BY <1>a, <1>b, <1>c, Fields DEF Types, Shapes, Waiters, NoStrandedWaiter
<1>5. Counted'
  <2>0. PICK g : g = slot[k].gen
    OBVIOUS
  <2>1. /\ LeasesIn(client', g) = LeasesIn(client, g) \cup {c}
        /\ Cardinality(LeasesIn(client', g)) = Cardinality(LeasesIn(client, g)) + 1
        /\ \A h : h # g => LeasesIn(client', h) = LeasesIn(client, h)
    <3>1. /\ client[c].at # "leased" /\ client'[c].at = "leased" /\ client'[c].gen = g
          /\ \A d \in Client \ {c} : client'[d] = client[d]
      BY <1>a, <1>b, <1>c, <2>0 DEF Types
    <3> QED
      BY <3>1, LeaseGained
  <2> SUFFICES ASSUME NEW j \in Key, slot'[j].kind = "ready"
               PROVE  /\ \A d \in LeasesIn(client', slot'[j].gen) :
                            client'[d].counted /\ client'[d].key = j
                      /\ slot'[j].leases = Cardinality(LeasesIn(client', slot'[j].gen))
                      /\ slot'[j].leases = 0 <=> slot'[j].idle # NoCandidate
    BY DEF Counted
  <2>2. CASE j = k
    <3>1. slot'[j] = s
      BY <2>2, <1>a, <1>b DEF Types
    <3>2. \A d \in LeasesIn(client', g) : client'[d].counted /\ client'[d].key = j
      BY <2>0, <2>1, <2>2, <1>a, <1>b, <1>c DEF Types, Counted, LeasesIn
    <3>3. slot[k].leases = Cardinality(LeasesIn(client, g)) /\ slot[k].leases \in Nat
      BY <2>0, <1>a, <1>b, Fields DEF Types, Counted
    <3>4. slot'[j].gen = g /\ slot'[j].leases = Cardinality(LeasesIn(client', g))
      BY <2>0, <2>1, <3>1, <3>3, <1>c
    <3>5. slot'[j].leases # 0 /\ slot'[j].idle = NoCandidate
      BY <3>1, <3>3, <1>c
    <3> QED
      BY <3>2, <3>4, <3>5
  <2>3. CASE j # k
    <3>1. slot'[j] = slot[j] /\ slot[j].gen # g
      BY <2>0, <2>3, <1>a, <1>b DEF Types, Generations
    <3>2. LeasesIn(client', slot[j].gen) = LeasesIn(client, slot[j].gen)
      BY <2>1, <3>1
    <3>3. \A d \in LeasesIn(client, slot[j].gen) : client'[d] = client[d]
      BY <2>0, <2>1, <3>1, <1>a, <1>b DEF Types, LeasesIn
    <3> QED
      BY <3>1, <3>2, <3>3, <1>a DEF Counted
  <2> QED
    BY <2>2, <2>3
<1>6. Tasks'
  BY <1>a, <1>b, Fields DEF Types, Tasks
<1>7. Ending'
  BY <1>a, <1>b, Fields DEF Types, Ending, CleanReport
<1> QED
  BY <1>1, <1>2, <1>3, <1>4, <1>5, <1>6, <1>7 DEF RegistryInv

\* acquire that joins a flight, or has nothing to wait for, keeps the invariant.
LEMMA AcquireJoinsKeeps ==
    ASSUME RegistryInv, NEW c \in Client, NEW k \in Key, AcquireJoins(c, k)
    PROVE  RegistryInv'
<1>a. Types /\ Shapes /\ Generations /\ Waiters /\ Counted /\ Tasks /\ Ending
  BY DEF RegistryInv
<1> DEFINE s == Creating(slot[k].gen, slot[k].waiters \cup {c})
           l == Waiting(k)
<1>b. /\ client[c].at \in {"away", "again"}
      /\ slot[k].kind = "creating"
      /\ slot' = [slot EXCEPT ![k] = s]
      /\ client' = [client EXCEPT ![c] = l]
      /\ lifecycle = "running"
      /\ UNCHANGED <<generation, lifecycle, flight, manager, due, reaper, tasks, report>>
  BY DEF AcquireJoins, Asks, Admitted
<1>c. /\ s \in Slot /\ s.kind = "creating" /\ s.gen = slot[k].gen
      /\ s.waiters = slot[k].waiters \cup {c}
      /\ s.leases = 0 /\ s.idle = NoCandidate
      /\ l \in ClientState /\ l.at = "waiting" /\ l.key = k /\ l.gen = None
  <2>1. slot[k].gen \in Generation /\ slot[k].waiters \cup {c} \in SUBSET Client
    BY <1>a, <1>b, Fields DEF Types, Shapes
  <2> QED
    BY <2>1, Records
<1> HIDE DEF s, l
<1>1. Types'
  BY <1>a, <1>b, <1>c DEF Types
<1>2. Shapes'
  BY <1>a, <1>b, <1>c, Fields DEF Types, Shapes
<1>3. Generations'
  BY <1>a, <1>b, <1>c, Fields DEF Types, Shapes, Generations
<1>4. Waiters'
  <2>1. NoStrandedWaiter'
    <3> SUFFICES ASSUME NEW d \in Client, client'[d].at = "waiting"
                 PROVE  LET j == client'[d].key IN
                          /\ slot'[j].kind = "creating"
                          /\ d \in slot'[j].waiters
                          /\ flight'[slot'[j].gen] = j
      BY DEF NoStrandedWaiter
    <3>1. CASE d = c
      BY <3>1, <1>a, <1>b, <1>c DEF Types, Generations
    <3>2. CASE d # c
      BY <3>2, <1>a, <1>b, <1>c DEF Types, Shapes, Waiters, NoStrandedWaiter
    <3> QED
      BY <3>1, <3>2
  <2>2. \A j \in Key : \A d \in slot'[j].waiters :
           client'[d].at = "waiting" /\ client'[d].key = j
    BY <1>a, <1>b, <1>c, Fields DEF Types, Waiters
  <2> QED
    BY <2>1, <2>2 DEF Waiters
<1>5. Counted'
  BY <1>a, <1>b, <1>c, CountsKept, Fields DEF Types
<1>6. Tasks'
  BY <1>a, <1>b DEF Tasks
<1>7. Ending'
  BY <1>a, <1>b DEF Ending, CleanReport
<1> QED
  BY <1>1, <1>2, <1>3, <1>4, <1>5, <1>6, <1>7 DEF RegistryInv

\* acquire that starts a flight takes a generation nobody has seen.
LEMMA AcquireStartsKeeps ==
    ASSUME RegistryInv, NEW c \in Client, NEW k \in Key, AcquireStarts(c, k)
    PROVE  RegistryInv'
<1>a. Types /\ Shapes /\ Generations /\ Waiters /\ Counted /\ Tasks /\ Ending
  BY DEF RegistryInv
<1>0. PICK g : g = generation + 1
  OBVIOUS
<1> DEFINE s == Creating(g, {c})
           l == Waiting(k)
<1>b. /\ client[c].at \in {"away", "again"}
      /\ slot[k].kind = "none"
      /\ generation' = g /\ g \in Generation
      /\ slot' = [slot EXCEPT ![k] = s]
      /\ client' = [client EXCEPT ![c] = l]
      /\ flight' = [flight EXCEPT ![g] = k]
      /\ reaper' = StartReaper(reaper)
      /\ tasks' = tasks + 1 + ReaperTask
      /\ lifecycle = "running"
      /\ UNCHANGED <<lifecycle, manager, due, report>>
  BY <1>0, <1>a, RegistryAssumption
     DEF AcquireStarts, Asks, Admitted, Types, Generation
<1>c. /\ s \in Slot /\ s.kind = "creating" /\ s.gen = g /\ s.waiters = {c}
      /\ s.leases = 0 /\ s.idle = NoCandidate
      /\ l \in ClientState /\ l.at = "waiting" /\ l.key = k /\ l.gen = None
  <2>1. {c} \in SUBSET Client
    OBVIOUS
  <2> QED
    BY <2>1, <1>b, Records
<1>d. /\ reaper'.at = IF reaper.at = "off" THEN "look" ELSE reaper.at
      /\ reaper'.next = reaper.next
      /\ reaper' \in [at : {"off", "look", "wait"}, permit : BOOLEAN,
             next : [key : Key \cup {NoKey}, gen : Generation \cup {None},
                     idle : Candidate \cup {NoCandidate}]]
  BY <1>a, <1>b DEF Types, StartReaper
<1>e. flight[g] = NoKey /\ manager[g] = "none" /\ g > generation
      /\ \A j \in Key : slot[j].kind # "none" => slot[j].gen # g
  BY <1>0, <1>a, <1>b, Fields DEF Types, Shapes, Generations
<1> HIDE DEF s, l
<1>1. Types'
  <2>1. tasks' \in Int
    BY <1>a, <1>b DEF Types, ReaperTask
  <2>2. generation' \in 0..MaxGeneration
    BY <1>a, <1>b, Fields, RegistryAssumption
  <2> QED
    BY <2>1, <2>2, <1>a, <1>b, <1>c, <1>d DEF Types
<1>2. Shapes'
  BY <1>a, <1>b, <1>c, <1>d, Fields DEF Types, Shapes, NoSchedule
<1>3. Generations'
  <2>1. ASSUME NEW j \in Key, slot'[j].kind # "none"
        PROVE  /\ slot'[j].gen <= generation'
               /\ \A i \in Key \ {j} : slot'[i].kind # "none" => slot'[i].gen # slot'[j].gen
               /\ slot'[j].kind = "creating" => flight'[slot'[j].gen] = j
               /\ slot'[j].kind = "ready" => manager'[slot'[j].gen] = "live"
    <3>1. CASE j = k
      BY <3>1, <2>1, <1>0, <1>a, <1>b, <1>c, <1>e, Fields DEF Types
    <3>2. CASE j # k
      <4>1. slot'[j] = slot[j] /\ slot[j].gen \in Generation /\ slot[j].gen # g
        BY <3>2, <2>1, <1>a, <1>b, <1>e DEF Types, Shapes
      <4>2. slot[j].gen <= generation'
        <5>1. slot[j].gen <= generation /\ slot[j].gen \in Nat /\ generation \in Nat
          BY <4>1, <2>1, <1>a, Fields, RegistryAssumption DEF Types, Generations
        <5> QED
          BY <5>1, <1>0, <1>b
      <4> QED
        BY <4>1, <4>2, <3>2, <2>1, <1>a, <1>b, <1>c DEF Types, Generations
    <3> QED
      BY <3>1, <3>2
  <2>2. \A h \in Generation :
          /\ flight'[h] # NoKey => h <= generation' /\ manager'[h] = "none"
          /\ h > generation' => manager'[h] = "none"
    BY <1>0, <1>a, <1>b, <1>e, Fields, RegistryAssumption DEF Types, Generations
  <2>3. \A d \in Client : client'[d].at = "leased" => manager'[client'[d].gen] # "none"
    BY <1>a, <1>b, <1>c DEF Types, Generations
  <2> QED
    BY <2>1, <2>2, <2>3 DEF Generations
<1>4. Waiters'
  BY <1>a, <1>b, <1>c, <1>e, Fields DEF Types, Shapes, Waiters, NoStrandedWaiter, Generations
<1>5. Counted'
  BY <1>a, <1>b, <1>c, CountsKept, Fields DEF Types
<1>6. Tasks'
  <2>1. FlightsIn(flight') = FlightsIn(flight) \cup {g} /\ g \notin FlightsIn(flight)
    BY <1>a, <1>b, <1>e, RegistryAssumption DEF Types, FlightsIn
  <2>2. /\ Cardinality(FlightsIn(flight')) = Cardinality(FlightsIn(flight)) + 1
        /\ Cardinality(FlightsIn(flight)) \in Nat
    BY <2>1, FlightsFinite, FS_AddElement
  <2>3. tasks' = tasks + 1 + (IF reaper.at = "off" THEN 1 ELSE 0)
    BY <1>b DEF ReaperTask
  <2>4. tasks' = Cardinality(FlightsIn(flight')) + (IF reaper'.at = "off" THEN 0 ELSE 1)
    BY <2>2, <2>3, <1>a, <1>d DEF Tasks
  <2> QED
    BY <2>4, <1>a, <1>b, <1>d DEF Tasks
<1>7. Ending'
  BY <1>a, <1>b, <1>d DEF Ending, CleanReport
<1> QED
  BY <1>1, <1>2, <1>3, <1>4, <1>5, <1>6, <1>7 DEF RegistryInv

\* A refused acquire leaves nothing behind.
LEMMA AcquireRefusedKeeps ==
    ASSUME RegistryInv, NEW c \in Client, AcquireRefused(c)
    PROVE  RegistryInv'
<1>a. Types /\ Shapes /\ Generations /\ Waiters /\ Counted /\ Tasks /\ Ending
  BY DEF RegistryInv
<1>b. /\ client[c].at = "again"
      /\ client' = [client EXCEPT ![c] = Away]
      /\ UNCHANGED <<slot, generation, lifecycle, flight, manager, due, reaper, tasks, report>>
  BY DEF AcquireRefused
<1>1. Types'
  BY <1>a, <1>b, Records DEF Types
<1>2. Shapes'
  BY <1>a, <1>b, Records, Fields DEF Types, Shapes
<1>3. Generations'
  BY <1>a, <1>b, Records, Fields DEF Types, Shapes, Generations
<1>4. Waiters'
  BY <1>a, <1>b, Records, Fields DEF Types, Shapes, Waiters, NoStrandedWaiter
<1>5. Counted'
  BY <1>a, <1>b, Records, CountsKept DEF Types
<1>6. Tasks'
  BY <1>a, <1>b DEF Tasks
<1>7. Ending'
  BY <1>a, <1>b DEF Ending, CleanReport
<1> QED
  BY <1>1, <1>2, <1>3, <1>4, <1>5, <1>6, <1>7 DEF RegistryInv

\* A dropped acquire leaves no waiter behind.
LEMMA CancelAcquireKeeps ==
    ASSUME RegistryInv, NEW c \in Client, CancelAcquire(c)
    PROVE  RegistryInv'
<1>a. Types /\ Shapes /\ Generations /\ Waiters /\ Counted /\ Tasks /\ Ending
  BY DEF RegistryInv
<1>b. /\ client[c].at \in {"waiting", "again"}
      /\ client' = [client EXCEPT ![c] = Away]
      /\ UNCHANGED <<generation, lifecycle, flight, manager, due, reaper, tasks, report>>
  BY DEF CancelAcquire
<1>c. \A k \in Key :
          /\ slot'[k] \in Slot
          /\ slot'[k].kind = slot[k].kind /\ slot'[k].gen = slot[k].gen
          /\ slot'[k].leases = slot[k].leases /\ slot'[k].idle = slot[k].idle
          /\ slot'[k].waiters = slot[k].waiters \ {c}
          /\ slot[k].waiters = {} => slot'[k] = slot[k]
  <2> SUFFICES ASSUME NEW k \in Key
               PROVE /\ slot'[k] \in Slot
                     /\ slot'[k].kind = slot[k].kind /\ slot'[k].gen = slot[k].gen
                     /\ slot'[k].leases = slot[k].leases /\ slot'[k].idle = slot[k].idle
                     /\ slot'[k].waiters = slot[k].waiters \ {c}
                     /\ slot[k].waiters = {} => slot'[k] = slot[k]
    OBVIOUS
  <2>1. slot'[k] = [slot[k] EXCEPT !.waiters = @ \ {c}]
    BY DEF CancelAcquire
  <2>2. slot[k] \in Slot
    BY <1>a DEF Types
  <2> QED
    BY <2>1, <2>2 DEF Slot
<1>d. slot' \in [Key -> Slot]
  <2>1. slot' = [k \in Key |-> slot'[k]]
    BY DEF CancelAcquire
  <2> QED
    BY <2>1, <1>c
<1>1. Types'
  BY <1>a, <1>b, <1>d, Records DEF Types
<1>2. Shapes'
  <2>1. \A k \in Key : slot'[k].kind = "none" => slot'[k] = NoSlot
    BY <1>a, <1>c, Records DEF Shapes
  <2> QED
    <3>1. \A d \in Client : client'[d] = IF d = c THEN Away ELSE client[d]
      BY <1>a, <1>b DEF Types
    <3>2. \A d \in Client :
            /\ client'[d].at = "leased" <=> client'[d].gen # None
            /\ client'[d].at # "away" => client'[d].key \in Key
      BY <3>1, <1>a, Records DEF Shapes
    <3>3. \A k \in Key :
            /\ slot'[k].kind = "creating" => slot'[k].leases = 0 /\ slot'[k].idle = NoCandidate
            /\ slot'[k].kind = "ready" => slot'[k].waiters = {}
            /\ slot'[k].kind # "none" => slot'[k].gen \in Generation
      BY <1>a, <1>c DEF Shapes
    <3> QED
      BY <2>1, <3>2, <3>3, <1>a, <1>b DEF Shapes
<1>3. Generations'
  <2>1. \A d \in Client : client'[d].at = "leased" => client'[d] = client[d]
    BY <1>a, <1>b, Records DEF Types
  <2>2. \A d \in Client : client'[d].at = "leased" => manager'[client'[d].gen] # "none"
    BY <2>1, <1>a, <1>b DEF Generations
  <2> QED
    BY <2>2, <1>a, <1>b, <1>c DEF Generations
<1>4. Waiters'
  <2>1. \A d \in Client : client'[d].at = "waiting" => d # c /\ client'[d] = client[d]
    BY <1>a, <1>b, Records DEF Types
  <2>2. NoStrandedWaiter'
    BY <2>1, <1>a, <1>b, <1>c DEF Shapes, Waiters, NoStrandedWaiter
  <2>3. \A k \in Key : \A d \in slot'[k].waiters :
           client'[d].at = "waiting" /\ client'[d].key = k
    BY <1>a, <1>b, <1>c, Fields DEF Types, Waiters
  <2> QED
    BY <2>2, <2>3 DEF Waiters
<1>5. Counted'
  BY <1>a, <1>b, <1>c, Records, CountsKept DEF Types
<1>6. Tasks'
  BY <1>a, <1>b DEF Tasks
<1>7. Ending'
  BY <1>a, <1>b, <1>c, Records DEF Ending, CleanReport
<1> QED
  BY <1>1, <1>2, <1>3, <1>4, <1>5, <1>6, <1>7 DEF RegistryInv

\* Waiters that are notified leave their slot, and no lease changes.
LEMMA NotifyEffect ==
    ASSUME Types, Shapes, NEW W \in SUBSET Client, NEW outcome,
           \A c \in W : client[c].at = "waiting",
           Notify(W, outcome)
    PROVE  /\ client' \in [Client -> ClientState]
           /\ \A c \in Client \ W : client'[c] = client[c]
           /\ \A c \in W :
                /\ client'[c].at \in {"away", "again"} /\ client'[c].gen = None
                /\ client'[c].at = "again" => client'[c].key \in Key
<1>1. \A c \in Client \ W : client'[c] = client[c] /\ client[c] \in ClientState
  BY DEF Notify, Types
<1>2. ASSUME NEW c \in W
      PROVE  /\ client'[c] \in ClientState
             /\ client'[c].at \in {"away", "again"} /\ client'[c].gen = None
             /\ client'[c].at = "again" => client'[c].key \in Key
  <2>1. client[c].key \in Key
    BY DEF Shapes
  <2>2. client'[c] = Away \/ client'[c] = Again(client[c].key)
    BY DEF Notify
  <2> QED
    BY <2>1, <2>2, Records
<1>3. client' = [c \in Client |-> client'[c]]
  BY DEF Notify
<1> QED
  BY <1>1, <1>2, <1>3

\* A flight that ends, with its task.
LEMMA EndFlightEffect ==
    ASSUME Types, NEW g \in Generation, flight[g] # NoKey, EndFlight(g)
    PROVE  /\ flight' \in [Generation -> Key \cup {NoKey}]
           /\ flight' = [flight EXCEPT ![g] = NoKey]
           /\ tasks' = tasks - 1
           /\ Cardinality(FlightsIn(flight')) = Cardinality(FlightsIn(flight)) - 1
           /\ Cardinality(FlightsIn(flight')) \in Nat
<1>1. flight' = [flight EXCEPT ![g] = NoKey] /\ tasks' = tasks - 1
  BY DEF EndFlight
<1>2. FlightsIn(flight') = FlightsIn(flight) \ {g} /\ g \in FlightsIn(flight)
  BY <1>1 DEF Types, FlightsIn
<1>3. Cardinality(FlightsIn(flight) \ {g}) = Cardinality(FlightsIn(flight)) - 1
  BY <1>2, FlightsFinite, FS_RemoveElement
<1>4. Cardinality(FlightsIn(flight')) \in Nat
  BY FlightsFinite
<1> QED
  BY <1>1, <1>2, <1>3, <1>4 DEF Types

\* A flight that takes its slot away from it and puts "s" there.
LEMMA FlightKeeps ==
    ASSUME RegistryInv, NEW g \in Generation, NEW k \in Key, NEW s \in Slot,
           NEW W \in SUBSET Client, NEW outcome,
           flight[g] = k, slot[k].kind = "creating", slot[k].gen = g,
           slot' = [slot EXCEPT ![k] = s],
           s.waiters = {},
           \/ s = NoSlot /\ manager' = manager
           \/ /\ lifecycle = "running"
              /\ s.kind = "ready" /\ s.gen = g /\ s.leases = 0 /\ s.idle # NoCandidate
              /\ manager' = [manager EXCEPT ![g] = "live"],
           W = slot[k].waiters, Notify(W, outcome),
           EndFlight(g),
           due' \subseteq Candidate,
           reaper' = reaper \/ reaper' = [reaper EXCEPT !.permit = TRUE],
           UNCHANGED <<generation, lifecycle, report>>
    PROVE  RegistryInv'
<1>a. Types /\ Shapes /\ Generations /\ Waiters /\ Counted /\ Tasks /\ Ending
  BY DEF RegistryInv
<1>b. \A c \in W : client[c].at = "waiting" /\ client[c].key = k
  BY <1>a DEF Waiters
<1>c. /\ client' \in [Client -> ClientState]
      /\ \A c \in Client \ W : client'[c] = client[c]
      /\ \A c \in W :
           /\ client'[c].at \in {"away", "again"} /\ client'[c].gen = None
           /\ client'[c].at = "again" => client'[c].key \in Key
  <2>1. \A c \in W : client[c].at = "waiting"
    BY <1>b
  <2> QED
    BY <2>1, <1>a, NotifyEffect, Zenon
<1>d. \A c \in Client : client'[c].at = "leased" \/ client[c].at = "leased" \/ client'[c].at = "waiting"
          => c \notin W /\ client'[c] = client[c]
  BY <1>b, <1>c
<1>e. /\ flight' \in [Generation -> Key \cup {NoKey}]
      /\ flight' = [flight EXCEPT ![g] = NoKey]
      /\ tasks' = tasks - 1
      /\ Cardinality(FlightsIn(flight')) = Cardinality(FlightsIn(flight)) - 1
      /\ Cardinality(FlightsIn(flight')) \in Nat
  <2>1. flight[g] # NoKey
    BY RegistryAssumption
  <2> QED
    BY <2>1, <1>a, EndFlightEffect
<1>f. manager[g] = "none" /\ (manager' = manager \/ manager' = [manager EXCEPT ![g] = "live"])
  BY <1>a, RegistryAssumption DEF Generations
<1>g. \A c \in Client : client[c].at = "leased" => client[c].gen # g
  BY <1>a, <1>f DEF Generations
<1>1. Types'
  <2>1. slot' \in [Key -> Slot]
    BY <1>a DEF Types
  <2>2. manager' \in [Generation -> {"none", "live", "reaping", "closing", "closed"}]
    BY <1>a, <1>f DEF Types
  <2>3. tasks' \in Int
    BY <1>a, <1>e DEF Types
  <2>4. reaper' \in [at : {"off", "look", "wait"}, permit : BOOLEAN,
           next : [key : Key \cup {NoKey}, gen : Generation \cup {None},
                   idle : Candidate \cup {NoCandidate}]]
    BY <1>a DEF Types
  <2> QED
    BY <2>1, <2>2, <2>3, <2>4, <1>a, <1>c, <1>e DEF Types
<1>2. Shapes'
  <2>1. \A c \in Client :
          /\ client'[c].at = "leased" <=> client'[c].gen # None
          /\ client'[c].at # "away" => client'[c].key \in Key
    BY <1>a, <1>b, <1>c DEF Shapes
  <2>2. \A j \in Key :
          /\ slot'[j].kind = "none" => slot'[j] = NoSlot
          /\ slot'[j].kind = "creating" => slot'[j].leases = 0 /\ slot'[j].idle = NoCandidate
          /\ slot'[j].kind = "ready" => slot'[j].waiters = {}
          /\ slot'[j].kind # "none" => slot'[j].gen \in Generation
    BY <1>a, Records DEF Types, Shapes
  <2>3. reaper'.next = reaper.next
    BY <1>a DEF Types
  <2> QED
    BY <2>1, <2>2, <2>3, <1>a DEF Shapes
<1>3. Generations'
  <2>1. ASSUME NEW j \in Key, slot'[j].kind # "none"
        PROVE  /\ slot'[j].gen <= generation'
               /\ \A i \in Key \ {j} : slot'[i].kind # "none" => slot'[i].gen # slot'[j].gen
               /\ slot'[j].kind = "creating" => flight'[slot'[j].gen] = j
               /\ slot'[j].kind = "ready" => manager'[slot'[j].gen] = "live"
    <3>1. CASE j = k
      BY <3>1, <2>1, <1>a, Records DEF Types, Shapes, Generations
    <3>2. CASE j # k
      <4>1. slot'[j] = slot[j] /\ slot[j].gen \in Generation /\ slot[j].gen # g
        BY <3>2, <2>1, <1>a DEF Types, Shapes, Generations
      <4>2. slot'[k].kind # "none" => slot'[k].gen = g
        BY <1>a, Records DEF Types
      <4> QED
        BY <4>1, <4>2, <3>2, <2>1, <1>a, <1>e, <1>f DEF Types, Generations
    <3> QED
      BY <3>1, <3>2
  <2>2. \A h \in Generation :
          /\ flight'[h] # NoKey => h <= generation' /\ manager'[h] = "none"
          /\ h > generation' => manager'[h] = "none"
    <3>1. g <= generation
      BY <1>a DEF Generations
    <3> QED
      BY <3>1, <1>a, <1>e, <1>f, Fields DEF Types, Generations
  <2>3. \A d \in Client : client'[d].at = "leased" => manager'[client'[d].gen] # "none"
    <3> SUFFICES ASSUME NEW d \in Client, client'[d].at = "leased"
                 PROVE  manager'[client'[d].gen] # "none"
      OBVIOUS
    <3>1. client'[d] = client[d] /\ client[d].at = "leased"
      BY <1>d
    <3>2. PICK h : h = client[d].gen
      OBVIOUS
    <3>3. manager[h] # "none" /\ h # g /\ h \in Generation
      BY <3>1, <3>2, <1>a, <1>g, Fields DEF Types, Shapes, Generations
    <3>4. manager'[h] = manager[h]
      BY <3>3, <1>a, <1>f DEF Types
    <3> QED
      BY <3>1, <3>2, <3>3, <3>4
  <2> QED
    BY <2>1, <2>2, <2>3 DEF Generations
<1>4. Waiters'
  <2>1. NoStrandedWaiter'
    <3> SUFFICES ASSUME NEW d \in Client, client'[d].at = "waiting"
                 PROVE  LET j == client'[d].key IN
                          /\ slot'[j].kind = "creating"
                          /\ d \in slot'[j].waiters
                          /\ flight'[slot'[j].gen] = j
      BY DEF NoStrandedWaiter
    <3>1. client'[d] = client[d] /\ d \notin W
      BY <1>d
    <3>2. PICK j \in Key : j = client[d].key
      BY <3>1, <1>a DEF Shapes
    <3>3. /\ slot[j].kind = "creating" /\ d \in slot[j].waiters
          /\ flight[slot[j].gen] = j /\ slot[j].gen \in Generation
      BY <3>1, <3>2, <1>a DEF Waiters, NoStrandedWaiter, Shapes
    <3>4. j # k
      BY <3>1, <3>3
    <3>5. slot'[j] = slot[j] /\ slot[j].gen # g
      BY <3>3, <3>4, <1>a DEF Types, Generations
    <3> QED
      BY <3>1, <3>2, <3>3, <3>5, <1>a, <1>e DEF Types
  <2>2. \A j \in Key : \A d \in slot'[j].waiters :
           client'[d].at = "waiting" /\ client'[d].key = j
    <3> SUFFICES ASSUME NEW j \in Key, NEW d \in slot'[j].waiters
                 PROVE  client'[d].at = "waiting" /\ client'[d].key = j
      OBVIOUS
    <3>1. j # k /\ slot'[j] = slot[j]
      BY <1>a DEF Types
    <3>2. d \in Client /\ client[d].at = "waiting" /\ client[d].key = j
      BY <3>1, <1>a, Fields DEF Types, Waiters
    <3> QED
      BY <3>1, <3>2, <1>b, <1>c
  <2> QED
    BY <2>1, <2>2 DEF Waiters
<1>5. Counted'
  <2> SUFFICES ASSUME NEW j \in Key, slot'[j].kind = "ready"
               PROVE  /\ \A d \in LeasesIn(client', slot'[j].gen) :
                            client'[d].counted /\ client'[d].key = j
                      /\ slot'[j].leases = Cardinality(LeasesIn(client', slot'[j].gen))
                      /\ slot'[j].leases = 0 <=> slot'[j].idle # NoCandidate
    BY DEF Counted
  <2>1. /\ \A h : LeasesIn(client', h) = LeasesIn(client, h)
        /\ \A h : \A d \in LeasesIn(client, h) : client'[d] = client[d]
    BY <1>d, LeasesKept DEF LeasesIn
  <2>2. CASE j = k
    <3>1. /\ slot'[j] = s /\ s.gen = g
          /\ s.leases = 0 /\ s.idle # NoCandidate
      BY <2>2, <1>a, Records DEF Types
    <3>2. LeasesIn(client, g) = {}
      BY <1>g DEF LeasesIn
    <3> QED
      BY <2>1, <3>1, <3>2, FS_EmptySet
  <2>3. CASE j # k
    <3>1. slot'[j] = slot[j]
      BY <2>3, <1>a DEF Types
    <3> QED
      BY <2>1, <3>1, <1>a DEF Counted
  <2> QED
    BY <2>2, <2>3
<1>6. Tasks'
  <2>1. reaper'.at = reaper.at
    BY <1>a DEF Types
  <2>2. tasks' = Cardinality(FlightsIn(flight')) + (IF reaper'.at = "off" THEN 0 ELSE 1)
    BY <2>1, <1>a, <1>e, FlightsFinite DEF Tasks
  <2> QED
    BY <2>1, <2>2, <1>a, <1>f DEF Types, Tasks
<1>7. Ending'
  <2>1. reaper'.at = reaper.at
    BY <1>a DEF Types
  <2> QED
    BY <2>1, <1>a, <1>e, <1>f, RegistryAssumption DEF Types, Ending, CleanReport
<1> QED
  BY <1>1, <1>2, <1>3, <1>4, <1>5, <1>6, <1>7 DEF RegistryInv

\* A flight ends: published, failed, or its slot was taken away meanwhile.
LEMMA FlightStepKeeps ==
    ASSUME RegistryInv, NEW g \in Generation, FlightStep(g)
    PROVE  RegistryInv'
<1>a. Types /\ Shapes /\ Generations /\ Waiters /\ Counted /\ Tasks /\ Ending
  BY DEF RegistryInv
<1>1. CASE Publish(g)
  <2>1. PICK idle \in Candidate :
          /\ slot' = [slot EXCEPT ![flight[g]] = Ready(g, 0, idle)]
          /\ due' = due \ {idle}
    BY <1>1 DEF Publish, FreshCandidates
  <2>2. PICK k \in Key : k = flight[g]
    BY <1>1, <1>a DEF Publish, Types
  <2>3. /\ Ready(g, 0, idle) \in Slot
        /\ Ready(g, 0, idle).kind = "ready" /\ Ready(g, 0, idle).gen = g
        /\ Ready(g, 0, idle).waiters = {} /\ Ready(g, 0, idle).leases = 0
        /\ Ready(g, 0, idle).idle # NoCandidate
    BY Records, RegistryAssumption
  <2>4. /\ slot[k].kind = "creating" /\ slot[k].gen = g /\ lifecycle = "running"
        /\ manager' = [manager EXCEPT ![g] = "live"]
        /\ Notify(slot[k].waiters, "published") /\ EndFlight(g)
        /\ reaper' = [reaper EXCEPT !.permit = TRUE]
        /\ due' \subseteq Candidate
        /\ UNCHANGED <<generation, lifecycle, report>>
    BY <1>1, <1>a, <2>1, <2>2 DEF Publish, TakesSlot, Current, WakeReaper, Types
  <2>5. PICK s \in Slot : s = Ready(g, 0, idle)
    BY <2>3
  <2>6. slot' = [slot EXCEPT ![k] = s]
    BY <2>1, <2>2, <2>5
  <2>7. PICK W \in SUBSET Client : W = slot[k].waiters
    BY <1>a, Fields DEF Types
  <2>8. Notify(W, "published")
    BY <2>4, <2>7 DEF Notify
  <2> QED
    BY <2>2, <2>3, <2>4, <2>5, <2>6, <2>7, <2>8, FlightKeeps
<1>2. CASE FailFlight(g)
  <2>1. PICK k \in Key : k = flight[g]
    BY <1>2, <1>a DEF FailFlight, Types
  <2>2. /\ slot[k].kind = "creating" /\ slot[k].gen = g
        /\ slot' = [slot EXCEPT ![k] = NoSlot]
        /\ manager' = manager
        /\ Notify(slot[k].waiters, "failed") /\ EndFlight(g)
        /\ reaper' = reaper
        /\ due' \subseteq Candidate
        /\ UNCHANGED <<generation, lifecycle, report>>
    BY <1>2, <1>a, <2>1 DEF FailFlight, TakesSlot, Current, Types
  <2>3. PICK W \in SUBSET Client : W = slot[k].waiters
    BY <1>a, Fields DEF Types
  <2>4. Notify(W, "failed")
    BY <2>2, <2>3 DEF Notify
  <2>5. PICK s \in Slot : s = NoSlot /\ s.waiters = {}
    BY Records
  <2> QED
    BY <2>1, <2>2, <2>3, <2>4, <2>5, FlightKeeps
<1>3. CASE StaleFlight(g)
  <2>1. /\ flight[g] # NoKey
        /\ \A k \in Key : slot[k].kind = "creating" => slot[k].gen # g
        /\ EndFlight(g)
        /\ UNCHANGED <<slot, generation, lifecycle, client, manager, due, reaper, report>>
    BY <1>3, <1>a DEF StaleFlight, TakesSlot, Current, Generations
  <2>2. /\ flight' \in [Generation -> Key \cup {NoKey}]
        /\ flight' = [flight EXCEPT ![g] = NoKey]
        /\ tasks' = tasks - 1
        /\ Cardinality(FlightsIn(flight')) = Cardinality(FlightsIn(flight)) - 1
        /\ Cardinality(FlightsIn(flight')) \in Nat
    BY <2>1, <1>a, EndFlightEffect
  <2>3. Types' /\ Shapes'
    BY <2>1, <2>2, <1>a DEF Types, Shapes
  <2>4. Generations'
    BY <2>1, <2>2, <1>a DEF Types, Shapes, Generations
  <2>5. Waiters'
    BY <2>1, <2>2, <1>a DEF Types, Shapes, Waiters, NoStrandedWaiter
  <2>6. Counted'
    BY <2>1, <1>a DEF Counted
  <2>7. Tasks'
    BY <2>1, <2>2, <1>a, FlightsFinite DEF Tasks
  <2>8. Ending'
    BY <2>1, <2>2, <1>a DEF Types, Ending, CleanReport
  <2> QED
    BY <2>3, <2>4, <2>5, <2>6, <2>7, <2>8 DEF RegistryInv
<1> QED
  BY <1>1, <1>2, <1>3 DEF FlightStep

\* A client gets or gives back a lease, published slots keep their
\* generations, and the counts agree: everything else is kept.
LEMMA LeaseStepKeeps ==
    ASSUME RegistryInv, Counted', NEW c \in Client, NEW l \in ClientState,
           client[c].at # "waiting", l.at \in {"away", "leased"},
           l.at = "leased" <=> l.gen # None,
           l.at = "leased" => l.key \in Key /\ manager[l.gen] # "none",
           client' = [client EXCEPT ![c] = l],
           slot' \in [Key -> Slot],
           \A k \in Key :
               \/ slot'[k] = slot[k]
               \/ /\ slot[k].kind = "ready" /\ slot'[k].kind = "ready"
                  /\ slot'[k].gen = slot[k].gen /\ slot'[k].waiters = {}
                  /\ lifecycle = "running",
           due' \subseteq Candidate,
           reaper' = reaper \/ reaper' = [reaper EXCEPT !.permit = TRUE],
           UNCHANGED <<generation, lifecycle, flight, manager, tasks, report>>
    PROVE  RegistryInv'
<1>a. Types /\ Shapes /\ Generations /\ Waiters /\ Counted /\ Tasks /\ Ending
  BY DEF RegistryInv
<1>b. /\ reaper'.at = reaper.at /\ reaper'.next = reaper.next
      /\ reaper' \in [at : {"off", "look", "wait"}, permit : BOOLEAN,
           next : [key : Key \cup {NoKey}, gen : Generation \cup {None},
                   idle : Candidate \cup {NoCandidate}]]
  BY <1>a DEF Types
<1>c. \A d \in Client : client'[d] = IF d = c THEN l ELSE client[d]
  BY <1>a DEF Types
<1>1. Types'
  <2>1. client' \in [Client -> ClientState]
    BY <1>a DEF Types
  <2> QED
    BY <2>1, <1>a, <1>b DEF Types
<1>2. Shapes'
  <2>1. \A d \in Client :
          /\ client'[d].at = "leased" <=> client'[d].gen # None
          /\ client'[d].at # "away" => client'[d].key \in Key
    BY <1>a, <1>c DEF Shapes
  <2>2. \A k \in Key :
          /\ slot'[k].kind = "none" => slot'[k] = NoSlot
          /\ slot'[k].kind = "creating" => slot'[k].leases = 0 /\ slot'[k].idle = NoCandidate
          /\ slot'[k].kind = "ready" => slot'[k].waiters = {}
          /\ slot'[k].kind # "none" => slot'[k].gen \in Generation
    BY <1>a DEF Shapes
  <2> QED
    BY <2>1, <2>2, <1>a, <1>b DEF Shapes
<1>3. Generations'
  <2>1. \A k \in Key : slot'[k].kind = slot[k].kind
                       /\ (slot[k].kind # "none" => slot'[k].gen = slot[k].gen)
    OBVIOUS
  <2>2. \A d \in Client : client'[d].at = "leased" => manager'[client'[d].gen] # "none"
    BY <1>a, <1>c DEF Generations
  <2>3. \A k \in Key : slot'[k].kind # "none" =>
          /\ slot'[k].gen <= generation'
          /\ \A j \in Key \ {k} : slot'[j].kind # "none" => slot'[j].gen # slot'[k].gen
          /\ slot'[k].kind = "creating" => flight'[slot'[k].gen] = k
          /\ slot'[k].kind = "ready" => manager'[slot'[k].gen] = "live"
    BY <2>1, <1>a DEF Generations
  <2> QED
    BY <2>2, <2>3, <1>a DEF Generations
<1>4. Waiters'
  <2>1. \A k \in Key : slot[k].kind = "creating" => slot'[k] = slot[k]
    OBVIOUS
  <2>2. \A k \in Key : slot'[k].waiters = {} \/ slot'[k] = slot[k]
    OBVIOUS
  <2>3. NoStrandedWaiter'
    BY <2>1, <1>a, <1>c DEF Shapes, Waiters, NoStrandedWaiter
  <2>4. \A k \in Key : \A d \in slot'[k].waiters :
           client'[d].at = "waiting" /\ client'[d].key = k
    BY <2>2, <1>a, <1>c, Fields DEF Types, Waiters
  <2> QED
    BY <2>3, <2>4 DEF Waiters
<1>5. Tasks'
  BY <1>a, <1>b DEF Tasks
<1>6. Ending'
  BY <1>a, <1>b DEF Ending, CleanReport
<1> QED
  BY <1>1, <1>2, <1>3, <1>4, <1>5, <1>6 DEF RegistryInv

\* A release is counted by the slot the lease is of, and by no other.
LEMMA ReleaseKeeps ==
    ASSUME RegistryInv, NEW c \in Client, Release(c)
    PROVE  RegistryInv'
<1>a. Types /\ Shapes /\ Generations /\ Waiters /\ Counted /\ Tasks /\ Ending
  BY DEF RegistryInv
<1>b. /\ client[c].at = "leased"
      /\ client' = [client EXCEPT ![c] = Away]
      /\ UNCHANGED <<generation, lifecycle, flight, manager, tasks, report>>
  BY DEF Release
<1>c. PICK g \in Generation, k \in Key : g = client[c].gen /\ k = client[c].key
  BY <1>a, <1>b, Fields DEF Types, Shapes
<1>d. /\ LeasesIn(client', g) = LeasesIn(client, g) \ {c}
      /\ Cardinality(LeasesIn(client', g)) = Cardinality(LeasesIn(client, g)) - 1
      /\ \A h : h # g => LeasesIn(client', h) = LeasesIn(client, h)
  <2>1. /\ client[c].at = "leased" /\ client[c].gen = g /\ client'[c].at # "leased"
        /\ \A d \in Client \ {c} : client'[d] = client[d]
    BY <1>a, <1>b, <1>c, Records DEF Types
  <2> QED
    BY <2>1, LeaseLost
<1>e. c \in LeasesIn(client, g) /\ Cardinality(LeasesIn(client', g)) \in Nat
  BY <1>b, <1>c, FiniteSets DEF LeasesIn
<1>f. \A h : \A d \in LeasesIn(client', h) : d \in LeasesIn(client, h) /\ client'[d] = client[d]
  BY <1>a, <1>b, Records DEF Types, LeasesIn
<1>g. ASSUME NEW j \in Key, slot[j].kind = "ready", slot[j].gen # g, slot'[j] = slot[j]
      PROVE  /\ \A d \in LeasesIn(client', slot'[j].gen) :
                   client'[d].counted /\ client'[d].key = j
             /\ slot'[j].leases = Cardinality(LeasesIn(client', slot'[j].gen))
             /\ slot'[j].leases = 0 <=> slot'[j].idle # NoCandidate
  BY <1>g, <1>a, <1>d, <1>f DEF Counted
<1>1. CASE ~(client[c].counted /\ Current(k, g, "ready") /\ slot[k].leases > 0)
  <2>1. UNCHANGED <<slot, due, reaper>>
    BY <1>1, <1>c DEF Release
  <2>2. \A j \in Key : slot[j].kind = "ready" => slot[j].gen # g
    <3> SUFFICES ASSUME NEW j \in Key, slot[j].kind = "ready", slot[j].gen = g
                 PROVE  FALSE
      OBVIOUS
    <3>1. client[c].counted /\ j = k /\ slot[k].leases = Cardinality(LeasesIn(client, g))
      BY <1>a, <1>c, <1>e DEF Counted
    <3>2. slot[k].leases > 0
      BY <3>1, <1>d, <1>e, FiniteSets
    <3> QED
      BY <3>1, <3>2, <1>1 DEF Current
  <2>3. Counted'
    BY <2>1, <2>2, <1>g DEF Counted
  <2>4. PICK l \in ClientState : l = Away /\ l.at = "away" /\ l.gen = None
    BY Records
  <2>5. client[c].at # "waiting" /\ client' = [client EXCEPT ![c] = l]
    BY <2>4, <1>b
  <2> QED
    BY <2>1, <2>3, <2>4, <2>5, <1>a, <1>b, LeaseStepKeeps DEF Types
<1>2. CASE client[c].counted /\ Current(k, g, "ready") /\ slot[k].leases > 0
  <2>1. slot[k].kind = "ready" /\ slot[k].gen = g /\ slot[k].leases \in Nat
    BY <1>2, <1>a, Fields DEF Current, Types
  <2>2. PICK s \in Slot :
          /\ slot' = [slot EXCEPT ![k] = s]
          /\ s.kind = "ready" /\ s.gen = g /\ s.waiters = {}
          /\ s.leases = slot[k].leases - 1
          /\ s.leases = 0 <=> s.idle # NoCandidate
    <3>1. CASE slot[k].leases > 1
      <4>1. slot' = [slot EXCEPT ![k].leases = @ - 1]
        BY <3>1, <1>c, <1>2, <2>1 DEF Release
      <4>2. slot[k] \in Slot /\ slot[k].waiters = {} /\ slot[k].idle = NoCandidate
        BY <3>1, <2>1, <1>a DEF Types, Shapes, Counted
      <4> DEFINE s == [slot[k] EXCEPT !.leases = @ - 1]
      <4>3. slot[k].leases - 1 \in Nat /\ slot[k].leases - 1 # 0
        BY <3>1, <2>1
      <4>4. /\ s \in Slot /\ s.kind = "ready" /\ s.gen = g /\ s.waiters = {}
            /\ s.leases = slot[k].leases - 1 /\ s.idle = NoCandidate
        BY <4>2, <4>3, <2>1 DEF Slot
      <4>5. slot' = [slot EXCEPT ![k] = s]
        BY <4>1, <1>a DEF Types
      <4> HIDE DEF s
      <4> QED
        BY <4>3, <4>4, <4>5
    <3>2. CASE slot[k].leases = 1
      <4>1. PICK idle \in Candidate : slot' = [slot EXCEPT ![k] = Ready(slot[k].gen, 0, idle)]
        BY <3>2, <1>c, <1>2 DEF Release, FreshCandidates
      <4>2. PICK s : s = Ready(g, 0, idle)
        OBVIOUS
      <4>3. /\ s \in Slot /\ s.kind = "ready" /\ s.gen = g /\ s.waiters = {}
            /\ s.leases = 0 /\ s.idle = idle
        BY <4>2, Records
      <4>4. slot' = [slot EXCEPT ![k] = s]
        BY <4>1, <4>2, <2>1
      <4>5. s.idle # NoCandidate
        BY <4>3, RegistryAssumption
      <4>6. s.leases = slot[k].leases - 1
        BY <4>3, <3>2
      <4> QED
        BY <4>3, <4>4, <4>5, <4>6
    <3> QED
      BY <3>1, <3>2, <1>2, <2>1
  <2>3. due' \subseteq Candidate /\ (reaper' = reaper \/ reaper' = [reaper EXCEPT !.permit = TRUE])
    BY <1>2, <1>a, <1>c DEF Release, Types, WakeReaper
  <2>4. Counted'
    <3> SUFFICES ASSUME NEW j \in Key, slot'[j].kind = "ready"
                 PROVE  /\ \A d \in LeasesIn(client', slot'[j].gen) :
                              client'[d].counted /\ client'[d].key = j
                        /\ slot'[j].leases = Cardinality(LeasesIn(client', slot'[j].gen))
                        /\ slot'[j].leases = 0 <=> slot'[j].idle # NoCandidate
      BY DEF Counted
    <3>1. CASE j = k
      <4>1. slot'[j] = s
        BY <3>1, <2>2, <1>a DEF Types
      <4>2. \A d \in LeasesIn(client, g) : client[d].counted /\ client[d].key = k
        BY <2>1, <1>a DEF Counted
      <4>3. slot[k].leases = Cardinality(LeasesIn(client, g))
        BY <2>1, <1>a DEF Counted
      <4> QED
        BY <4>1, <4>2, <4>3, <3>1, <2>2, <1>d, <1>f
    <3>2. CASE j # k
      <4>1. slot'[j] = slot[j] /\ slot[j].gen # g
        BY <3>2, <2>1, <2>2, <1>a DEF Types, Generations
      <4> QED
        BY <4>1, <1>g
    <3> QED
      BY <3>1, <3>2
  <2>5. \A j \in Key :
          \/ slot'[j] = slot[j]
          \/ /\ slot[j].kind = "ready" /\ slot'[j].kind = "ready"
             /\ slot'[j].gen = slot[j].gen /\ slot'[j].waiters = {}
             /\ lifecycle = "running"
    BY <2>1, <2>2, <1>a, Records DEF Types, Ending
  <2>6. slot' \in [Key -> Slot]
    BY <2>2, <1>a DEF Types
  <2>7. PICK l \in ClientState : l = Away /\ l.at = "away" /\ l.gen = None
    BY Records
  <2>8. client[c].at # "waiting" /\ client' = [client EXCEPT ![c] = l]
    BY <2>7, <1>b
  <2> QED
    BY <2>3, <2>4, <2>5, <2>6, <2>7, <2>8, <1>b, LeaseStepKeeps
<1> QED
  BY <1>1, <1>2

\* A clone counts exactly when the lease it is made from does.
LEMMA CloneLeaseKeeps ==
    ASSUME RegistryInv, NEW c \in Client, NEW d \in Client, CloneLease(c, d)
    PROVE  RegistryInv'
<1>a. Types /\ Shapes /\ Generations /\ Waiters /\ Counted /\ Tasks /\ Ending
  BY DEF RegistryInv
<1>b. /\ client[c].at = "leased" /\ client[d].at = "away"
      /\ UNCHANGED <<generation, lifecycle, flight, manager, due, tasks, report>>
  BY DEF CloneLease
<1>c. PICK g \in Generation, k \in Key : g = client[c].gen /\ k = client[c].key
  BY <1>a, <1>b, Fields DEF Types, Shapes
<1>d. PICK counts \in BOOLEAN : counts = (client[c].counted /\ Current(k, g, "ready"))
  OBVIOUS
<1>e. /\ client' = [client EXCEPT ![d] = Lease(k, g, counts)]
      /\ slot' = IF counts
                 THEN [slot EXCEPT ![k] = Ready(slot[k].gen, slot[k].leases + 1, NoCandidate)]
                 ELSE slot
      /\ reaper' = IF counts /\ slot[k].idle # NoCandidate THEN WakeReaper(reaper) ELSE reaper
  BY <1>c, <1>d, Zenon DEF CloneLease
<1>f. PICK l \in ClientState : /\ l = Lease(k, g, counts) /\ l.at = "leased" /\ l.key = k
                               /\ l.gen = g /\ l.counted = counts
  BY LeaseRecord, Zenon
<1>g. client' = [client EXCEPT ![d] = l]
  BY <1>e, <1>f
<1>h. /\ LeasesIn(client', g) = LeasesIn(client, g) \cup {d}
      /\ Cardinality(LeasesIn(client', g)) = Cardinality(LeasesIn(client, g)) + 1
      /\ \A h : h # g => LeasesIn(client', h) = LeasesIn(client, h)
  <2>1. /\ client[d].at # "leased" /\ client'[d].at = "leased" /\ client'[d].gen = g
        /\ \A e \in Client \ {d} : client'[e] = client[e]
    BY <1>a, <1>b, <1>f, <1>g DEF Types
  <2> QED
    BY <2>1, LeaseGained
<1>i. \A h : \A e \in LeasesIn(client, h) : client'[e] = client[e]
  BY <1>a, <1>b, <1>g DEF Types, LeasesIn
<1>j. ASSUME NEW j \in Key, slot[j].kind = "ready", slot[j].gen # g, slot'[j] = slot[j]
      PROVE  /\ \A e \in LeasesIn(client', slot'[j].gen) :
                   client'[e].counted /\ client'[e].key = j
             /\ slot'[j].leases = Cardinality(LeasesIn(client', slot'[j].gen))
             /\ slot'[j].leases = 0 <=> slot'[j].idle # NoCandidate
  BY <1>j, <1>a, <1>h, <1>i DEF Counted
<1>k. reaper' = reaper \/ reaper' = [reaper EXCEPT !.permit = TRUE]
  BY <1>e DEF WakeReaper
<1>l. /\ client[d].at # "waiting" /\ l.at = "leased" /\ l.gen # None
      /\ l.key \in Key /\ manager[l.gen] # "none"
  BY <1>a, <1>b, <1>c, <1>f, Fields DEF Generations
<1>m. c \in LeasesIn(client, g)
  BY <1>b, <1>c DEF LeasesIn
<1>1. CASE ~counts
  <2>1. slot' = slot
    BY <1>1, <1>e
  <2>2. \A j \in Key : slot[j].kind = "ready" => slot[j].gen # g
    <3> SUFFICES ASSUME NEW j \in Key, slot[j].kind = "ready", slot[j].gen = g
                 PROVE  FALSE
      OBVIOUS
    <3>1. client[c].counted /\ j = k
      BY <1>a, <1>c, <1>m DEF Counted
    <3> QED
      BY <3>1, <1>1, <1>d DEF Current
  <2>3. Counted'
    BY <2>1, <2>2, <1>j DEF Counted
  <2>4. slot' \in [Key -> Slot] /\ due' \subseteq Candidate
    BY <2>1, <1>a, <1>b DEF Types
  <2> QED
    BY <2>1, <2>3, <2>4, <1>b, <1>g, <1>k, <1>l, LeaseStepKeeps
<1>2. CASE counts
  <2>1. /\ client[c].counted /\ slot[k].kind = "ready" /\ slot[k].gen = g
        /\ slot[k].leases \in Nat
    BY <1>2, <1>a, <1>d, Fields DEF Current, Types
  <2>2. PICK s : s = Ready(g, slot[k].leases + 1, NoCandidate)
    OBVIOUS
  <2>3. /\ s \in Slot /\ s.kind = "ready" /\ s.gen = g /\ s.waiters = {}
        /\ s.leases = slot[k].leases + 1 /\ s.idle = NoCandidate
    <3>1. slot[k].leases + 1 \in Nat /\ NoCandidate \in Candidate \cup {NoCandidate}
      BY <2>1
    <3> QED
      BY <3>1, <2>2, Records
  <2>4. slot' = [slot EXCEPT ![k] = s]
    BY <1>2, <1>e, <2>1, <2>2
  <2>5. Counted'
    <3> SUFFICES ASSUME NEW j \in Key, slot'[j].kind = "ready"
                 PROVE  /\ \A e \in LeasesIn(client', slot'[j].gen) :
                              client'[e].counted /\ client'[e].key = j
                        /\ slot'[j].leases = Cardinality(LeasesIn(client', slot'[j].gen))
                        /\ slot'[j].leases = 0 <=> slot'[j].idle # NoCandidate
      BY DEF Counted
    <3>1. CASE j = k
      <4>1. slot'[j] = s
        BY <3>1, <2>4, <1>a DEF Types
      <4>2. \A e \in LeasesIn(client, g) : client[e].counted /\ client[e].key = k
        BY <2>1, <1>a DEF Counted
      <4>3. client'[d] = l
        BY <1>a, <1>g DEF Types
      <4>4. \A e \in LeasesIn(client', g) : client'[e].counted /\ client'[e].key = j
        BY <4>2, <4>3, <3>1, <1>2, <1>f, <1>h, <1>i
      <4>5. slot[k].leases = Cardinality(LeasesIn(client, g))
        BY <2>1, <1>a DEF Counted
      <4>6. s.leases # 0
        BY <2>1, <2>3
      <4> QED
        BY <4>1, <4>4, <4>5, <4>6, <2>3, <1>h
    <3>2. CASE j # k
      <4>1. slot'[j] = slot[j] /\ slot[j].gen # g
        BY <3>2, <2>1, <2>3, <2>4, <1>a DEF Types, Generations
      <4> QED
        BY <4>1, <1>j
    <3> QED
      BY <3>1, <3>2
  <2>6. \A j \in Key :
          \/ slot'[j] = slot[j]
          \/ /\ slot[j].kind = "ready" /\ slot'[j].kind = "ready"
             /\ slot'[j].gen = slot[j].gen /\ slot'[j].waiters = {}
             /\ lifecycle = "running"
    BY <2>1, <2>3, <2>4, <1>a, Records DEF Types, Ending
  <2>7. slot' \in [Key -> Slot] /\ due' \subseteq Candidate
    BY <2>3, <2>4, <1>a, <1>b DEF Types
  <2> QED
    BY <2>5, <2>6, <2>7, <1>b, <1>g, <1>k, <1>l, LeaseStepKeeps
<1> QED
  BY <1>1, <1>2

\* Slots that go away, with the waiters they had, disturb no other slot.
LEMMA SlotsLeaveKeeps ==
    ASSUME RegistryInv, NEW K \in SUBSET Key,
           slot' = [k \in Key |-> IF k \in K THEN NoSlot ELSE slot[k]],
           client' \in [Client -> ClientState],
           \A c \in Client :
               \/ client'[c] = client[c]
               \/ /\ client[c].at = "waiting" /\ client[c].key \in K
                  /\ client'[c].at \in {"away", "again"} /\ client'[c].gen = None
                  /\ client'[c].at = "again" => client'[c].key \in Key,
           \A k \in K : \A c \in slot[k].waiters : client'[c].at # "waiting",
           manager' \in [Generation -> {"none", "live", "reaping", "closing", "closed"}],
           \A g \in Generation :
               \/ manager'[g] = manager[g]
               \/ /\ manager[g] = "live" /\ lifecycle = "running"
                  /\ manager'[g] \in {"reaping", "closing"}
                  /\ manager'[g] = "reaping" => reaper.at # "off"
                  /\ \A k \in Key \ K : slot[k].kind = "ready" => slot[k].gen # g,
           reaper' \in [at : {"off", "look", "wait"}, permit : BOOLEAN,
               next : [key : Key \cup {NoKey}, gen : Generation \cup {None},
                       idle : Candidate \cup {NoCandidate}]],
           reaper'.at = "off" <=> reaper.at = "off",
           reaper'.next # NoSchedule => reaper'.next = reaper.next,
           \/ lifecycle' = lifecycle
           \/ lifecycle = "running" /\ lifecycle' = "shuttingDown" /\ K = Key,
           UNCHANGED <<generation, flight, due, tasks, report>>
    PROVE  RegistryInv'
<1>a. Types /\ Shapes /\ Generations /\ Waiters /\ Counted /\ Tasks /\ Ending
  BY DEF RegistryInv
<1>b. \A k \in Key : slot'[k] = IF k \in K THEN NoSlot ELSE slot[k]
  OBVIOUS
<1>1. Types'
  <2>1. slot' \in [Key -> Slot]
    BY <1>a, Records DEF Types
  <2> QED
    BY <2>1, <1>a DEF Types
<1>2. Shapes'
  <2>1. \A c \in Client :
          /\ client'[c].at = "leased" <=> client'[c].gen # None
          /\ client'[c].at # "away" => client'[c].key \in Key
    BY <1>a DEF Shapes
  <2>2. \A k \in Key :
          /\ slot'[k].kind = "none" => slot'[k] = NoSlot
          /\ slot'[k].kind = "creating" => slot'[k].leases = 0 /\ slot'[k].idle = NoCandidate
          /\ slot'[k].kind = "ready" => slot'[k].waiters = {}
          /\ slot'[k].kind # "none" => slot'[k].gen \in Generation
    BY <1>a, <1>b, Records DEF Shapes
  <2> QED
    BY <2>1, <2>2, <1>a DEF Shapes
<1>3. Generations'
  <2>1. \A k \in Key : slot'[k].kind # "none" => k \notin K /\ slot'[k] = slot[k]
    BY <1>b, Records
  <2>2. \A k \in Key : slot'[k].kind # "none" =>
          /\ slot'[k].gen <= generation'
          /\ \A j \in Key \ {k} : slot'[j].kind # "none" => slot'[j].gen # slot'[k].gen
          /\ slot'[k].kind = "creating" => flight'[slot'[k].gen] = k
    BY <2>1, <1>a DEF Generations
  <2>3. \A k \in Key : slot'[k].kind = "ready" => manager'[slot'[k].gen] = "live"
    <3> SUFFICES ASSUME NEW k \in Key, slot'[k].kind = "ready"
                 PROVE  manager'[slot'[k].gen] = "live"
      OBVIOUS
    <3>1. k \notin K /\ slot'[k] = slot[k]
      BY <2>1
    <3>2. PICK g \in Generation : g = slot[k].gen
      BY <3>1, <1>a DEF Shapes
    <3>3. manager[g] = "live"
      BY <3>1, <3>2, <1>a DEF Generations
    <3>4. manager'[g] = manager[g]
      BY <3>1, <3>2
    <3> QED
      BY <3>1, <3>2, <3>3, <3>4
  <2>4. \A g \in Generation :
          /\ flight'[g] # NoKey => g <= generation' /\ manager'[g] = "none"
          /\ g > generation' => manager'[g] = "none"
    BY <1>a DEF Generations
  <2>5. \A c \in Client : client'[c].at = "leased" => manager'[client'[c].gen] # "none"
    <3> SUFFICES ASSUME NEW c \in Client, client'[c].at = "leased"
                 PROVE  manager'[client'[c].gen] # "none"
      OBVIOUS
    <3>1. client'[c] = client[c] /\ client[c].at = "leased"
      OBVIOUS
    <3>2. PICK g \in Generation : g = client[c].gen
      BY <3>1, <1>a, Fields DEF Types, Shapes
    <3>3. manager[g] # "none"
      BY <3>1, <3>2, <1>a DEF Generations
    <3>4. manager'[g] # "none"
      BY <3>3
    <3> QED
      BY <3>1, <3>2, <3>4
  <2> QED
    BY <2>2, <2>3, <2>4, <2>5 DEF Generations
<1>4. Waiters'
  <2>1. NoStrandedWaiter'
    <3> SUFFICES ASSUME NEW c \in Client, client'[c].at = "waiting"
                 PROVE  LET k == client'[c].key IN
                          /\ slot'[k].kind = "creating"
                          /\ c \in slot'[k].waiters
                          /\ flight'[slot'[k].gen] = k
      BY DEF NoStrandedWaiter
    <3>1. client'[c] = client[c] /\ client[c].at = "waiting"
      OBVIOUS
    <3>2. PICK k \in Key : k = client[c].key
      BY <3>1, <1>a DEF Shapes
    <3>3. slot[k].kind = "creating" /\ c \in slot[k].waiters /\ flight[slot[k].gen] = k
      BY <3>1, <3>2, <1>a DEF Waiters, NoStrandedWaiter
    <3>4. k \notin K
      BY <3>1, <3>3
    <3> QED
      BY <3>1, <3>2, <3>3, <3>4
  <2>2. \A k \in Key : \A c \in slot'[k].waiters :
           client'[c].at = "waiting" /\ client'[c].key = k
    <3> SUFFICES ASSUME NEW k \in Key, NEW c \in slot'[k].waiters
                 PROVE  client'[c].at = "waiting" /\ client'[c].key = k
      OBVIOUS
    <3>1. k \notin K /\ slot'[k] = slot[k]
      BY <1>b, Records
    <3>2. c \in Client /\ client[c].at = "waiting" /\ client[c].key = k
      BY <3>1, <1>a, Fields DEF Types, Waiters
    <3> QED
      BY <3>1, <3>2
  <2> QED
    BY <2>1, <2>2 DEF Waiters
<1>5. Counted'
  <2>1. \A c \in Client : (client[c].at = "leased" \/ client'[c].at = "leased")
                              => client'[c] = client[c]
    OBVIOUS
  <2>2. \A k \in Key : slot'[k].kind = "ready" =>
          /\ slot[k].kind = "ready" /\ slot'[k].gen = slot[k].gen
          /\ slot'[k].leases = slot[k].leases /\ slot'[k].idle = slot[k].idle
    BY <1>b, Records
  <2> QED
    BY <2>1, <2>2, <1>a, CountsKept
<1>6. Tasks'
  BY <1>a DEF Tasks
<1>7. Ending'
  BY <1>a, <1>b DEF Ending, CleanReport
<1> QED
  BY <1>1, <1>2, <1>3, <1>4, <1>5, <1>6, <1>7 DEF RegistryInv

\* Steps of the reaper, of the clock and of the managers being stopped.
LEMMA QuietStepKeeps ==
    ASSUME RegistryInv, Tasks', Ending',
           UNCHANGED <<slot, generation, client, flight>>,
           manager' \in [Generation -> {"none", "live", "reaping", "closing", "closed"}],
           \A g \in Generation :
               \/ manager'[g] = manager[g]
               \/ manager[g] \in {"reaping", "closing"} /\ manager'[g] = "closed",
           due' \subseteq Candidate,
           lifecycle' \in {"running", "shuttingDown", "stopped"},
           report' \in {"none", "clean", "timedOut"},
           tasks' \in Int,
           reaper' \in [at : {"off", "look", "wait"}, permit : BOOLEAN,
               next : [key : Key \cup {NoKey}, gen : Generation \cup {None},
                       idle : Candidate \cup {NoCandidate}]],
           reaper'.next # NoSchedule => reaper'.next.key \in Key
    PROVE  RegistryInv'
<1>a. Types /\ Shapes /\ Generations /\ Waiters /\ Counted /\ Tasks /\ Ending
  BY DEF RegistryInv
<1>1. Types' /\ Shapes' /\ Waiters' /\ Counted'
  BY <1>a DEF Types, Shapes, Waiters, NoStrandedWaiter, Counted
<1>2. Generations'
  <2>1. \A g \in Generation :
          /\ manager[g] = "none" <=> manager'[g] = "none"
          /\ manager[g] = "live" => manager'[g] = "live"
    OBVIOUS
  <2>2. \A k \in Key : slot[k].kind # "none" => slot[k].gen \in Generation
    BY <1>a DEF Shapes
  <2>3. \A c \in Client : client[c].at = "leased" => client[c].gen \in Generation
    BY <1>a, Fields DEF Types, Shapes
  <2> QED
    BY <2>1, <2>2, <2>3, <1>a DEF Generations
<1> QED
  BY <1>1, <1>2 DEF RegistryInv

\* A retired slot fails its waiters over; its flight goes on and is stale.
LEMMA RetireKeeps ==
    ASSUME RegistryInv, NEW k \in Key, Retire(k)
    PROVE  RegistryInv'
<1>a. Types /\ Shapes /\ Waiters
  BY DEF RegistryInv
<1>1. PICK W \in SUBSET Client : W = slot[k].waiters
  BY <1>a, Fields DEF Types
<1>2. \A c \in W : client[c].at = "waiting" /\ client[c].key = k
  BY <1>1, <1>a DEF Waiters
<1>3. Notify(W, "superseded")
  BY <1>1 DEF Retire, Notify
<1>4. /\ client' \in [Client -> ClientState]
      /\ \A c \in Client \ W : client'[c] = client[c]
      /\ \A c \in W :
           /\ client'[c].at \in {"away", "again"} /\ client'[c].gen = None
           /\ client'[c].at = "again" => client'[c].key \in Key
  BY <1>a, <1>2, <1>3, NotifyEffect, Zenon
<1>5. PICK K \in SUBSET Key : K = {k}
  OBVIOUS
<1>6. slot' = [j \in Key |-> IF j \in K THEN NoSlot ELSE slot[j]]
  BY <1>5, <1>a DEF Retire, Types
<1>7. \A c \in Client :
        \/ client'[c] = client[c]
        \/ /\ client[c].at = "waiting" /\ client[c].key \in K
           /\ client'[c].at \in {"away", "again"} /\ client'[c].gen = None
           /\ client'[c].at = "again" => client'[c].key \in Key
  BY <1>2, <1>4, <1>5
<1>8. \A j \in K : \A c \in slot[j].waiters : client'[c].at # "waiting"
  BY <1>1, <1>4, <1>5
<1>9. reaper' = [reaper EXCEPT !.permit = TRUE]
  BY DEF Retire, WakeReaper
<1>10. /\ reaper' \in [at : {"off", "look", "wait"}, permit : BOOLEAN,
               next : [key : Key \cup {NoKey}, gen : Generation \cup {None},
                       idle : Candidate \cup {NoCandidate}]]
       /\ reaper'.at = reaper.at /\ reaper'.next = reaper.next
  BY <1>9, <1>a DEF Types
<1>11. UNCHANGED <<generation, lifecycle, flight, manager, due, tasks, report>>
  BY DEF Retire
<1>12. manager' \in [Generation -> {"none", "live", "reaping", "closing", "closed"}]
  BY <1>11, <1>a DEF Types
<1> QED
  BY <1>4, <1>6, <1>7, <1>8, <1>10, <1>11, <1>12, SlotsLeaveKeeps

\* begin_shutdown drains every slot and fails every acquire that waits.
LEMMA BeginShutdownKeeps ==
    ASSUME RegistryInv, BeginShutdown
    PROVE  RegistryInv'
<1>a. Types /\ Shapes /\ Generations /\ Waiters
  BY DEF RegistryInv
<1>1. PICK W : W = UNION {slot[k].waiters : k \in Key}
  OBVIOUS
<1>2. W \in SUBSET Client
  BY <1>1, <1>a, Fields DEF Types
<1>3. \A c \in W : client[c].at = "waiting"
  BY <1>1, <1>a DEF Waiters
<1>4. Notify(W, "failed")
  BY <1>1 DEF BeginShutdown, Notify
<1>5. /\ client' \in [Client -> ClientState]
      /\ \A c \in Client \ W : client'[c] = client[c]
      /\ \A c \in W :
           /\ client'[c].at \in {"away", "again"} /\ client'[c].gen = None
           /\ client'[c].at = "again" => client'[c].key \in Key
  BY <1>a, <1>2, <1>3, <1>4, NotifyEffect, Zenon
<1>6. slot' = [k \in Key |-> IF k \in Key THEN NoSlot ELSE slot[k]]
  BY DEF BeginShutdown
<1>7. \A c \in Client :
        \/ client'[c] = client[c]
        \/ /\ client[c].at = "waiting" /\ client[c].key \in Key
           /\ client'[c].at \in {"away", "again"} /\ client'[c].gen = None
           /\ client'[c].at = "again" => client'[c].key \in Key
  BY <1>3, <1>5, <1>a DEF Shapes
<1>8. \A k \in Key : \A c \in slot[k].waiters : client'[c].at # "waiting"
  BY <1>1, <1>5
<1>9. /\ lifecycle = "running" /\ lifecycle' = "shuttingDown"
      /\ UNCHANGED <<generation, flight, due, reaper, tasks, report>>
      /\ manager' = [g \in Generation |->
                        IF g \in ReadyGenerations THEN "closing" ELSE manager[g]]
  BY DEF BeginShutdown
<1>10. \A g \in ReadyGenerations : manager[g] = "live"
  BY <1>a DEF ReadyGenerations, Generations
<1>11. /\ manager' \in [Generation -> {"none", "live", "reaping", "closing", "closed"}]
       /\ \A g \in Generation :
            manager'[g] = manager[g] \/ (manager[g] = "live" /\ manager'[g] = "closing")
  <2>1. PICK R : R = ReadyGenerations
    OBVIOUS
  <2>2. manager' = [g \in Generation |-> IF g \in R THEN "closing" ELSE manager[g]]
    BY <1>9, <2>1
  <2>3. \A g \in Generation : g \in R => manager[g] = "live"
    BY <1>10, <2>1
  <2>4. \A g \in Generation : manager'[g] = IF g \in R THEN "closing" ELSE manager[g]
    BY <2>2
  <2>5. \A g \in Generation : manager[g] \in {"none", "live", "reaping", "closing", "closed"}
    BY <1>a DEF Types
  <2>6. manager' \in [Generation -> {"none", "live", "reaping", "closing", "closed"}]
    BY <2>2, <2>5
  <2>7. ASSUME NEW g \in Generation
        PROVE  manager'[g] = manager[g] \/ (manager[g] = "live" /\ manager'[g] = "closing")
    BY <2>3, <2>4
  <2> QED
    BY <2>6, <2>7
<1>12. reaper' \in [at : {"off", "look", "wait"}, permit : BOOLEAN,
               next : [key : Key \cup {NoKey}, gen : Generation \cup {None},
                       idle : Candidate \cup {NoCandidate}]]
  BY <1>9, <1>a DEF Types
<1> QED
  BY <1>5, <1>6, <1>7, <1>8, <1>9, <1>11, <1>12, SlotsLeaveKeeps

\* The reaper's record of its choice.
LEMMA ReaperFields ==
    ASSUME Types
    PROVE  /\ reaper = [at |-> reaper.at, next |-> reaper.next, permit |-> reaper.permit]
           /\ reaper.at \in {"off", "look", "wait"} /\ reaper.permit \in BOOLEAN
           /\ reaper.next \in [key : Key \cup {NoKey}, gen : Generation \cup {None},
                               idle : Candidate \cup {NoCandidate}]
           /\ NoSchedule \in [key : Key \cup {NoKey}, gen : Generation \cup {None},
                              idle : Candidate \cup {NoCandidate}]
  BY DEF Types, NoSchedule

\* The reaper looks, waits, is notified, expires an idle generation, stops.
LEMMA ReaperStepKeeps ==
    ASSUME RegistryInv, ReaperStep
    PROVE  RegistryInv'
<1>a. Types /\ Shapes /\ Generations /\ Waiters /\ Counted /\ Tasks /\ Ending
  BY DEF RegistryInv
<1> DEFINE Reapers ==
      [at : {"off", "look", "wait"}, permit : BOOLEAN,
       next : [key : Key \cup {NoKey}, gen : Generation \cup {None},
               idle : Candidate \cup {NoCandidate}]]
<1>1. CASE ReaperLooks
  <2>1. UNCHANGED <<slot, generation, lifecycle, client, flight, manager, due, tasks, report>>
    BY <1>1 DEF ReaperLooks
  <2>2. PICK n : /\ reaper' = [reaper EXCEPT !.at = "wait", !.next = n]
                 /\ \/ n = NoSchedule
                    \/ \E k \in IdleKeys : n = [key |-> k, gen |-> slot[k].gen, idle |-> slot[k].idle]
    BY <1>1 DEF ReaperLooks, EarliestIdle
  <2>3. /\ n \in [key : Key \cup {NoKey}, gen : Generation \cup {None},
                  idle : Candidate \cup {NoCandidate}]
        /\ n # NoSchedule => n.key \in Key
    <3>1. CASE n = NoSchedule
      BY <3>1, <1>a, ReaperFields
    <3>2. CASE n # NoSchedule
      <4>1. PICK k \in Key : n = [key |-> k, gen |-> slot[k].gen, idle |-> slot[k].idle]
        BY <3>2, <2>2 DEF IdleKeys
      <4>2. slot[k].gen \in Generation \cup {None} /\ slot[k].idle \in Candidate \cup {NoCandidate}
        BY <1>a, Fields DEF Types
      <4> QED
        BY <4>1, <4>2
    <3> QED
      BY <3>1, <3>2
  <2>4. reaper' \in Reapers /\ reaper'.at = "wait" /\ reaper.at = "look" /\ reaper'.next = n
    BY <1>1, <1>a, <2>2, <2>3, ReaperFields DEF ReaperLooks
  <2>5. Tasks' /\ Ending'
    BY <2>1, <2>4, <1>1, <1>a DEF Tasks, Ending, CleanReport, ReaperLooks, Cancelled
  <2> QED
    BY <2>1, <2>3, <2>4, <2>5, <1>a, QuietStepKeeps DEF Types
<1>2. CASE ReaperNotified
  <2>1. /\ UNCHANGED <<slot, generation, lifecycle, client, flight, manager, due, tasks, report>>
        /\ reaper.at = "wait"
        /\ reaper' = [at |-> "look", next |-> NoSchedule, permit |-> FALSE]
    BY <1>2 DEF ReaperNotified
  <2>2. reaper' \in Reapers /\ reaper'.at = "look" /\ reaper'.next = NoSchedule
    BY <2>1, <1>a, ReaperFields
  <2>3. Tasks' /\ Ending'
    BY <2>1, <2>2, <1>a DEF Tasks, Ending, CleanReport
  <2> QED
    BY <2>1, <2>2, <2>3, <1>a, QuietStepKeeps DEF Types
<1>3. CASE ReaperExpires
  <2>1. /\ UNCHANGED <<generation, lifecycle, client, flight, due, tasks, report>>
        /\ reaper.at = "wait" /\ reaper.next # NoSchedule
        /\ reaper' = [reaper EXCEPT !.at = "look", !.next = NoSchedule]
    BY <1>3 DEF ReaperExpires
  <2>2. reaper' \in Reapers /\ reaper'.at = "look" /\ reaper'.next = NoSchedule
    BY <2>1, <1>a, ReaperFields
  <2>3. CASE IsCurrentExpired(reaper.next)
    <3>1. PICK k \in Key : k = reaper.next.key
      BY <2>1, <1>a DEF Shapes
    <3>2. PICK g \in Generation : g = reaper.next.gen
      BY <2>3, <3>1, <1>a DEF IsCurrentExpired, Current, Shapes
    <3>3. /\ slot[k].kind = "ready" /\ slot[k].gen = g
          /\ slot' = [slot EXCEPT ![k] = NoSlot]
          /\ manager' = [manager EXCEPT ![g] = "reaping"]
      BY <1>3, <2>3, <3>1, <3>2 DEF ReaperExpires, IsCurrentExpired, Current
    <3>4. manager[g] = "live" /\ lifecycle = "running" /\ slot[k].waiters = {}
      BY <3>3, <1>a, Records DEF Shapes, Generations, Ending
    <3>5. PICK K \in SUBSET Key : K = {k}
      OBVIOUS
    <3>6. slot' = [j \in Key |-> IF j \in K THEN NoSlot ELSE slot[j]]
      BY <3>3, <3>5, <1>a DEF Types
    <3>7. /\ manager' \in [Generation -> {"none", "live", "reaping", "closing", "closed"}]
          /\ \A h \in Generation :
               \/ manager'[h] = manager[h]
               \/ /\ manager[h] = "live" /\ lifecycle = "running"
                  /\ manager'[h] \in {"reaping", "closing"}
                  /\ manager'[h] = "reaping" => reaper.at # "off"
                  /\ \A j \in Key \ K : slot[j].kind = "ready" => slot[j].gen # h
      <4>1. \A j \in Key \ K : slot[j].kind = "ready" => slot[j].gen # g
        BY <3>3, <3>5, <1>a DEF Generations
      <4>2. manager' \in [Generation -> {"none", "live", "reaping", "closing", "closed"}]
        BY <3>3, <1>a DEF Types
      <4>3. \A h \in Generation : h # g => manager'[h] = manager[h]
        BY <3>3, <1>a DEF Types
      <4>4. manager'[g] = "reaping"
        BY <3>3, <1>a DEF Types
      <4> QED
        BY <4>1, <4>2, <4>3, <4>4, <3>4, <2>1
    <3>8. client' \in [Client -> ClientState] /\ \A c \in Client : client'[c] = client[c]
      BY <2>1, <1>a DEF Types
    <3>9. \A j \in K : \A c \in slot[j].waiters : client'[c].at # "waiting"
      BY <3>4, <3>5
    <3> QED
      BY <2>1, <2>2, <3>6, <3>7, <3>8, <3>9, SlotsLeaveKeeps
  <2>4. CASE ~IsCurrentExpired(reaper.next)
    <3>1. UNCHANGED <<slot, manager>>
      BY <1>3, <2>4 DEF ReaperExpires
    <3>2. Tasks' /\ Ending'
      BY <2>1, <2>2, <3>1, <1>a DEF Tasks, Ending, CleanReport
    <3> QED
      BY <2>1, <2>2, <3>1, <3>2, <1>a, QuietStepKeeps DEF Types
  <2> QED
    BY <2>3, <2>4
<1>4. CASE ReaperStops
  <2>1. /\ UNCHANGED <<slot, generation, lifecycle, client, flight, due, report>>
        /\ reaper.at # "off" /\ tasks' = tasks - 1
        /\ reaper' = [reaper EXCEPT !.at = "off", !.next = NoSchedule]
        /\ manager' = [g \in Generation |-> IF manager[g] = "reaping" THEN "closed" ELSE manager[g]]
    BY <1>4 DEF ReaperStops
  <2>2. reaper' \in Reapers /\ reaper'.at = "off" /\ reaper'.next = NoSchedule
    BY <2>1, <1>a, ReaperFields
  <2>3. /\ manager' \in [Generation -> {"none", "live", "reaping", "closing", "closed"}]
        /\ \A g \in Generation :
             /\ manager'[g] # "reaping"
             /\ \/ manager'[g] = manager[g]
                \/ manager[g] \in {"reaping", "closing"} /\ manager'[g] = "closed"
    BY <2>1, <1>a DEF Types
  <2>4. Tasks'
    BY <2>1, <2>2, <2>3, <1>a, FlightsFinite DEF Tasks
  <2>5. Ending'
    BY <2>1, <2>2, <2>3, <1>a DEF Ending, CleanReport
  <2>6. tasks' \in Int
    BY <2>1, <1>a DEF Types
  <2> QED
    BY <2>1, <2>2, <2>3, <2>4, <2>5, <2>6, <1>a, QuietStepKeeps DEF Types
<1>5. ASSUME NEW g \in Generation, Disconnected(g)
      PROVE  RegistryInv'
  <2>1. /\ UNCHANGED <<slot, generation, lifecycle, client, flight, due, tasks, report>>
        /\ reaper.at = "wait" /\ manager[g] = "reaping"
        /\ manager' = [manager EXCEPT ![g] = "closed"]
        /\ reaper' = [reaper EXCEPT !.at = "look", !.next = NoSchedule]
    BY <1>5 DEF Disconnected
  <2>2. reaper' \in Reapers /\ reaper'.at = "look" /\ reaper'.next = NoSchedule
    BY <2>1, <1>a, ReaperFields
  <2>3. /\ manager' \in [Generation -> {"none", "live", "reaping", "closing", "closed"}]
        /\ \A h \in Generation :
             \/ manager'[h] = manager[h]
             \/ manager[h] \in {"reaping", "closing"} /\ manager'[h] = "closed"
    BY <2>1, <1>a DEF Types
  <2>4. Tasks'
    BY <2>1, <2>2, <2>3, <1>a DEF Tasks
  <2>5. Ending'
    BY <2>1, <2>2, <2>3, <1>a DEF Ending, CleanReport
  <2> QED
    BY <2>1, <2>2, <2>3, <2>4, <2>5, <1>a, QuietStepKeeps DEF Types
<1> QED
  BY <1>1, <1>2, <1>3, <1>4, <1>5 DEF ReaperStep

\* The shutdown of the service, up to its report.
LEMMA ShutdownStepKeeps ==
    ASSUME RegistryInv, ShutdownStep
    PROVE  RegistryInv'
<1>a. Types /\ Shapes /\ Generations /\ Waiters /\ Counted /\ Tasks /\ Ending
  BY DEF RegistryInv
<1>b. UNCHANGED reaper =>
        /\ reaper' \in [at : {"off", "look", "wait"}, permit : BOOLEAN,
               next : [key : Key \cup {NoKey}, gen : Generation \cup {None},
                       idle : Candidate \cup {NoCandidate}]]
        /\ reaper'.next # NoSchedule => reaper'.next.key \in Key
  BY <1>a DEF Types, Shapes
<1>1. CASE BeginShutdown
  BY <1>1, BeginShutdownKeeps
<1>2. CASE ShutdownConverges
  <2>1. /\ UNCHANGED <<slot, generation, client, flight, manager, due, reaper, tasks>>
        /\ lifecycle = "shuttingDown" /\ lifecycle' = "stopped" /\ report' = "clean"
        /\ tasks = 0 /\ \A g \in Generation : manager[g] # "closing"
    BY <1>2 DEF ShutdownConverges
  <2>2. reaper.at = "off" /\ Cardinality(FlightsIn(flight)) = 0
    BY <2>1, <1>a, FlightsFinite DEF Tasks
  <2>3. FlightsIn(flight) = {}
    BY <2>2, FlightsFinite, FS_EmptySet
  <2>4. \A g \in Generation : flight[g] = NoKey /\ manager[g] \notin {"reaping", "closing"}
    BY <2>1, <2>2, <2>3, <1>a DEF FlightsIn, Tasks
  <2>5. Ending'
    BY <2>1, <2>2, <2>4, <1>a DEF Ending, CleanReport
  <2>6. Tasks'
    BY <2>1, <1>a DEF Tasks
  <2> QED
    BY <2>1, <2>5, <2>6, <1>a, <1>b, QuietStepKeeps DEF Types
<1>3. CASE ShutdownTimesOut
  <2>1. /\ UNCHANGED <<slot, generation, client, flight, due, reaper, tasks>>
        /\ lifecycle = "shuttingDown" /\ lifecycle' = "stopped" /\ report' = "timedOut"
        /\ manager' = [g \in Generation |-> IF manager[g] = "closing" THEN "closed" ELSE manager[g]]
    BY <1>3 DEF ShutdownTimesOut
  <2>2. /\ manager' \in [Generation -> {"none", "live", "reaping", "closing", "closed"}]
        /\ \A h \in Generation :
             \/ manager'[h] = manager[h]
             \/ manager[h] \in {"reaping", "closing"} /\ manager'[h] = "closed"
    BY <2>1, <1>a DEF Types
  <2>3. Tasks'
    BY <2>1, <2>2, <1>a DEF Tasks
  <2>4. Ending'
    BY <2>1, <1>a DEF Ending, CleanReport
  <2> QED
    BY <2>1, <2>2, <2>3, <2>4, <1>a, <1>b, QuietStepKeeps DEF Types
<1>4. ASSUME NEW g \in Generation, ManagerStopped(g)
      PROVE  RegistryInv'
  <2>1. /\ UNCHANGED <<slot, generation, lifecycle, client, flight, due, reaper, tasks, report>>
        /\ manager[g] = "closing" /\ report = "none"
        /\ manager' = [manager EXCEPT ![g] = "closed"]
    BY <1>4 DEF ManagerStopped
  <2>2. /\ manager' \in [Generation -> {"none", "live", "reaping", "closing", "closed"}]
        /\ \A h \in Generation :
             \/ manager'[h] = manager[h]
             \/ manager[h] \in {"reaping", "closing"} /\ manager'[h] = "closed"
    BY <2>1, <1>a DEF Types
  <2>3. Tasks'
    BY <2>1, <2>2, <1>a DEF Tasks
  <2>4. Ending'
    BY <2>1, <1>a DEF Ending, CleanReport
  <2> QED
    BY <2>1, <2>2, <2>3, <2>4, <1>a, <1>b, QuietStepKeeps DEF Types
<1> QED
  BY <1>1, <1>2, <1>3, <1>4 DEF ShutdownStep

\* The deadline of a candidate passes.
LEMMA DeadlineKeeps ==
    ASSUME RegistryInv, NEW i \in Candidate, Deadline(i)
    PROVE  RegistryInv'
<1>a. Types /\ Shapes /\ Generations /\ Waiters /\ Counted /\ Tasks /\ Ending
  BY DEF RegistryInv
<1>1. /\ UNCHANGED <<slot, generation, lifecycle, client, flight, manager, reaper, tasks, report>>
      /\ due' = due \cup {i}
  BY DEF Deadline
<1>2. Types' /\ Shapes' /\ Generations' /\ Tasks' /\ Ending'
  BY <1>1, <1>a DEF Types, Shapes, Generations, Tasks, Ending, CleanReport
<1>3. Waiters' /\ Counted'
  BY <1>1, <1>a DEF Waiters, NoStrandedWaiter, Counted
<1> QED
  BY <1>2, <1>3 DEF RegistryInv

\* The registry starts in the invariant, and no step of any actor leaves it.
LEMMA RegistryInitInv == RegistryInit => RegistryInv
<1> SUFFICES ASSUME RegistryInit PROVE RegistryInv
  OBVIOUS
<1>1. Types
  BY Records, RegistryAssumption DEF RegistryInit, Types, NoSchedule
<1>2. Shapes
  BY Records DEF RegistryInit, Shapes
<1>3. Generations
  BY Records, Fields DEF RegistryInit, Generations
<1>4. Waiters
  BY Records DEF RegistryInit, Waiters, NoStrandedWaiter
<1>5. Counted
  BY Records DEF RegistryInit, Counted
<1>6. Tasks
  <2>1. FlightsIn(flight) = {}
    BY DEF RegistryInit, FlightsIn
  <2>2. Cardinality(FlightsIn(flight)) = 0
    BY <2>1, FS_EmptySet
  <2> QED
    BY <2>2 DEF RegistryInit, Tasks
<1>7. Ending
  BY DEF RegistryInit, Ending, CleanReport
<1> QED
  BY <1>1, <1>2, <1>3, <1>4, <1>5, <1>6, <1>7 DEF RegistryInv

\* One lemma per step, put together.
LEMMA RegistryNextInv == RegistryInv /\ [RegistryNext]_registryVars => RegistryInv'
<1> SUFFICES ASSUME RegistryInv, [RegistryNext]_registryVars
             PROVE  RegistryInv'
  OBVIOUS
<1>1. ASSUME NEW c \in Client, ClientStep(c) PROVE RegistryInv'
  BY <1>1, AcquireReadyKeeps, AcquireJoinsKeeps, AcquireStartsKeeps, AcquireRefusedKeeps,
     CancelAcquireKeeps, ReleaseKeeps, CloneLeaseKeeps DEF ClientStep
<1>2. ASSUME NEW g \in Generation, FlightStep(g) PROVE RegistryInv'
  BY <1>2, FlightStepKeeps
<1>3. ASSUME NEW k \in Key, Retire(k) PROVE RegistryInv'
  BY <1>3, RetireKeeps
<1>4. ASSUME NEW i \in Candidate, Deadline(i) PROVE RegistryInv'
  BY <1>4, DeadlineKeeps
<1>5. CASE ReaperStep
  BY <1>5, ReaperStepKeeps
<1>6. CASE ShutdownStep
  BY <1>6, ShutdownStepKeeps
<1>7. CASE UNCHANGED registryVars
  <2>1. Types' /\ Shapes' /\ Generations' /\ Tasks' /\ Ending'
    BY <1>7 DEF RegistryInv, registryVars, Types, Shapes, Generations, Tasks, Ending, CleanReport
  <2>2. Waiters' /\ Counted'
    BY <1>7 DEF RegistryInv, registryVars, Waiters, NoStrandedWaiter, Counted
  <2> QED
    BY <2>1, <2>2 DEF RegistryInv
<1> QED
  BY <1>1, <1>2, <1>3, <1>4, <1>5, <1>6, <1>7 DEF RegistryNext

\* Counts, waiters, flights, tasks and generations agree in every state the
\* registry reaches: what the properties below follow from.
THEOREM RegistryInvariant == RegistrySpec => []RegistryInv
  BY RegistryInitInv, RegistryNextInv, PTL DEF RegistrySpec

-----------------------------------------------------------------------------
\* The registry's state keeps its types: in particular a slot never counts
\* more leases than there are clients, and no task is counted that neither a
\* flight nor the reaper runs.
THEOREM RegistryTypes == RegistrySpec => []RegistryTypeOK
<1>1. RegistryInv => RegistryTypeOK
  <2> SUFFICES ASSUME RegistryInv PROVE RegistryTypeOK
    OBVIOUS
  <2>a. Types /\ Shapes /\ Counted /\ Tasks
    BY DEF RegistryInv
  <2>1. \A k \in Key : slot[k].leases \in 0..Cardinality(Client)
    <3> SUFFICES ASSUME NEW k \in Key PROVE slot[k].leases \in 0..Cardinality(Client)
      OBVIOUS
    <3>1. Cardinality(Client) \in Nat
      BY FS_CardinalityType, RegistryAssumption
    <3>2. CASE slot[k].kind = "ready"
      <4>1. PICK g : g = slot[k].gen
        OBVIOUS
      <4>2. LeasesIn(client, g) \in SUBSET Client
        BY DEF LeasesIn
      <4>3. Cardinality(LeasesIn(client, g)) <= Cardinality(Client)
        BY <4>2, FS_Subset, RegistryAssumption
      <4>4. slot[k].leases = Cardinality(LeasesIn(client, g)) /\ slot[k].leases \in Nat
        BY <4>1, <3>2, <2>a, Fields DEF Types, Counted
      <4> QED
        BY <4>3, <4>4, <3>1
    <3>3. CASE slot[k].kind # "ready"
      <4>1. slot[k].leases = 0
        BY <3>3, <2>a, Fields DEF Types, Shapes, NoSlot
      <4> QED
        BY <4>1, <3>1
    <3> QED
      BY <3>2, <3>3
  <2>2. slot \in [Key ->
           [kind : {"none", "creating", "ready"}, gen : Generation \cup {None},
            waiters : SUBSET Client, leases : 0..Cardinality(Client),
            idle : Candidate \cup {NoCandidate}]]
    BY <2>1, <2>a DEF Types, Slot
  <2>3. tasks \in 0..(MaxGeneration + 1)
    <3>1. FlightsIn(flight) \in SUBSET Generation
      BY DEF FlightsIn
    <3>2. IsFiniteSet(Generation) /\ Cardinality(Generation) = MaxGeneration
      BY FS_Interval, RegistryAssumption DEF Generation
    <3>3. Cardinality(FlightsIn(flight)) <= MaxGeneration
      BY <3>1, <3>2, FS_Subset
    <3> QED
      BY <3>3, <2>a, FlightsFinite, RegistryAssumption DEF Tasks
  <2> QED
    BY <2>2, <2>3, <2>a DEF Types, ClientState, RegistryTypeOK
<1> QED
  BY <1>1, RegistryInvariant, PTL

\* The count the reaper trusts is that of the clients that hold a counted
\* lease of the published generation, and a slot is idle exactly at zero.
THEOREM LeasesAreCounted == RegistrySpec => []LeaseAccounting
<1>1. RegistryInv => LeaseAccounting
  <2> SUFFICES ASSUME RegistryInv, NEW k \in Key, slot[k].kind = "ready"
               PROVE  /\ slot[k].leases = Cardinality({c \in Leases(slot[k].gen) : client[c].counted})
                      /\ slot[k].leases = 0 <=> slot[k].idle # NoCandidate
    BY DEF LeaseAccounting
  <2>1. Counted
    BY DEF RegistryInv
  <2>2. {c \in Leases(slot[k].gen) : client[c].counted} = LeasesIn(client, slot[k].gen)
    BY <2>1 DEF Counted, LeasesIn, Leases
  <2> QED
    BY <2>1, <2>2 DEF Counted
<1> QED
  BY <1>1, RegistryInvariant, PTL

\* Every acquire that waits is known to the slot of a flight that still runs
\* and will send it the outcome.
THEOREM WaitersAreHeard == RegistrySpec => []NoStrandedWaiter
<1>1. RegistryInv => NoStrandedWaiter
  BY DEF RegistryInv, Waiters
<1> QED
  BY <1>1, RegistryInvariant, PTL

\* A clean report of the shutdown means that every flight, the reaper and
\* every manager it was stopping have ended.
THEOREM CleanMeansEnded == RegistrySpec => []CleanReport
<1>1. RegistryInv => CleanReport
  BY DEF RegistryInv, Ending
<1> QED
  BY <1>1, RegistryInvariant, PTL

\* Once shutdown has begun no slot appears and no manager becomes live: a
\* flight that ends afterwards finds its slot gone.
THEOREM StaysClosed == RegistrySpec => ClosedForGood
<1>1. RegistryInv /\ [RegistryNext]_registryVars =>
        [lifecycle # "running" =>
          /\ lifecycle' # "running"
          /\ \A k \in Key : slot'[k] = NoSlot
          /\ \A g \in Generation : manager'[g] = "live" => manager[g] = "live"]_registryVars
  <2> SUFFICES ASSUME RegistryInv, RegistryNext, lifecycle # "running"
               PROVE  /\ lifecycle' # "running"
                      /\ \A k \in Key : slot'[k] = NoSlot
                      /\ \A g \in Generation : manager'[g] = "live" => manager[g] = "live"
    OBVIOUS
  <2>1. RegistryInv' /\ Ending' /\ Types
    BY RegistryNextInv DEF RegistryInv
  <2>2. lifecycle' # "running" /\ \A g \in Generation : manager'[g] = "live" => manager[g] = "live"
    <3>1. ASSUME NEW c \in Client, ClientStep(c)
          PROVE  lifecycle' = lifecycle /\ manager' = manager
      BY <3>1 DEF ClientStep, AcquireReady, AcquireJoins, AcquireStarts, AcquireRefused,
                  CancelAcquire, Release, CloneLease
    <3>2. ASSUME NEW g \in Generation, FlightStep(g)
          PROVE  lifecycle' = lifecycle /\ manager' = manager
      BY <3>2 DEF FlightStep, Publish, FailFlight, StaleFlight
    <3>3. ASSUME NEW k \in Key, Retire(k)
          PROVE  lifecycle' = lifecycle /\ manager' = manager
      BY <3>3 DEF Retire
    <3>4. ASSUME NEW i \in Candidate, Deadline(i)
          PROVE  lifecycle' = lifecycle /\ manager' = manager
      BY <3>4 DEF Deadline
    <3>5. CASE ReaperStep
      BY <3>5, <2>1 DEF ReaperStep, ReaperLooks, ReaperNotified, ReaperExpires, ReaperStops,
                        Disconnected, Types
    <3>6. CASE ShutdownStep
      BY <3>6, <2>1 DEF ShutdownStep, BeginShutdown, ShutdownConverges, ShutdownTimesOut,
                        ManagerStopped, Types
    <3> QED
      BY <3>1, <3>2, <3>3, <3>4, <3>5, <3>6 DEF RegistryNext
  <2> QED
    BY <2>1, <2>2 DEF Ending
<1> QED
  BY <1>1, RegistryInvariant, PTL DEF RegistrySpec, ClosedForGood

-----------------------------------------------------------------------------
\* The abstract variables when the slots, the clients and the managers are
\* as given.
CurrentIn(slots) == [k \in Key |-> IF slots[k].kind = "ready" THEN slots[k].gen ELSE None]
UsesIn(clients) == [c \in Client |-> clients[c].gen]
ShutIn(managers) == {g \in Generation : managers[g] \in {"reaping", "closing", "closed"}}

\* Steps after which every client uses what it used.
LEMMA UsesKept ==
    ASSUME NEW before, NEW after, \A c \in Client : after[c].gen = before[c].gen
    PROVE  UsesIn(after) = UsesIn(before)
  BY DEF UsesIn

\* A client that asks, waits or goes away uses nothing before and after.
LEMMA ClientStepRefines ==
    ASSUME RegistryInv, NEW c \in Client, ClientStep(c)
    PROVE  [Promise!LeasesNext]_(Promise!leasesVars)
<1>a. Types /\ Shapes /\ Generations /\ Ending
  BY DEF RegistryInv
<1> DEFINE Stutters == /\ CurrentIn(slot') = CurrentIn(slot)
                       /\ UsesIn(client') = UsesIn(client)
                       /\ manager' = manager /\ lifecycle' = lifecycle
<1>s. Stutters => UNCHANGED Promise!leasesVars
  BY DEF Promise!leasesVars, CurrentIn, UsesIn
<1>1. ASSUME NEW k \in Key, AcquireReady(c, k)
      PROVE  Promise!Use(c, k)
  <2> DEFINE s == Ready(slot[k].gen, slot[k].leases + 1, NoCandidate)
             l == Lease(k, slot[k].gen, TRUE)
  <2>1. /\ client[c].at \in {"away", "again"} /\ lifecycle = "running"
        /\ slot[k].kind = "ready"
        /\ slot' = [slot EXCEPT ![k] = s] /\ client' = [client EXCEPT ![c] = l]
        /\ UNCHANGED <<lifecycle, manager>>
    BY <1>1 DEF AcquireReady, Asks, Admitted
  <2>2. slot[k].gen \in Generation /\ slot[k].gen # None /\ client[c].gen = None
    BY <2>1, <1>a, Fields DEF Shapes
  <2>3. s.kind = "ready" /\ s.gen = slot[k].gen /\ l.gen = slot[k].gen
    BY DEF Ready, Lease, NoSlot
  <2> HIDE DEF s, l
  <2>4. CurrentIn(slot') = CurrentIn(slot)
    BY <2>1, <2>3, <1>a DEF CurrentIn, Types
  <2>5. UsesIn(client') = [UsesIn(client) EXCEPT ![c] = CurrentIn(slot)[k]]
    BY <2>1, <2>3, <1>a DEF UsesIn, CurrentIn, Types
  <2>6. CurrentIn(slot)[k] # None /\ UsesIn(client)[c] = None
    BY <2>1, <2>2 DEF CurrentIn, UsesIn
  <2> QED
    BY <2>1, <2>4, <2>5, <2>6 DEF Promise!Use, CurrentIn, UsesIn
<1>2. ASSUME NEW k \in Key, AcquireJoins(c, k) \/ AcquireStarts(c, k)
      PROVE  Stutters
  <2>1. PICK s : /\ slot' = [slot EXCEPT ![k] = s] /\ s.kind = "creating"
                 /\ client' = [client EXCEPT ![c] = Waiting(k)]
                 /\ client[c].at \in {"away", "again"} /\ slot[k].kind # "ready"
                 /\ UNCHANGED <<lifecycle, manager>>
    BY <1>2 DEF AcquireJoins, AcquireStarts, Asks, Creating, NoSlot
  <2>2. client[c].gen = None /\ Waiting(k).gen = None
    BY <2>1, <1>a, Records DEF Shapes
  <2> QED
    BY <2>1, <2>2, <1>a DEF CurrentIn, UsesIn, Types
<1>3. CASE AcquireRefused(c) \/ CancelAcquire(c)
  <2>1. /\ client[c].at \in {"waiting", "again"} /\ client' = [client EXCEPT ![c] = Away]
        /\ UNCHANGED <<lifecycle, manager>>
    BY <1>3 DEF AcquireRefused, CancelAcquire
  <2>2. client[c].gen = None /\ Away.gen = None
    BY <2>1, <1>a, Records DEF Shapes
  <2>3. \A k \in Key : slot'[k].kind = slot[k].kind /\ slot'[k].gen = slot[k].gen
    <3> SUFFICES ASSUME NEW k \in Key
                 PROVE  slot'[k].kind = slot[k].kind /\ slot'[k].gen = slot[k].gen
      OBVIOUS
    <3>1. slot[k] \in Slot
      BY <1>a DEF Types
    <3>2. slot'[k] = slot[k] \/ slot'[k] = [slot[k] EXCEPT !.waiters = @ \ {c}]
      BY <1>3 DEF AcquireRefused, CancelAcquire
    <3> QED
      BY <3>1, <3>2 DEF Slot
  <2>4. CurrentIn(slot') = CurrentIn(slot)
    BY <2>3 DEF CurrentIn
  <2>5. UsesIn(client') = UsesIn(client)
    BY <2>1, <2>2, <1>a DEF UsesIn, Types
  <2> QED
    BY <2>1, <2>4, <2>5, <1>s
<1>4. CASE Release(c)
  <2>1. /\ client[c].at = "leased" /\ client' = [client EXCEPT ![c] = Away]
        /\ UNCHANGED <<lifecycle, manager>>
    BY <1>4 DEF Release
  <2>2. client[c].gen # None /\ Away.gen = None
    BY <2>1, <1>a, Records DEF Shapes
  <2>3. CurrentIn(slot') = CurrentIn(slot)
    <3>1. CASE slot' = slot
      BY <3>1
    <3>2. CASE slot' # slot
      <4>1. PICK k : k = client[c].key
        OBVIOUS
      <4>2. /\ slot[k].kind = "ready"
            /\ \/ slot' = [slot EXCEPT ![k].leases = @ - 1]
               \/ \E idle : slot' = [slot EXCEPT ![k] = Ready(slot[k].gen, 0, idle)]
        BY <1>4, <3>2, <4>1 DEF Release, Current
      <4>3. CASE slot' = [slot EXCEPT ![k].leases = @ - 1]
        BY <4>3, <1>a DEF CurrentIn, Types, Slot
      <4>4. ASSUME NEW idle, slot' = [slot EXCEPT ![k] = Ready(slot[k].gen, 0, idle)]
            PROVE  CurrentIn(slot') = CurrentIn(slot)
        <5>1. PICK s : s = Ready(slot[k].gen, 0, idle)
          OBVIOUS
        <5>2. s.kind = "ready" /\ s.gen = slot[k].gen
          BY <5>1 DEF Ready, NoSlot
        <5> QED
          BY <4>2, <4>4, <5>1, <5>2, <1>a DEF CurrentIn, Types
      <4> QED
        BY <4>2, <4>3, <4>4
    <3> QED
      BY <3>1, <3>2
  <2>4. UsesIn(client') = [UsesIn(client) EXCEPT ![c] = None] /\ UsesIn(client)[c] # None
    BY <2>1, <2>2, <1>a DEF UsesIn, Types
  <2>5. Promise!EndUse(c)
    BY <2>1, <2>3, <2>4 DEF Promise!EndUse, CurrentIn, UsesIn
  <2> QED
    BY <2>5 DEF Promise!LeasesNext
<1>5. ASSUME NEW d \in Client, CloneLease(c, d)
      PROVE  Promise!Share(c, d)
  <2>1. PICK k, counts :
          /\ client[c].at = "leased" /\ client[d].at = "away"
          /\ client' = [client EXCEPT ![d] = Lease(k, client[c].gen, counts)]
          /\ \/ slot' = slot
             \/ /\ slot' = [slot EXCEPT ![k] = Ready(slot[k].gen, slot[k].leases + 1, NoCandidate)]
                /\ slot[k].kind = "ready"
          /\ UNCHANGED <<lifecycle, manager>>
    BY <1>5, Zenon DEF CloneLease, Current
  <2>2. client[c].gen # None /\ client[d].gen = None
    BY <2>1, <1>a DEF Shapes
  <2>3. PICK l, s : /\ l = Lease(k, client[c].gen, counts)
                    /\ s = Ready(slot[k].gen, slot[k].leases + 1, NoCandidate)
    OBVIOUS
  <2>4. l.gen = client[c].gen /\ s.kind = "ready" /\ s.gen = slot[k].gen
    BY <2>3 DEF Ready, Lease, NoSlot
  <2>5. CurrentIn(slot') = CurrentIn(slot)
    BY <2>1, <2>3, <2>4, <1>a DEF CurrentIn, Types
  <2>6. UsesIn(client') = [UsesIn(client) EXCEPT ![d] = UsesIn(client)[c]]
    BY <2>1, <2>3, <2>4, <1>a DEF UsesIn, Types
  <2>7. UsesIn(client)[c] # None /\ UsesIn(client)[d] = None
    BY <2>2 DEF UsesIn
  <2> QED
    BY <2>1, <2>5, <2>6, <2>7 DEF Promise!Share, CurrentIn, UsesIn
<1> QED
  BY <1>1, <1>2, <1>3, <1>4, <1>5, <1>s DEF ClientStep, Promise!LeasesNext

\* Waiters hear of the outcome and use nothing before and after.
LEMMA NotifyRefines ==
    ASSUME RegistryInv, NEW W, NEW outcome, Notify(W, outcome),
           \A c \in W : c \in Client => client[c].at = "waiting"
    PROVE  UsesIn(client') = UsesIn(client)
<1>1. ASSUME NEW c \in Client PROVE client'[c].gen = client[c].gen
  <2>1. CASE c \notin W
    BY <2>1 DEF Notify
  <2>2. CASE c \in W
    <3>1. client[c].gen = None /\ client[c].key \in Key
      BY <2>2 DEF RegistryInv, Shapes
    <3>2. client'[c] = Away \/ client'[c] = Again(client[c].key)
      BY <2>2 DEF Notify
    <3> QED
      BY <3>1, <3>2, Records
  <2> QED
    BY <2>1, <2>2
<1> QED
  BY <1>1, UsesKept

\* A flight establishes a generation nobody used before, or nothing.
LEMMA FlightStepRefines ==
    ASSUME RegistryInv, NEW g \in Generation, FlightStep(g)
    PROVE  [Promise!LeasesNext]_(Promise!leasesVars)
<1>a. Types /\ Shapes /\ Generations /\ Waiters /\ Ending
  BY DEF RegistryInv
<1>1. CASE StaleFlight(g)
  BY <1>1 DEF StaleFlight, Promise!leasesVars
<1>2. CASE Publish(g) \/ FailFlight(g)
  <2>1. PICK k \in Key : k = flight[g]
    BY <1>2, <1>a DEF Publish, FailFlight, Types
  <2>2. slot[k].kind = "creating" /\ slot[k].gen = g /\ lifecycle' = lifecycle
    BY <1>2, <2>1 DEF Publish, FailFlight, TakesSlot, Current
  <2>3. UsesIn(client') = UsesIn(client)
    <3>1. PICK W : W = slot[k].waiters
      OBVIOUS
    <3>2. \E outcome : Notify(W, outcome)
      BY <1>2, <2>1, <3>1 DEF Publish, FailFlight, Notify
    <3>3. \A c \in W : c \in Client => client[c].at = "waiting"
      BY <3>1, <1>a DEF Waiters
    <3> QED
      BY <3>2, <3>3, NotifyRefines, Zenon
  <2>4. manager[g] = "none"
    BY <2>2, <1>a, RegistryAssumption DEF Shapes, Generations
  <2>5. CASE Publish(g)
    <3>1. PICK s : /\ slot' = [slot EXCEPT ![k] = s] /\ s.kind = "ready" /\ s.gen = g
                   /\ manager' = [manager EXCEPT ![g] = "live"]
                   /\ lifecycle = "running"
      <4>1. PICK idle : slot' = [slot EXCEPT ![k] = Ready(g, 0, idle)]
        BY <2>1, <2>5 DEF Publish
      <4>2. PICK s : s = Ready(g, 0, idle)
        OBVIOUS
      <4>3. s.kind = "ready" /\ s.gen = g
        BY <4>2 DEF Ready, NoSlot
      <4> QED
        BY <4>1, <4>2, <4>3, <2>5 DEF Publish
    <3>2. CurrentIn(slot') = [CurrentIn(slot) EXCEPT ![k] = g] /\ CurrentIn(slot)[k] = None
      BY <3>1, <2>2, <1>a DEF CurrentIn, Types
    <3>3. \A j \in Key : CurrentIn(slot)[j] # g
      BY <2>2, <1>a, Fields DEF CurrentIn, Generations
    <3>4. g \notin ShutIn(manager) /\ ShutIn(manager') = ShutIn(manager)
      BY <3>1, <2>4, <1>a DEF ShutIn, Types
    <3>5. \A c \in Client : UsesIn(client)[c] # g
      BY <2>4, <1>a, Fields DEF UsesIn, Shapes, Generations
    <3>6. Promise!Establish(k, g)
      BY <3>1, <3>2, <3>3, <3>4, <3>5, <2>2, <2>3
         DEF Promise!Establish, Promise!InUse, CurrentIn, UsesIn, ShutIn
    <3> QED
      BY <3>6 DEF Promise!LeasesNext
  <2>6. CASE FailFlight(g)
    <3>1. slot' = [slot EXCEPT ![k] = NoSlot] /\ manager' = manager
      BY <2>1, <2>6 DEF FailFlight
    <3>2. CurrentIn(slot') = CurrentIn(slot)
      BY <3>1, <2>2, <1>a, Records DEF CurrentIn, Types
    <3> QED
      BY <3>1, <3>2, <2>2, <2>3 DEF Promise!leasesVars, CurrentIn, UsesIn
  <2> QED
    BY <1>2, <2>5, <2>6
<1> QED
  BY <1>1, <1>2 DEF FlightStep

\* Retirement withdraws, and leaves the generation to those who use it.
LEMMA RetireRefines ==
    ASSUME RegistryInv, NEW k \in Key, Retire(k)
    PROVE  [Promise!LeasesNext]_(Promise!leasesVars)
<1>a. Types /\ Shapes /\ Waiters
  BY DEF RegistryInv
<1>1. /\ slot' = [slot EXCEPT ![k] = NoSlot] /\ UNCHANGED <<lifecycle, manager>>
      /\ slot[k].kind # "none"
  BY DEF Retire
<1>2. UsesIn(client') = UsesIn(client)
  <2>1. PICK W : W = slot[k].waiters
    OBVIOUS
  <2>2. Notify(W, "superseded")
    BY <2>1 DEF Retire, Notify
  <2>3. \A c \in W : c \in Client => client[c].at = "waiting"
    BY <2>1, <1>a DEF Waiters
  <2> QED
    BY <2>2, <2>3, NotifyRefines, Zenon
<1>3. CurrentIn(slot') = [CurrentIn(slot) EXCEPT ![k] = None]
  BY <1>1, <1>a, Records DEF CurrentIn, Types
<1>4. CASE slot[k].kind = "ready"
  <2>1. CurrentIn(slot)[k] # None
    BY <1>4, <1>a, Fields DEF CurrentIn, Shapes
  <2>2. Promise!Withdraw(k)
    BY <2>1, <1>1, <1>2, <1>3 DEF Promise!Withdraw, CurrentIn, UsesIn
  <2> QED
    BY <2>2 DEF Promise!LeasesNext
<1>5. CASE slot[k].kind # "ready"
  <2>1. CurrentIn(slot') = CurrentIn(slot)
    BY <1>3, <1>5 DEF CurrentIn
  <2> QED
    BY <2>1, <1>1, <1>2 DEF Promise!leasesVars, CurrentIn, UsesIn
<1> QED
  BY <1>4, <1>5

\* The reaper disconnects a generation nobody uses: its count is the truth.
LEMMA ReaperStepRefines ==
    ASSUME RegistryInv, ReaperStep
    PROVE  [Promise!LeasesNext]_(Promise!leasesVars)
<1>a. Types /\ Shapes /\ Generations /\ Counted
  BY DEF RegistryInv
<1> DEFINE Stutters == UNCHANGED <<slot, client, lifecycle>> /\ ShutIn(manager') = ShutIn(manager)
<1>s. Stutters => UNCHANGED Promise!leasesVars
  BY DEF Promise!leasesVars, ShutIn
<1>1. CASE ReaperLooks \/ ReaperNotified
  BY <1>1, <1>s DEF ReaperLooks, ReaperNotified
<1>2. CASE ReaperStops
  <2>1. /\ UNCHANGED <<slot, client, lifecycle>>
        /\ manager' = [g \in Generation |-> IF manager[g] = "reaping" THEN "closed" ELSE manager[g]]
    BY <1>2 DEF ReaperStops
  <2>2. ShutIn(manager') = ShutIn(manager)
    BY <2>1 DEF ShutIn
  <2> QED
    BY <2>1, <2>2, <1>s
<1>3. ASSUME NEW g \in Generation, Disconnected(g) PROVE Stutters
  <2>1. /\ UNCHANGED <<slot, client, lifecycle>> /\ manager[g] = "reaping"
        /\ manager' = [manager EXCEPT ![g] = "closed"]
    BY <1>3 DEF Disconnected
  <2>2. ShutIn(manager') = ShutIn(manager)
    BY <2>1, <1>a DEF ShutIn, Types
  <2> QED
    BY <2>1, <2>2
<1>4. CASE ReaperExpires /\ ~IsCurrentExpired(reaper.next)
  BY <1>4, <1>s DEF ReaperExpires
<1>5. CASE ReaperExpires /\ IsCurrentExpired(reaper.next)
  <2>1. PICK k \in Key : k = reaper.next.key
    BY <1>5, <1>a DEF ReaperExpires, Shapes
  <2>2. PICK g \in Generation : g = reaper.next.gen
    BY <1>5, <2>1, <1>a DEF IsCurrentExpired, Current, Shapes
  <2>3. /\ slot[k].kind = "ready" /\ slot[k].gen = g /\ slot[k].leases = 0
        /\ slot' = [slot EXCEPT ![k] = NoSlot]
        /\ manager' = [manager EXCEPT ![g] = "reaping"]
        /\ UNCHANGED <<client, lifecycle>>
    BY <1>5, <2>1, <2>2 DEF ReaperExpires, IsCurrentExpired, Current
  <2>4. LeasesIn(client, g) = {}
    BY <2>3, <1>a, FiniteSets, FS_EmptySet DEF Counted
  <2>5. \A c \in Client : UsesIn(client)[c] # g
    BY <2>4, <1>a, Fields DEF LeasesIn, UsesIn, Shapes
  <2>6. CurrentIn(slot)[k] = g /\ g # None
    BY <2>3, Fields DEF CurrentIn
  <2>7. CurrentIn(slot') = [CurrentIn(slot) EXCEPT ![k] = None]
    BY <2>3, <1>a, Records DEF CurrentIn, Types
  <2>8. ShutIn(manager') = ShutIn(manager) \cup {g}
    BY <2>3, <1>a DEF ShutIn, Types
  <2>9. Promise!Expire(k)
    BY <2>3, <2>5, <2>6, <2>7, <2>8
       DEF Promise!Expire, Promise!InUse, CurrentIn, UsesIn, ShutIn
  <2> QED
    BY <2>9 DEF Promise!LeasesNext
<1> QED
  BY <1>1, <1>2, <1>3, <1>4, <1>5, <1>s DEF ReaperStep

\* Shutdown closes every current generation at once, and nothing after.
LEMMA ShutdownStepRefines ==
    ASSUME RegistryInv, ShutdownStep
    PROVE  [Promise!LeasesNext]_(Promise!leasesVars)
<1>a. Types /\ Shapes /\ Generations /\ Waiters
  BY DEF RegistryInv
<1>1. CASE BeginShutdown
  <2>1. /\ lifecycle = "running" /\ lifecycle' = "shuttingDown"
        /\ slot' = [k \in Key |-> NoSlot]
        /\ manager' = [g \in Generation |->
                          IF g \in ReadyGenerations THEN "closing" ELSE manager[g]]
    BY <1>1 DEF BeginShutdown
  <2>2. CurrentIn(slot') = [k \in Key |-> None]
    BY <2>1, Records DEF CurrentIn
  <2>3. UsesIn(client') = UsesIn(client)
    <3>1. PICK W : W = UNION {slot[k].waiters : k \in Key}
      OBVIOUS
    <3>2. Notify(W, "failed")
      BY <1>1, <3>1 DEF BeginShutdown, Notify
    <3>3. \A c \in W : c \in Client => client[c].at = "waiting"
      BY <3>1, <1>a DEF Waiters
    <3> QED
      BY <3>2, <3>3, NotifyRefines, Zenon
  <2>4. PICK R : R = ReadyGenerations
    OBVIOUS
  <2>5. R = {CurrentIn(slot)[k] : k \in Key} \ {None}
    <3>1. \A k \in Key : slot[k].kind = "ready" => slot[k].gen # None
      BY <1>a, Fields DEF Shapes
    <3> QED
      BY <2>4, <3>1 DEF ReadyGenerations, CurrentIn
  <2>6. R \subseteq Generation
    BY <2>4, <1>a DEF ReadyGenerations, Shapes
  <2>7. ShutIn(manager') = ShutIn(manager) \cup R
    BY <2>1, <2>4, <2>6 DEF ShutIn
  <2>8. Promise!CloseDown
    BY <2>1, <2>2, <2>3, <2>5, <2>7 DEF Promise!CloseDown, CurrentIn, UsesIn, ShutIn
  <2> QED
    BY <2>8 DEF Promise!LeasesNext
<1>2. CASE ~BeginShutdown
  <2>1. /\ UNCHANGED <<slot, client>>
        /\ lifecycle' = "running" <=> lifecycle = "running"
        /\ \A g \in Generation : manager'[g] = manager[g]
                                 \/ (manager[g] = "closing" /\ manager'[g] = "closed")
    BY <1>2, <1>a DEF ShutdownStep, ShutdownConverges, ShutdownTimesOut, ManagerStopped, Types
  <2>2. ShutIn(manager') = ShutIn(manager)
    BY <2>1 DEF ShutIn
  <2> QED
    BY <2>1, <2>2 DEF Promise!leasesVars, ShutIn
<1> QED
  BY <1>1, <1>2

\* The registry keeps the promise of SessionLeases: whatever the waiters, the
\* flights, the reaper and shutdown do, a client uses the generation it checked
\* out while that one was current, and only an unused one is disconnected.
THEOREM RegistryKeepsPromise == RegistrySpec => KeepsPromise
<1>1. RegistryInit => Promise!LeasesInit
  BY Records DEF RegistryInit, Promise!LeasesInit
<1>2. RegistryInv /\ [RegistryNext]_registryVars => [Promise!LeasesNext]_(Promise!leasesVars)
  <2> SUFFICES ASSUME RegistryInv, [RegistryNext]_registryVars
               PROVE  [Promise!LeasesNext]_(Promise!leasesVars)
    OBVIOUS
  <2>1. ASSUME NEW i \in Candidate, Deadline(i) PROVE UNCHANGED Promise!leasesVars
    BY <2>1 DEF Deadline, Promise!leasesVars
  <2>2. CASE UNCHANGED registryVars
    BY <2>2 DEF registryVars, Promise!leasesVars
  <2> QED
    BY <2>1, <2>2, ClientStepRefines, FlightStepRefines, RetireRefines, ReaperStepRefines,
       ShutdownStepRefines DEF RegistryNext
<1> QED
  BY <1>1, <1>2, RegistryInvariant, PTL DEF RegistrySpec, KeepsPromise, Promise!LeasesSpec
=============================================================================
