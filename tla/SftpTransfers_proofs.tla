------------------------- MODULE SftpTransfers_proofs -------------------------
(***************************************************************************)
(* The safety properties of the SFTP transfers, for any transfers, any     *)
(* connections and any limit.                                              *)
(***************************************************************************)
EXTENDS SftpTransfers, FiniteSetTheorems, SequenceTheorems, WellFoundedInduction, TLAPS

Busy == {"Running", "Cancelling"}

\* The queue of c holds the transfers that are queued in "states", each once.
QueueMatches(pending, c, states) ==
    /\ \A i, j \in 1..Len(pending) : pending[i] = pending[j] => i = j
    /\ \A t \in Transfer :
          ConnectionOf[t] = c /\ states[t] = "Queued" <=> \E i \in 1..Len(pending) : pending[i] = t

RunningIn(c, states) == {t \in Transfer : ConnectionOf[t] = c /\ states[t] \in Busy}

\* A lane whose queue and whose running transfers are those of "states", and
\* that is full while anything waits.
LaneMatches(l, c, states) ==
    /\ l.running = RunningIn(c, states)
    /\ IsFiniteSet(l.running)
    /\ Cardinality(l.running) <= MaxConcurrent
    /\ QueueMatches(l.pending, c, states)
    /\ l.pending # <<>> => Cardinality(l.running) = MaxConcurrent

\* The entry of a transfer in the panel, and the asked and applied
\* cancellations, when the records, the panel and the tokens are as given.
EntryMatches(t, states, panels, asked, applied) ==
    /\ \/ panels[t] = states[t]
       \/ panels[t] = "none" /\ states[t] \in {"reserved", "dropped"}
       \/ panels[t] = "Cancelling" /\ states[t] \in {"Queued", "Running"} /\ t \in asked
    /\ t \in asked => panels[t] \in {"Cancelling", "Cancelled"}
    /\ states[t] = "Cancelling" => t \in applied

Jobs ==
    \A t \in Transfer :
        /\ job[t] \notin {"none", "done"} <=> state[t] \in Busy
        /\ job[t] = "stopped" => t \in flag

SftpInv ==
    /\ SftpTypeOK
    /\ \A c \in Connection : LaneMatches(lane[c], c, state)
    /\ \A t \in Transfer : EntryMatches(t, state, panel, token, flag)
    /\ Jobs

-----------------------------------------------------------------------------
\* The least-number principle: the intervals 0..k for k in T are finite, and
\* inclusion is well founded on finite sets.
LEMMA LeastNumber ==
    ASSUME NEW T \in SUBSET Nat, T # {}
    PROVE  \E m \in T : \A k \in T : m <= k
<1> DEFINE U == {0..k : k \in T}
<1>1. U \subseteq FiniteSubsetsOf(Nat) /\ U # {}
  <2>1. ASSUME NEW k \in T PROVE 0..k \in FiniteSubsetsOf(Nat)
    <3>1. IsFiniteSet(0..k) /\ 0..k \subseteq Nat
      BY FS_Interval
    <3> QED
      BY <3>1 DEF FiniteSubsetsOf
  <2> QED
    BY <2>1
<1>2. PICK x \in U : \A y \in U : <<y, x>> \notin StrictSubsetOrdering(Nat)
  <2> HIDE DEF U
  <2> QED
    BY <1>1, FS_StrictSubsetOrderingWellFounded, WFMin
<1>3. PICK m \in T : x = 0..m
  OBVIOUS
<1>4. ASSUME NEW k \in T, k < m PROVE FALSE
  <2>1. 0..k \subseteq 0..m /\ 0..k # 0..m
    <3>1. m \in 0..m /\ m \notin 0..k
      BY <1>4
    <3>2. 0..k \subseteq 0..m
      BY <1>4
    <3> QED
      BY <3>1, <3>2
  <2>2. <<0..k, 0..m>> \in StrictSubsetOrdering(Nat)
    BY <2>1 DEF StrictSubsetOrdering
  <2> QED
    BY <2>2, <1>2, <1>3
<1> QED
  BY <1>4

LEMMA MinOfNumbers ==
    ASSUME NEW T \in SUBSET Nat, T # {}
    PROVE  Min(T) \in T /\ \A k \in T : Min(T) <= k
  BY LeastNumber DEF Min

\* Of the queue, the prefix that leaves holds at most n transfers that were
\* not cancelled, and as many unless the queue is used up.
LEMMA PrefixLength ==
    ASSUME NEW pending \in Seq(Transfer), NEW n \in Nat
    PROVE  \E m \in 0..Len(pending) :
             /\ Prefix(pending, n) = SubSeq(pending, 1, m)
             /\ Cardinality({i \in 1..m : pending[i] \notin token}) <= n
             /\ m < Len(pending) => Cardinality({i \in 1..m : pending[i] \notin token}) = n
<1> DEFINE L == Len(pending)
           s == [k \in 0..L |-> {i \in 1..k : pending[i] \notin token}]
           f == [k \in 0..L |-> Cardinality(s[k])]
           enough == {k \in 0..L : f[k] = n}
<1>0. L \in Nat
  OBVIOUS
<1>1. \A k \in 0..L : IsFiniteSet(s[k]) /\ f[k] \in Nat /\ f[k] = Cardinality(s[k])
  <2> SUFFICES ASSUME NEW k \in 0..L PROVE IsFiniteSet(s[k]) /\ f[k] \in Nat /\ f[k] = Cardinality(s[k])
    OBVIOUS
  <2>1. IsFiniteSet(1..k) /\ s[k] \in SUBSET (1..k)
    BY <1>0, FS_Interval
  <2>2. IsFiniteSet(s[k])
    BY <2>1, FS_Subset
  <2> QED
    BY <2>2, FS_CardinalityType
<1>2. f[0] = 0
  <2>1. s[0] = {}
    OBVIOUS
  <2> QED
    BY <1>0, <2>1, FS_EmptySet
<1>3. \A k \in 1..L : f[k] <= f[k - 1] + 1
  <2> SUFFICES ASSUME NEW k \in 1..L PROVE f[k] <= f[k - 1] + 1
    OBVIOUS
  <2>1. k - 1 \in 0..L /\ k \in 0..L
    BY <1>0
  <2>2. s[k] = s[k - 1] \/ s[k] = s[k - 1] \cup {k}
    BY <2>1
  <2>3. PICK A : A = s[k - 1]
    OBVIOUS
  <2>4. IsFiniteSet(A) /\ f[k - 1] = Cardinality(A) /\ Cardinality(A) \in Nat
    BY <2>1, <2>3, <1>1
  <2>5. f[k] = Cardinality(A) \/ f[k] = Cardinality(A \cup {k})
    BY <2>1, <2>2, <2>3, <1>1
  <2> HIDE DEF f, s
  <2>6. Cardinality(A \cup {k}) = Cardinality(A) \/ Cardinality(A \cup {k}) = Cardinality(A) + 1
    BY <2>4, FS_AddElement
  <2> QED
    BY <2>4, <2>5, <2>6
<1>4. Prefix(pending, n) = SubSeq(pending, 1, IF enough = {} THEN L ELSE Min(enough))
  <2>1. enough = {k \in 0..L : Cardinality({i \in 1..k : pending[i] \notin token}) = n}
    OBVIOUS
  <2> QED
    BY <2>1 DEF Prefix
<1>m. \A m \in 0..L : Cardinality({i \in 1..m : pending[i] \notin token}) = f[m]
  OBVIOUS
<1>n. \A k \in 0..L : k \in enough <=> f[k] = n
  OBVIOUS
<1>o. enough \in SUBSET (0..L)
  OBVIOUS
<1> HIDE DEF f, s, enough, L
<1>5. CASE enough # {}
  <2>1. Min(enough) \in enough
    BY <1>0, <1>5, <1>o, MinOfNumbers
  <2>2. PICK m \in 0..L : m = Min(enough) /\ f[m] = n
    BY <2>1, <1>n, <1>o
  <2>3. Prefix(pending, n) = SubSeq(pending, 1, m)
    BY <1>4, <1>5, <2>2
  <2>4. f[m] <= n /\ (m < L => f[m] = n)
    BY <2>2
  <2> QED
    BY <2>3, <2>4, <1>m DEF L
<1>6. CASE enough = {}
  <2>0. L \in 0..L /\ 0 \in 0..L
    BY <1>0
  <2>1. f[L] <= n
    <3> SUFFICES ASSUME ~(f[L] <= n) PROVE FALSE
      OBVIOUS
    <3>0. PICK T : T = {k \in 0..L : ~(f[k] <= n)}
      OBVIOUS
    <3>1. T \in SUBSET Nat /\ T # {}
      BY <2>0, <1>0, <3>0
    <3>2. PICK k \in T : \A j \in T : k <= j
      BY <3>1, LeastNumber
    <3>3. k # 0
      BY <1>2, <3>0
    <3>4. k - 1 \in 0..L /\ k \in 1..L /\ k \in 0..L /\ k - 1 < k
      BY <1>0, <3>0, <3>3
    <3>5. k - 1 \notin T
      BY <3>2, <3>4
    <3>6. f[k - 1] <= n /\ f[k - 1] # n
      BY <3>0, <3>4, <3>5, <1>n, <1>6
    <3>7. f[k] <= f[k - 1] + 1 /\ ~(f[k] <= n) /\ f[k] \in Nat /\ f[k - 1] \in Nat
      BY <3>0, <3>4, <1>1, <1>3
    <3> QED
      BY <3>6, <3>7
  <2>2. Prefix(pending, n) = SubSeq(pending, 1, L)
    BY <1>4, <1>6
  <2> QED
    BY <2>0, <2>1, <2>2, <1>m, <1>0 DEF L
<1> QED
  BY <1>5, <1>6

\* A queue without repetition: the fresh ones of a prefix of it, counted.
LEMMA FreshCount ==
    ASSUME NEW pending \in Seq(Transfer), NEW m \in 0..Len(pending),
           \A i, j \in 1..Len(pending) : pending[i] = pending[j] => i = j
    PROVE  LET started == {pending[i] : i \in 1..m} \ token IN
           /\ IsFiniteSet(started)
           /\ Cardinality(started) = Cardinality({i \in 1..m : pending[i] \notin token})
<1> DEFINE S == {i \in 1..m : pending[i] \notin token}
           T == {pending[i] : i \in 1..m} \ token
           f == [i \in S |-> pending[i]]
<1>1. IsFiniteSet(S)
  <2>1. IsFiniteSet(1..m) /\ S \in SUBSET (1..m)
    BY FS_Interval
  <2> QED
    BY <2>1, FS_Subset
<1>2. f \in Surjection(S, T)
  BY DEF Surjection
<1>3. f \in Injection(S, T)
  <2>1. \A i \in S : i \in 1..Len(pending) /\ f[i] = pending[i]
    OBVIOUS
  <2>2. f \in [S -> T]
    BY <1>2 DEF Surjection
  <2> HIDE DEF S, T, f
  <2>3. \A i, j \in S : f[i] = f[j] => i = j
    BY <2>1
  <2> QED
    BY <2>2, <2>3 DEF Injection, IsInjective
<1> HIDE DEF S, T, f
<1>4. IsFiniteSet(T) /\ Cardinality(T) = Cardinality(S)
  BY <1>1, <1>2, <1>3, FS_Surjection
<1> QED
  BY <1>4 DEF S, T

\* What is left of a queue when a prefix of it leaves.
LEMMA RestOfQueue ==
    ASSUME NEW pending \in Seq(Transfer), NEW m \in 0..Len(pending),
           \A i, j \in 1..Len(pending) : pending[i] = pending[j] => i = j
    PROVE  LET rest == SubSeq(pending, m + 1, Len(pending)) IN
           /\ rest \in Seq(Transfer)
           /\ \A i, j \in 1..Len(rest) : rest[i] = rest[j] => i = j
           /\ \A t : (\E i \in 1..Len(rest) : rest[i] = t)
                        <=> (\E i \in 1..Len(pending) : pending[i] = t) /\ t \notin {pending[i] : i \in 1..m}
           /\ rest # <<>> => m < Len(pending)
<1> DEFINE L == Len(pending)
           rest == SubSeq(pending, m + 1, L)
<1>0. L \in Nat /\ m \in Nat /\ m <= L
  OBVIOUS
<1>1. /\ rest \in Seq(Transfer)
      /\ Len(rest) = L - m
      /\ \A i \in 1..(L - m) : rest[i] = pending[m + i]
  <2>1. \A i \in (m + 1)..L : pending[i] \in Transfer
    BY <1>0
  <2> HIDE DEF L
  <2>2. /\ SubSeq(pending, m + 1, L) \in Seq(Transfer)
        /\ Len(SubSeq(pending, m + 1, L)) = IF m + 1 <= L THEN L - (m + 1) + 1 ELSE 0
        /\ \A i \in 1..(L - (m + 1) + 1) : SubSeq(pending, m + 1, L)[i] = pending[(m + 1) + i - 1]
    BY <1>0, <2>1, SubSeqProperties
  <2> QED
    BY <1>0, <2>2
<1> HIDE DEF rest
<1>2. \A i, j \in 1..Len(rest) : rest[i] = rest[j] => i = j
  <2> SUFFICES ASSUME NEW i \in 1..Len(rest), NEW j \in 1..Len(rest), rest[i] = rest[j]
               PROVE  i = j
    OBVIOUS
  <2>1. m + i \in 1..L /\ m + j \in 1..L /\ pending[m + i] = pending[m + j]
    BY <1>0, <1>1
  <2>2. m + i = m + j
    BY <2>1
  <2> QED
    BY <2>2, <1>0, <1>1
<1>3. ASSUME NEW t
      PROVE  (\E i \in 1..Len(rest) : rest[i] = t)
                <=> (\E i \in 1..L : pending[i] = t) /\ t \notin {pending[i] : i \in 1..m}
  <2>1. ASSUME NEW i \in 1..Len(rest), rest[i] = t
        PROVE  (\E j \in 1..L : pending[j] = t) /\ t \notin {pending[j] : j \in 1..m}
    <3>1. m + i \in 1..L /\ pending[m + i] = t /\ m + i \notin 1..m
      BY <2>1, <1>0, <1>1
    <3>2. \A j \in 1..m : j \in 1..L
      BY <1>0
    <3> QED
      BY <3>1, <3>2
  <2>2. ASSUME NEW i \in 1..L, pending[i] = t, t \notin {pending[j] : j \in 1..m}
        PROVE  \E j \in 1..Len(rest) : rest[j] = t
    <3>1. i \notin 1..m
      BY <2>2
    <3>2. i - m \in 1..(L - m)
      BY <3>1, <1>0
    <3>3. rest[i - m] = pending[i]
      BY <3>2, <1>0, <1>1
    <3> QED
      BY <3>2, <3>3, <2>2, <1>1
  <2> QED
    BY <2>1, <2>2
<1>4. rest # <<>> => m < L
  <2>1. rest # <<>> => Len(rest) # 0
    BY <1>1
  <2> QED
    BY <2>1, <1>0, <1>1
<1> QED
  BY <1>1, <1>2, <1>3, <1>4 DEF rest

-----------------------------------------------------------------------------
\* take_startable and start_transfer: what the lane, the records, the panel
\* and the jobs were made into by the handler before it is good for the
\* invariant, with room for n transfers; then the handler keeps it.
LEMMA StartsKeep ==
    ASSUME SftpTypeOK, NEW c \in Connection, NEW running \in SUBSET Transfer,
           NEW pending \in Seq(Transfer), NEW n \in Nat, NEW also \in SUBSET Transfer,
           NEW states \in [Transfer -> {"none", "reserved", "dropped"} \cup Active \cup Finished],
           NEW panels \in [Transfer -> {"none"} \cup Active \cup Finished],
           Starts(c, running, pending, n, also, states, panels),
           UNCHANGED <<token, flag>>,
           running = RunningIn(c, states),
           IsFiniteSet(running), Cardinality(running) + n <= MaxConcurrent,
           pending # <<>> => Cardinality(running) + n = MaxConcurrent,
           QueueMatches(pending, c, states),
           \A d \in Connection \ {c} : LaneMatches(lane[d], d, states),
           \A t \in Transfer : EntryMatches(t, states, panels, token, flag),
           \A t \in Transfer :
               IF t \in also THEN states[t] \notin Active
               ELSE job[t] \notin {"none", "done"} <=> states[t] \in Busy,
           \A t \in Transfer : job[t] = "stopped" => t \in flag
    PROVE  SftpInv'
<1>1. PICK m \in 0..Len(pending) :
        /\ Prefix(pending, n) = SubSeq(pending, 1, m)
        /\ Cardinality({i \in 1..m : pending[i] \notin token}) <= n
        /\ m < Len(pending) => Cardinality({i \in 1..m : pending[i] \notin token}) = n
  BY PrefixLength
<1> DEFINE from == {pending[i] : i \in 1..m}
           rest == SubSeq(pending, m + 1, Len(pending))
<1>2. PICK started, skipped : started = from \ token /\ skipped = from \cap token
  OBVIOUS
<1>3. /\ lane' = [lane EXCEPT ![c] = [running |-> running \cup started, pending |-> rest]]
      /\ state' = [t \in Transfer |->
             IF t \in started THEN "Running" ELSE IF t \in skipped THEN "Cancelled" ELSE states[t]]
      /\ panel' = [t \in Transfer |->
             IF t \in started THEN PanelRuns(panels[t])
             ELSE IF t \in skipped THEN PanelAfter(panels[t], "Cancelled") ELSE panels[t]]
      /\ job' = [t \in Transfer |->
             IF t \in started THEN "first" ELSE IF t \in also THEN "done" ELSE job[t]]
  <2>1. PICK taken : taken = Prefix(pending, n)
    OBVIOUS
  <2>2. Len(taken) = m /\ {taken[i] : i \in DOMAIN taken} = from
    <3>1. m \in Int /\ \A i \in 1..m : pending[i] \in Transfer
      OBVIOUS
    <3>2. /\ SubSeq(pending, 1, m) \in Seq(Transfer)
          /\ Len(SubSeq(pending, 1, m)) = m
          /\ \A i \in 1..m : SubSeq(pending, 1, m)[i] = pending[i]
      BY <3>1, SubSeqProperties
    <3>3. taken \in Seq(Transfer) /\ Len(taken) = m /\ \A i \in 1..m : taken[i] = pending[i]
      BY <3>2, <2>1, <1>1
    <3>4. DOMAIN taken = 1..m
      BY <3>3
    <3> QED
      BY <3>3, <3>4
  <2> HIDE DEF from
  <2> QED
    BY <2>1, <2>2, <1>2 DEF Starts
<1>4. \A t \in from : t \in Transfer /\ ConnectionOf[t] = c /\ states[t] = "Queued" /\ t \notin also
  <2>1. \A i \in 1..m : i \in 1..Len(pending) /\ pending[i] \in Transfer
    OBVIOUS
  <2> QED
    BY <2>1 DEF QueueMatches, Active
<1>5. /\ rest \in Seq(Transfer)
      /\ \A i, j \in 1..Len(rest) : rest[i] = rest[j] => i = j
      /\ \A t : (\E i \in 1..Len(rest) : rest[i] = t)
                   <=> (\E i \in 1..Len(pending) : pending[i] = t) /\ t \notin from
      /\ rest # <<>> => m < Len(pending)
  BY RestOfQueue DEF QueueMatches
<1>6. IsFiniteSet(started)
      /\ Cardinality(started) = Cardinality({i \in 1..m : pending[i] \notin token})
  <2>1. \A i, j \in 1..Len(pending) : pending[i] = pending[j] => i = j
    BY DEF QueueMatches
  <2> QED
    BY <2>1, <1>2, FreshCount
<1> HIDE DEF from, rest
<1>7. \A t \in Transfer :
        /\ state'[t] = IF t \in started THEN "Running" ELSE IF t \in skipped THEN "Cancelled" ELSE states[t]
        /\ panel'[t] = IF t \in started THEN PanelRuns(panels[t])
                       ELSE IF t \in skipped THEN PanelAfter(panels[t], "Cancelled") ELSE panels[t]
        /\ job'[t] = IF t \in started THEN "first" ELSE IF t \in also THEN "done" ELSE job[t]
  BY <1>3
<1>8. LaneMatches([running |-> running \cup started, pending |-> rest], c, state')
  <2>1. running \cup started = RunningIn(c, state')
    BY <1>2, <1>4, <1>7 DEF RunningIn, Busy
  <2>2. started \cap running = {}
    BY <1>2, <1>4 DEF RunningIn, Busy
  <2>3. IsFiniteSet(running \cup started)
        /\ Cardinality(running \cup started) = Cardinality(running) + Cardinality(started)
    <3>1. Cardinality(running) \in Nat /\ Cardinality(started) \in Nat
      BY <1>6, FS_CardinalityType
    <3>2. Cardinality(running \cap started) = 0
      BY <2>2, FS_EmptySet
    <3>3. /\ IsFiniteSet(running \cup started)
          /\ Cardinality(running \cup started) =
               Cardinality(running) + Cardinality(started) - Cardinality(running \cap started)
      BY <1>6, FS_Union
    <3> QED
      BY <3>1, <3>2, <3>3
  <2>4. Cardinality(running) \in Nat /\ Cardinality(started) \in Nat
    BY <1>6, FS_CardinalityType
  <2>5. Cardinality(running \cup started) <= MaxConcurrent
    BY <2>3, <2>4, <1>1, <1>6, SftpAssumption
  <2>6. rest # <<>> => Cardinality(running \cup started) = MaxConcurrent
    <3>1. rest # <<>> => pending # <<>> /\ m < Len(pending)
      BY <1>5
    <3> QED
      BY <3>1, <2>3, <2>4, <1>1, <1>6, SftpAssumption
  <2>7. QueueMatches(rest, c, state')
    BY <1>2, <1>4, <1>5, <1>7 DEF QueueMatches
  <2> QED
    BY <2>1, <2>3, <2>5, <2>6, <2>7 DEF LaneMatches
<1>9. \A d \in Connection : LaneMatches(lane'[d], d, state')
  <2> SUFFICES ASSUME NEW d \in Connection PROVE LaneMatches(lane'[d], d, state')
    OBVIOUS
  <2>1. CASE d = c
    BY <2>1, <1>3, <1>8 DEF SftpTypeOK
  <2>2. CASE d # c
    <3>1. lane'[d] = lane[d]
      BY <2>2, <1>3 DEF SftpTypeOK
    <3>2. \A t \in Transfer : ConnectionOf[t] = d => state'[t] = states[t]
      BY <2>2, <1>2, <1>4, <1>7
    <3>3. LaneMatches(lane[d], d, states)
      BY <2>2
    <3> QED
      BY <3>1, <3>2, <3>3 DEF LaneMatches, RunningIn, QueueMatches
  <2> QED
    BY <2>1, <2>2
<1>10. \A t \in Transfer : EntryMatches(t, state', panel', token, flag)
  <2> SUFFICES ASSUME NEW t \in Transfer
               PROVE  EntryMatches(t, state', panel', token, flag)
    OBVIOUS
  <2>0. EntryMatches(t, states, panels, token, flag)
    OBVIOUS
  <2>1. CASE t \in started
    <3>1. t \notin token /\ states[t] = "Queued"
      BY <2>1, <1>2, <1>4
    <3>2. panels[t] = "Queued"
      BY <3>1, <2>0 DEF EntryMatches
    <3> QED
      BY <2>1, <3>1, <3>2, <1>7 DEF EntryMatches, PanelRuns
  <2>2. CASE t \in skipped /\ t \notin started
    <3>1. t \in token /\ states[t] = "Queued"
      BY <2>2, <1>2, <1>4
    <3>2. panels[t] = "Cancelling"
      BY <3>1, <2>0 DEF EntryMatches
    <3> QED
      BY <2>2, <3>1, <3>2, <1>7 DEF EntryMatches, PanelAfter
  <2>3. CASE t \notin started /\ t \notin skipped
    BY <2>0, <2>3, <1>7 DEF EntryMatches
  <2> QED
    BY <2>1, <2>2, <2>3
<1>11. Jobs'
  <2> SUFFICES ASSUME NEW t \in Transfer
               PROVE  /\ job'[t] \notin {"none", "done"} <=> state'[t] \in Busy
                      /\ job'[t] = "stopped" => t \in flag'
    BY DEF Jobs
  <2>1. CASE t \in started
    BY <2>1, <1>7 DEF Busy
  <2>2. CASE t \in skipped /\ t \notin started
    BY <2>2, <1>2, <1>4, <1>7 DEF Busy
  <2>3. CASE t \notin started /\ t \notin skipped
    BY <2>3, <1>7 DEF Busy, Active
  <2> QED
    BY <2>1, <2>2, <2>3
<1>12. SftpTypeOK'
  <2>1. lane' \in [Connection -> [running : SUBSET Transfer, pending : Seq(Transfer)]]
    <3>1. running \cup started \in SUBSET Transfer
      BY <1>2, <1>4
    <3>2. [running |-> running \cup started, pending |-> rest] \in
            [running : SUBSET Transfer, pending : Seq(Transfer)]
      BY <3>1, <1>5
    <3> QED
      BY <3>2, <1>3 DEF SftpTypeOK
  <2>2. state' \in [Transfer -> {"none", "reserved", "dropped"} \cup Active \cup Finished]
    BY <1>3 DEF Active, Finished
  <2>3. panel' \in [Transfer -> {"none"} \cup Active \cup Finished]
    BY <1>3 DEF PanelRuns, PanelAfter, Active, Finished
  <2>4. job' \in [Transfer ->
           {"none", "first", "pause", "second", "ok", "error", "stopped", "done"}]
    BY <1>3 DEF SftpTypeOK
  <2> QED
    BY <2>1, <2>2, <2>3, <2>4 DEF SftpTypeOK
<1> QED
  BY <1>9, <1>10, <1>11, <1>12 DEF SftpInv

\* A transfer that is committed joins a queue that does not have it yet.
LEMMA CommitKeeps ==
    ASSUME SftpInv, NEW t \in Transfer, CommitReserved(t)
    PROVE  SftpInv'
<1>a. /\ SftpTypeOK /\ Jobs
      /\ \A c \in Connection : LaneMatches(lane[c], c, state)
      /\ \A u \in Transfer : EntryMatches(u, state, panel, token, flag)
  BY DEF SftpInv
<1>1. PICK c \in Connection : c = ConnectionOf[t]
  BY SftpAssumption
<1>2. /\ state[t] = "reserved" /\ UNCHANGED <<token, flag>>
      /\ lane[c].running \in SUBSET Transfer /\ lane[c].pending \in Seq(Transfer)
  BY <1>a DEF CommitReserved, SftpTypeOK
<1>3. PICK running \in SUBSET Transfer, before \in Seq(Transfer) :
        running = lane[c].running /\ before = lane[c].pending
  BY <1>2
<1>4. PICK pending : pending = Append(before, t)
  OBVIOUS
<1>5. PICK states, panels :
        states = [state EXCEPT ![t] = "Queued"] /\ panels = [panel EXCEPT ![t] = "Queued"]
  OBVIOUS
<1>6. PICK n : n = MaxConcurrent - Cardinality(running)
  OBVIOUS
<1>e. PICK none \in SUBSET Transfer : none = {}
  OBVIOUS
<1>7. Starts(c, running, pending, n, none, states, panels)
  BY <1>e, <1>1, <1>3, <1>4, <1>5, <1>6 DEF CommitReserved, Starts
<1>8. /\ running = RunningIn(c, state) /\ IsFiniteSet(running)
      /\ Cardinality(running) <= MaxConcurrent
      /\ QueueMatches(before, c, state)
  BY <1>a, <1>3 DEF LaneMatches
<1>9. n \in Nat /\ Cardinality(running) + n = MaxConcurrent
  BY <1>6, <1>8, FS_CardinalityType, SftpAssumption
<1>10. /\ states \in [Transfer -> {"none", "reserved", "dropped"} \cup Active \cup Finished]
       /\ panels \in [Transfer -> {"none"} \cup Active \cup Finished]
       /\ states[t] = "Queued" /\ panels[t] = "Queued"
       /\ \A u \in Transfer \ {t} : states[u] = state[u] /\ panels[u] = panel[u]
  BY <1>5, <1>a DEF SftpTypeOK, Active
<1>11. running = RunningIn(c, states)
  BY <1>2, <1>8, <1>10 DEF RunningIn, Busy
<1>12. /\ pending \in Seq(Transfer) /\ Len(pending) = Len(before) + 1
       /\ pending[Len(before) + 1] = t
       /\ \A i \in 1..Len(before) : pending[i] = before[i]
  BY <1>4
<1>13. QueueMatches(pending, c, states)
  <2>1. \A i \in 1..Len(before) : before[i] # t
    BY <1>2, <1>8 DEF QueueMatches
  <2>2. Len(before) \in Nat
    OBVIOUS
  <2>3. \A i, j \in 1..Len(pending) : pending[i] = pending[j] => i = j
    <3> SUFFICES ASSUME NEW i \in 1..Len(pending), NEW j \in 1..Len(pending),
                        pending[i] = pending[j]
                 PROVE  i = j
      OBVIOUS
    <3>1. CASE i \in 1..Len(before) /\ j \in 1..Len(before)
      BY <3>1, <1>8, <1>12 DEF QueueMatches
    <3>2. CASE i = Len(before) + 1 \/ j = Len(before) + 1
      BY <3>2, <2>1, <2>2, <1>12
    <3> QED
      BY <3>1, <3>2, <2>2, <1>12
  <2>4. ASSUME NEW u \in Transfer
        PROVE  ConnectionOf[u] = c /\ states[u] = "Queued" <=> \E i \in 1..Len(pending) : pending[i] = u
    <3>1. CASE u = t
      BY <3>1, <2>2, <1>1, <1>10, <1>12
    <3>2. CASE u # t
      <4>1. (\E i \in 1..Len(pending) : pending[i] = u) <=> \E i \in 1..Len(before) : before[i] = u
        BY <3>2, <2>2, <1>12
      <4> QED
        BY <4>1, <3>2, <1>8, <1>10 DEF QueueMatches
    <3> QED
      BY <3>1, <3>2
  <2> QED
    BY <2>3, <2>4 DEF QueueMatches
<1>14. \A d \in Connection \ {c} : LaneMatches(lane[d], d, states)
  <2> SUFFICES ASSUME NEW d \in Connection \ {c} PROVE LaneMatches(lane[d], d, states)
    OBVIOUS
  <2>1. \A u \in Transfer : ConnectionOf[u] = d => states[u] = state[u]
    BY <1>1, <1>10
  <2>2. LaneMatches(lane[d], d, state)
    BY <1>a
  <2> QED
    BY <2>1, <2>2 DEF LaneMatches, RunningIn, QueueMatches
<1>15. \A u \in Transfer : EntryMatches(u, states, panels, token, flag)
  <2>1. panel[t] = "none" /\ t \notin token
    BY <1>a, <1>2 DEF EntryMatches, SftpTypeOK, Active, Finished
  <2> QED
    BY <2>1, <1>a, <1>10 DEF EntryMatches
<1>16. \A u \in Transfer :
         IF u \in none THEN states[u] \notin Active
         ELSE job[u] \notin {"none", "done"} <=> states[u] \in Busy
  BY <1>e, <1>a, <1>2, <1>10 DEF Jobs, Busy
<1>17. \A u \in Transfer : job[u] = "stopped" => u \in flag
  BY <1>a DEF Jobs
<1>18. Cardinality(running) + n <= MaxConcurrent
  BY <1>9, SftpAssumption
<1> QED
  BY <1>2, <1>7, <1>8, <1>9, <1>10, <1>11, <1>12, <1>13, <1>14, <1>15, <1>16, <1>17, <1>18, <1>a,
     StartsKeep

\* A transfer that ends makes room for one that waits.
LEMMA FinishKeeps ==
    ASSUME SftpInv, NEW t \in Transfer, FinishTransfer(t)
    PROVE  SftpInv'
<1>a. /\ SftpTypeOK /\ Jobs
      /\ \A c \in Connection : LaneMatches(lane[c], c, state)
      /\ \A u \in Transfer : EntryMatches(u, state, panel, token, flag)
  BY DEF SftpInv
<1>1. PICK c \in Connection : c = ConnectionOf[t]
  BY SftpAssumption
<1>2. /\ job[t] \in {"ok", "error", "stopped"} /\ state[t] \in Busy
      /\ UNCHANGED <<token, flag>>
  BY <1>a DEF FinishTransfer, Jobs
<1>3. PICK pending \in Seq(Transfer), running \in SUBSET Transfer :
        pending = lane[c].pending /\ running = lane[c].running \ {t}
  BY <1>a DEF SftpTypeOK
<1>4. PICK outcome : outcome = Outcome(t)
  OBVIOUS
<1>5. PICK states, panels :
        /\ states = [state EXCEPT ![t] = outcome]
        /\ panels = [panel EXCEPT ![t] = PanelAfter(panel[t], outcome)]
  OBVIOUS
<1>6. /\ IsFiniteSet(running)
      /\ Cardinality(running) + 1 <= MaxConcurrent
      /\ pending # <<>> => Cardinality(running) + 1 = MaxConcurrent
      /\ Cardinality(running) \in Nat
  <2>1. PICK A : A = lane[c].running
    OBVIOUS
  <2>2. /\ IsFiniteSet(A) /\ Cardinality(A) <= MaxConcurrent /\ t \in A
        /\ pending # <<>> => Cardinality(A) = MaxConcurrent
    BY <2>1, <1>a, <1>1, <1>2, <1>3 DEF LaneMatches, RunningIn
  <2>3. /\ IsFiniteSet(A \ {t}) /\ Cardinality(A \ {t}) = Cardinality(A) - 1
        /\ Cardinality(A) \in Nat /\ Cardinality(A \ {t}) \in Nat
    BY <2>2, FS_RemoveElement, FS_CardinalityType
  <2>4. running = A \ {t}
    BY <2>1, <1>3
  <2> QED
    BY <2>2, <2>3, <2>4, SftpAssumption
<1>7. Starts(c, running, pending, 1, {t}, states, panels)
  <2>1. Cardinality(running) < MaxConcurrent
    BY <1>6, SftpAssumption
  <2> QED
    BY <2>1, <1>1, <1>3, <1>4, <1>5 DEF FinishTransfer, Starts
<1>8. outcome \in Finished /\ (t \in token => outcome = "Cancelled")
  BY <1>4 DEF Outcome, CancellationWins, Finished
<1>9. /\ states \in [Transfer -> {"none", "reserved", "dropped"} \cup Active \cup Finished]
      /\ panels \in [Transfer -> {"none"} \cup Active \cup Finished]
      /\ states[t] = outcome /\ panels[t] = PanelAfter(panel[t], outcome)
      /\ \A u \in Transfer \ {t} : states[u] = state[u] /\ panels[u] = panel[u]
  <2>1. PanelAfter(panel[t], outcome) \in {"none"} \cup Active \cup Finished
    BY <1>8, <1>a DEF PanelAfter, SftpTypeOK
  <2> QED
    BY <2>1, <1>5, <1>8, <1>a DEF SftpTypeOK
<1>10. running = RunningIn(c, states)
  BY <1>a, <1>1, <1>2, <1>3, <1>8, <1>9 DEF LaneMatches, RunningIn, Busy, Finished
<1>11. QueueMatches(pending, c, states)
  <2>1. QueueMatches(pending, c, state)
    BY <1>a, <1>3 DEF LaneMatches
  <2>2. \A u \in Transfer : states[u] = "Queued" <=> state[u] = "Queued"
    BY <1>2, <1>8, <1>9 DEF Busy, Finished
  <2> QED
    BY <2>1, <2>2 DEF QueueMatches
<1>12. \A d \in Connection \ {c} : LaneMatches(lane[d], d, states)
  BY <1>a, <1>1, <1>9 DEF LaneMatches, RunningIn, QueueMatches
<1>13. \A u \in Transfer : EntryMatches(u, states, panels, token, flag)
  <2>1. EntryMatches(t, states, panels, token, flag)
    <3>1. CASE t \in token
      <4>1. panel[t] = "Cancelling" /\ outcome = "Cancelled"
        BY <3>1, <1>2, <1>8, <1>a DEF EntryMatches, Busy
      <4> QED
        BY <4>1, <1>9 DEF EntryMatches, PanelAfter
    <3>2. CASE t \notin token
      <4>1. t \notin flag
        BY <3>2, <1>a DEF SftpTypeOK
      <4>2. panel[t] = "Running"
        BY <4>1, <3>2, <1>2, <1>a DEF EntryMatches, Busy
      <4> QED
        BY <4>1, <4>2, <3>2, <1>8, <1>9 DEF EntryMatches, PanelAfter, Finished
    <3> QED
      BY <3>1, <3>2
  <2> QED
    BY <2>1, <1>a, <1>9 DEF EntryMatches
<1>14. \A u \in Transfer :
         IF u \in {t} THEN states[u] \notin Active
         ELSE job[u] \notin {"none", "done"} <=> states[u] \in Busy
  BY <1>a, <1>8, <1>9 DEF Jobs, Active, Finished
<1> QED
  BY <1>2, <1>6, <1>7, <1>9, <1>10, <1>11, <1>12, <1>13, <1>14, <1>a, StartsKeep
     DEF Jobs

\* Steps that move no transfer in or out of the queues and the lanes.
LEMMA LanesKept ==
    ASSUME \A c \in Connection : LaneMatches(lane[c], c, state),
           lane' = lane,
           \A t \in Transfer :
               /\ state'[t] \in Busy <=> state[t] \in Busy
               /\ state'[t] = "Queued" <=> state[t] = "Queued"
    PROVE  \A c \in Connection : LaneMatches(lane'[c], c, state')
<1> SUFFICES ASSUME NEW c \in Connection PROVE LaneMatches(lane'[c], c, state')
  OBVIOUS
<1>1. LaneMatches(lane[c], c, state) /\ lane'[c] = lane[c]
  OBVIOUS
<1>2. RunningIn(c, state') = RunningIn(c, state)
  BY DEF RunningIn
<1> QED
  BY <1>1, <1>2 DEF LaneMatches, QueueMatches

\* A queued transfer that is cancelled leaves its queue, once.
LEMMA QueueShrinks ==
    ASSUME NEW t \in Transfer, NEW c \in Connection, c = ConnectionOf[t],
           NEW pending \in Seq(Transfer), NEW before, NEW after,
           NEW position \in 1..Len(pending), pending[position] = t,
           QueueMatches(pending, c, before),
           before[t] = "Queued", after[t] # "Queued",
           \A u \in Transfer \ {t} : after[u] = before[u]
    PROVE  /\ SubSeq(pending, 1, position - 1) \o SubSeq(pending, position + 1, Len(pending))
                 \in Seq(Transfer)
           /\ QueueMatches(SubSeq(pending, 1, position - 1)
                              \o SubSeq(pending, position + 1, Len(pending)), c, after)
<1> DEFINE L == Len(pending)
           front == SubSeq(pending, 1, position - 1)
           back == SubSeq(pending, position + 1, L)
           rest == front \o back
<1>0. L \in Nat /\ DOMAIN pending = 1..L
  OBVIOUS
<1>1. position \in 1..L /\ pending[position] = t
  OBVIOUS
<1>q. /\ \A i, j \in 1..L : pending[i] = pending[j] => i = j
      /\ \A u \in Transfer :
            ConnectionOf[u] = c /\ before[u] = "Queued" <=> \E i \in 1..L : pending[i] = u
  BY DEF QueueMatches
<1>t. \A i \in 1..L : pending[i] \in Transfer
  BY <1>0
<1> HIDE DEF L
<1>2. /\ front \in Seq(Transfer) /\ Len(front) = position - 1
      /\ \A i \in 1..(position - 1) : front[i] = pending[i]
  <2>1. \A i \in 1..(position - 1) : pending[i] \in Transfer
    BY <1>0, <1>1, <1>t
  <2>2. /\ SubSeq(pending, 1, position - 1) \in Seq(Transfer)
        /\ Len(SubSeq(pending, 1, position - 1)) = IF 1 <= position - 1 THEN position - 1 - 1 + 1 ELSE 0
        /\ \A i \in 1..(position - 1 - 1 + 1) : SubSeq(pending, 1, position - 1)[i] = pending[1 + i - 1]
    BY <2>1, <1>0, <1>1, SubSeqProperties
  <2> QED
    BY <2>2, <1>0, <1>1
<1>3. /\ back \in Seq(Transfer) /\ Len(back) = L - position
      /\ \A i \in 1..(L - position) : back[i] = pending[position + i]
  <2>1. \A i \in (position + 1)..L : pending[i] \in Transfer
    BY <1>0, <1>1, <1>t
  <2>2. /\ SubSeq(pending, position + 1, L) \in Seq(Transfer)
        /\ Len(SubSeq(pending, position + 1, L)) = IF position + 1 <= L THEN L - (position + 1) + 1 ELSE 0
        /\ \A i \in 1..(L - (position + 1) + 1) :
              SubSeq(pending, position + 1, L)[i] = pending[(position + 1) + i - 1]
    BY <2>1, <1>0, <1>1, SubSeqProperties
  <2> QED
    BY <2>2, <1>0, <1>1
<1> HIDE DEF front, back
<1>4. /\ rest \in Seq(Transfer) /\ Len(rest) = L - 1
      /\ \A i \in 1..(L - 1) : rest[i] = IF i < position THEN pending[i] ELSE pending[i + 1]
  <2>1. /\ rest \in Seq(Transfer) /\ Len(rest) = Len(front) + Len(back)
        /\ \A i \in 1..(Len(front) + Len(back)) :
              rest[i] = IF i <= Len(front) THEN front[i] ELSE back[i - Len(front)]
    <3>1. front \in Seq(Transfer) /\ back \in Seq(Transfer)
      BY <1>2, <1>3
    <3> QED
      BY <3>1, ConcatProperties
  <2> HIDE DEF rest
  <2> QED
    BY <2>1, <1>0, <1>1, <1>2, <1>3
<1> HIDE DEF rest
<1>5. \A i, j \in 1..Len(rest) : rest[i] = rest[j] => i = j
  <2> SUFFICES ASSUME NEW i \in 1..Len(rest), NEW j \in 1..Len(rest), rest[i] = rest[j]
               PROVE  i = j
    OBVIOUS
  <2>1. PICK a, b : /\ a = IF i < position THEN i ELSE i + 1
                    /\ b = IF j < position THEN j ELSE j + 1
    OBVIOUS
  <2>2. a \in 1..L /\ b \in 1..L /\ pending[a] = pending[b]
    BY <2>1, <1>0, <1>1, <1>4
  <2>3. a = b
    BY <2>2, <1>q
  <2> QED
    BY <2>1, <2>3, <1>0, <1>1, <1>4
<1>6. ASSUME NEW u \in Transfer
      PROVE  ConnectionOf[u] = c /\ after[u] = "Queued" <=> \E i \in 1..Len(rest) : rest[i] = u
  <2>1. ASSUME NEW i \in 1..Len(rest), rest[i] = u
        PROVE  ConnectionOf[u] = c /\ after[u] = "Queued"
    <3>1. PICK a : a = IF i < position THEN i ELSE i + 1
      OBVIOUS
    <3>2. a \in 1..L /\ pending[a] = u /\ a # position
      BY <3>1, <2>1, <1>0, <1>1, <1>4
    <3>3. u # t
      BY <3>2, <1>1, <1>q
    <3> QED
      BY <3>2, <3>3, <1>q
  <2>2. ASSUME ConnectionOf[u] = c, after[u] = "Queued"
        PROVE  \E i \in 1..Len(rest) : rest[i] = u
    <3>1. u # t /\ before[u] = "Queued"
      BY <2>2
    <3>2. PICK a \in 1..L : pending[a] = u
      BY <3>1, <2>2, <1>q
    <3>3. a # position
      BY <3>1, <3>2, <1>1
    <3>4. PICK i : i = IF a < position THEN a ELSE a - 1
      OBVIOUS
    <3>5. i \in 1..(L - 1) /\ a = IF i < position THEN i ELSE i + 1
      BY <3>2, <3>3, <3>4, <1>0, <1>1
    <3> QED
      BY <3>2, <3>5, <1>4
  <2> QED
    BY <2>1, <2>2
<1> QED
  BY <1>4, <1>5, <1>6 DEF QueueMatches, rest, front, back, L

\* The watcher of a token applies the cancellation to the record.
LEMMA ApplyKeeps ==
    ASSUME SftpInv, NEW t \in Transfer, ApplyCancellation(t)
    PROVE  SftpInv'
<1>a. /\ SftpTypeOK /\ Jobs
      /\ \A c \in Connection : LaneMatches(lane[c], c, state)
      /\ \A u \in Transfer : EntryMatches(u, state, panel, token, flag)
  BY DEF SftpInv
<1>b. /\ t \in token \ flag /\ state[t] \in Active
      /\ flag' = flag \cup {t} /\ UNCHANGED <<token, job>>
  BY DEF ApplyCancellation
<1>c. EntryMatches(t, state, panel, token, flag)
  BY <1>a
<1>d. panel[t] = "Cancelling"
  BY <1>b, <1>c DEF EntryMatches, Active
<1>1. CASE state[t] = "Queued"
  <2>1. /\ lane' = WithoutQueued(t)
        /\ state' = [state EXCEPT ![t] = "Cancelled"]
        /\ panel' = [panel EXCEPT ![t] = PanelAfter(@, "Cancelled")]
    BY <1>1 DEF ApplyCancellation
  <2>2. /\ state' \in [Transfer -> {"none", "reserved", "dropped"} \cup Active \cup Finished]
        /\ state'[t] = "Cancelled" /\ panel'[t] = "Cancelled"
        /\ panel' \in [Transfer -> {"none"} \cup Active \cup Finished]
        /\ \A u \in Transfer \ {t} : state'[u] = state[u] /\ panel'[u] = panel[u]
    BY <2>1, <1>d, <1>a DEF SftpTypeOK, PanelAfter, Finished
  <2>3. PICK c \in Connection : c = ConnectionOf[t]
    BY SftpAssumption
  <2>4. PICK pending \in Seq(Transfer) : pending = lane[c].pending
    BY <1>a DEF SftpTypeOK
  <2>5. PICK position, rest :
          /\ position = Min({i \in DOMAIN pending : pending[i] = t})
          /\ rest = SubSeq(pending, 1, position - 1) \o SubSeq(pending, position + 1, Len(pending))
    OBVIOUS
  <2>6. QueueMatches(pending, c, state)
    BY <2>4, <1>a DEF LaneMatches
  <2>7. rest \in Seq(Transfer) /\ pending # <<>> /\ QueueMatches(rest, c, state')
    <3>1. state'[t] # "Queued" /\ \A u \in Transfer \ {t} : state'[u] = state[u]
      BY <2>2
    <3>2. PICK before, after : before = state /\ after = state'
      OBVIOUS
    <3>3. /\ QueueMatches(pending, c, before) /\ before[t] = "Queued" /\ after[t] # "Queued"
          /\ \A u \in Transfer \ {t} : after[u] = before[u]
      BY <3>1, <3>2, <2>6, <1>1
    <3>4. position \in 1..Len(pending) /\ pending[position] = t
      <4>1. DOMAIN pending = 1..Len(pending) /\ Len(pending) \in Nat
        OBVIOUS
      <4>2. PICK places : places = {i \in DOMAIN pending : pending[i] = t}
        OBVIOUS
      <4>3. places \in SUBSET Nat /\ places # {}
        BY <4>1, <4>2, <3>3, <2>3 DEF QueueMatches
      <4>4. Min(places) \in places
        BY <4>3, MinOfNumbers
      <4> QED
        BY <4>1, <4>2, <4>4, <2>5
    <3>5. rest \in Seq(Transfer) /\ QueueMatches(rest, c, after)
      BY <3>3, <3>4, <2>3, <2>5, QueueShrinks
    <3>6. pending # <<>>
      BY <3>4
    <3> QED
      BY <3>2, <3>5, <3>6
  <2>8. lane' = [lane EXCEPT ![c].pending = rest]
    BY <2>1, <2>3, <2>4, <2>5 DEF WithoutQueued
  <2>9. /\ lane'[c].running = lane[c].running /\ lane'[c].pending = rest
        /\ \A d \in Connection \ {c} : lane'[d] = lane[d]
        /\ lane' \in [Connection -> [running : SUBSET Transfer, pending : Seq(Transfer)]]
    BY <2>7, <2>8, <1>a DEF SftpTypeOK
  <2>10. \A d \in Connection : LaneMatches(lane'[d], d, state')
    <3> SUFFICES ASSUME NEW d \in Connection PROVE LaneMatches(lane'[d], d, state')
      OBVIOUS
    <3>1. LaneMatches(lane[d], d, state)
      BY <1>a
    <3>2. RunningIn(d, state') = RunningIn(d, state)
      BY <2>2, <1>1 DEF RunningIn, Busy
    <3>3. CASE d = c
      BY <3>1, <3>2, <3>3, <2>4, <2>7, <2>9 DEF LaneMatches
    <3>4. CASE d # c
      <4>1. QueueMatches(lane[d].pending, d, state')
        BY <3>1, <3>4, <2>2, <2>3 DEF LaneMatches, QueueMatches
      <4> QED
        BY <4>1, <3>1, <3>2, <3>4, <2>9 DEF LaneMatches
    <3> QED
      BY <3>3, <3>4
  <2>11. \A u \in Transfer : EntryMatches(u, state', panel', token', flag')
    BY <2>2, <1>a, <1>b DEF EntryMatches
  <2>12. Jobs'
    BY <2>2, <1>1, <1>a, <1>b DEF Jobs, Busy
  <2>13. SftpTypeOK'
    BY <2>2, <2>9, <1>a, <1>b DEF SftpTypeOK
  <2> QED
    BY <2>10, <2>11, <2>12, <2>13 DEF SftpInv
<1>2. CASE state[t] # "Queued"
  <2>1. state' = [state EXCEPT ![t] = "Cancelling"] /\ UNCHANGED <<lane, panel>>
    BY <1>2 DEF ApplyCancellation
  <2>2. state[t] \in Busy
    BY <1>2, <1>b DEF Active, Busy
  <2>3. /\ state' \in [Transfer -> {"none", "reserved", "dropped"} \cup Active \cup Finished]
        /\ state'[t] = "Cancelling"
        /\ \A u \in Transfer \ {t} : state'[u] = state[u]
    BY <2>1, <1>a DEF SftpTypeOK, Active
  <2>4. \A c \in Connection : LaneMatches(lane'[c], c, state')
    BY <2>1, <2>2, <2>3, <1>a, LanesKept DEF Busy
  <2>5. \A u \in Transfer : EntryMatches(u, state', panel', token', flag')
    BY <2>1, <2>3, <1>a, <1>b, <1>d DEF EntryMatches
  <2>6. Jobs'
    BY <2>2, <2>3, <1>a, <1>b DEF Jobs, Busy
  <2>7. SftpTypeOK'
    BY <2>1, <2>3, <1>a, <1>b DEF SftpTypeOK
  <2> QED
    BY <2>4, <2>5, <2>6, <2>7 DEF SftpInv
<1> QED
  BY <1>1, <1>2

\* Reservations, requests to cancel and the transfers' jobs.
LEMMA OtherStepsKeep ==
    ASSUME SftpInv, NEW t \in Transfer,
           \/ Reserve(t) \/ DropReservation(t) \/ RequestCancel(t)
           \/ JobEnds(t) \/ UploadFails(t) \/ RetryUpload(t)
    PROVE  SftpInv'
<1>a. /\ SftpTypeOK /\ Jobs
      /\ \A c \in Connection : LaneMatches(lane[c], c, state)
      /\ \A u \in Transfer : EntryMatches(u, state, panel, token, flag)
  BY DEF SftpInv
<1>c. EntryMatches(t, state, panel, token, flag)
  BY <1>a
<1>1. CASE Reserve(t) \/ DropReservation(t)
  <2>1. PICK v \in {"reserved", "dropped"} :
          /\ state[t] \in {"none", "reserved"} /\ state' = [state EXCEPT ![t] = v]
          /\ UNCHANGED <<lane, token, flag, job, panel>>
    BY <1>1 DEF Reserve, DropReservation
  <2>2. /\ state' \in [Transfer -> {"none", "reserved", "dropped"} \cup Active \cup Finished]
        /\ state'[t] = v
        /\ \A u \in Transfer \ {t} : state'[u] = state[u]
    BY <2>1, <1>a DEF SftpTypeOK
  <2>3. \A c \in Connection : LaneMatches(lane'[c], c, state')
    BY <2>1, <2>2, <1>a, LanesKept DEF Busy
  <2>4. panel[t] = "none"
    BY <2>1, <1>a, <1>c DEF EntryMatches, SftpTypeOK, Active, Finished
  <2>5. \A u \in Transfer : EntryMatches(u, state', panel', token', flag')
    BY <2>1, <2>2, <2>4, <1>a DEF EntryMatches
  <2>6. Jobs' /\ SftpTypeOK'
    BY <2>1, <2>2, <1>a DEF Jobs, Busy, SftpTypeOK
  <2> QED
    BY <2>3, <2>5, <2>6 DEF SftpInv
<1>2. CASE RequestCancel(t)
  <2>1. /\ panel[t] \in {"Queued", "Running"}
        /\ token' = token \cup {t} /\ panel' = [panel EXCEPT ![t] = "Cancelling"]
        /\ UNCHANGED <<lane, state, flag, job>>
    BY <1>2 DEF RequestCancel
  <2>2. /\ panel' \in [Transfer -> {"none"} \cup Active \cup Finished]
        /\ panel'[t] = "Cancelling"
        /\ \A u \in Transfer \ {t} : panel'[u] = panel[u]
    BY <2>1, <1>a DEF SftpTypeOK, Active
  <2>3. \A c \in Connection : LaneMatches(lane'[c], c, state')
    BY <2>1, <1>a
  <2>4. \A u \in Transfer : EntryMatches(u, state', panel', token', flag')
    BY <2>1, <2>2, <1>a, <1>c DEF EntryMatches
  <2>5. Jobs' /\ SftpTypeOK'
    BY <2>1, <2>2, <1>a DEF Jobs, SftpTypeOK
  <2> QED
    BY <2>3, <2>4, <2>5 DEF SftpInv
<1>3. CASE JobEnds(t) \/ UploadFails(t) \/ RetryUpload(t)
  <2>1. PICK v : /\ job' = [job EXCEPT ![t] = v]
                 /\ job[t] \in {"first", "second", "pause"}
                 /\ v \in {"ok", "error", "stopped", "pause", "second"}
                 /\ v = "stopped" => t \in flag
                 /\ UNCHANGED <<lane, state, token, flag, panel>>
    BY <1>3 DEF JobEnds, UploadFails, RetryUpload
  <2>2. /\ job' \in [Transfer ->
             {"none", "first", "pause", "second", "ok", "error", "stopped", "done"}]
        /\ job'[t] = v /\ \A u \in Transfer \ {t} : job'[u] = job[u]
    BY <2>1, <1>a DEF SftpTypeOK
  <2>3. Jobs' /\ SftpTypeOK'
    BY <2>1, <2>2, <1>a DEF Jobs, SftpTypeOK
  <2>4. /\ \A c \in Connection : LaneMatches(lane'[c], c, state')
        /\ \A u \in Transfer : EntryMatches(u, state', panel', token', flag')
    BY <2>1, <1>a
  <2> QED
    BY <2>3, <2>4 DEF SftpInv
<1> QED
  BY <1>1, <1>2, <1>3

\* Nothing is committed at first, and no step of the executor, of the panel,
\* of a watcher or of a job leaves the invariant.
LEMMA SftpInitInv == SftpInit => SftpInv
<1> SUFFICES ASSUME SftpInit PROVE SftpInv
  OBVIOUS
<1>1. SftpTypeOK /\ Jobs /\ \A t \in Transfer : EntryMatches(t, state, panel, token, flag)
  BY DEF SftpInit, SftpTypeOK, Jobs, EntryMatches, Busy, Active, Finished
<1>2. ASSUME NEW c \in Connection PROVE LaneMatches(lane[c], c, state)
  <2>1. lane[c].running = {} /\ lane[c].pending = <<>>
    BY DEF SftpInit
  <2>2. RunningIn(c, state) = {} /\ QueueMatches(<<>>, c, state)
    BY DEF SftpInit, RunningIn, QueueMatches, Busy
  <2> QED
    BY <2>1, <2>2, FS_EmptySet, SftpAssumption DEF LaneMatches
<1> QED
  BY <1>1, <1>2 DEF SftpInv

LEMMA SftpNextInv == SftpInv /\ [SftpNext]_sftpVars => SftpInv'
<1> SUFFICES ASSUME SftpInv, [SftpNext]_sftpVars PROVE SftpInv'
  OBVIOUS
<1>1. CASE SftpNext
  BY <1>1, CommitKeeps, FinishKeeps, ApplyKeeps, OtherStepsKeep DEF SftpNext
<1>2. CASE UNCHANGED sftpVars
  BY <1>2 DEF sftpVars, SftpInv, SftpTypeOK, Jobs
<1> QED
  BY <1>1, <1>2

\* Lanes, records, jobs, cancellations and panel entries agree in every state
\* that any transfers on any connections reach.
THEOREM SftpInvariant == SftpSpec => []SftpInv
  BY SftpInitInv, SftpNextInv, PTL DEF SftpSpec

-----------------------------------------------------------------------------
\* The lanes are what the records say, the limit on running transfers is kept,
\* and jobs run for the running transfers only.
THEOREM LanesAreRight == SftpSpec => []LanesMatchRecords
<1>1. SftpInv => LanesMatchRecords
  <2> SUFFICES ASSUME SftpInv, NEW c \in Connection
               PROVE  LET mine == {t \in Transfer : ConnectionOf[t] = c}
                          queued == {t \in mine : state[t] = "Queued"}
                          running == {t \in mine : state[t] \in {"Running", "Cancelling"}}
                      IN  /\ lane[c].running = running
                          /\ Cardinality(running) <= MaxConcurrent
                          /\ {lane[c].pending[i] : i \in DOMAIN lane[c].pending} = queued
                          /\ Len(lane[c].pending) = Cardinality(queued)
                          /\ running = {t \in mine : job[t] \notin {"none", "done"}}
    BY DEF LanesMatchRecords
  <2> DEFINE mine == {t \in Transfer : ConnectionOf[t] = c}
             queued == {t \in mine : state[t] = "Queued"}
             running == {t \in mine : state[t] \in {"Running", "Cancelling"}}
  <2>1. LaneMatches(lane[c], c, state) /\ Jobs
    BY DEF SftpInv
  <2>2. lane[c].running = running /\ Cardinality(running) <= MaxConcurrent
    BY <2>1 DEF LaneMatches, RunningIn, Busy
  <2>3. running = {t \in mine : job[t] \notin {"none", "done"}}
    BY <2>1 DEF Jobs, Busy
  <2>4. PICK pending \in Seq(Transfer) : pending = lane[c].pending
    BY DEF SftpInv, SftpTypeOK
  <2>5. QueueMatches(pending, c, state)
    BY <2>1, <2>4 DEF LaneMatches
  <2>6. {pending[i] : i \in DOMAIN pending} = queued
    <3>1. DOMAIN pending = 1..Len(pending) /\ \A i \in 1..Len(pending) : pending[i] \in Transfer
      OBVIOUS
    <3> QED
      BY <3>1, <2>5 DEF QueueMatches
  <2>7. Len(pending) = Cardinality(queued)
    <3>0. PICK L \in Nat : L = Len(pending)
      OBVIOUS
    <3>1. IsFiniteSet(1..Len(pending)) /\ Cardinality(1..Len(pending)) = Len(pending)
      <4>1. IsFiniteSet(1..L) /\ Cardinality(1..L) = IF 1 > L THEN 0 ELSE L - 1 + 1
        BY FS_Interval
      <4> QED
        BY <4>1, <3>0
    <3>2. pending \in [1..Len(pending) -> queued]
      BY <2>6
    <3>3. pending \in Surjection(1..Len(pending), queued)
      BY <3>2, <2>6 DEF Surjection
    <3>4. pending \in Injection(1..Len(pending), queued)
      BY <3>2, <2>5 DEF Injection, IsInjective, QueueMatches
    <3> HIDE DEF queued
    <3> QED
      BY <3>1, <3>3, <3>4, FS_Surjection
  <2> QED
    BY <2>2, <2>3, <2>4, <2>6, <2>7
<1> QED
  BY <1>1, SftpInvariant, PTL

\* A connection that has transfers waiting runs as many as it may.
THEOREM NoRoomIsWasted == SftpSpec => []LaneWorkConserving
<1>1. SftpInv => LaneWorkConserving
  BY DEF SftpInv, LaneMatches, LaneWorkConserving
<1> QED
  BY <1>1, SftpInvariant, PTL

\* The panel shows the verdict of the executor, or that it was asked to cancel.
THEOREM PanelIsRight == SftpSpec => []PanelAgrees
<1>1. SftpInv => PanelAgrees
  BY DEF SftpInv, EntryMatches, PanelAgrees
<1> QED
  BY <1>1, SftpInvariant, PTL
=============================================================================
