----------------------- MODULE TerminalIngress_proofs -----------------------
(***************************************************************************)
(* What the answer of a send is worth, and that the budget of bytes and    *)
(* chunks is kept, for any chunks, any sizes of them and any budget.  At   *)
(* the end, what the theorems about the three modules of MCConnections     *)
(* say of its behaviours.                                                  *)
(***************************************************************************)
EXTENDS MCConnections, SftpTransfers_proofs, SshSessionRegistry_proofs,
        FiniteSetTheorems, SequenceTheorems, WellFoundedInduction, TLAPS

SendStates == {"none", "sent"} \cup Sending \cup Refused
ReceiverStates == {"receives", "drained", "discarded"}

IsQueued(c, chunks) == \E i \in 1..Len(chunks) : chunks[i] = c

Places ==
    /\ send \in [Chunk -> SendStates]
    /\ queue \in Seq(Chunk)
    /\ delivered \subseteq Chunk
    /\ receiver \in ReceiverStates

\* Only an accepted chunk gets as far as the queue.
OnlyAccepted ==
    \A c \in Chunk : c \in delivered \/ IsQueued(c, queue) => send[c] = "sent"

\* An accepted chunk is there, unless the receiver discards.
AllAccepted ==
    receiver # "discarded" =>
        \A c \in Chunk : send[c] = "sent" => c \in delivered \/ IsQueued(c, queue)

\* Nobody is in a send without a handle, and a receiver that ended by itself
\* had seen the last handle go and the queue empty.
NothingToCome ==
    /\ ~open => \A c \in Chunk : send[c] \notin Sending
    /\ receiver = "drained" => ~open /\ queue = <<>>

AnswersInv == Places /\ OnlyAccepted /\ AllAccepted /\ NothingToCome

-----------------------------------------------------------------------------
\* Who is in a queue that gained a chunk at its end.
LEMMA Appended ==
    ASSUME NEW chunks \in Seq(Chunk), NEW c \in Chunk
    PROVE  /\ Append(chunks, c) \in Seq(Chunk)
           /\ \A d \in Chunk : IsQueued(d, Append(chunks, c)) <=> d = c \/ IsQueued(d, chunks)
<1> DEFINE longer == Append(chunks, c)
<1>1. /\ longer \in Seq(Chunk) /\ Len(longer) = Len(chunks) + 1 /\ Len(chunks) \in Nat
      /\ \A i \in 1..Len(chunks) : longer[i] = chunks[i]
      /\ longer[Len(chunks) + 1] = c
    OBVIOUS
<1> HIDE DEF longer
<1>2. ASSUME NEW d \in Chunk PROVE IsQueued(d, longer) <=> d = c \/ IsQueued(d, chunks)
  <2>1. ASSUME NEW i \in 1..Len(longer), longer[i] = d PROVE d = c \/ IsQueued(d, chunks)
      BY <1>1, <2>1 DEF IsQueued
  <2>2. ASSUME NEW i \in 1..Len(chunks), chunks[i] = d PROVE IsQueued(d, longer)
      BY <1>1, <2>2 DEF IsQueued
  <2>3. IsQueued(c, longer)
      BY <1>1 DEF IsQueued
  <2> QED BY <2>1, <2>2, <2>3 DEF IsQueued
<1> QED BY <1>1, <1>2 DEF longer

\* Who is in a queue that lost its first chunk.
LEMMA Taken ==
    ASSUME NEW chunks \in Seq(Chunk), chunks # <<>>
    PROVE  /\ Tail(chunks) \in Seq(Chunk) /\ Head(chunks) \in Chunk
           /\ \A d \in Chunk :
                 IsQueued(d, chunks) <=> d = Head(chunks) \/ IsQueued(d, Tail(chunks))
<1> DEFINE rest == Tail(chunks)
<1>1. /\ rest \in Seq(Chunk) /\ Len(chunks) \in Nat \ {0} /\ Len(rest) = Len(chunks) - 1
      /\ \A i \in 1..Len(rest) : rest[i] = chunks[i + 1]
      /\ Head(chunks) = chunks[1] /\ chunks[1] \in Chunk
    OBVIOUS
<1> HIDE DEF rest
<1>2. ASSUME NEW d \in Chunk
      PROVE  IsQueued(d, chunks) <=> d = Head(chunks) \/ IsQueued(d, rest)
  <2>1. ASSUME NEW i \in 1..Len(chunks), chunks[i] = d, i # 1 PROVE IsQueued(d, rest)
    <3>1. i - 1 \in 1..Len(rest) /\ rest[i - 1] = d
        BY <1>1, <2>1
    <3> QED BY <3>1 DEF IsQueued
  <2>2. ASSUME NEW i \in 1..Len(rest), rest[i] = d PROVE IsQueued(d, chunks)
    <3>1. i + 1 \in 1..Len(chunks) /\ chunks[i + 1] = d
        BY <1>1, <2>2
    <3> QED BY <3>1 DEF IsQueued
  <2>3. IsQueued(Head(chunks), chunks)
      BY <1>1 DEF IsQueued
  <2>4. ASSUME NEW i \in 1..Len(chunks), chunks[i] = d
        PROVE  d = Head(chunks) \/ IsQueued(d, rest)
      BY <1>1, <2>1, <2>4
  <2> QED BY <2>2, <2>3, <2>4 DEF IsQueued
<1> QED BY <1>1, <1>2 DEF rest

\* Nobody is in an empty queue.
LEMMA NobodyQueued == \A c : ~IsQueued(c, <<>>)
BY DEF IsQueued

\* The initial state satisfies the invariant.
LEMMA IngressStarts == IngressInit => AnswersInv
BY NobodyQueued, SMT
DEF IngressInit, AnswersInv, Places, OnlyAccepted, AllAccepted, NothingToCome, SendStates,
    ReceiverStates

\* A step that moves one send, without an acceptance, and nothing else of
\* what the answers are about.
SendMoves(c, to) ==
    /\ send' = [send EXCEPT ![c] = to]
    /\ UNCHANGED <<queue, receiver, delivered, open>>

\* Such a step keeps the invariant if the chunk was not accepted before and
\* the send is one that may go on.
LEMMA SendMovesKeeps ==
    ASSUME AnswersInv, NEW c \in Chunk, NEW to \in (Sending \cup Refused), SendMoves(c, to),
           send[c] # "sent", open
    PROVE  AnswersInv'
BY SMT
DEF SendMoves, AnswersInv, Places, OnlyAccepted, AllAccepted, NothingToCome, SendStates, Sending,
    Refused

\* Such a step in a send that is in progress.
LEMMA SendingMovesKeeps ==
    ASSUME AnswersInv, NEW c \in Chunk, NEW to \in (Sending \cup Refused), SendMoves(c, to),
           send[c] \in Sending
    PROVE  AnswersInv'
<1>1. open /\ send[c] # "sent"
    BY DEF AnswersInv, NothingToCome, Sending
<1> QED BY <1>1, SendMovesKeeps

\* A chunk gets into the queue with the answer of its send.
LEMMA AcceptKeeps ==
    ASSUME AnswersInv, NEW c \in Chunk, send[c] \in Sending,
           send' = [send EXCEPT ![c] = "sent"], queue' = Append(queue, c),
           UNCHANGED <<receiver, delivered, open>>
    PROVE  AnswersInv'
<1>1. open /\ receiver # "drained"
    BY DEF AnswersInv, NothingToCome
<1>2. /\ queue' \in Seq(Chunk)
      /\ \A d \in Chunk : IsQueued(d, queue') <=> d = c \/ IsQueued(d, queue)
    BY Appended DEF AnswersInv, Places
<1>3. send' \in [Chunk -> SendStates] /\ send'[c] = "sent"
      /\ \A d \in Chunk : d # c => send'[d] = send[d]
    BY DEF AnswersInv, Places, SendStates
<1>4. Places'
    BY <1>2, <1>3 DEF AnswersInv, Places
<1>5. OnlyAccepted' /\ AllAccepted'
    BY <1>2, <1>3 DEF AnswersInv, OnlyAccepted, AllAccepted
<1>6. NothingToCome'
    BY <1>1 DEF NothingToCome
<1> QED BY <1>4, <1>5, <1>6 DEF AnswersInv

\* What a step of a send does to its answer.
LEMMA SendStepKeeps == ASSUME AnswersInv, NEW c \in Chunk, SendStep(c) PROVE AnswersInv'
<1>1. CASE ReserveBytes(c)
  <2>1. PICK to \in {"trySlot", "slot"} : SendMoves(c, to)
      BY <1>1 DEF ReserveBytes, SendMoves, AnswersInv, Places
  <2> QED BY <1>1, <2>1, SendingMovesKeeps DEF ReserveBytes, Sending
<1>2. CASE TrySlot(c)
  <2>1. CASE SlotsTaken < MaxChunks /\ receiver = "receives"
      BY <1>2, <2>1, AcceptKeeps DEF TrySlot, Sending
  <2>2. CASE ~(SlotsTaken < MaxChunks /\ receiver = "receives")
    <3>1. PICK to \in {"full", "closed"} : SendMoves(c, to)
        BY <1>2, <2>2 DEF TrySlot, Return, SendMoves
    <3> QED BY <1>2, <3>1, SendingMovesKeeps DEF TrySlot, Sending, Refused
  <2> QED BY <2>1, <2>2
<1>3. CASE TakeSlot(c)
    BY <1>3, SendingMovesKeeps DEF TakeSlot, SendMoves, Sending
<1>4. CASE CheckAbort(c)
    BY <1>4, SendingMovesKeeps DEF CheckAbort, SendMoves, Sending
<1>5. CASE Push(c)
    BY <1>5, AcceptKeeps DEF Push, Sending
<1>6. CASE SendAborted(c)
    BY <1>6, SendingMovesKeeps DEF SendAborted, Return, SendMoves, Sending, Refused
<1>7. CASE DropPermit(c)
    BY <1>7 DEF DropPermit, AnswersInv, Places, OnlyAccepted, AllAccepted, NothingToCome
<1> QED BY <1>1, <1>2, <1>3, <1>4, <1>5, <1>6, <1>7 DEF SendStep

\* The senders' other steps.
LEMMA SenderKeeps ==
    ASSUME AnswersInv, NEW c \in Chunk, SendData(c) \/ TrySendData(c) \/ DropSend(c)
    PROVE  AnswersInv'
<1>1. CASE SendData(c)
  <2>1. PICK to \in {"closed", "bytes"} : SendMoves(c, to)
      BY <1>1 DEF SendData, SendMoves
  <2> QED BY <1>1, <2>1, SendMovesKeeps DEF SendData, Sending, Refused
<1>2. CASE TrySendData(c)
  <2>1. PICK to \in {"closed", "full", "try"} : SendMoves(c, to)
      BY <1>2 DEF TrySendData, SendMoves
  <2> QED BY <1>2, <2>1, SendMovesKeeps DEF TrySendData, Sending, Refused
<1>3. CASE DropSend(c)
    BY <1>3, SendingMovesKeeps DEF DropSend, Return, SendMoves, Sending, Refused
<1> QED BY <1>1, <1>2, <1>3

\* The handles and the receiver.
LEMMA ReceiverKeeps ==
    ASSUME AnswersInv,
           DropSenders \/ AbortBySender \/ Receive \/ Consumed \/ ReceiveNone \/ FinishAbort
    PROVE  AnswersInv'
<1> USE DEF AnswersInv, Places, OnlyAccepted, AllAccepted, NothingToCome
<1>1. CASE DropSenders
    BY <1>1 DEF DropSenders
<1>2. CASE AbortBySender
    BY <1>2 DEF AbortBySender
<1>3. CASE Receive
  <2>1. /\ queue' \in Seq(Chunk) /\ Head(queue) \in Chunk
        /\ \A d \in Chunk : IsQueued(d, queue) <=> d = Head(queue) \/ IsQueued(d, queue')
      BY <1>3, Taken DEF Receive
  <2>2. delivered' = delivered \cup {Head(queue)} /\ receiver = "receives"
        /\ UNCHANGED <<send, receiver, open>>
      BY <1>3 DEF Receive
  <2> QED BY <2>1, <2>2
<1>4. CASE Consumed
    BY <1>4 DEF Consumed
<1>5. CASE ReceiveNone
    BY <1>5 DEF ReceiveNone, ReceiverStates
<1>6. CASE FinishAbort
  <2>1. receiver' = "discarded" /\ queue' = <<>> /\ UNCHANGED <<send, delivered, open>>
      BY <1>6 DEF FinishAbort
  <2> QED BY <2>1, NobodyQueued DEF ReceiverStates
<1> QED BY <1>1, <1>2, <1>3, <1>4, <1>5, <1>6

\* Every step keeps the invariant.
LEMMA IngressSteps == AnswersInv /\ [IngressNext]_ingressVars => AnswersInv'
<1> SUFFICES ASSUME AnswersInv, [IngressNext]_ingressVars PROVE AnswersInv'
    OBVIOUS
<1>1. CASE UNCHANGED ingressVars
    BY <1>1
    DEF ingressVars, AnswersInv, Places, OnlyAccepted, AllAccepted, NothingToCome
<1>2. CASE IngressNext
    BY <1>2, SendStepKeeps, SenderKeeps, ReceiverKeeps DEF IngressNext
<1> QED BY <1>1, <1>2

\* The inductive invariant: accepted chunks are the ones queued or delivered
\* (PendingTerminalData, the data channel and recv).
THEOREM IngressInvariant == IngressSpec => []AnswersInv
<1>1. IngressInit => AnswersInv
    BY IngressStarts
<1>2. AnswersInv /\ [IngressNext]_ingressVars => AnswersInv'
    BY IngressSteps
<1> QED BY <1>1, <1>2, PTL DEF IngressSpec

\* A refused chunk is never parsed, so that its bytes may be sent again, and
\* once the receiver has ended by itself every accepted one was parsed.
THEOREM AnswersAreKept == IngressSpec => []AnswersAreTrue
<1>1. AnswersInv => AnswersAreTrue
  <2> SUFFICES ASSUME AnswersInv, NEW c \in Chunk
               PROVE  /\ send[c] \in Refused =>
                            c \notin delivered /\ \A i \in DOMAIN queue : queue[i] # c
                      /\ receiver = "drained" /\ send[c] = "sent" => c \in delivered
      BY DEF AnswersAreTrue
  <2>1. DOMAIN queue = 1..Len(queue)
      BY DEF AnswersInv, Places
  <2>2. send[c] \in Refused => c \notin delivered /\ ~IsQueued(c, queue)
      BY DEF AnswersInv, OnlyAccepted, Refused
  <2>3. receiver = "drained" /\ send[c] = "sent" => c \in delivered
      BY NobodyQueued DEF AnswersInv, AllAccepted, NothingToCome
  <2> QED BY <2>1, <2>2, <2>3 DEF IsQueued
<1> QED BY <1>1, IngressInvariant, PTL

-----------------------------------------------------------------------------
\* The bytes of some chunks, numbered within each chunk, and how many they are.
BytesIn(sizes, S) == {u \in S \X (1..MaxBytes) : u[2] <= sizes[u[1]]}
Volume(sizes, S) == Cardinality(BytesIn(sizes, S))

Sizes == [Chunk -> 1..MaxBytes]
Any(s) == CHOOSE x \in s : TRUE
SumsUp(g, sizes, S) ==
    g = [s \in SUBSET S |-> IF s = {} THEN 0 ELSE sizes[Any(s)] + g[s \ {Any(s)}]]

\* A minimal one among some finite sets.
LEMMA LeastSet ==
    ASSUME NEW S, IsFiniteSet(S), NEW U \in SUBSET SUBSET S, U # {}
    PROVE  \E x \in U : \A y \in U : y \subseteq x => y = x
<1>1. U \subseteq FiniteSubsetsOf(S)
  <2>1. ASSUME NEW x \in U PROVE x \in SUBSET S /\ IsFiniteSet(x)
      BY FS_Subset
  <2> QED BY <2>1 DEF FiniteSubsetsOf
<1>2. PICK x \in U : \A y \in U : <<y, x>> \notin StrictSubsetOrdering(S)
    BY <1>1, FS_StrictSubsetOrderingWellFounded, WFMin
<1>3. ASSUME NEW y \in U, y \subseteq x PROVE y = x
    BY <1>2, <1>3 DEF StrictSubsetOrdering
<1> QED BY <1>3

\* No chunks, no bytes.
LEMMA VolumeOfNothing == \A sizes : Volume(sizes, {}) = 0
<1>1. ASSUME NEW sizes PROVE BytesIn(sizes, {}) = {}
    BY DEF BytesIn
<1> QED BY <1>1, FS_EmptySet DEF Volume

\* One chunk has as many bytes as its size says.
LEMMA VolumeOfOne ==
    ASSUME NEW sizes \in Sizes, MaxBytes \in Nat, NEW c \in Chunk
    PROVE  IsFiniteSet(BytesIn(sizes, {c})) /\ Volume(sizes, {c}) = sizes[c]
<1>1. sizes[c] \in 1..MaxBytes
    BY DEF Sizes
<1>2. BytesIn(sizes, {c}) = {c} \X (1..sizes[c])
  <2>1. ASSUME NEW u PROVE u \in BytesIn(sizes, {c}) <=> u \in {c} \X (1..sizes[c])
      BY <1>1 DEF BytesIn
  <2> QED BY <2>1
<1>3. IsFiniteSet({c}) /\ Cardinality({c}) = 1
    BY FS_Singleton
<1>4. IsFiniteSet(1..sizes[c]) /\ Cardinality(1..sizes[c]) = sizes[c]
    BY <1>1, FS_Interval
<1>5. IsFiniteSet({c} \X (1..sizes[c])) /\ Cardinality({c} \X (1..sizes[c])) = 1 * sizes[c]
    BY <1>3, <1>4, FS_Product
<1>6. 1 * sizes[c] = sizes[c]
    BY <1>1
<1> QED BY <1>2, <1>5, <1>6 DEF Volume

\* Finitely many chunks have finitely many bytes.
LEMMA VolumeFinite ==
    ASSUME NEW sizes, MaxBytes \in Nat, NEW S, IsFiniteSet(S)
    PROVE  IsFiniteSet(BytesIn(sizes, S)) /\ Volume(sizes, S) \in Nat
<1>1. IsFiniteSet(1..MaxBytes)
    BY FS_Interval
<1>2. IsFiniteSet(S \X (1..MaxBytes))
    BY <1>1, FS_Product
<1>3. BytesIn(sizes, S) \in SUBSET (S \X (1..MaxBytes))
    BY DEF BytesIn
<1> QED BY <1>2, <1>3, FS_Subset, FS_CardinalityType DEF Volume

\* Two sets without a common chunk add up.
LEMMA VolumeUnion ==
    ASSUME NEW sizes, MaxBytes \in Nat, NEW S, NEW T, IsFiniteSet(S), IsFiniteSet(T), S \cap T = {}
    PROVE  Volume(sizes, S \cup T) = Volume(sizes, S) + Volume(sizes, T)
<1>1. BytesIn(sizes, S \cup T) = BytesIn(sizes, S) \cup BytesIn(sizes, T)
    BY DEF BytesIn
<1>2. BytesIn(sizes, S) \cap BytesIn(sizes, T) = {}
    BY DEF BytesIn
<1>3. IsFiniteSet(BytesIn(sizes, S)) /\ IsFiniteSet(BytesIn(sizes, T))
    BY VolumeFinite
<1>4. Volume(sizes, S) \in Nat /\ Volume(sizes, T) \in Nat
    BY VolumeFinite
<1>5. Cardinality(BytesIn(sizes, S) \cap BytesIn(sizes, T)) = 0
    BY <1>2, FS_EmptySet
<1>6. Cardinality(BytesIn(sizes, S) \cup BytesIn(sizes, T)) =
        Cardinality(BytesIn(sizes, S)) + Cardinality(BytesIn(sizes, T))
        - Cardinality(BytesIn(sizes, S) \cap BytesIn(sizes, T))
    BY <1>3, FS_Union
<1>7. PICK m, n \in Nat : m = Volume(sizes, S) /\ n = Volume(sizes, T)
    BY <1>4
<1>8. Volume(sizes, S \cup T) = m + n - 0
    BY <1>1, <1>5, <1>6, <1>7 DEF Volume
<1> QED BY <1>7, <1>8

\* One chunk more.
LEMMA VolumeMore ==
    ASSUME NEW sizes \in Sizes, MaxBytes \in Nat, NEW S, IsFiniteSet(S),
           NEW c \in Chunk, c \notin S
    PROVE  IsFiniteSet(S \cup {c}) /\ Volume(sizes, S \cup {c}) = Volume(sizes, S) + sizes[c]
<1>1. IsFiniteSet({c}) /\ S \cap {c} = {}
    BY FS_Singleton
<1>2. Volume(sizes, S \cup {c}) = Volume(sizes, S) + Volume(sizes, {c})
    BY <1>1, VolumeUnion
<1> QED BY <1>2, VolumeOfOne, FS_AddElement

\* One chunk less.
LEMMA VolumeLess ==
    ASSUME NEW sizes \in Sizes, MaxBytes \in Nat, NEW S, IsFiniteSet(S),
           NEW c \in Chunk, c \in S
    PROVE  /\ IsFiniteSet(S \ {c}) /\ Volume(sizes, S \ {c}) \in Nat
           /\ Volume(sizes, S) = Volume(sizes, S \ {c}) + sizes[c]
<1>1. IsFiniteSet(S \ {c}) /\ c \notin S \ {c} /\ (S \ {c}) \cup {c} = S
    BY FS_RemoveElement
<1>2. Volume(sizes, (S \ {c}) \cup {c}) = Volume(sizes, S \ {c}) + sizes[c]
    BY <1>1, VolumeMore
<1> QED BY <1>1, <1>2, VolumeFinite

\* A part and the rest, of finitely many chunks.
LEMMA VolumePart ==
    ASSUME NEW sizes, MaxBytes \in Nat, NEW S, IsFiniteSet(S), NEW T \in SUBSET S
    PROVE  /\ IsFiniteSet(T) /\ IsFiniteSet(S \ T)
           /\ Volume(sizes, S) = Volume(sizes, T) + Volume(sizes, S \ T)
           /\ Volume(sizes, T) <= Volume(sizes, S)
<1>1. IsFiniteSet(T) /\ IsFiniteSet(S \ T) /\ T \cap (S \ T) = {} /\ T \cup (S \ T) = S
    BY FS_Subset, FS_Difference
<1>2. Volume(sizes, T) \in Nat /\ Volume(sizes, S \ T) \in Nat
    BY <1>1, VolumeFinite
<1>3. Volume(sizes, T \cup (S \ T)) = Volume(sizes, T) + Volume(sizes, S \ T)
    BY <1>1, VolumeUnion
<1>4. Volume(sizes, S) = Volume(sizes, T) + Volume(sizes, S \ T)
    BY <1>1, <1>3
<1> QED BY <1>1, <1>2, <1>4

\* The sum of the sizes, which the community modules define by recursion
\* over sets, is the number of the bytes.
LEMMA SumIsVolume ==
    ASSUME NEW sizes \in Sizes, MaxBytes \in Nat, NEW S \in SUBSET Chunk, IsFiniteSet(S)
    PROVE  (CHOOSE g : SumsUp(g, sizes, S))[S] = Volume(sizes, S)
<1> DEFINE v == [s \in SUBSET S |-> Volume(sizes, s)]
<1>1. ASSUME NEW s \in SUBSET S, s # {}
      PROVE  Any(s) \in s /\ Volume(sizes, s) = sizes[Any(s)] + Volume(sizes, s \ {Any(s)})
  <2>1. Any(s) \in s /\ Any(s) \in Chunk
      BY <1>1 DEF Any
  <2>2. IsFiniteSet(s)
      BY FS_Subset
  <2>3. sizes[Any(s)] \in Nat
      BY <2>1 DEF Sizes
  <2> QED BY <2>1, <2>2, <2>3, VolumeLess
<1>2. SumsUp(v, sizes, S)
  <2>1. ASSUME NEW s \in SUBSET S
        PROVE  v[s] = IF s = {} THEN 0 ELSE sizes[Any(s)] + v[s \ {Any(s)}]
    <3>1. s \ {Any(s)} \in SUBSET S
        OBVIOUS
    <3>2. v[s] = Volume(sizes, s) /\ v[s \ {Any(s)}] = Volume(sizes, s \ {Any(s)})
        BY <3>1
    <3> QED BY <3>2, <1>1, VolumeOfNothing
  <2> QED BY <2>1 DEF SumsUp
<1>3. PICK g : g = (CHOOSE h : SumsUp(h, sizes, S))
    OBVIOUS
<1>4. SumsUp(g, sizes, S)
    BY <1>2, <1>3
<1>5. \A s \in SUBSET S : g[s] = IF s = {} THEN 0 ELSE sizes[Any(s)] + g[s \ {Any(s)}]
    BY <1>4 DEF SumsUp
<1> DEFINE U == {s \in SUBSET S : g[s] # Volume(sizes, s)}
<1>6. U = {}
  <2> SUFFICES ASSUME U # {} PROVE FALSE
      OBVIOUS
  <2>1. PICK s \in U : \A y \in U : y \subseteq s => y = s
    <3>1. U \in SUBSET SUBSET S
        OBVIOUS
    <3> HIDE DEF U
    <3> QED BY <3>1, LeastSet
  <2>2. s \in SUBSET S /\ g[s] # Volume(sizes, s)
      OBVIOUS
  <2>3. s # {}
      BY <2>2, <1>5, VolumeOfNothing
  <2>4. Any(s) \in s /\ s \ {Any(s)} \in SUBSET S
      BY <2>2, <2>3, <1>1
  <2>5. s \ {Any(s)} \notin U
      BY <2>1, <2>4
  <2>6. g[s \ {Any(s)}] = Volume(sizes, s \ {Any(s)})
      BY <2>4, <2>5
  <2> QED BY <2>2, <2>3, <2>6, <1>1, <1>5
<1>7. g[S] = Volume(sizes, S)
    BY <1>6
<1> QED BY <1>3, <1>7

\* So the permits that some chunks need are their bytes.
LEMMA BytesAreCounted ==
    ASSUME size \in Sizes, MaxBytes \in Nat, NEW S \in SUBSET Chunk, IsFiniteSet(S)
    PROVE  Bytes(S) = Volume(size, S)
<1>1. Bytes(S) = (CHOOSE g : SumsUp(g, size, S))[S]
    BY DEF Bytes, MapThenSumSet, MapThenFoldSet, SumsUp, Any
<1> QED BY <1>1, SumIsVolume
-----------------------------------------------------------------------------
Holds == {"none", "permits", "counted", "uncounted"}
HoldersIn(holds) == {c \in Chunk : holds[c] # "none"}
CountedIn(holds) == {c \in Chunk : holds[c] = "counted"}

\* The free permits and the reservations are the budget, and the counter is
\* that of the reservations that are counted.
Accounts(sizes, holds, permits, counter) ==
    /\ sizes \in Sizes /\ holds \in [Chunk -> Holds]
    /\ IsFiniteSet(HoldersIn(holds))
    /\ permits \in Nat /\ permits + Volume(sizes, HoldersIn(holds)) = MaxBytes
    /\ counter = Volume(sizes, CountedIn(holds))

\* The reservation of a chunk whose send is at some step.
Fits(step, h) ==
    /\ step = "none" => h = "none"
    /\ step = "try" => h = "permits"
    /\ step \in {"slot", "trySlot", "check", "push"} => h = "counted"

SendsFit(sends, holds) == \A c \in Chunk : Fits(sends[c], holds[c])

\* A chunk is in the queue, or with the parser, once, with its reservation.
QueueFits(chunks, parsed, sends, holds) ==
    /\ \A i \in 1..Len(chunks) :
          sends[chunks[i]] = "sent" /\ holds[chunks[i]] = "counted" /\ chunks[i] # parsed
    /\ \A i, j \in 1..Len(chunks) : chunks[i] = chunks[j] => i = j
    /\ parsed # NoChunk => sends[parsed] = "sent" /\ holds[parsed] \in {"counted", "uncounted"}

\* A send waits for permits once, without any, and for a semaphore that is open.
WaitersFit(waiters, sends, holds) ==
    /\ \A i \in 1..Len(waiters) : sends[waiters[i]] = "bytes" /\ holds[waiters[i]] = "none"
    /\ \A i, j \in 1..Len(waiters) : waiters[i] = waiters[j] => i = j

\* The chunk slots that sends have taken and not used yet.
TakersIn(sends) == {c \in Chunk : sends[c] \in {"check", "push"}}

SlotsFit(chunks, sends) ==
    IsFiniteSet(TakersIn(sends)) /\ Len(chunks) + Cardinality(TakersIn(sends)) <= MaxChunks

ChunkStates ==
    /\ send \in [Chunk -> SendStates]
    /\ acquiring \in Seq(Chunk) /\ queue \in Seq(Chunk)
    /\ parsing \in Chunk \cup {NoChunk}
    /\ receiver \in ReceiverStates
    /\ delivered \subseteq Chunk

Flags == open \in BOOLEAN /\ aborted \in BOOLEAN

ClosedForWaiters == aborted => acquiring = <<>>

BudgetInv ==
    /\ ChunkStates /\ Flags
    /\ Accounts(size, hold, free, pendingBytes)
    /\ SendsFit(send, hold)
    /\ QueueFits(queue, parsing, send, hold)
    /\ WaitersFit(acquiring, send, hold)
    /\ SlotsFit(queue, send)
    /\ ClosedForWaiters

-----------------------------------------------------------------------------
\* What the accounts say of the two numbers.
LEMMA AccountBounds ==
    ASSUME NEW sizes, NEW holds, NEW permits, NEW counter, Accounts(sizes, holds, permits, counter)
    PROVE  /\ MaxBytes \in Nat /\ permits \in 0..MaxBytes /\ counter \in 0..MaxBytes
           /\ IsFiniteSet(CountedIn(holds)) /\ CountedIn(holds) \subseteq HoldersIn(holds)
<1>0. MaxBytes \in Nat
    BY IngressAssumption DEF IngressAssumption
<1>1. CountedIn(holds) \in SUBSET HoldersIn(holds)
    BY DEF CountedIn, HoldersIn
<1>2. IsFiniteSet(HoldersIn(holds))
    BY DEF Accounts
<1>3. PICK all, some : all = Volume(sizes, HoldersIn(holds)) /\ some = Volume(sizes, CountedIn(holds))
    OBVIOUS
<1>4. all \in Nat /\ some \in Nat /\ some <= all /\ IsFiniteSet(CountedIn(holds))
    BY <1>0, <1>1, <1>2, <1>3, VolumePart, VolumeFinite
<1>5. permits \in Nat /\ permits + all = MaxBytes /\ counter = some
    BY <1>3 DEF Accounts
<1> QED BY <1>0, <1>1, <1>4, <1>5

\* Some permits become the reservations of some chunks.
LEMMA AccountTake ==
    ASSUME NEW sizes, NEW holds, NEW permits, NEW counter, Accounts(sizes, holds, permits, counter),
           NEW some \in SUBSET Chunk, IsFiniteSet(some), \A c \in some : holds[c] = "none",
           Volume(sizes, some) <= permits,
           NEW after, after = [c \in Chunk |-> IF c \in some THEN "permits" ELSE holds[c]]
    PROVE  Accounts(sizes, after, permits - Volume(sizes, some), counter)
<1>0. MaxBytes \in Nat
    BY IngressAssumption DEF IngressAssumption
<1>1. /\ HoldersIn(after) = HoldersIn(holds) \cup some
      /\ HoldersIn(holds) \cap some = {}
      /\ CountedIn(after) = CountedIn(holds)
    BY DEF HoldersIn, CountedIn
<1>2. IsFiniteSet(HoldersIn(holds))
    BY DEF Accounts
<1>3. PICK m, n : m = Volume(sizes, HoldersIn(holds)) /\ n = Volume(sizes, some)
    OBVIOUS
<1>a. m \in Nat /\ n \in Nat
    BY <1>0, <1>2, <1>3, VolumeFinite
<1>b. Volume(sizes, HoldersIn(holds) \cup some) = m + n
    BY <1>0, <1>1, <1>2, <1>3, VolumeUnion
<1>c. IsFiniteSet(HoldersIn(holds) \cup some)
    BY <1>2, FS_Union
<1>4. m \in Nat /\ n \in Nat /\ Volume(sizes, HoldersIn(after)) = m + n
      /\ IsFiniteSet(HoldersIn(after))
    BY <1>1, <1>a, <1>b, <1>c
<1>5. permits \in Nat /\ permits + m = MaxBytes /\ n <= permits
    BY <1>3 DEF Accounts
<1>6. permits - n \in Nat /\ (permits - n) + (m + n) = MaxBytes
    BY <1>0, <1>4, <1>5
<1>7. after \in [Chunk -> Holds]
    BY DEF Accounts, Holds
<1>8. sizes \in Sizes /\ counter = Volume(sizes, CountedIn(after))
    BY <1>1 DEF Accounts
<1> QED BY <1>3, <1>4, <1>6, <1>7, <1>8 DEF Accounts

\* The permits of one chunk are taken.
LEMMA AccountTakeOne ==
    ASSUME NEW sizes, NEW holds, NEW permits, NEW counter, Accounts(sizes, holds, permits, counter),
           NEW c \in Chunk, holds[c] = "none", sizes[c] <= permits
    PROVE  Accounts(sizes, [holds EXCEPT ![c] = "permits"], permits - sizes[c], counter)
<1>0. MaxBytes \in Nat /\ sizes \in Sizes /\ holds \in [Chunk -> Holds]
    BY IngressAssumption DEF IngressAssumption, Accounts
<1>1. IsFiniteSet({c}) /\ {c} \in SUBSET Chunk /\ Volume(sizes, {c}) = sizes[c]
    BY <1>0, FS_Singleton, VolumeOfOne
<1>2. [holds EXCEPT ![c] = "permits"] = [d \in Chunk |-> IF d \in {c} THEN "permits" ELSE holds[d]]
    BY <1>0
<1>3. \A d \in {c} : holds[d] = "none"
    OBVIOUS
<1>4. Accounts(sizes, [holds EXCEPT ![c] = "permits"], permits - Volume(sizes, {c}), counter)
    BY <1>1, <1>2, <1>3, AccountTake
<1> QED BY <1>1, <1>4

\* The bytes of a chunk are counted.
LEMMA AccountCount ==
    ASSUME NEW sizes, NEW holds, NEW permits, NEW counter, Accounts(sizes, holds, permits, counter),
           NEW c \in Chunk, holds[c] = "permits"
    PROVE  Accounts(sizes, [holds EXCEPT ![c] = "counted"], permits, counter + sizes[c])
<1> DEFINE after == [holds EXCEPT ![c] = "counted"]
<1>0. MaxBytes \in Nat /\ sizes \in Sizes /\ holds \in [Chunk -> Holds]
    BY IngressAssumption DEF IngressAssumption, Accounts
<1>1. /\ HoldersIn(after) = HoldersIn(holds)
      /\ CountedIn(after) = CountedIn(holds) \cup {c} /\ c \notin CountedIn(holds)
      /\ after \in [Chunk -> Holds]
    BY <1>0 DEF HoldersIn, CountedIn, Holds
<1>2. IsFiniteSet(CountedIn(holds))
    BY AccountBounds
<1>3. Volume(sizes, CountedIn(after)) = Volume(sizes, CountedIn(holds)) + sizes[c]
    BY <1>0, <1>1, <1>2, VolumeMore
<1> HIDE DEF after
<1>4. Accounts(sizes, after, permits, counter + sizes[c])
    BY <1>1, <1>3 DEF Accounts
<1> QED BY <1>4 DEF after

\* The bytes of some chunks are taken off the counter.
LEMMA AccountDiscard ==
    ASSUME NEW sizes, NEW holds, NEW permits, NEW counter, Accounts(sizes, holds, permits, counter),
           NEW some \in SUBSET CountedIn(holds),
           NEW after, after = [c \in Chunk |-> IF c \in some THEN "uncounted" ELSE holds[c]]
    PROVE  Accounts(sizes, after, permits, counter - Volume(sizes, some))
<1>0. MaxBytes \in Nat /\ sizes \in Sizes /\ holds \in [Chunk -> Holds]
    BY IngressAssumption DEF IngressAssumption, Accounts
<1>1. /\ HoldersIn(after) = HoldersIn(holds)
      /\ CountedIn(after) = CountedIn(holds) \ some
      /\ after \in [Chunk -> Holds]
    BY <1>0 DEF HoldersIn, CountedIn, Holds
<1>2. IsFiniteSet(CountedIn(holds))
    BY AccountBounds
<1>3. PICK m, n : m = Volume(sizes, CountedIn(after)) /\ n = Volume(sizes, some)
    OBVIOUS
<1>a. IsFiniteSet(some) /\ IsFiniteSet(CountedIn(after))
      /\ Volume(sizes, CountedIn(holds)) = Volume(sizes, some) + Volume(sizes, CountedIn(after))
    BY <1>0, <1>1, <1>2, VolumePart
<1>4. m \in Nat /\ n \in Nat /\ Volume(sizes, CountedIn(holds)) = n + m
    BY <1>0, <1>3, <1>a, VolumeFinite
<1>5. counter = n + m
    BY <1>4 DEF Accounts
<1>6. counter - n = m
    BY <1>4, <1>5
<1> QED BY <1>1, <1>3, <1>6 DEF Accounts

\* The reservation of one chunk is no longer counted, if it was.
LEMMA AccountUncount ==
    ASSUME NEW sizes, NEW holds, NEW permits, NEW counter, Accounts(sizes, holds, permits, counter),
           NEW c \in Chunk, holds[c] \in {"permits", "counted"}
    PROVE  Accounts(sizes, [holds EXCEPT ![c] = "uncounted"], permits,
                    IF holds[c] = "counted" THEN counter - sizes[c] ELSE counter)
<1> DEFINE after == [holds EXCEPT ![c] = "uncounted"]
<1>0. MaxBytes \in Nat /\ sizes \in Sizes /\ holds \in [Chunk -> Holds]
    BY IngressAssumption DEF IngressAssumption, Accounts
<1>1. CASE holds[c] = "counted"
  <2>1. {c} \in SUBSET CountedIn(holds) /\ Volume(sizes, {c}) = sizes[c]
      BY <1>0, <1>1, VolumeOfOne DEF CountedIn
  <2>2. after = [d \in Chunk |-> IF d \in {c} THEN "uncounted" ELSE holds[d]]
      BY <1>0
  <2> HIDE DEF after
  <2>3. Accounts(sizes, after, permits, counter - Volume(sizes, {c}))
      BY <2>1, <2>2, AccountDiscard
  <2> QED BY <1>1, <2>1, <2>3 DEF after
<1>2. CASE holds[c] = "permits"
  <2>1. /\ HoldersIn(after) = HoldersIn(holds) /\ CountedIn(after) = CountedIn(holds)
        /\ after \in [Chunk -> Holds]
      BY <1>0, <1>2 DEF HoldersIn, CountedIn, Holds
  <2> HIDE DEF after
  <2>2. Accounts(sizes, after, permits, counter)
      BY <2>1 DEF Accounts
  <2> QED BY <1>2, <2>2 DEF after
<1> QED BY <1>1, <1>2

\* The permits of one chunk are given back.
LEMMA AccountFree ==
    ASSUME NEW sizes, NEW holds, NEW permits, NEW counter, Accounts(sizes, holds, permits, counter),
           NEW c \in Chunk, holds[c] = "uncounted"
    PROVE  Accounts(sizes, [holds EXCEPT ![c] = "none"], permits + sizes[c], counter)
<1> DEFINE after == [holds EXCEPT ![c] = "none"]
<1>0. MaxBytes \in Nat /\ sizes \in Sizes /\ holds \in [Chunk -> Holds]
    BY IngressAssumption DEF IngressAssumption, Accounts
<1>1. /\ HoldersIn(after) = HoldersIn(holds) \ {c} /\ c \in HoldersIn(holds)
      /\ CountedIn(after) = CountedIn(holds)
      /\ after \in [Chunk -> Holds]
    BY <1>0 DEF HoldersIn, CountedIn, Holds
<1>2. IsFiniteSet(HoldersIn(holds))
    BY DEF Accounts
<1>3. PICK m : m = Volume(sizes, HoldersIn(after))
    OBVIOUS
<1>a. IsFiniteSet(HoldersIn(after)) /\ Volume(sizes, HoldersIn(after)) \in Nat
      /\ Volume(sizes, HoldersIn(holds)) = Volume(sizes, HoldersIn(after)) + sizes[c]
  <2> HIDE DEF after
  <2> QED BY <1>0, <1>1, <1>2, VolumeLess
<1>4. /\ m \in Nat /\ IsFiniteSet(HoldersIn(after))
      /\ Volume(sizes, HoldersIn(holds)) = m + sizes[c] /\ sizes[c] \in Nat
  <2>1. sizes[c] \in Nat
      BY <1>0 DEF Sizes
  <2> HIDE DEF after
  <2> QED BY <1>3, <1>a, <2>1
<1>5. permits \in Nat /\ permits + (m + sizes[c]) = MaxBytes
    BY <1>4 DEF Accounts
<1>6. permits + sizes[c] \in Nat /\ (permits + sizes[c]) + m = MaxBytes
    BY <1>0, <1>4, <1>5
<1>7. counter = Volume(sizes, CountedIn(after))
    BY <1>1 DEF Accounts
<1> HIDE DEF after
<1>8. Accounts(sizes, after, permits + sizes[c], counter)
    BY <1>0, <1>1, <1>3, <1>4, <1>6, <1>7 DEF Accounts
<1> QED BY <1>8 DEF after

-----------------------------------------------------------------------------
\* A set of numbers up to a bound has a greatest one.
LEMMA GreatestNumber ==
    ASSUME NEW L \in Nat, NEW T \in SUBSET (0..L), T # {}
    PROVE  Max(T) \in T
<1> DEFINE U == {(k + 1)..L : k \in T}
<1>1. PICK D : D = 1..L
    OBVIOUS
<1>a. IsFiniteSet(D)
    BY <1>1, FS_Interval
<1>b. \A k \in T : (k + 1)..L \in SUBSET D
    BY <1>1
<1>c. U \in SUBSET SUBSET D /\ U # {}
    BY <1>b
<1>2. PICK x \in U : \A y \in U : y \subseteq x => y = x
  <2> HIDE DEF U
  <2> QED BY <1>a, <1>c, LeastSet
<1>3. PICK m \in T : x = (m + 1)..L
    OBVIOUS
<1>4. ASSUME NEW k \in T, k > m PROVE FALSE
  <2>1. (k + 1)..L \subseteq (m + 1)..L /\ m + 1 \in (m + 1)..L /\ m + 1 \notin (k + 1)..L
      BY <1>4
  <2> QED BY <2>1, <1>2, <1>3
<1>5. \A k \in T : m >= k
    BY <1>4
<1> QED BY <1>5 DEF Max

\* The number of the waiters that are served, and what they need.
LEMMA ServedFits ==
    ASSUME NEW waiters \in Seq(Chunk), NEW permits \in Nat, size \in Sizes
    PROVE  /\ Served(waiters, permits) \in 0..Len(waiters)
           /\ Bytes({waiters[i] : i \in 1..Served(waiters, permits)}) <= permits
<1> DEFINE T == {k \in 0..Len(waiters) : Bytes({waiters[i] : i \in 1..k}) <= permits}
<1>1. {waiters[i] : i \in 1..0} = {} /\ {} \in SUBSET Chunk /\ IsFiniteSet({})
    BY FS_EmptySet
<1>2. Bytes({}) = 0
    BY <1>1, BytesAreCounted, VolumeOfNothing, IngressAssumption DEF IngressAssumption
<1>3. Len(waiters) \in Nat
    OBVIOUS
<1>4. T \in SUBSET (0..Len(waiters)) /\ T # {}
  <2>0. Bytes({waiters[i] : i \in 1..0}) = 0
      BY <1>1, <1>2
  <2>1. 0 \in T
      BY <2>0, <1>3
  <2> QED BY <2>1
<1>5. Max(T) \in T
  <2> HIDE DEF T
  <2> QED BY <1>3, <1>4, GreatestNumber
<1>6. Served(waiters, permits) = Max(T)
    BY DEF Served
<1> QED BY <1>5, <1>6

\* What is left of a sequence after its first k elements.
LEMMA RestOf ==
    ASSUME NEW waiters \in Seq(Chunk), NEW k \in 0..Len(waiters)
    PROVE  /\ SubSeq(waiters, k + 1, Len(waiters)) \in Seq(Chunk)
           /\ Len(SubSeq(waiters, k + 1, Len(waiters))) = Len(waiters) - k
           /\ \A i \in 1..(Len(waiters) - k) :
                 SubSeq(waiters, k + 1, Len(waiters))[i] = waiters[k + i]
<1>0. Len(waiters) \in Nat /\ k \in Nat
    OBVIOUS
<1>1. \A i \in (k + 1)..Len(waiters) : waiters[i] \in Chunk
    BY <1>0
<1>2. /\ SubSeq(waiters, k + 1, Len(waiters)) \in Seq(Chunk)
      /\ Len(SubSeq(waiters, k + 1, Len(waiters))) =
            IF k + 1 <= Len(waiters) THEN Len(waiters) - (k + 1) + 1 ELSE 0
      /\ \A i \in 1..(Len(waiters) - (k + 1) + 1) :
            SubSeq(waiters, k + 1, Len(waiters))[i] = waiters[(k + 1) + i - 1]
    BY <1>0, <1>1, SubSeqProperties
<1> QED BY <1>0, <1>2

\* Some waiters get their permits, and the others stay in their order.
LEMMA ServeEffect ==
    ASSUME NEW waiters \in Seq(Chunk), NEW permits, NEW holds, NEW counter,
           Accounts(size, holds, permits, counter),
           \A i \in 1..Len(waiters) : holds[waiters[i]] = "none",
           \A i, j \in 1..Len(waiters) : waiters[i] = waiters[j] => i = j,
           Serve(waiters, permits, holds)
    PROVE  \E k \in 0..Len(waiters) :
              /\ Accounts(size, hold', free', counter)
              /\ acquiring' = SubSeq(waiters, k + 1, Len(waiters))
              /\ hold' = [c \in Chunk |->
                             IF c \in {waiters[i] : i \in 1..k} THEN "permits" ELSE holds[c]]
<1>0. MaxBytes \in Nat /\ size \in Sizes /\ permits \in Nat
    BY IngressAssumption DEF IngressAssumption, Accounts
<1>1. PICK k : k = Served(waiters, permits)
    OBVIOUS
<1>2. k \in 0..Len(waiters) /\ Bytes({waiters[i] : i \in 1..k}) <= permits
    BY <1>0, <1>1, ServedFits
<1>3. PICK lucky : lucky = {waiters[i] : i \in 1..k}
    OBVIOUS
<1>4. /\ acquiring' = SubSeq(waiters, k + 1, Len(waiters))
      /\ free' = permits - Bytes(lucky)
      /\ hold' = [c \in Chunk |-> IF c \in lucky THEN "permits" ELSE holds[c]]
    BY <1>1, <1>3 DEF Serve
<1>5. lucky \in SUBSET Chunk /\ \A c \in lucky : holds[c] = "none"
    BY <1>2, <1>3
<1>6. IsFiniteSet(lucky)
  <2>1. IsFiniteSet(1..k)
    <3>1. Len(waiters) \in Nat
      OBVIOUS
    <3>2. 1 \in Int /\ k \in Int
      BY <1>2, <3>1
    <3> QED
      BY <3>2, FS_Interval
  <2>2. PICK f : f = [i \in 1..k |-> waiters[i]]
      OBVIOUS
  <2>3. f \in Surjection(1..k, lucky)
      BY <1>3, <2>2 DEF Surjection
  <2> QED BY <2>1, <2>3, FS_Surjection
<1>7. Bytes(lucky) = Volume(size, lucky)
    BY <1>0, <1>5, <1>6, BytesAreCounted
<1>8. Accounts(size, hold', permits - Volume(size, lucky), counter)
    BY <1>2, <1>3, <1>4, <1>5, <1>6, <1>7, AccountTake
<1> QED BY <1>2, <1>3, <1>4, <1>7, <1>8

\* A step that ends with the semaphore serving its waiters.
LEMMA ServeKeeps ==
    ASSUME BudgetInv,
           NEW sends \in [Chunk -> SendStates], NEW holds, NEW waiters \in Seq(Chunk),
           NEW parsed \in Chunk \cup {NoChunk}, NEW permits,
           Accounts(size, holds, permits, pendingBytes),
           SendsFit(sends, holds), QueueFits(queue, parsed, sends, holds),
           WaitersFit(waiters, sends, holds), SlotsFit(queue, sends),
           aborted => waiters = <<>>,
           Serve(waiters, permits, holds), send' = sends, parsing' = parsed,
           UNCHANGED <<size, pendingBytes, queue, receiver, open, aborted, delivered>>
    PROVE  BudgetInv'
<1>1. PICK k \in 0..Len(waiters) :
        /\ Accounts(size, hold', free', pendingBytes)
        /\ acquiring' = SubSeq(waiters, k + 1, Len(waiters))
        /\ hold' = [c \in Chunk |->
                       IF c \in {waiters[i] : i \in 1..k} THEN "permits" ELSE holds[c]]
  <2>1. PICK counter : counter = pendingBytes /\ Accounts(size, holds, permits, counter)
      OBVIOUS
  <2>2. /\ \A i \in 1..Len(waiters) : holds[waiters[i]] = "none"
        /\ \A i, j \in 1..Len(waiters) : waiters[i] = waiters[j] => i = j
      BY DEF WaitersFit
  <2>3. \E k \in 0..Len(waiters) :
            /\ Accounts(size, hold', free', counter)
            /\ acquiring' = SubSeq(waiters, k + 1, Len(waiters))
            /\ hold' = [c \in Chunk |->
                           IF c \in {waiters[i] : i \in 1..k} THEN "permits" ELSE holds[c]]
      BY <2>1, <2>2, ServeEffect
  <2> QED BY <2>1, <2>3
<1>2. PICK rest : rest = acquiring'
    OBVIOUS
<1>3. /\ rest \in Seq(Chunk) /\ Len(rest) = Len(waiters) - k /\ Len(waiters) \in Nat
      /\ \A i \in 1..Len(rest) : rest[i] = waiters[k + i]
    BY <1>1, <1>2, RestOf
<1>4. \A c \in Chunk : hold'[c] = holds[c] \/ (sends[c] = "bytes" /\ hold'[c] = "permits")
    BY <1>1 DEF WaitersFit
<1>5. \A i \in 1..Len(rest) : k + i \in 1..Len(waiters) /\ rest[i] \in Chunk
    BY <1>3
<1>6. SendsFit(send, hold)'
  <2>1. ASSUME NEW c \in Chunk PROVE Fits(sends[c], hold'[c])
      BY <1>4 DEF SendsFit, Fits
  <2> QED BY <2>1 DEF SendsFit
<1>7. QueueFits(queue, parsing, send, hold)'
  <2>1. \A i \in 1..Len(queue) : queue[i] \in Chunk
      BY DEF BudgetInv, ChunkStates
  <2>2. queue' = queue /\ parsing' = parsed /\ send' = sends
      OBVIOUS
  <2>3. \A i \in 1..Len(queue) : hold'[queue[i]] = holds[queue[i]]
      BY <1>4, <2>1 DEF QueueFits
  <2>4. parsed # NoChunk => hold'[parsed] = holds[parsed]
      BY <1>4 DEF QueueFits
  <2> QED BY <2>2, <2>3, <2>4 DEF QueueFits
<1>8. WaitersFit(acquiring, send, hold)'
  <2>1. ASSUME NEW i \in 1..Len(rest)
        PROVE  sends[rest[i]] = "bytes" /\ hold'[rest[i]] = "none"
    <3>1. waiters[k + i] = rest[i] /\ sends[rest[i]] = "bytes" /\ holds[rest[i]] = "none"
        BY <1>3, <1>5 DEF WaitersFit
    <3>2. \A j \in 1..k : waiters[j] # rest[i]
      <4>1. \A j \in 1..k : j \in 1..Len(waiters) /\ j # k + i
          BY <1>3, <1>5
      <4> QED BY <4>1, <3>1, <1>5 DEF WaitersFit
    <3> QED BY <1>1, <1>5, <3>1, <3>2
  <2>2. ASSUME NEW i \in 1..Len(rest), NEW j \in 1..Len(rest), rest[i] = rest[j] PROVE i = j
    <3>1. waiters[k + i] = waiters[k + j]
        BY <1>3, <2>2
    <3>2. k + i = k + j
        BY <1>5, <3>1 DEF WaitersFit
    <3> QED BY <1>3, <3>2
  <2> QED BY <1>2, <2>1, <2>2 DEF WaitersFit
<1>9. SlotsFit(queue, send)'
    OBVIOUS
<1>10. ClosedForWaiters'
  <2>1. ASSUME waiters = <<>> PROVE rest = <<>>
      BY <1>3, <2>1
  <2> QED BY <1>2, <2>1 DEF ClosedForWaiters
<1>11. ChunkStates' /\ Flags'
    BY <1>2, <1>3 DEF BudgetInv, ChunkStates, Flags
<1>12. Accounts(size, hold, free, pendingBytes)'
    BY <1>1
<1> QED BY <1>6, <1>7, <1>8, <1>9, <1>10, <1>11, <1>12 DEF BudgetInv

\* The waiters without one of them.
LEMMA WaitersWithoutFit ==
    ASSUME BudgetInv, NEW c \in Chunk
    PROVE  /\ WaitersWithout(c) \in Seq(Chunk)
           /\ WaitersFit(WaitersWithout(c), send, hold)
           /\ \A i \in 1..Len(WaitersWithout(c)) : WaitersWithout(c)[i] # c
           /\ aborted => WaitersWithout(c) = <<>>
<1> DEFINE places == {i \in DOMAIN acquiring : acquiring[i] = c}
<1>1. acquiring \in Seq(Chunk) /\ Len(acquiring) \in Nat /\ DOMAIN acquiring = 1..Len(acquiring)
      /\ WaitersFit(acquiring, send, hold)
    BY DEF BudgetInv, ChunkStates
<1>2. CASE places = {}
  <2>1. WaitersWithout(c) = acquiring
      BY <1>2 DEF WaitersWithout
  <2>2. \A i \in 1..Len(acquiring) : acquiring[i] # c
      BY <1>1, <1>2
  <2> QED BY <1>1, <2>1, <2>2 DEF BudgetInv, ClosedForWaiters
<1>3. CASE places # {}
  <2>1. PICK p \in 1..Len(acquiring) : acquiring[p] = c
      BY <1>1, <1>3
  <2>2. Min(places) = p
    <3>1. places = {p}
        BY <1>1, <2>1 DEF WaitersFit
    <3>2. Min({p}) = p
        BY DEF Min
    <3> QED BY <3>1, <3>2
  <2>3. PICK front, back, rest :
            /\ front = SubSeq(acquiring, 1, p - 1)
            /\ back = SubSeq(acquiring, p + 1, Len(acquiring))
            /\ rest = front \o back
      OBVIOUS
  <2>4. WaitersWithout(c) = rest
      BY <1>3, <2>2, <2>3 DEF WaitersWithout
  <2>5. /\ front \in Seq(Chunk) /\ Len(front) = p - 1
        /\ \A i \in 1..(p - 1) : front[i] = acquiring[i]
    <3>1. \A i \in 1..(p - 1) : acquiring[i] \in Chunk
        BY <1>1, <2>1
    <3>2. /\ SubSeq(acquiring, 1, p - 1) \in Seq(Chunk)
          /\ Len(SubSeq(acquiring, 1, p - 1)) = IF 1 <= p - 1 THEN p - 1 - 1 + 1 ELSE 0
          /\ \A i \in 1..(p - 1 - 1 + 1) : SubSeq(acquiring, 1, p - 1)[i] = acquiring[1 + i - 1]
        BY <3>1, <1>1, <2>1, SubSeqProperties
    <3> QED BY <3>2, <2>1, <2>3
  <2>6. /\ back \in Seq(Chunk) /\ Len(back) = Len(acquiring) - p
        /\ \A i \in 1..(Len(acquiring) - p) : back[i] = acquiring[p + i]
    <3>1. p \in 0..Len(acquiring)
        BY <1>1, <2>1
    <3> QED BY <1>1, <2>3, <3>1, RestOf
  <2>7. /\ rest \in Seq(Chunk) /\ Len(rest) = Len(acquiring) - 1
        /\ \A i \in 1..(Len(acquiring) - 1) :
              rest[i] = IF i < p THEN acquiring[i] ELSE acquiring[i + 1]
    <3>1. /\ rest \in Seq(Chunk) /\ Len(rest) = Len(front) + Len(back)
          /\ \A i \in 1..(Len(front) + Len(back)) :
                rest[i] = IF i <= Len(front) THEN front[i] ELSE back[i - Len(front)]
      <4>1. /\ front \o back \in Seq(Chunk) /\ Len(front \o back) = Len(front) + Len(back)
            /\ \A i \in 1..(Len(front) + Len(back)) :
                  (front \o back)[i] = IF i <= Len(front) THEN front[i] ELSE back[i - Len(front)]
          BY <2>5, <2>6, ConcatProperties
      <4> QED BY <2>3, <4>1
    <3>2. Len(rest) = Len(acquiring) - 1
        BY <3>1, <1>1, <2>1, <2>5, <2>6
    <3>3. ASSUME NEW i \in 1..(Len(acquiring) - 1)
          PROVE  rest[i] = IF i < p THEN acquiring[i] ELSE acquiring[i + 1]
      <4>1. rest[i] = IF i <= p - 1 THEN front[i] ELSE back[i - (p - 1)]
          BY <3>1, <1>1, <2>1, <2>5, <2>6
      <4>2. CASE i < p
          BY <4>1, <4>2, <1>1, <2>1, <2>5
      <4>3. CASE ~(i < p)
        <5>1. i - (p - 1) \in 1..(Len(acquiring) - p) /\ p + (i - (p - 1)) = i + 1
            BY <4>3, <1>1, <2>1
        <5>2. back[i - (p - 1)] = acquiring[i + 1]
            BY <5>1, <2>6
        <5> QED BY <4>1, <4>3, <5>2, <1>1, <2>1
      <4> QED BY <4>2, <4>3
    <3> QED BY <3>1, <3>2, <3>3
  <2>8. ASSUME NEW i \in 1..Len(rest)
        PROVE  \E a \in 1..Len(acquiring) :
                  a # p /\ a = (IF i < p THEN i ELSE i + 1) /\ rest[i] = acquiring[a]
    <3>1. PICK a : a = IF i < p THEN i ELSE i + 1
        OBVIOUS
    <3>2. i \in 1..(Len(acquiring) - 1) /\ i \in Nat /\ p \in Nat
        BY <1>1, <2>1, <2>7
    <3>3. rest[i] = acquiring[a]
        BY <2>7, <3>1, <3>2
    <3>4. a \in 1..Len(acquiring) /\ a # p
        BY <1>1, <3>1, <3>2
    <3> QED BY <3>1, <3>3, <3>4
  <2>9. \A i \in 1..Len(rest) :
            rest[i] # c /\ send[rest[i]] = "bytes" /\ hold[rest[i]] = "none"
      BY <1>1, <2>1, <2>8 DEF WaitersFit
  <2>10. ASSUME NEW i \in 1..Len(rest), NEW j \in 1..Len(rest), rest[i] = rest[j] PROVE i = j
    <3>1. PICK a \in 1..Len(acquiring) : a = (IF i < p THEN i ELSE i + 1) /\ rest[i] = acquiring[a]
        BY <2>8
    <3>2. PICK b \in 1..Len(acquiring) : b = (IF j < p THEN j ELSE j + 1) /\ rest[j] = acquiring[b]
        BY <2>8
    <3>3. a = b
        BY <1>1, <2>10, <3>1, <3>2 DEF WaitersFit
    <3> QED BY <1>1, <2>1, <2>7, <3>1, <3>2, <3>3
  <2>11. aborted => FALSE
      BY <1>1, <2>1 DEF BudgetInv, ClosedForWaiters
  <2> QED BY <2>4, <2>7, <2>9, <2>10, <2>11 DEF WaitersFit
<1> QED BY <1>2, <1>3

-----------------------------------------------------------------------------
\* What the step of one send, on its chunk alone, does to the chunk slots.
LEMMA TakersMove ==
    ASSUME NEW sends \in [Chunk -> SendStates], NEW c \in Chunk, NEW to,
           IsFiniteSet(TakersIn(sends))
    PROVE  LET after == TakersIn([sends EXCEPT ![c] = to])
               before == TakersIn(sends)
               taker == {"check", "push"}
           IN  /\ IsFiniteSet(after) /\ Cardinality(before) \in Nat
               /\ sends[c] \notin taker /\ to \notin taker => Cardinality(after) = Cardinality(before)
               /\ sends[c] \notin taker /\ to \in taker =>
                      Cardinality(after) = Cardinality(before) + 1
               /\ sends[c] \in taker /\ to \in taker => Cardinality(after) = Cardinality(before)
               /\ sends[c] \in taker /\ to \notin taker =>
                      Cardinality(after) = Cardinality(before) - 1
<1>1. PICK before : before = TakersIn(sends)
    OBVIOUS
<1>2. TakersIn([sends EXCEPT ![c] = to]) =
        IF to \in {"check", "push"} THEN before \cup {c} ELSE before \ {c}
    BY <1>1 DEF TakersIn
<1>3. c \in before <=> sends[c] \in {"check", "push"}
    BY <1>1 DEF TakersIn
<1>4. IsFiniteSet(before) /\ Cardinality(before) \in Nat
    BY <1>1, FS_CardinalityType
<1>5. /\ IsFiniteSet(before \cup {c}) /\ IsFiniteSet(before \ {c})
      /\ Cardinality(before \cup {c}) =
            IF c \in before THEN Cardinality(before) ELSE Cardinality(before) + 1
      /\ Cardinality(before \ {c}) =
            IF c \in before THEN Cardinality(before) - 1 ELSE Cardinality(before)
    BY <1>4, FS_AddElement, FS_RemoveElement
<1> QED BY <1>1, <1>2, <1>3, <1>4, <1>5

\* The parts about other chunks, when one that is not queued moves.
LEMMA OthersFit ==
    ASSUME BudgetInv, NEW c \in Chunk, NEW to \in SendStates, NEW hc \in Holds,
           send[c] # "sent", Fits(to, hc)
    PROVE  LET sends == [send EXCEPT ![c] = to]
               holds == [hold EXCEPT ![c] = hc]
           IN  /\ sends \in [Chunk -> SendStates] /\ holds \in [Chunk -> Holds]
               /\ SendsFit(sends, holds)
               /\ QueueFits(queue, parsing, sends, holds)
               /\ (\A i \in 1..Len(acquiring) : acquiring[i] # c) => WaitersFit(acquiring, sends, holds)
<1>1. /\ send \in [Chunk -> SendStates] /\ hold \in [Chunk -> Holds]
      /\ SendsFit(send, hold) /\ QueueFits(queue, parsing, send, hold)
      /\ WaitersFit(acquiring, send, hold) /\ parsing \in Chunk \cup {NoChunk}
    BY DEF BudgetInv, ChunkStates, Accounts
<1>2. PICK sends, holds : sends = [send EXCEPT ![c] = to] /\ holds = [hold EXCEPT ![c] = hc]
    OBVIOUS
<1>3. /\ sends \in [Chunk -> SendStates] /\ holds \in [Chunk -> Holds]
      /\ sends[c] = to /\ holds[c] = hc
      /\ \A d \in Chunk : d # c => sends[d] = send[d] /\ holds[d] = hold[d]
    BY <1>1, <1>2
<1>4. SendsFit(sends, holds)
  <2>1. ASSUME NEW d \in Chunk PROVE Fits(sends[d], holds[d])
    <3>1. CASE d = c
        BY <3>1, <1>3
    <3>2. CASE d # c
      <4>1. sends[d] = send[d] /\ holds[d] = hold[d]
          BY <3>2, <1>3
      <4> QED BY <4>1, <1>1 DEF SendsFit
    <3> QED BY <3>1, <3>2
  <2> QED BY <2>1 DEF SendsFit
<1>5. \A i \in 1..Len(queue) : queue[i] \in Chunk
    BY DEF BudgetInv, ChunkStates
<1>6. QueueFits(queue, parsing, sends, holds)
    BY <1>1, <1>3, <1>5 DEF QueueFits
<1>7. \A i \in 1..Len(acquiring) : acquiring[i] \in Chunk
    BY DEF BudgetInv, ChunkStates
<1>8. ASSUME \A i \in 1..Len(acquiring) : acquiring[i] # c
      PROVE  WaitersFit(acquiring, sends, holds)
    BY <1>1, <1>3, <1>7, <1>8 DEF WaitersFit
<1> QED BY <1>2, <1>3, <1>4, <1>6, <1>8

\* The step of one send that does not wait for permits, on its chunk alone.
LEMMA OwnStepKeeps ==
    ASSUME BudgetInv, NEW c \in Chunk, NEW to \in SendStates, NEW hc \in Holds,
           send[c] # "sent", Fits(to, hc),
           \A i \in 1..Len(acquiring) : acquiring[i] # c,
           send' = [send EXCEPT ![c] = to], hold' = [hold EXCEPT ![c] = hc],
           Accounts(size, hold', free', pendingBytes'),
           to \in {"check", "push"} => send[c] = "check" \/ SlotsTaken < MaxChunks,
           UNCHANGED <<size, acquiring, queue, parsing, receiver, open, aborted, delivered>>
    PROVE  BudgetInv'
<1>1. /\ send' \in [Chunk -> SendStates]
      /\ SendsFit(send', hold') /\ QueueFits(queue, parsing, send', hold')
      /\ WaitersFit(acquiring, send', hold')
    BY OthersFit
<1>2. SlotsFit(queue, send')
  <2>1. PICK m, n, l :
            /\ m = Cardinality(TakersIn(send)) /\ n = Cardinality(TakersIn(send'))
            /\ l = Len(queue)
      OBVIOUS
  <2>2. IsFiniteSet(TakersIn(send)) /\ l + m <= MaxChunks /\ l \in Nat /\ MaxChunks \in Nat
      BY <2>1, IngressAssumption DEF BudgetInv, SlotsFit, ChunkStates, IngressAssumption
  <2>3. send \in [Chunk -> SendStates]
      BY DEF BudgetInv, ChunkStates
  <2>4. SlotsTaken = l + m
      BY <2>1 DEF SlotsTaken, TakersIn
  <2>5. /\ IsFiniteSet(TakersIn(send')) /\ m \in Nat
        /\ n = m \/ n = m - 1 \/ (n = m + 1 /\ SlotsTaken < MaxChunks)
      BY <2>1, <2>2, <2>3, TakersMove
  <2> QED BY <2>1, <2>2, <2>4, <2>5 DEF SlotsFit
<1>3. ChunkStates' /\ Flags' /\ ClosedForWaiters'
    BY <1>1 DEF BudgetInv, ChunkStates, Flags, ClosedForWaiters
<1> QED BY <1>1, <1>2, <1>3 DEF BudgetInv

\* Who holds a reservation, or is not at the permits, does not wait.
LEMMA NotWaiting ==
    ASSUME BudgetInv, NEW c \in Chunk, hold[c] # "none" \/ send[c] # "bytes" \/ aborted
    PROVE  \A i \in 1..Len(acquiring) : acquiring[i] # c
BY DEF BudgetInv, WaitersFit, ClosedForWaiters

\* A send that returns gives its reservation up.
LEMMA ReturnKeeps ==
    ASSUME BudgetInv, NEW c \in Chunk, NEW outcome \in Refused, Return(c, outcome),
           send[c] \in Sending, hold[c] # "none" \/ send[c] # "bytes" \/ aborted,
           UNCHANGED <<size, acquiring, free, queue, parsing, receiver, open, aborted, delivered>>
    PROVE  BudgetInv'
<1>0. /\ hold \in [Chunk -> Holds] /\ Accounts(size, hold, free, pendingBytes)
      /\ send[c] # "sent" /\ outcome \in SendStates
    BY DEF BudgetInv, Accounts, Sending, SendStates, Refused
<1>1. \A i \in 1..Len(acquiring) : acquiring[i] # c
    BY NotWaiting
<1>2. PICK hc \in Holds :
            /\ hc = (IF hold[c] \in {"permits", "counted"} THEN "uncounted" ELSE hold[c])
            /\ hold' = [hold EXCEPT ![c] = hc]
    BY <1>0 DEF Return, Holds
<1>3. Accounts(size, hold', free', pendingBytes')
  <2>1. CASE hold[c] \in {"permits", "counted"}
    <3>1. /\ hold' = [hold EXCEPT ![c] = "uncounted"] /\ free' = free
          /\ pendingBytes' = IF hold[c] = "counted" THEN pendingBytes - size[c] ELSE pendingBytes
        BY <2>1 DEF Return
    <3> QED BY <3>1, <2>1, <1>0, AccountUncount
  <2>2. CASE hold[c] \notin {"permits", "counted"}
    <3>1. hold' = hold /\ free' = free /\ pendingBytes' = pendingBytes
        BY <2>2, <1>0, <1>2 DEF Return
    <3> QED BY <3>1, <1>0
  <2> QED BY <2>1, <2>2
<1>4. Fits(outcome, hc) /\ outcome \notin {"check", "push"}
    BY DEF Fits, Refused
<1>5. send' = [send EXCEPT ![c] = outcome]
    BY DEF Return
<1> QED BY <1>0, <1>1, <1>2, <1>3, <1>4, <1>5, OwnStepKeeps

\* A chunk gets into the queue with its reservation, by the slot it has or by
\* one that is free.
LEMMA QueueGains ==
    ASSUME BudgetInv, NEW c \in Chunk, send[c] \in {"push", "trySlot"},
           send[c] = "trySlot" => SlotsTaken < MaxChunks,
           send' = [send EXCEPT ![c] = "sent"], queue' = Append(queue, c),
           UNCHANGED <<size, hold, acquiring, free, pendingBytes, parsing, receiver, open, aborted,
                       delivered>>
    PROVE  BudgetInv'
<1>0. /\ send \in [Chunk -> SendStates] /\ hold \in [Chunk -> Holds] /\ queue \in Seq(Chunk)
      /\ SendsFit(send, hold) /\ QueueFits(queue, parsing, send, hold)
    BY DEF BudgetInv, ChunkStates, Accounts
<1>1. hold[c] = "counted" /\ send[c] # "sent" /\ hold[c] \in Holds /\ "sent" \in SendStates
    BY <1>0 DEF SendsFit, Fits, Holds, SendStates
<1>2. Fits("sent", hold[c]) /\ [hold EXCEPT ![c] = hold[c]] = hold
    BY <1>0 DEF Fits
<1>3. \A i \in 1..Len(acquiring) : acquiring[i] # c
    BY <1>1, NotWaiting
<1>4. /\ send' \in [Chunk -> SendStates]
      /\ SendsFit(send', hold) /\ QueueFits(queue, parsing, send', hold)
      /\ WaitersFit(acquiring, send', hold)
  <2>1. PICK hc \in Holds, to \in SendStates : hc = hold[c] /\ to = "sent"
      BY <1>1
  <2>2. LET sends == [send EXCEPT ![c] = to]
            holds == [hold EXCEPT ![c] = hc]
        IN  /\ sends \in [Chunk -> SendStates]
            /\ SendsFit(sends, holds) /\ QueueFits(queue, parsing, sends, holds)
            /\ WaitersFit(acquiring, sends, holds)
      BY <1>1, <1>2, <1>3, <2>1, OthersFit
  <2>3. [hold EXCEPT ![c] = hc] = hold /\ [send EXCEPT ![c] = to] = send'
      BY <1>2, <2>1
  <2> QED BY <2>2, <2>3
<1>5. PICK longer : longer = queue'
    OBVIOUS
<1>6. /\ longer \in Seq(Chunk) /\ Len(longer) = Len(queue) + 1 /\ Len(queue) \in Nat
      /\ \A i \in 1..Len(queue) : longer[i] = queue[i] /\ queue[i] \in Chunk
      /\ longer[Len(queue) + 1] = c
    BY <1>0, <1>5
<1>7. QueueFits(longer, parsing, send', hold)
  <2>1. c # parsing /\ send'[c] = "sent"
    <3>1. c # NoChunk
        BY IngressAssumption DEF IngressAssumption
    <3> QED BY <3>1, <1>0, <1>1 DEF QueueFits
  <2>2. \A i \in 1..Len(queue) : queue[i] # c
      BY <1>0, <1>1 DEF QueueFits
  <2>3. \A i \in 1..Len(longer) :
            send'[longer[i]] = "sent" /\ hold[longer[i]] = "counted" /\ longer[i] # parsing
    <3> SUFFICES ASSUME NEW i \in 1..Len(longer)
                 PROVE  send'[longer[i]] = "sent" /\ hold[longer[i]] = "counted" /\ longer[i] # parsing
        OBVIOUS
    <3>1. CASE i = Len(queue) + 1
        BY <3>1, <1>1, <1>6, <2>1
    <3>2. CASE i \in 1..Len(queue)
        BY <3>2, <1>4, <1>6 DEF QueueFits
    <3> QED BY <3>1, <3>2, <1>6
  <2>4. ASSUME NEW i \in 1..Len(longer), NEW j \in 1..Len(longer), longer[i] = longer[j]
        PROVE  i = j
    <3>1. CASE i \in 1..Len(queue) /\ j \in 1..Len(queue)
        BY <3>1, <2>4, <1>0, <1>6 DEF QueueFits
    <3>2. CASE i = Len(queue) + 1 \/ j = Len(queue) + 1
        BY <3>2, <2>2, <2>4, <1>6
    <3> QED BY <3>1, <3>2, <1>6
  <2> QED BY <2>3, <2>4, <1>4 DEF QueueFits
<1>8. SlotsFit(longer, send')
  <2>1. PICK m, n, l :
            /\ m = Cardinality(TakersIn(send)) /\ n = Cardinality(TakersIn(send'))
            /\ l = Len(queue)
      OBVIOUS
  <2>2. IsFiniteSet(TakersIn(send)) /\ l + m <= MaxChunks /\ l \in Nat /\ MaxChunks \in Nat
      BY <2>1, <1>6, IngressAssumption DEF BudgetInv, SlotsFit, IngressAssumption
  <2>3. SlotsTaken = l + m
      BY <2>1 DEF SlotsTaken, TakersIn
  <2>4. /\ IsFiniteSet(TakersIn(send')) /\ m \in Nat
        /\ send[c] = "push" => n = m - 1
        /\ send[c] = "trySlot" => n = m
    <3>1. PICK to : to = "sent"
        OBVIOUS
    <3>2. send' = [send EXCEPT ![c] = to] /\ to \notin {"check", "push"}
        BY <3>1
    <3>3. PICK after : after = TakersIn([send EXCEPT ![c] = to])
        OBVIOUS
    <3>4. /\ IsFiniteSet(after) /\ m \in Nat
          /\ send[c] \notin {"check", "push"} => Cardinality(after) = m
          /\ send[c] \in {"check", "push"} => Cardinality(after) = m - 1
        BY <1>0, <2>1, <2>2, <3>2, <3>3, TakersMove
    <3>5. after = TakersIn(send') /\ Cardinality(after) = n
        BY <2>1, <3>2, <3>3
    <3> QED BY <3>4, <3>5
  <2> QED BY <2>1, <2>2, <2>3, <2>4, <1>6 DEF SlotsFit
<1>9. ChunkStates' /\ Flags' /\ ClosedForWaiters' /\ Accounts(size, hold, free, pendingBytes)'
    BY <1>4, <1>5, <1>6 DEF BudgetInv, ChunkStates, Flags, ClosedForWaiters
<1> QED BY <1>4, <1>5, <1>7, <1>8, <1>9 DEF BudgetInv

\* The steps of one send, the wait for permits apart.
LEMMA SendStepBudget == ASSUME BudgetInv, NEW c \in Chunk, SendStep(c) PROVE BudgetInv'
<1>0. /\ send \in [Chunk -> SendStates] /\ hold \in [Chunk -> Holds] /\ size \in Sizes
      /\ Accounts(size, hold, free, pendingBytes) /\ Fits(send[c], hold[c])
    BY DEF BudgetInv, ChunkStates, Accounts, SendsFit
<1>1. CASE ReserveBytes(c)
  <2>1. PICK to \in {"trySlot", "slot"} : send' = [send EXCEPT ![c] = to]
      BY <1>1, <1>0 DEF ReserveBytes
  <2>2. Accounts(size, hold', free', pendingBytes')
      BY <1>0, <1>1, AccountCount DEF ReserveBytes
  <2>3. \A i \in 1..Len(acquiring) : acquiring[i] # c
      BY <1>1, NotWaiting DEF ReserveBytes
  <2>4. to \in SendStates /\ "counted" \in Holds /\ Fits(to, "counted") /\ send[c] # "sent"
      BY <1>1 DEF ReserveBytes, SendStates, Sending, Holds, Fits
  <2> QED BY <1>1, <2>1, <2>2, <2>3, <2>4, OwnStepKeeps DEF ReserveBytes
<1>2. CASE TrySlot(c)
  <2>1. CASE SlotsTaken < MaxChunks /\ receiver = "receives"
      BY <1>2, <2>1, QueueGains DEF TrySlot
  <2>2. CASE ~(SlotsTaken < MaxChunks /\ receiver = "receives")
    <3>1. PICK outcome \in {"full", "closed"} : Return(c, outcome)
        BY <1>2, <2>2 DEF TrySlot
    <3>2. /\ outcome \in Refused /\ send[c] \in Sending /\ send[c] # "bytes"
          /\ UNCHANGED <<size, acquiring, free, queue, parsing, receiver, open, aborted, delivered>>
        BY <1>2, <2>2 DEF TrySlot, Sending, Refused
    <3> QED BY <3>1, <3>2, ReturnKeeps
  <2> QED BY <2>1, <2>2
<1>3. CASE TakeSlot(c) \/ CheckAbort(c)
  <2>1. PICK to \in {"check", "push"} :
            /\ send' = [send EXCEPT ![c] = to]
            /\ send[c] = "check" \/ SlotsTaken < MaxChunks
            /\ send[c] \in {"slot", "check"}
            /\ UNCHANGED <<size, hold, acquiring, free, pendingBytes, queue, parsing, receiver, open,
                           aborted, delivered>>
      BY <1>3 DEF TakeSlot, CheckAbort
  <2>2. hold[c] = "counted"
      BY <1>0, <2>1 DEF Fits
  <2>3. hold' = [hold EXCEPT ![c] = "counted"]
      BY <1>0, <2>1, <2>2
  <2>4. \A i \in 1..Len(acquiring) : acquiring[i] # c
      BY <2>2, NotWaiting
  <2>5. to \in SendStates /\ "counted" \in Holds /\ Fits(to, "counted") /\ send[c] # "sent"
      BY <2>1 DEF SendStates, Sending, Holds, Fits
  <2>6. Accounts(size, hold', free', pendingBytes')
      BY <1>0, <2>1
  <2> QED BY <2>1, <2>3, <2>4, <2>5, <2>6, OwnStepKeeps
<1>4. CASE Push(c)
    BY <1>4, QueueGains DEF Push
<1>5. CASE SendAborted(c)
    BY <1>5, ReturnKeeps DEF SendAborted, Sending, Refused
<1>6. CASE DropPermit(c)
  <2>1. PICK holds, parsed, permits :
            /\ holds = [hold EXCEPT ![c] = "none"] /\ permits = free + size[c]
            /\ parsed = IF parsing = c THEN NoChunk ELSE parsing
      OBVIOUS
  <2>2. /\ hold[c] = "uncounted" /\ Serve(acquiring, permits, holds) /\ parsing' = parsed
        /\ UNCHANGED <<size, send, pendingBytes, queue, receiver, open, aborted, delivered>>
      BY <1>6, <2>1 DEF DropPermit
  <2>3. Accounts(size, holds, permits, pendingBytes)
      BY <1>0, <2>1, <2>2, AccountFree
  <2>4. holds[c] = "none" /\ \A d \in Chunk : d # c => holds[d] = hold[d]
      BY <1>0, <2>1
  <2>5. /\ acquiring \in Seq(Chunk) /\ parsing \in Chunk \cup {NoChunk}
        /\ \A i \in 1..Len(acquiring) : acquiring[i] \in Chunk
        /\ \A i \in 1..Len(queue) : queue[i] \in Chunk
      BY DEF BudgetInv, ChunkStates
  <2>6. SendsFit(send, holds)
    <3>1. ASSUME NEW d \in Chunk PROVE Fits(send[d], holds[d])
      <4>1. CASE d = c
          BY <4>1, <1>0, <2>2, <2>4 DEF Fits
      <4>2. CASE d # c
        <5>1. Fits(send[d], hold[d]) /\ holds[d] = hold[d]
            BY <4>2, <2>4 DEF BudgetInv, SendsFit
        <5> QED BY <5>1
      <4> QED BY <4>1, <4>2
    <3> QED BY <3>1 DEF SendsFit
  <2>7. QueueFits(queue, parsed, send, holds)
    <3>1. QueueFits(queue, parsing, send, hold)
        BY DEF BudgetInv
    <3>2. \A i \in 1..Len(queue) : queue[i] # c /\ queue[i] # NoChunk
        BY <3>1, <2>2, <2>5, IngressAssumption DEF QueueFits, IngressAssumption
    <3> QED BY <3>1, <3>2, <2>1, <2>4, <2>5 DEF QueueFits
  <2>8. WaitersFit(acquiring, send, holds)
    <3>1. WaitersFit(acquiring, send, hold)
        BY DEF BudgetInv
    <3> QED BY <3>1, <2>2, <2>4, <2>5 DEF WaitersFit
  <2>9. SlotsFit(queue, send) /\ (aborted => acquiring = <<>>)
      BY DEF BudgetInv, ClosedForWaiters
  <2>10. parsed \in Chunk \cup {NoChunk}
      BY <2>1, <2>5
  <2> QED BY <1>0, <2>2, <2>3, <2>5, <2>6, <2>7, <2>8, <2>9, <2>10, ServeKeeps
<1> QED BY <1>1, <1>2, <1>3, <1>4, <1>5, <1>6 DEF SendStep

\* A send begins, and waits for its permits or is refused.
LEMMA SendDataBudget == ASSUME BudgetInv, NEW c \in Chunk, SendData(c) PROVE BudgetInv'
<1>0. /\ send \in [Chunk -> SendStates] /\ hold \in [Chunk -> Holds]
      /\ Accounts(size, hold, free, pendingBytes) /\ send[c] = "none" /\ hold[c] = "none"
      /\ acquiring \in Seq(Chunk) /\ WaitersFit(acquiring, send, hold)
    BY DEF BudgetInv, ChunkStates, Accounts, SendsFit, Fits, SendData
<1>1. \A i \in 1..Len(acquiring) : acquiring[i] # c
    BY <1>0, NotWaiting
<1>2. "none" \in Holds /\ {"closed", "bytes"} \subseteq SendStates
      /\ Fits("closed", "none") /\ Fits("bytes", "none") /\ hold = [hold EXCEPT ![c] = "none"]
    BY <1>0 DEF Holds, SendStates, Sending, Refused, Fits
<1>3. CASE aborted
  <2>1. PICK to \in SendStates : to = "closed"
      BY <1>2
  <2>2. /\ send' = [send EXCEPT ![c] = to] /\ hold' = [hold EXCEPT ![c] = "none"]
        /\ UNCHANGED <<size, acquiring, queue, parsing, receiver, open, aborted, delivered>>
        /\ Accounts(size, hold', free', pendingBytes') /\ to \notin {"check", "push"}
      BY <1>0, <1>2, <1>3, <2>1 DEF SendData
  <2> QED BY <1>0, <1>1, <1>2, <2>1, <2>2, OwnStepKeeps
<1>4. CASE ~aborted
  <2>1. PICK to, hc, sends, waiters :
            /\ to \in SendStates /\ hc \in Holds
            /\ to = "bytes" /\ hc = "none"
            /\ sends = [send EXCEPT ![c] = to] /\ waiters = Append(acquiring, c)
      BY <1>2
  <2>2. /\ Serve(waiters, free, hold) /\ send' = sends /\ parsing' = parsing
        /\ UNCHANGED <<size, pendingBytes, queue, receiver, open, aborted, delivered>>
      BY <1>4, <2>1 DEF SendData
  <2>3. LET holds == [hold EXCEPT ![c] = hc]
        IN  /\ sends \in [Chunk -> SendStates] /\ SendsFit(sends, holds)
            /\ QueueFits(queue, parsing, sends, holds)
            /\ WaitersFit(acquiring, sends, holds)
      BY <1>0, <1>1, <1>2, <2>1, OthersFit
  <2>4. /\ sends \in [Chunk -> SendStates] /\ SendsFit(sends, hold)
        /\ QueueFits(queue, parsing, sends, hold) /\ WaitersFit(acquiring, sends, hold)
      BY <1>2, <2>1, <2>3
  <2>5. /\ waiters \in Seq(Chunk) /\ Len(waiters) = Len(acquiring) + 1 /\ Len(acquiring) \in Nat
        /\ \A i \in 1..Len(acquiring) : waiters[i] = acquiring[i]
        /\ waiters[Len(acquiring) + 1] = c
      BY <1>0, <2>1
  <2>6. sends[c] = "bytes"
      BY <1>0, <2>1
  <2>7. WaitersFit(waiters, sends, hold)
    <3>1. ASSUME NEW i \in 1..Len(waiters)
          PROVE  sends[waiters[i]] = "bytes" /\ hold[waiters[i]] = "none"
      <4>1. CASE i = Len(acquiring) + 1
          BY <4>1, <1>0, <2>5, <2>6
      <4>2. CASE i \in 1..Len(acquiring)
          BY <4>2, <2>4, <2>5 DEF WaitersFit
      <4> QED BY <4>1, <4>2, <2>5
    <3>2. ASSUME NEW i \in 1..Len(waiters), NEW j \in 1..Len(waiters), waiters[i] = waiters[j]
          PROVE  i = j
      <4>1. CASE i \in 1..Len(acquiring) /\ j \in 1..Len(acquiring)
          BY <4>1, <3>2, <2>4, <2>5 DEF WaitersFit
      <4>2. CASE i = Len(acquiring) + 1 \/ j = Len(acquiring) + 1
          BY <4>2, <3>2, <1>1, <2>5
      <4> QED BY <4>1, <4>2, <2>5
    <3> QED BY <3>1, <3>2 DEF WaitersFit
  <2>8. SlotsFit(queue, sends)
    <3>1. TakersIn(sends) = TakersIn(send)
        BY <1>0, <2>1 DEF TakersIn
    <3> QED BY <3>1 DEF BudgetInv, SlotsFit
  <2>9. parsing \in Chunk \cup {NoChunk}
      BY DEF BudgetInv, ChunkStates
  <2> QED BY <1>0, <1>4, <2>2, <2>4, <2>5, <2>7, <2>8, <2>9, ServeKeeps
<1> QED BY <1>3, <1>4

\* A send that does not wait takes its permits at once or none.
LEMMA TrySendDataBudget == ASSUME BudgetInv, NEW c \in Chunk, TrySendData(c) PROVE BudgetInv'
<1>0. /\ hold \in [Chunk -> Holds]
      /\ Accounts(size, hold, free, pendingBytes) /\ send[c] = "none" /\ hold[c] = "none"
      /\ UNCHANGED <<size, acquiring, pendingBytes, queue, parsing, receiver, open, aborted,
                     delivered>>
    BY DEF BudgetInv, ChunkStates, Accounts, SendsFit, Fits, TrySendData
<1>1. \A i \in 1..Len(acquiring) : acquiring[i] # c
    BY <1>0, NotWaiting
<1>2. PICK to \in {"closed", "full", "try"}, hc \in Holds :
        /\ send' = [send EXCEPT ![c] = to] /\ hold' = [hold EXCEPT ![c] = hc]
        /\ \/ to # "try" /\ hc = "none" /\ free' = free
           \/ to = "try" /\ hc = "permits" /\ ~(size[c] > free) /\ free' = free - size[c]
  <2>1. CASE aborted \/ acquiring # <<>> \/ size[c] > free
    <3>1. PICK to \in {"closed", "full"} : send' = [send EXCEPT ![c] = to]
        BY <2>1 DEF TrySendData
    <3>2. hold' = [hold EXCEPT ![c] = "none"] /\ free' = free
        BY <1>0, <2>1 DEF TrySendData
    <3> QED BY <3>1, <3>2 DEF Holds
  <2>2. CASE ~(aborted \/ acquiring # <<>> \/ size[c] > free)
      BY <2>2 DEF TrySendData, Holds
  <2> QED BY <2>1, <2>2
<1>3. Accounts(size, hold', free', pendingBytes')
  <2>1. CASE to # "try"
    <3>1. hold' = hold /\ free' = free /\ pendingBytes' = pendingBytes
        BY <1>0, <1>2, <2>1
    <3> QED BY <3>1, <1>0
  <2>2. CASE to = "try"
    <3>1. size[c] \in Nat /\ free \in Nat
        BY <1>0 DEF Accounts, Sizes
    <3>2. size[c] <= free /\ hold' = [hold EXCEPT ![c] = "permits"] /\ free' = free - size[c]
          /\ pendingBytes' = pendingBytes
        BY <1>0, <1>2, <2>2, <3>1
    <3> QED BY <1>0, <3>2, AccountTakeOne
  <2> QED BY <2>1, <2>2
<1>4. to \in SendStates /\ to \notin {"check", "push"} /\ Fits(to, hc)
    BY <1>2 DEF SendStates, Sending, Refused, Fits
<1> QED BY <1>0, <1>1, <1>2, <1>3, <1>4, OwnStepKeeps

\* A send that is dropped gives up its place or its reservation.
LEMMA DropSendBudget == ASSUME BudgetInv, NEW c \in Chunk, DropSend(c) PROVE BudgetInv'
<1>0. /\ send \in [Chunk -> SendStates] /\ hold \in [Chunk -> Holds]
      /\ Accounts(size, hold, free, pendingBytes) /\ Fits(send[c], hold[c])
      /\ send[c] \in {"bytes", "slot"}
      /\ UNCHANGED <<size, queue, parsing, receiver, open, aborted, delivered>>
    BY DEF BudgetInv, ChunkStates, Accounts, SendsFit, DropSend
<1>1. CASE hold[c] # "none"
  <2>1. Return(c, "dropped") /\ UNCHANGED <<acquiring, free>>
      BY <1>1 DEF DropSend
  <2>2. PICK outcome \in Refused : outcome = "dropped"
      BY DEF Refused
  <2> QED BY <1>0, <1>1, <2>1, <2>2, ReturnKeeps DEF Sending
<1>2. CASE hold[c] = "none"
  <2>1. PICK to, hc, sends, waiters :
            /\ to \in SendStates /\ hc \in Holds
            /\ to = "dropped" /\ hc = "none"
            /\ sends = [send EXCEPT ![c] = to] /\ waiters = WaitersWithout(c)
      BY DEF SendStates, Refused, Holds
  <2>2. /\ Serve(waiters, free, hold) /\ send' = sends /\ parsing' = parsing
        /\ UNCHANGED <<size, pendingBytes, queue, receiver, open, aborted, delivered>>
      BY <1>0, <1>2, <2>1 DEF DropSend
  <2>3. Fits(to, hc) /\ send[c] # "sent" /\ hold = [hold EXCEPT ![c] = hc]
      BY <1>0, <1>2, <2>1 DEF Fits
  <2>4. LET holds == [hold EXCEPT ![c] = hc]
        IN  /\ sends \in [Chunk -> SendStates] /\ SendsFit(sends, holds)
            /\ QueueFits(queue, parsing, sends, holds)
      BY <2>1, <2>3, OthersFit
  <2>5. /\ sends \in [Chunk -> SendStates] /\ SendsFit(sends, hold)
        /\ QueueFits(queue, parsing, sends, hold)
      BY <2>3, <2>4
  <2>6. /\ waiters \in Seq(Chunk) /\ WaitersFit(waiters, send, hold)
        /\ \A i \in 1..Len(waiters) : waiters[i] # c
        /\ aborted => waiters = <<>>
      BY <2>1, WaitersWithoutFit
  <2>7. \A d \in Chunk : d # c => sends[d] = send[d]
      BY <1>0, <2>1
  <2>8. WaitersFit(waiters, sends, hold)
    <3>1. \A i \in 1..Len(waiters) : waiters[i] \in Chunk
        BY <2>6
    <3> QED BY <3>1, <2>6, <2>7 DEF WaitersFit
  <2>9. SlotsFit(queue, sends)
    <3>1. TakersIn(sends) = TakersIn(send)
      <4>1. send[c] = "bytes"
          BY <1>0, <1>2 DEF Fits
      <4> QED BY <4>1, <1>0, <2>1 DEF TakersIn
    <3> QED BY <3>1 DEF BudgetInv, SlotsFit
  <2>10. parsing \in Chunk \cup {NoChunk}
      BY DEF BudgetInv, ChunkStates
  <2> QED BY <1>0, <2>2, <2>5, <2>6, <2>8, <2>9, <2>10, ServeKeeps
<1> QED BY <1>1, <1>2

\* The handles and the receiver.
LEMMA ReceiverBudget ==
    ASSUME BudgetInv,
           DropSenders \/ AbortBySender \/ Receive \/ Consumed \/ ReceiveNone \/ FinishAbort
    PROVE  BudgetInv'
<1>0. /\ ChunkStates /\ Flags /\ Accounts(size, hold, free, pendingBytes)
      /\ SendsFit(send, hold) /\ QueueFits(queue, parsing, send, hold)
      /\ WaitersFit(acquiring, send, hold) /\ SlotsFit(queue, send) /\ ClosedForWaiters
      /\ hold \in [Chunk -> Holds] /\ size \in Sizes
    BY DEF BudgetInv, Accounts
<1>1. CASE DropSenders
    BY <1>0, <1>1 DEF DropSenders, BudgetInv, ChunkStates, Flags, ClosedForWaiters
<1>2. CASE AbortBySender
  <2>1. WaitersFit(<<>>, send, hold)
      BY DEF WaitersFit
  <2> QED BY <1>0, <1>2, <2>1 DEF AbortBySender, BudgetInv, ChunkStates, Flags, ClosedForWaiters
<1>3. CASE Receive
  <2>1. PICK rest, c : rest = Tail(queue) /\ c = Head(queue) /\ c \in Chunk
    <3>1. Head(queue) \in Chunk
        BY <1>0, <1>3, HeadTailProperties DEF Receive, ChunkStates
    <3> QED BY <3>1
  <2>2. /\ queue' = rest /\ parsing' = c /\ delivered' = delivered \cup {c}
        /\ UNCHANGED <<size, send, hold, acquiring, free, pendingBytes, receiver, open, aborted>>
      BY <1>3, <2>1 DEF Receive
  <2>3. /\ rest \in Seq(Chunk) /\ Len(rest) = Len(queue) - 1 /\ Len(queue) \in Nat \ {0}
        /\ \A i \in 1..Len(rest) : rest[i] = queue[i + 1]
        /\ c = queue[1]
      BY <1>0, <1>3, <2>1, HeadTailProperties DEF Receive, ChunkStates
  <2>4. QueueFits(rest, c, send, hold)
    <3>1. ASSUME NEW i \in 1..Len(rest)
          PROVE  send[rest[i]] = "sent" /\ hold[rest[i]] = "counted" /\ rest[i] # c
      <4>1. i + 1 \in 1..Len(queue) /\ 1 \in 1..Len(queue) /\ i + 1 # 1
          BY <2>3
      <4> QED BY <4>1, <1>0, <2>3 DEF QueueFits
    <3>2. ASSUME NEW i \in 1..Len(rest), NEW j \in 1..Len(rest), rest[i] = rest[j] PROVE i = j
      <4>1. i + 1 \in 1..Len(queue) /\ j + 1 \in 1..Len(queue)
          BY <2>3
      <4>2. i + 1 = j + 1
          BY <4>1, <3>2, <1>0, <2>3 DEF QueueFits
      <4> QED BY <4>2
    <3>3. send[c] = "sent" /\ hold[c] = "counted"
      <4>1. 1 \in 1..Len(queue)
          BY <2>3
      <4> QED BY <4>1, <1>0, <2>3 DEF QueueFits
    <3> QED BY <3>1, <3>2, <3>3 DEF QueueFits
  <2>5. SlotsFit(rest, send)
    <3>1. Cardinality(TakersIn(send)) \in Nat /\ MaxChunks \in Nat
        BY <1>0, FS_CardinalityType, IngressAssumption DEF SlotsFit, IngressAssumption
    <3> QED BY <3>1, <1>0, <2>3 DEF SlotsFit
  <2> QED BY <1>0, <2>2, <2>3, <2>4, <2>5 DEF BudgetInv, ChunkStates, Flags, ClosedForWaiters
<1>4. CASE Consumed
  <2>1. PICK c \in Chunk : c = parsing
      BY <1>0, <1>4 DEF Consumed, ChunkStates
  <2>2. /\ hold[c] = "counted" /\ hold' = [hold EXCEPT ![c] = "uncounted"]
        /\ pendingBytes' = pendingBytes - size[c] /\ c # NoChunk
        /\ UNCHANGED <<size, send, acquiring, free, queue, parsing, receiver, open, aborted,
                       delivered>>
      BY <1>4, <2>1 DEF Consumed
  <2>3. Accounts(size, hold', free, pendingBytes')
      BY <1>0, <2>2, AccountUncount
  <2>4. hold'[c] = "uncounted" /\ \A d \in Chunk : d # c => hold'[d] = hold[d]
      BY <1>0, <2>2
  <2>5. send[c] = "sent"
      BY <1>0, <2>1, <2>2 DEF QueueFits
  <2>6. SendsFit(send, hold')
    <3>1. ASSUME NEW d \in Chunk PROVE Fits(send[d], hold'[d])
      <4>1. CASE d = c
          BY <4>1, <2>5 DEF Fits
      <4>2. CASE d # c
          BY <4>2, <1>0, <2>4 DEF SendsFit
      <4> QED BY <4>1, <4>2
    <3> QED BY <3>1 DEF SendsFit
  <2>7. QueueFits(queue, parsing, send, hold')
    <3>1. \A i \in 1..Len(queue) : queue[i] \in Chunk /\ queue[i] # c
        BY <1>0, <2>1 DEF QueueFits, ChunkStates
    <3> QED BY <3>1, <1>0, <2>1, <2>4, <2>5 DEF QueueFits
  <2>8. WaitersFit(acquiring, send, hold')
    <3>1. \A i \in 1..Len(acquiring) : acquiring[i] \in Chunk /\ acquiring[i] # c
        BY <1>0, <2>5 DEF WaitersFit, ChunkStates
    <3> QED BY <3>1, <1>0, <2>4 DEF WaitersFit
  <2> QED BY <1>0, <2>2, <2>3, <2>6, <2>7, <2>8 DEF BudgetInv, ChunkStates, Flags, ClosedForWaiters
<1>5. CASE ReceiveNone
  <2>1. /\ receiver' = "drained"
        /\ UNCHANGED <<size, send, hold, acquiring, free, pendingBytes, queue, parsing, open,
                       aborted, delivered>>
      BY <1>5 DEF ReceiveNone
  <2> QED BY <1>0, <2>1 DEF BudgetInv, ChunkStates, Flags, ClosedForWaiters, ReceiverStates
<1>6. CASE FinishAbort
  <2>1. PICK gone : gone = {queue[i] : i \in DOMAIN queue}
      OBVIOUS
  <2>2. /\ hold' = [c \in Chunk |-> IF c \in gone THEN "uncounted" ELSE hold[c]]
        /\ pendingBytes' = pendingBytes - Bytes(gone)
        /\ receiver' = "discarded" /\ aborted' = TRUE /\ acquiring' = <<>> /\ queue' = <<>>
        /\ parsing = NoChunk /\ UNCHANGED <<size, send, free, parsing, open, delivered>>
      BY <1>6, <2>1 DEF FinishAbort
  <2>3. queue \in Seq(Chunk) /\ DOMAIN queue = 1..Len(queue) /\ Len(queue) \in Nat
      BY <1>0 DEF ChunkStates
  <2>4. gone \in SUBSET CountedIn(hold) /\ gone \in SUBSET Chunk
        /\ \A c \in gone : send[c] = "sent"
      BY <1>0, <2>1, <2>3 DEF QueueFits, CountedIn
  <2>5. IsFiniteSet(gone) /\ MaxBytes \in Nat
    <3>1. IsFiniteSet(CountedIn(hold)) /\ MaxBytes \in Nat
        BY <1>0, AccountBounds
    <3> QED BY <3>1, <2>4, FS_Subset
  <2>6. Bytes(gone) = Volume(size, gone)
      BY <1>0, <2>4, <2>5, BytesAreCounted
  <2>7. Accounts(size, hold', free, pendingBytes - Volume(size, gone))
      BY <1>0, <2>2, <2>4, AccountDiscard
  <2>8. SendsFit(send, hold')
    <3>1. ASSUME NEW d \in Chunk PROVE Fits(send[d], hold'[d])
      <4>1. CASE d \in gone
          BY <4>1, <2>4 DEF Fits
      <4>2. CASE d \notin gone
          BY <4>2, <1>0, <2>2 DEF SendsFit
      <4> QED BY <4>1, <4>2
    <3> QED BY <3>1 DEF SendsFit
  <2>9. /\ QueueFits(<<>>, NoChunk, send, hold') /\ WaitersFit(<<>>, send, hold')
      BY DEF QueueFits, WaitersFit
  <2>10. SlotsFit(<<>>, send)
    <3>1. Cardinality(TakersIn(send)) \in Nat /\ MaxChunks \in Nat
        BY <1>0, FS_CardinalityType, IngressAssumption DEF SlotsFit, IngressAssumption
    <3> QED BY <3>1, <1>0, <2>3 DEF SlotsFit
  <2>11. ChunkStates' /\ Flags' /\ ClosedForWaiters'
      BY <1>0, <2>2 DEF ChunkStates, Flags, ClosedForWaiters, ReceiverStates
  <2> QED BY <2>2, <2>6, <2>7, <2>8, <2>9, <2>10, <2>11 DEF BudgetInv
<1> QED BY <1>1, <1>2, <1>3, <1>4, <1>5, <1>6

\* Nothing is reserved at the start.
LEMMA BudgetStarts == IngressInit => BudgetInv
<1> SUFFICES ASSUME IngressInit PROVE BudgetInv
    OBVIOUS
<1>1. /\ HoldersIn(hold) = {} /\ CountedIn(hold) = {} /\ TakersIn(send) = {}
    BY DEF IngressInit, HoldersIn, CountedIn, TakersIn
<1>2. MaxBytes \in Nat /\ MaxChunks \in Nat
    BY IngressAssumption DEF IngressAssumption
<1>3. Accounts(size, hold, free, pendingBytes)
  <2>1. size \in Sizes /\ hold \in [Chunk -> Holds] /\ free = MaxBytes /\ pendingBytes = 0
      BY DEF IngressInit, Sizes, Holds
  <2>2. IsFiniteSet(HoldersIn(hold)) /\ Volume(size, HoldersIn(hold)) = 0
        /\ Volume(size, CountedIn(hold)) = 0
      BY <1>1, FS_EmptySet, VolumeOfNothing
  <2> QED BY <1>2, <2>1, <2>2 DEF Accounts
<1>4. SlotsFit(queue, send)
  <2>1. Len(queue) = 0
      BY DEF IngressInit
  <2>2. IsFiniteSet(TakersIn(send)) /\ Cardinality(TakersIn(send)) = 0
      BY <1>1, FS_EmptySet
  <2> QED BY <1>2, <2>1, <2>2 DEF SlotsFit
<1>5. SendsFit(send, hold)
    BY DEF IngressInit, SendsFit, Fits
<1>6. QueueFits(queue, parsing, send, hold) /\ WaitersFit(acquiring, send, hold)
    BY DEF IngressInit, QueueFits, WaitersFit
<1>7. ChunkStates /\ Flags /\ ClosedForWaiters
  <2>1. ChunkStates
      BY DEF IngressInit, ChunkStates, SendStates, ReceiverStates
  <2>2. Flags /\ ClosedForWaiters
      BY DEF IngressInit, Flags, ClosedForWaiters
  <2> QED BY <2>1, <2>2
<1> QED BY <1>3, <1>4, <1>5, <1>6, <1>7 DEF BudgetInv

\* Every step keeps the invariant.
LEMMA BudgetSteps == BudgetInv /\ [IngressNext]_ingressVars => BudgetInv'
<1> SUFFICES ASSUME BudgetInv, [IngressNext]_ingressVars PROVE BudgetInv'
    OBVIOUS
<1>1. CASE UNCHANGED ingressVars
    BY <1>1 DEF ingressVars, BudgetInv, ChunkStates, Flags, ClosedForWaiters
<1>2. CASE IngressNext
    BY <1>2, SendDataBudget, TrySendDataBudget, SendStepBudget, DropSendBudget, ReceiverBudget
    DEF IngressNext
<1> QED BY <1>1, <1>2

\* The inductive invariant: the free permits and the reservations are the
\* budget, the counter is what the counted reservations add up to, and no
\* more chunks than slots are queued or about to be (ByteReservation).
THEOREM BudgetInvariant == IngressSpec => []BudgetInv
<1>1. IngressInit => BudgetInv
    BY BudgetStarts
<1>2. BudgetInv /\ [IngressNext]_ingressVars => BudgetInv'
    BY BudgetSteps
<1> QED BY <1>1, <1>2, PTL DEF IngressSpec

\* The counter stays within the budget and never goes below zero, and the
\* slots suffice (the assertions of reserve_bytes and of ByteReservation's
\* drop).
THEOREM BudgetIsKept == IngressSpec => []BudgetKept
<1>1. BudgetInv => BudgetKept
  <2>1. SlotsTaken = Len(queue) + Cardinality(TakersIn(send))
      BY DEF SlotsTaken, TakersIn
  <2> QED BY <2>1, AccountBounds DEF BudgetInv, SlotsFit, BudgetKept
<1> QED BY <1>1, BudgetInvariant, PTL

\* Type correctness of the ingress queue: there is never less than nothing
\* free, nor more than the budget.
THEOREM IngressTypes == IngressSpec => []IngressTypeOK
<1>1. BudgetInv => IngressTypeOK
  <2> SUFFICES ASSUME BudgetInv PROVE IngressTypeOK
      OBVIOUS
  <2>1. free \in 0..MaxBytes /\ pendingBytes \in 0..MaxBytes /\ MaxBytes \in Nat
      BY AccountBounds DEF BudgetInv
  <2>2. size \in [Chunk -> 1..MaxBytes] /\ hold \in [Chunk -> Holds]
      BY DEF BudgetInv, Accounts, Sizes
  <2>3. {open, aborted} \subseteq BOOLEAN
      BY DEF BudgetInv, Flags
  <2>4. pendingBytes \in Nat
      BY <2>1
  <2> QED BY <2>1, <2>2, <2>3, <2>4
          DEF BudgetInv, ChunkStates, IngressTypeOK, SendStates, ReceiverStates, Holds
<1> QED BY <1>1, BudgetInvariant, PTL

-----------------------------------------------------------------------------
\* A step of MCConnections is one of a service, with the other services at rest.
LEMMA ConnectionsStepServes ==
  ASSUME [ConnectionsNext]_connectionsVars
  PROVE  [RegistryNext]_registryVars /\ [SftpNext]_sftpVars /\ [IngressNext]_ingressVars
  <1>1. CASE ConnectionsNext
    BY <1>1 DEF ConnectionsNext
  <1>2. CASE UNCHANGED connectionsVars
    BY <1>2 DEF connectionsVars
  <1> QED
    BY <1>1, <1>2

\* A behaviour of MCConnections is one of the registry, one of the transfers and one
\* of the queue: what the theorems say of each of them holds of all three together.
THEOREM ConnectionsServe == ConnectionsSpec => RegistrySpec /\ SftpSpec /\ IngressSpec
  <1>1. ConnectionsInit => RegistryInit /\ SftpInit /\ IngressInit
    BY DEF ConnectionsInit
  <1>2. [ConnectionsNext]_connectionsVars
          => [RegistryNext]_registryVars /\ [SftpNext]_sftpVars /\ [IngressNext]_ingressVars
    BY ConnectionsStepServes
  <1> QED
    BY <1>1, <1>2, PTL DEF ConnectionsSpec, RegistrySpec, SftpSpec, IngressSpec

\* The types of what connections share, for any clients, transfers and chunks.
THEOREM ConnectionsTypes == ConnectionsSpec => []ConnectionsTypeOK
  <1>1. SftpInv => SftpTypeOK
    BY DEF SftpInv
  <1>2. RegistryTypeOK /\ SftpTypeOK /\ IngressTypeOK => ConnectionsTypeOK
    BY DEF ConnectionsTypeOK
  <1> QED
    BY <1>1, <1>2, ConnectionsServe, RegistryTypes, SftpInvariant, IngressTypes, PTL
=============================================================================
