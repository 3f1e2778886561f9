--------------------------- MODULE TerminalIngress ---------------------------
(***************************************************************************)
(* The queue between a terminal's transport and its parser                 *)
(* (terminal/ingress_queue.rs): a send first obtains as many permits as    *)
(* the chunk has bytes, then counts them, then obtains one of the chunk    *)
(* slots; the reservation goes with the chunk and ends when the parser has *)
(* consumed it.  Sends run in tasks of their own and may be dropped at any *)
(* await.  The control lane is left out: it shares only the abort.         *)
(* The semaphore (tokio, external) serves its waiters in order.            *)
(***************************************************************************)
EXTENDS FiniteSets, FiniteSetsExt, Naturals, Sequences

CONSTANTS
    Chunk,      \* each sent at most once
    NoChunk,
    MaxBytes,   \* max_pending_bytes
    MaxChunks   \* max_pending_chunks

ASSUME IngressAssumption ==
    /\ NoChunk \notin Chunk
    /\ {MaxBytes, MaxChunks} \subseteq Nat \ {0}

VARIABLES
    size,       \* bytes of a chunk
    send,       \* where the send of a chunk is, or what it returned
    hold,       \* the chunk's ByteReservation
    acquiring,  \* the semaphore's waiters, first come first
    free,       \* permits no reservation holds
    pendingBytes,
    queue,      \* data channel
    parsing,    \* what the receiver's guard holds
    receiver,   \* whether it receives, and why it stopped
    open,       \* sender handles are left
    aborted,    \* abort token
    delivered   \* history

ingressVars == <<size, send, hold, acquiring, free, pendingBytes, queue, parsing, receiver,
                 open, aborted, delivered>>

Sending == {"bytes", "slot", "check", "push", "try", "trySlot"}
Refused == {"full", "closed", "dropped"}

IngressInit ==
    /\ size \in [Chunk -> 1..MaxBytes]
    /\ send = [c \in Chunk |-> "none"]
    /\ hold = [c \in Chunk |-> "none"]
    /\ acquiring = <<>>
    /\ free = MaxBytes
    /\ pendingBytes = 0
    /\ queue = <<>>
    /\ parsing = NoChunk
    /\ receiver = "receives"
    /\ open = TRUE
    /\ aborted = FALSE
    /\ delivered = {}

IngressTypeOK ==
    /\ size \in [Chunk -> 1..MaxBytes]
    /\ send \in [Chunk -> {"none", "sent"} \cup Sending \cup Refused]
    /\ hold \in [Chunk -> {"none", "permits", "counted", "uncounted"}]
    /\ acquiring \in Seq(Chunk)
    /\ free \in 0..MaxBytes
    /\ pendingBytes \in Nat
    /\ queue \in Seq(Chunk)
    /\ parsing \in Chunk \cup {NoChunk}
    /\ receiver \in {"receives", "drained", "discarded"}
    /\ {open, aborted} \subseteq BOOLEAN
    /\ delivered \subseteq Chunk

-----------------------------------------------------------------------------
\* How many permits some chunks need.
Bytes(chunks) == MapThenSumSet(LAMBDA c : size[c], chunks)

\* How many of the waiters "permits" serve, from the first on.
Served(waiters, permits) ==
    Max({k \in 0..Len(waiters) : Bytes({waiters[i] : i \in 1..k}) <= permits})

\* The semaphore gives what it has to its waiters; "holdOf" is the rest.
Serve(waiters, permits, holdOf) ==
    LET n == Served(waiters, permits)
        lucky == {waiters[i] : i \in 1..n}
    IN  /\ acquiring' = SubSeq(waiters, n + 1, Len(waiters))
        /\ free' = permits - Bytes(lucky)
        /\ hold' = [c \in Chunk |-> IF c \in lucky THEN "permits" ELSE holdOf[c]]

SlotsTaken == Len(queue) + Cardinality({c \in Chunk : send[c] \in {"check", "push"}})

\* Faulty variant: bytes are taken off that were not counted yet.
ReturnUncounts(c, outcome) ==
    /\ send' = [send EXCEPT ![c] = outcome]
    /\ hold' = [hold EXCEPT ![c] = IF @ \in {"permits", "counted"} THEN "uncounted" ELSE @]
    /\ pendingBytes' = IF hold[c] # "none" THEN pendingBytes - size[c] ELSE pendingBytes

\* Faulty variant: a send that returns leaves its bytes counted.
ReturnCounted(c, outcome) ==
    /\ send' = [send EXCEPT ![c] = outcome]
    /\ hold' = [hold EXCEPT ![c] = IF @ \in {"permits", "counted"} THEN "uncounted" ELSE @]
    /\ UNCHANGED pendingBytes

\* A send returns: its reservation, if it has counted one, is dropped.
Return(c, outcome) ==
    /\ send' = [send EXCEPT ![c] = outcome]
    /\ hold' = [hold EXCEPT ![c] = IF @ \in {"permits", "counted"} THEN "uncounted" ELSE @]
    /\ pendingBytes' = IF hold[c] = "counted" THEN pendingBytes - size[c] ELSE pendingBytes

SendData(c) ==
    /\ send[c] = "none" /\ open
    /\ IF aborted
       THEN send' = [send EXCEPT ![c] = "closed"] /\ UNCHANGED <<acquiring, free, hold>>
       ELSE send' = [send EXCEPT ![c] = "bytes"] /\ Serve(Append(acquiring, c), free, hold)
    /\ UNCHANGED <<size, pendingBytes, queue, parsing, receiver, open, aborted, delivered>>

\* try_send_data: permits at once, or the chunk comes back.
TrySendData(c) ==
    /\ send[c] = "none" /\ open
    /\ IF aborted \/ acquiring # <<>> \/ size[c] > free
       THEN /\ send' = [send EXCEPT ![c] = IF aborted THEN "closed" ELSE "full"]
            /\ UNCHANGED <<hold, free>>
       ELSE /\ send' = [send EXCEPT ![c] = "try"]
            /\ hold' = [hold EXCEPT ![c] = "permits"]
            /\ free' = free - size[c]
    /\ UNCHANGED <<size, acquiring, pendingBytes, queue, parsing, receiver, open, aborted,
                   delivered>>

\* try_reserve: a slot at once, or the reservation is dropped.
TrySlot(c) ==
    /\ send[c] = "trySlot"
    /\ IF SlotsTaken < MaxChunks /\ receiver = "receives"
       THEN /\ send' = [send EXCEPT ![c] = "sent"]
            /\ queue' = Append(queue, c)
            /\ UNCHANGED <<hold, pendingBytes>>
       ELSE /\ Return(c, IF receiver = "receives" THEN "full" ELSE "closed")
            /\ UNCHANGED queue
    /\ UNCHANGED <<size, acquiring, free, parsing, receiver, open, aborted, delivered>>

\* reserve_bytes: fetch_add, once the permits are there.
ReserveBytes(c) ==
    /\ send[c] \in {"bytes", "try"} /\ hold[c] = "permits"
    /\ send' = [send EXCEPT ![c] = IF @ = "try" THEN "trySlot" ELSE "slot"]
    /\ hold' = [hold EXCEPT ![c] = "counted"]
    /\ pendingBytes' = pendingBytes + size[c]
    /\ UNCHANGED <<size, acquiring, free, queue, parsing, receiver, open, aborted, delivered>>

TakeSlot(c) ==
    /\ send[c] = "slot"
    /\ SlotsTaken < MaxChunks /\ receiver = "receives"
    /\ send' = [send EXCEPT ![c] = "check"]
    /\ UNCHANGED <<size, hold, acquiring, free, pendingBytes, queue, parsing, receiver, open,
                   aborted, delivered>>

\* The last look at the abort token before the slot is used.
CheckAbort(c) ==
    /\ send[c] = "check" /\ ~aborted
    /\ send' = [send EXCEPT ![c] = "push"]
    /\ UNCHANGED <<size, hold, acquiring, free, pendingBytes, queue, parsing, receiver, open,
                   aborted, delivered>>

Push(c) ==
    /\ send[c] = "push"
    /\ send' = [send EXCEPT ![c] = "sent"]
    /\ queue' = Append(queue, c)
    /\ UNCHANGED <<size, hold, acquiring, free, pendingBytes, parsing, receiver, open, aborted,
                   delivered>>

\* Faulty variant: waiting for a slot does not look at the abort token.
AbortedAtBytes(c) ==
    /\ aborted /\ send[c] \in {"bytes", "check"}
    /\ Return(c, "closed")
    /\ UNCHANGED <<size, acquiring, free, queue, parsing, receiver, open, aborted, delivered>>

SendAborted(c) ==
    /\ aborted /\ send[c] \in {"bytes", "slot", "check"}
    /\ Return(c, "closed")
    /\ UNCHANGED <<size, acquiring, free, queue, parsing, receiver, open, aborted, delivered>>

\* Who goes on waiting when c does not.
WaitersWithout(c) ==
    LET places == {i \in DOMAIN acquiring : acquiring[i] = c}
    IN  IF places = {} THEN acquiring
        ELSE SubSeq(acquiring, 1, Min(places) - 1)
                 \o SubSeq(acquiring, Min(places) + 1, Len(acquiring))

\* The future is dropped at an await: a waiter's turn goes to the next one.
DropSend(c) ==
    /\ send[c] \in {"bytes", "slot"}
    /\ IF hold[c] = "none"
       THEN /\ send' = [send EXCEPT ![c] = "dropped"]
            /\ Serve(WaitersWithout(c), free, hold)
            /\ UNCHANGED pendingBytes
       ELSE Return(c, "dropped") /\ UNCHANGED <<acquiring, free>>
    /\ UNCHANGED <<size, queue, parsing, receiver, open, aborted, delivered>>

\* The second half of dropping a reservation: its permit is dropped after the
\* bytes were taken off the counter (ByteReservation, field order).
DropPermit(c) ==
    /\ hold[c] = "uncounted"
    /\ Serve(acquiring, free + size[c], [hold EXCEPT ![c] = "none"])
    /\ parsing' = IF parsing = c THEN NoChunk ELSE parsing
    /\ UNCHANGED <<size, send, pendingBytes, queue, receiver, open, aborted, delivered>>

\* The last handle is dropped, none being used by a send.
DropSenders ==
    /\ open /\ \A c \in Chunk : send[c] \notin Sending
    /\ open' = FALSE
    /\ UNCHANGED <<size, send, hold, acquiring, free, pendingBytes, queue, parsing, receiver,
                   aborted, delivered>>

\* BoundedTerminalSender::abort: the semaphore is closed, the token cancelled.
AbortBySender ==
    /\ open /\ ~aborted
    /\ aborted' = TRUE
    /\ acquiring' = <<>>
    /\ UNCHANGED <<size, send, hold, free, pendingBytes, queue, parsing, receiver, open,
                   delivered>>
-----------------------------------------------------------------------------
Receive ==
    /\ receiver = "receives" /\ parsing = NoChunk /\ ~aborted
    /\ queue # <<>>
    /\ parsing' = Head(queue)
    /\ queue' = Tail(queue)
    /\ delivered' = delivered \cup {Head(queue)}
    /\ UNCHANGED <<size, send, hold, acquiring, free, pendingBytes, receiver, open, aborted>>

\* The parser is through, and the guard is dropped.
Consumed ==
    /\ parsing # NoChunk /\ hold[parsing] = "counted"
    /\ hold' = [hold EXCEPT ![parsing] = "uncounted"]
    /\ pendingBytes' = pendingBytes - size[parsing]
    /\ UNCHANGED <<size, send, acquiring, free, queue, parsing, receiver, open, aborted,
                   delivered>>

\* Faulty variant: the end of the senders ends the receiver at once.
ReceiveNoMore ==
    /\ receiver = "receives" /\ parsing = NoChunk /\ ~aborted
    /\ ~open
    /\ receiver' = "drained"
    /\ UNCHANGED <<size, send, hold, acquiring, free, pendingBytes, queue, parsing, open,
                   aborted, delivered>>

ReceiveNone ==
    /\ receiver = "receives" /\ parsing = NoChunk /\ ~aborted
    /\ ~open /\ queue = <<>>
    /\ receiver' = "drained"
    /\ UNCHANGED <<size, send, hold, acquiring, free, pendingBytes, queue, parsing, open,
                   aborted, delivered>>

\* finish_abort: the token was cancelled, or the receiver is dropped.
FinishAbort ==
    /\ receiver = "receives" /\ parsing = NoChunk
    /\ receiver' = "discarded"
    /\ aborted' = TRUE
    /\ acquiring' = <<>>
    /\ LET discarded == {queue[i] : i \in DOMAIN queue} IN
       /\ hold' = [c \in Chunk |-> IF c \in discarded THEN "uncounted" ELSE hold[c]]
       /\ pendingBytes' = pendingBytes - Bytes(discarded)
    /\ queue' = <<>>
    /\ UNCHANGED <<size, send, free, parsing, open, delivered>>

-----------------------------------------------------------------------------
SendStep(c) ==
    \/ ReserveBytes(c) \/ TrySlot(c) \/ TakeSlot(c) \/ CheckAbort(c) \/ Push(c)
    \/ SendAborted(c) \/ DropPermit(c)

IngressNext ==
    \/ \E c \in Chunk : SendData(c) \/ TrySendData(c) \/ SendStep(c) \/ DropSend(c)
    \/ DropSenders \/ AbortBySender
    \/ Receive \/ Consumed \/ ReceiveNone \/ FinishAbort

\* Tasks are polled and the parser goes on.
IngressFairness ==
    /\ \A c \in Chunk : WF_ingressVars(SendStep(c))
    /\ WF_ingressVars(Receive \/ Consumed)

IngressSpec == IngressInit /\ [][IngressNext]_ingressVars /\ IngressFairness

-----------------------------------------------------------------------------
\* The counter never exceeds the budget, nor goes below zero, although it is
\* raised after the permits are taken and two threads change it (the
\* assertions of reserve_bytes and of ByteReservation's drop).
BudgetKept == pendingBytes \in 0..MaxBytes /\ SlotsTaken <= MaxChunks

\* What a send returned is true of its chunk: one that was refused is never
\* parsed, so that its caller may send the bytes again, and once the receiver
\* has ended by itself every chunk that was accepted was parsed.
AnswersAreTrue ==
    \A c \in Chunk :
        /\ send[c] \in Refused => c \notin delivered /\ \A i \in DOMAIN queue : queue[i] # c
        /\ receiver = "drained" /\ send[c] = "sent" => c \in delivered

\* A send ends, however little room there is and whoever waits before it.
EverySendEnds ==
    \A c \in Chunk : send[c] \in Sending ~> send[c] \notin Sending
=============================================================================
