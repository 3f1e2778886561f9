--------------------------- MODULE DirectoryLock ---------------------------
(***************************************************************************)
(* The lock file of a sync directory (core/cloud_sync/personal/            *)
(* directory_store.rs): acquire_directory_lock and the release that runs   *)
(* when its handle is dropped, one file-system call at a time, by several  *)
(* processes that share the directory and may be killed in between.        *)
(*                                                                         *)
(* The directory maps the names "lock" and "temp" to files, and a file     *)
(* keeps its identity when it is renamed, replaced or removed, so that     *)
(* what is written through a handle lands in the file that was opened.     *)
(***************************************************************************)
EXTENDS FiniteSets, Naturals

CONSTANTS
    Process,     \* running instances that share the directory
    Regular,     \* those that try again for as long as they run
    Nonce,       \* lock nonces (a bound: the code draws a new one per attempt)
    File,        \* file identities (a bound)
    NoFile, Torn,
    Overrun,     \* a pass may last longer than LOCK_STALE_AFTER
    MaxTries,    \* attempts of the processes that are not regular (a bound)
    MaxCrashes   \* processes killed (a bound)

ASSUME LockAssumption ==
    /\ Regular \subseteq Process
    /\ NoFile \notin File
    /\ Torn \notin Nonce
    /\ Overrun \in BOOLEAN
    /\ {MaxTries, MaxCrashes} \subseteq Nat

\* The identities suffice: there are more files than processes, and more nonces
\* than the processes and the files they have open can show.
ASSUME SupplyAssumption ==
    /\ \A inUse \in [Process -> File \cup {NoFile}] : \E f \in File : \A p \in Process : inUse[p] # f
    /\ \A own, read \in [Process -> Nonce \cup {Torn}] :
          \E n \in Nonce : \A p \in Process : own[p] # n /\ read[p] # n

VARIABLES
    name,     \* the directory: "lock" and "temp" to a file or NoFile
    content,  \* what a file holds: a nonce, or Torn for anything unparsable
    pc,       \* where each process is
    nonce,    \* the nonce of its present attempt
    handle,   \* the file it has open
    expired,  \* nonces acquired longer than LOCK_STALE_AFTER ago
    used      \* how much of each bound is used up

vars == <<name, content, pc, nonce, handle, expired, used>>

Held(p) == pc[p] \in {"holding", "removing"}

Init ==
    /\ name = [lock |-> NoFile, temp |-> NoFile]
    /\ content = [f \in File |-> Torn]
    /\ pc = [p \in Process |-> "idle"]
    /\ nonce = [p \in Process |-> CHOOSE n \in Nonce : TRUE]
    /\ handle = [p \in Process |-> NoFile]
    /\ expired = {}
    /\ used = [tries |-> 0, crashes |-> 0]

Active == {p \in Process : pc[p] # "idle"}

\* Files that a name or an open handle refers to.
FilesInUse == ({name.lock, name.temp} \cup {handle[p] : p \in Process}) \ {NoFile}

NoncesInUse ==
    {content[f] : f \in FilesInUse} \cup {nonce[p] : p \in Active}

\* Identities are interchangeable: any one that nothing refers to will do.
FreshFile == CHOOSE f \in File : f \notin FilesInUse
FreshNonce == CHOOSE n \in Nonce : n \notin NoncesInUse

Goto(p, label) == pc' = [pc EXCEPT ![p] = label]

\* What read_lock_nonce finds, Torn also when there is no lock file.
LockNonce == IF name.lock = NoFile THEN Torn ELSE content[name.lock]

-----------------------------------------------------------------------------
\* acquire_directory_lock begins with a nonce of its own.
Try(p) ==
    /\ pc[p] = "idle"
    /\ p \notin Regular => used.tries < MaxTries
    /\ used' = [used EXCEPT !.tries = IF p \in Regular THEN @ ELSE @ + 1]
    /\ nonce' = [nonce EXCEPT ![p] = FreshNonce]
    /\ expired' = expired \ {FreshNonce}
    /\ Goto(p, "trying")
    /\ UNCHANGED <<name, content, handle>>

\* create_new succeeds: the lock file exists and is empty.
Create(p) ==
    /\ pc[p] = "trying"
    /\ name.lock = NoFile
    /\ name' = [name EXCEPT !.lock = FreshFile]
    /\ content' = [content EXCEPT ![FreshFile] = Torn]
    /\ handle' = [handle EXCEPT ![p] = FreshFile]
    /\ Goto(p, "filling")
    /\ UNCHANGED <<nonce, expired, used>>

\* write_all puts the lock into the file that was created.
Fill(p) ==
    /\ pc[p] = "filling"
    /\ content' = [content EXCEPT ![handle[p]] = nonce[p]]
    /\ handle' = [handle EXCEPT ![p] = NoFile]
    /\ Goto(p, "holding")
    /\ UNCHANGED <<name, nonce, expired, used>>

\* create_new finds a lock file: AlreadyHeld.
AlreadyHeld(p) ==
    /\ pc[p] = "trying"
    /\ name.lock # NoFile
    /\ Goto(p, "judging")
    /\ UNCHANGED <<name, content, nonce, handle, expired, used>>

\* Faulty variant: a lock file that cannot be parsed counts as held.
ParsedAndExpired == name.lock = NoFile \/ LockNonce \in expired

\* lock_is_stale: missing, unparsable or expired.
Stale == LockNonce \in expired \cup {Torn}

Judge(p) ==
    /\ pc[p] = "judging"
    /\ Goto(p, IF Stale THEN "opening" ELSE "idle")
    /\ UNCHANGED <<name, content, nonce, handle, expired, used>>

\* write_json_atomically: the shared temp file is created or truncated, ...
OpenTemp(p) ==
    /\ pc[p] = "opening"
    /\ LET f == IF name.temp = NoFile THEN FreshFile ELSE name.temp IN
          /\ name' = [name EXCEPT !.temp = f]
          /\ content' = [content EXCEPT ![f] = Torn]
          /\ handle' = [handle EXCEPT ![p] = f]
    /\ Goto(p, "writing")
    /\ UNCHANGED <<nonce, expired, used>>

\* Faulty variant: the temp file is not closed.
WriteTempLeaks(p) ==
    LET f == handle[p] IN
    /\ pc[p] = "writing"
    /\ content' = [content EXCEPT ![f] = nonce[p]]
    /\ Goto(p, "renaming")
    /\ UNCHANGED <<name, nonce, handle, expired, used>>

\* ... written (over longer bytes of another writer the result does not parse) ...
WriteTemp(p) ==
    LET f == handle[p] IN
    /\ pc[p] = "writing"
    /\ \E bytes \in {nonce[p], IF content[f] = Torn THEN nonce[p] ELSE Torn} :
          content' = [content EXCEPT ![f] = bytes]
    /\ handle' = [handle EXCEPT ![p] = NoFile]
    /\ Goto(p, "renaming")
    /\ UNCHANGED <<name, nonce, expired, used>>

\* ... and renamed over the lock file, an error when another one has renamed it.
Rename(p) ==
    /\ pc[p] = "renaming"
    /\ IF name.temp = NoFile
       THEN UNCHANGED name /\ Goto(p, "idle")
       ELSE /\ name' = [lock |-> name.temp, temp |-> NoFile]
            /\ Goto(p, "confirming")
    /\ UNCHANGED <<content, nonce, handle, expired, used>>

\* The lock is taken over if it still carries the own nonce.
Confirm(p) ==
    /\ pc[p] = "confirming"
    /\ Goto(p, IF LockNonce = nonce[p] THEN "holding" ELSE "idle")
    /\ UNCHANGED <<name, content, nonce, handle, expired, used>>

\* The handle is dropped: the nonce is read again, then the file removed.
Release(p) ==
    /\ pc[p] = "holding"
    /\ Goto(p, IF LockNonce = nonce[p] THEN "removing" ELSE "idle")
    /\ UNCHANGED <<name, content, nonce, handle, expired, used>>

Remove(p) ==
    /\ pc[p] = "removing"
    /\ name' = [name EXCEPT !.lock = NoFile]
    /\ Goto(p, "idle")
    /\ UNCHANGED <<content, nonce, handle, expired, used>>

Crash(p) ==
    /\ p \in Active
    /\ used.crashes < MaxCrashes
    /\ used' = [used EXCEPT !.crashes = @ + 1]
    /\ handle' = [handle EXCEPT ![p] = NoFile]
    /\ Goto(p, "idle")
    /\ UNCHANGED <<name, content, nonce, expired>>

\* 300 seconds have passed since the lock in the lock file was acquired.
Expire ==
    /\ LockNonce \notin expired \cup {Torn}
    /\ Overrun \/ \A p \in Active : nonce[p] # LockNonce
    /\ expired' = expired \cup {LockNonce}
    /\ UNCHANGED <<name, content, pc, nonce, handle, used>>

-----------------------------------------------------------------------------
Attempt(p) ==
    \/ Create(p) \/ Fill(p) \/ AlreadyHeld(p) \/ Judge(p)
    \/ OpenTemp(p) \/ WriteTemp(p) \/ Rename(p) \/ Confirm(p)

Step(p) == Attempt(p) \/ Release(p) \/ Remove(p)

Next ==
    \/ \E p \in Process : Try(p) \/ Step(p) \/ Crash(p)
    \/ Expire

Spec == Init /\ [][Next]_vars

(***************************************************************************)
(* Fairness: a process that runs goes on, a regular one tries again (the   *)
(* 60 second timer of the sync runtime), and time passes.                  *)
(***************************************************************************)
FairSpec ==
    /\ Spec
    /\ \A p \in Process : WF_vars(Step(p))
    /\ \A p \in Regular : WF_vars(Try(p))
    /\ WF_vars(Expire)

-----------------------------------------------------------------------------
TypeOK ==
    /\ name \in [lock : File \cup {NoFile}, temp : File \cup {NoFile}]
    /\ content \in [File -> Nonce \cup {Torn}]
    /\ nonce \in [Process -> Nonce]
    /\ expired \subseteq Nonce
    /\ \A p \in Process : pc[p] \in {"filling", "writing"} <=> handle[p] # NoFile

\* Two processes never believe they hold the lock at the same time.
Exclusion == \A p, q \in Process : Held(p) /\ Held(q) => p = q

\* Nothing left in the directory - a lock file or a temp file, empty, torn, of a
\* killed process or of an attempt that lost a race - keeps a process out for
\* good once the others leave it alone ("a bad file must not jam sync forever").
Recovers == \A p \in Regular : []<>Held(p)
=============================================================================
