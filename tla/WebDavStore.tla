---------------------------- MODULE WebDavStore ----------------------------
(***************************************************************************)
(* The WebDAV sync store (core/cloud_sync/personal/webdav_store.rs): the   *)
(* passes of several devices over one collection that offers GET and PUT   *)
(* only.  Each action is one request, or the reads that precede a write.   *)
(* A pass takes the lock (read, PUT, read back), lists, stores and deletes *)
(* records, rewriting the shared index each time, and releases the lock.   *)
(* Requests may fail, with or without effect on the server, and a device   *)
(* may be killed between two of them.                                      *)
(***************************************************************************)
EXTENDS FiniteSets, Naturals

CONSTANTS
    Device,
    Record,
    Nonce,          \* lock nonces (a bound: drawn afresh for each attempt)
    NoNonce, NoRecord,
    MaxVersion,     \* versions of a record (a bound)
    MaxTrouble      \* failed requests, killed devices, overdue locks (a bound)

ASSUME DavAssumption ==
    /\ NoNonce \notin Nonce
    /\ NoRecord \notin Record
    /\ {MaxVersion, MaxTrouble} \subseteq Nat

IndexAttempts == 2  \* INDEX_WRITE_ATTEMPTS

VARIABLES
    lockFile,   \* the lock file: a nonce, and whether it was released
    expired,    \* nonces written longer than LOCK_STALE_AFTER_MILLIS ago
    index,      \* index.json: a record to its version, 0 when it has none
    file,       \* the record files
    tombstone,  \* records that have a tombstone file
    device,     \* what each device is doing
    trouble,    \* how much of MaxTrouble is used up
    stored,     \* history: the last version an upsert or deletion reported
    overlap,    \* history: two passes were once in progress together
    excuse      \* history: something happened that may let passes overlap

davVars ==
    <<lockFile, expired, index, file, tombstone, device, trouble, stored, overlap, excuse>>

NoFile == [version |-> 0, deleted |-> FALSE]
NoJob == [record |-> NoRecord, version |-> 0, deletes |-> FALSE]
NoIndex == [r \in Record |-> 0]

Idle == [at |-> "idle", nonce |-> NoNonce, token |-> FALSE, saw |-> NoNonce,
         rivals |-> {}, listed |-> NoIndex, todo |-> {}, job |-> NoJob,
         loaded |-> NoIndex, tries |-> 0]

InPass == {"list", "work", "tomb", "record", "load", "index"}

DavInit ==
    /\ lockFile = [nonce |-> NoNonce, released |-> TRUE]
    /\ expired = {}
    /\ index = NoIndex
    /\ file = [r \in Record |-> NoFile]
    /\ tombstone = {}
    /\ device = [d \in Device |-> Idle]
    /\ trouble = 0
    /\ stored = NoIndex
    /\ overlap = FALSE
    /\ excuse = FALSE

DavTypeOK ==
    /\ lockFile \in [nonce : Nonce \cup {NoNonce}, released : BOOLEAN]
    /\ expired \subseteq Nonce
    /\ {index, stored} \subseteq [Record -> Nat]
    /\ file \in [Record -> [version : Nat, deleted : BOOLEAN]]
    /\ tombstone \subseteq Record
    /\ device \in [Device ->
           [at : InPass \cup {"idle", "put", "confirm", "check", "release"},
            nonce : Nonce \cup {NoNonce}, token : BOOLEAN, saw : Nonce \cup {NoNonce},
            rivals : SUBSET Device, listed : [Record -> Nat], todo : SUBSET Record,
            job : [record : Record \cup {NoRecord}, version : Nat, deletes : BOOLEAN],
            loaded : [Record -> Nat], tries : 0..IndexAttempts]]
    /\ trouble \in 0..MaxTrouble
    /\ {overlap, excuse} \subseteq BOOLEAN

-----------------------------------------------------------------------------
\* blocks_others: not released and younger than its time to live.
BlocksOthers(lock) == ~lock.released /\ lock.nonce \notin expired

\* Faulty variant: a lock that can be read is a lock that can be taken.
LockIsReadable == TRUE

LockIsFree == ~BlocksOthers(lockFile)

FreshNonces ==
    Nonce \ ({lockFile.nonce} \cup {device[d].nonce : d \in Device} \cup {device[d].saw : d \in Device})

SomeonesPass(d) == \E e \in Device \ {d} : device[e].at \in InPass

Goto(d, label) == device' = [device EXCEPT ![d].at = label]

Trouble ==
    /\ trouble < MaxTrouble
    /\ trouble' = trouble + 1

\* A pass begins, with the lock or, when a lock request failed, without it.
BeginPass(d, locked) ==
    /\ device' = [device EXCEPT ![d].at = "list", ![d].token = locked]
    /\ overlap' = (overlap \/ SomeonesPass(d))
    /\ excuse' = (excuse \/ ~locked)

\* acquire_lock reads the lock file and gives way, or draws a nonce.
LoadLock(d) ==
    /\ device[d].at = "idle"
    /\ LockIsFree
    /\ FreshNonces # {}
    /\ LET n == CHOOSE n \in FreshNonces : TRUE IN
        /\ device' = [device EXCEPT ![d] =
               [Idle EXCEPT !.at = "put", !.nonce = n, !.saw = lockFile.nonce]]
        /\ expired' = expired \ {n}
    /\ UNCHANGED <<lockFile, index, file, tombstone, trouble, stored, overlap, excuse>>

\* The lock file cannot be read: the pass runs without the lock.
LoadLockFails(d) ==
    /\ device[d].at = "idle"
    /\ Trouble
    /\ BeginPass(d, FALSE)
    /\ UNCHANGED <<lockFile, expired, index, file, tombstone, stored>>

\* The lock file as PUT leaves it, and whether it hides a lock that was
\* written after this device read the file.
WriteLock(d) ==
    /\ lockFile' = [nonce |-> device[d].nonce, released |-> FALSE]
    /\ excuse' = (excuse \/ (BlocksOthers(lockFile) /\ lockFile.nonce # device[d].saw))

\* Devices between PUT and read-back at the same time are rivals.
PutLock(d) ==
    /\ device[d].at = "put"
    /\ WriteLock(d)
    /\ LET rivals == {e \in Device \ {d} : device[e].at = "confirm"} IN
       device' = [e \in Device |->
           IF e = d THEN [device[d] EXCEPT !.at = "confirm", !.rivals = rivals, !.saw = NoNonce]
           ELSE IF e \in rivals THEN [device[e] EXCEPT !.rivals = @ \cup {d}]
           ELSE device[e]]
    /\ UNCHANGED <<expired, index, file, tombstone, trouble, stored, overlap>>

\* The PUT fails, though the server may have stored it.
PutLockFails(d) ==
    /\ device[d].at = "put"
    /\ Trouble
    /\ lockFile' \in {lockFile, [nonce |-> device[d].nonce, released |-> FALSE]}
    /\ BeginPass(d, FALSE)
    /\ UNCHANGED <<expired, index, file, tombstone, stored>>

\* Faulty variant: any lock that is not released is taken for one's own.
HoldsSomeLock(d) == ~lockFile.released

HoldsLock(d) == lockFile.nonce = device[d].nonce

\* Read back: the lock is held by the one whose nonce is found.
ReadBack(d) ==
    /\ device[d].at = "confirm"
    /\ IF HoldsLock(d)
       THEN BeginPass(d, TRUE)
       ELSE /\ device' = [device EXCEPT ![d] = Idle]
            /\ UNCHANGED <<overlap, excuse>>
    /\ UNCHANGED <<lockFile, expired, index, file, tombstone, trouble, stored>>

ReadBackFails(d) ==
    /\ device[d].at = "confirm"
    /\ Trouble
    /\ BeginPass(d, FALSE)
    /\ UNCHANGED <<lockFile, expired, index, file, tombstone, stored>>
-----------------------------------------------------------------------------
\* A pass ends: a pass with the lock goes on to release it.
EndPass(d) ==
    device' = [device EXCEPT ![d] =
        IF @.token THEN [Idle EXCEPT !.at = "check", !.nonce = device[d].nonce] ELSE Idle]

\* list_records reads the index and the files it names.  The worker leaves
\* a record listed as deleted alone and handles any other at most once.
List(d) ==
    /\ device[d].at = "list"
    /\ LET present == {r \in Record : index[r] > 0 /\ file[r].version > 0} IN
       device' = [device EXCEPT
           ![d].at = "work",
           ![d].listed = [r \in Record |-> IF r \in present THEN file[r].version ELSE 0],
           ![d].todo = {r \in Record : ~(r \in present /\ file[r].deleted)}]
    /\ UNCHANGED <<lockFile, expired, index, file, tombstone, trouble, stored, overlap, excuse>>

\* The version check of upsert_record: an upload expects nothing, an update
\* the version that was listed.
MayUpsert(d, r) == device[d].listed[r] \in {0, index[r]}

\* Faulty variant: the index is written and the file is not.
UpsertIndex(d, r) ==
    /\ device[d].at = "work"
    /\ r \in device[d].todo
    /\ MayUpsert(d, r)
    /\ index[r] < MaxVersion
    /\ device' = [device EXCEPT
           ![d].at = "load", ![d].todo = @ \ {r},
           ![d].job = [record |-> r, version |-> index[r] + 1, deletes |-> FALSE]]
    /\ UNCHANGED <<lockFile, expired, index, file, tombstone, trouble, stored, overlap, excuse>>

Upsert(d, r) ==
    /\ device[d].at = "work"
    /\ r \in device[d].todo
    /\ MayUpsert(d, r)
    /\ index[r] < MaxVersion
    /\ device' = [device EXCEPT
           ![d].at = "record", ![d].todo = @ \ {r},
           ![d].job = [record |-> r, version |-> index[r] + 1, deletes |-> FALSE]]
    /\ UNCHANGED <<lockFile, expired, index, file, tombstone, trouble, stored, overlap, excuse>>

\* A stale version is an error, and an error ends the pass.
UpsertRefused(d, r) ==
    /\ device[d].at = "work"
    /\ r \in device[d].todo
    /\ ~MayUpsert(d, r)
    /\ EndPass(d)
    /\ UNCHANGED <<lockFile, expired, index, file, tombstone, trouble, stored, overlap, excuse>>

\* tombstone_record of a record listed alive: its new version is counted
\* from the record file, not from the index.
Tombstone(d, r) ==
    /\ device[d].at = "work"
    /\ r \in device[d].todo
    /\ device[d].listed[r] > 0
    /\ index[r] = device[d].listed[r]
    /\ file[r].version < MaxVersion
    /\ device' = [device EXCEPT
           ![d].at = "tomb", ![d].todo = @ \ {r},
           ![d].job = [record |-> r, version |-> file[r].version + 1, deletes |-> TRUE]]
    /\ UNCHANGED <<lockFile, expired, index, file, tombstone, trouble, stored, overlap, excuse>>

PutTombstone(d) ==
    /\ device[d].at = "tomb"
    /\ tombstone' = tombstone \cup {device[d].job.record}
    /\ Goto(d, "record")
    /\ UNCHANGED <<lockFile, expired, index, file, trouble, stored, overlap, excuse>>

\* The record file as the job writes it.
WrittenFile(job) ==
    [file EXCEPT ![job.record] = [version |-> job.version, deleted |-> job.deletes]]

PutRecord(d) ==
    /\ device[d].at = "record"
    /\ file' = WrittenFile(device[d].job)
    /\ Goto(d, "load")
    /\ UNCHANGED <<lockFile, expired, index, tombstone, trouble, stored, overlap, excuse>>

\* mutate_index reads the index ...
LoadIndex(d) ==
    /\ device[d].at = "load"
    /\ device' = [device EXCEPT ![d].at = "index", ![d].loaded = index, ![d].tries = @ + 1]
    /\ UNCHANGED <<lockFile, expired, index, file, tombstone, trouble, stored, overlap, excuse>>

\* ... and writes it back whole, with its one entry changed.
WrittenIndex(d) == [device[d].loaded EXCEPT ![device[d].job.record] = device[d].job.version]

PutIndex(d) ==
    /\ device[d].at = "index"
    /\ index' = WrittenIndex(d)
    /\ stored' = [stored EXCEPT ![device[d].job.record] = device[d].job.version]
    /\ device' = [device EXCEPT ![d].at = "work", ![d].job = NoJob,
                               ![d].loaded = NoIndex, ![d].tries = 0]
    /\ UNCHANGED <<lockFile, expired, file, tombstone, trouble, overlap, excuse>>

\* Faulty variant: the last attempt is taken for a success.
PutIndexGivenUp(d) ==
    /\ device[d].at = "index"
    /\ IF device[d].tries < IndexAttempts
       THEN Goto(d, "load") /\ UNCHANGED stored
       ELSE /\ Goto(d, "work")
            /\ stored' = [stored EXCEPT ![device[d].job.record] = device[d].job.version]
    /\ UNCHANGED <<lockFile, expired, index, file, tombstone, trouble, overlap, excuse>>

\* The server answered the index PUT with an error: once more, if it was
\* the first attempt (not counted as trouble: it happens twice at most).
PutIndexRejected(d) ==
    /\ device[d].at = "index"
    /\ IF device[d].tries < IndexAttempts THEN Goto(d, "load") ELSE EndPass(d)
    /\ UNCHANGED <<lockFile, expired, index, file, tombstone, trouble, stored, overlap, excuse>>

\* Any other request of a pass fails, with or without its effect.
RequestFails(d) ==
    /\ device[d].at \in InPass
    /\ Trouble
    /\ \/ UNCHANGED <<index, file, tombstone>>
       \/ device[d].at = "tomb" /\ tombstone' = tombstone \cup {device[d].job.record}
                               /\ UNCHANGED <<index, file>>
       \/ device[d].at = "record" /\ file' = WrittenFile(device[d].job)
                                 /\ UNCHANGED <<index, tombstone>>
       \/ device[d].at = "index" /\ index' = WrittenIndex(d)
                                /\ UNCHANGED <<file, tombstone>>
    /\ EndPass(d)
    /\ UNCHANGED <<lockFile, expired, stored, overlap, excuse>>

\* Nothing is left to do.
Finish(d) ==
    /\ device[d].at = "work"
    /\ EndPass(d)
    /\ UNCHANGED <<lockFile, expired, index, file, tombstone, trouble, stored, overlap, excuse>>
-----------------------------------------------------------------------------
\* release_lock reads the lock file first: only its own nonce is released.
CheckLock(d) ==
    /\ device[d].at = "check"
    /\ IF HoldsLock(d)
       THEN Goto(d, "release")
       ELSE device' = [device EXCEPT ![d] = Idle]
    /\ UNCHANGED <<lockFile, expired, index, file, tombstone, trouble, stored, overlap, excuse>>

Released(d) == [nonce |-> device[d].nonce, released |-> TRUE]

\* Whatever stands in the lock file by now is overwritten.
ReleaseLock(d) ==
    /\ device[d].at = "release"
    /\ lockFile' = Released(d)
    /\ excuse' = (excuse \/ (BlocksOthers(lockFile) /\ lockFile.nonce # device[d].nonce))
    /\ device' = [device EXCEPT ![d] = Idle]
    /\ UNCHANGED <<expired, index, file, tombstone, trouble, stored, overlap>>

\* Reading or writing the lock fails, or the program is killed.
Abandon(d) ==
    /\ device[d].at # "idle"
    /\ Trouble
    /\ device' = [device EXCEPT ![d] = Idle]
    /\ UNCHANGED <<lockFile, expired, index, file, tombstone, stored, overlap, excuse>>

\* LOCK_STALE_AFTER_MILLIS elapse.  While the owner is still at work that is
\* trouble: a pass takes seconds.
Expire(n) ==
    /\ n = lockFile.nonce
    /\ BlocksOthers(lockFile)
    /\ LET overdue == \E d \in Device : device[d].nonce = n IN
        /\ IF overdue THEN Trouble ELSE UNCHANGED trouble
        /\ excuse' = (excuse \/ overdue)
    /\ expired' = expired \cup {n}
    /\ UNCHANGED <<lockFile, index, file, tombstone, device, stored, overlap>>

-----------------------------------------------------------------------------
AcquireStep(d) ==
    \/ LoadLock(d) \/ LoadLockFails(d)
    \/ PutLock(d) \/ PutLockFails(d)
    \/ ReadBack(d) \/ ReadBackFails(d)

PassStep(d) ==
    \/ List(d)
    \/ \E r \in Record : Upsert(d, r) \/ UpsertRefused(d, r) \/ Tombstone(d, r)
    \/ PutTombstone(d) \/ PutRecord(d)
    \/ LoadIndex(d) \/ PutIndex(d) \/ PutIndexRejected(d)
    \/ RequestFails(d)
    \/ Finish(d)

ReleaseStep(d) == CheckLock(d) \/ ReleaseLock(d)

DavNext ==
    \/ \E d \in Device : AcquireStep(d) \/ PassStep(d) \/ ReleaseStep(d) \/ Abandon(d)
    \/ \E n \in Nonce : Expire(n)

DavSpec == DavInit /\ [][DavNext]_davVars

-----------------------------------------------------------------------------
Passing == {d \in Device : device[d].at \in InPass}

\* Two passes are in progress together only after one of the things the
\* code knowingly lets through: a lock request that failed, a lock that was
\* overdue, or a lock file written over a lock that was not there when the
\* writer looked (acquire_lock and release_lock, webdav_store.rs).
PassesExclude == overlap => excuse

\* Of two devices that both read the lock file as free and wrote it before
\* the other had read back, at most one passes with the lock.
ReadBackArbitrates ==
    \A d \in Passing : \A e \in Passing \ {d} :
        device[d].token /\ device[e].token =>
            ~(d \in device[e].rivals /\ e \in device[d].rivals)

\* Whatever fails and however passes interleave, a record in the index has
\* its file, and a record file marked as deleted has its tombstone: the
\* order of the writes in upsert_record and tombstone_record.
IndexedFilesExist ==
    \A r \in Record :
        /\ index[r] > 0 => file[r].version > 0
        /\ file[r].deleted => r \in tombstone

\* As long as passes did not overlap, what a pass reported as stored is in
\* the index and in the files, in that version or a later one, whatever
\* requests failed and wherever a later pass was cut short.
UpsertSticks ==
    ~overlap =>
        \A r \in Record : stored[r] <= index[r] /\ index[r] <= file[r].version
=============================================================================
