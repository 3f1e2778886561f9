--------------------------- MODULE SyncStores_proofs ---------------------------
(***************************************************************************)
(* The safety properties of the WebDAV sync store, for any devices, any    *)
(* records, any nonces and any amount of trouble, and those of the Git     *)
(* sync store, for any number of tasks that share the clone, any changes   *)
(* and any number of mishaps.                                              *)
(***************************************************************************)
EXTENDS WebDavStore, GitStore, TLAPS

(***************************************************************************)
(* The WebDAV store.                                                       *)
(***************************************************************************)

Labels == InPass \cup {"idle", "put", "confirm", "check", "release"}
Jobs == [record : Record \cup {NoRecord}, version : Nat, deletes : BOOLEAN]
DeviceStates ==
    [at : Labels, nonce : Nonce \cup {NoNonce}, token : BOOLEAN, saw : Nonce \cup {NoNonce},
     rivals : SUBSET Device, listed : [Record -> Nat], todo : SUBSET Record,
     job : Jobs, loaded : [Record -> Nat], tries : 0..IndexAttempts]
Locks == [nonce : Nonce \cup {NoNonce}, released : BOOLEAN]
Files == [version : Nat, deleted : BOOLEAN]

\* DavTypeOK, variable by variable.
DavTyped ==
    /\ lockFile \in Locks
    /\ expired \in SUBSET Nonce
    /\ index \in [Record -> Nat] /\ stored \in [Record -> Nat]
    /\ file \in [Record -> Files]
    /\ tombstone \in SUBSET Record
    /\ device \in [Device -> DeviceStates]
    /\ trouble \in 0..MaxTrouble
    /\ overlap \in BOOLEAN /\ excuse \in BOOLEAN

Writing == {"tomb", "record", "load", "index"}

\* What a device that is somewhere in a job has to write, and has written,
\* when the files and the tombstones are as given.
JobFits(w, files, tombs) ==
    /\ w.at \notin {"load", "index"} => w.tries = 0
    /\ w.at = "load" => w.tries < IndexAttempts
    /\ w.at \in Writing => w.job.record \in Record /\ w.job.version > 0
    /\ w.at \in {"load", "index"} => files[w.job.record].version > 0
    /\ w.at = "record" /\ w.job.deletes => w.job.record \in tombs
    /\ w.at = "index" => \A r \in Record : w.loaded[r] > 0 => files[r].version > 0

JobsFit == \A d \in Device : JobFits(device[d], file, tombstone)

\* The one pass in progress writes a later version, the file before the
\* index, and knows the index as it is.
WritesForward(w, versions, files) ==
    /\ w.at \in Writing => w.job.version > versions[w.job.record]
    /\ w.at \in {"load", "index"} => files[w.job.record].version = w.job.version
    /\ w.at = "index" => w.loaded = versions

Alone ==
    /\ \A d, e \in Device : device[d].at \in InPass /\ device[e].at \in InPass => d = e
    /\ \A d \in Device : WritesForward(device[d], index, file)
    /\ \A r \in Record : stored[r] <= index[r] /\ index[r] <= file[r].version

\* A device that wants the lock has a nonce of its own.
Nonces ==
    /\ \A d \in Device :
          /\ device[d].at = "idle" => device[d] = Idle
          /\ device[d].at \in {"put", "confirm"} => device[d].nonce \in Nonce
          /\ device[d].at = "put" => device[d].rivals = {}
    /\ \A d, e \in Device : d # e /\ device[d].nonce = device[e].nonce => device[d].nonce = NoNonce

MutualRivals(d, e) == d \in device[e].rivals /\ e \in device[d].rivals

HasPassed(d) == device[d].at \in InPass /\ device[d].token

\* Once one of two rivals has passed, the other does not find its nonce.
Rivalry ==
    \A d, e \in Device :
        MutualRivals(d, e) /\ d # e /\ HasPassed(d) =>
            ~HasPassed(e) /\ (device[e].at = "confirm" => lockFile.nonce # device[e].nonce)

Holding == InPass \cup {"check", "release"}

\* What the lock file says of a device, when the lock file and the expired
\* nonces are as given: the holder's lock stands, the lock of a device that
\* has written it and not read it back stands if it is there, and a device
\* that has seen a lock file goes by what it saw.
LockFits(w, lock, old) ==
    /\ w.nonce \notin old
    /\ w.at \in Holding => w.nonce \in Nonce /\ w.nonce = lock.nonce /\ ~lock.released
    /\ w.at = "confirm" /\ w.nonce = lock.nonce => ~lock.released
    /\ w.at = "put" =>
           /\ w.nonce # lock.nonce
           /\ w.saw = lock.nonce => lock.released \/ lock.nonce \in old

SawOthers == \A d, e \in Device : device[d].saw # NoNonce => device[e].nonce # device[d].saw

\* As long as nothing excuses an overlap, the lock file stands for its one holder.
Exclusive ==
    /\ ~overlap
    /\ lockFile.nonce = NoNonce => lockFile.released
    /\ \A d \in Device : LockFits(device[d], lockFile, expired)
    /\ SawOthers

DavInv ==
    /\ DavTyped
    /\ JobsFit
    /\ IndexedFilesExist
    /\ ~overlap => Alone
    /\ Nonces
    /\ Rivalry
    /\ ~excuse => Exclusive

-----------------------------------------------------------------------------
\* The type invariant one way and the other.
LEMMA DavTypedMeansTypeOK == DavTyped <=> DavTypeOK
BY SMT DEF DavTyped, DavTypeOK, Locks, Files, Jobs, DeviceStates, Labels

\* An idle device is a device.
LEMMA IdleTyped == Idle \in DeviceStates /\ NoIndex \in [Record -> Nat] /\ NoJob \in Jobs
BY SMT DEF Idle, DeviceStates, Labels, InPass, Jobs, NoJob, NoIndex, IndexAttempts

\* The initial state satisfies the invariant.
LEMMA DavStarts == DavInit => DavInv
<1> SUFFICES ASSUME DavInit PROVE DavInv
  OBVIOUS
<1>1. DavTyped
  <2>1. device \in [Device -> DeviceStates] /\ index \in [Record -> Nat] /\ stored \in [Record -> Nat]
    BY IdleTyped DEF DavInit
  <2>2. trouble \in 0..MaxTrouble
    BY DavAssumption DEF DavInit
  <2>3. lockFile \in Locks /\ file \in [Record -> Files]
    BY DEF DavInit, Locks, Files, NoFile
  <2> QED
    BY <2>1, <2>2, <2>3 DEF DavInit, DavTyped
<1>2. \A d \in Device : device[d] = Idle
  BY DEF DavInit
<1>3. Idle.at = "idle" /\ Idle.nonce = NoNonce /\ Idle.saw = NoNonce /\ Idle.tries = 0
  BY DEF Idle
<1>4. JobsFit
  BY <1>2, <1>3 DEF JobsFit, JobFits, Writing
<1>5. IndexedFilesExist
  BY DEF DavInit, IndexedFilesExist, NoIndex, NoFile
<1>6. Alone
  BY <1>2, <1>3 DEF DavInit, Alone, WritesForward, Writing, InPass, NoIndex, NoFile
<1>7. Nonces
  BY <1>2, <1>3 DEF Nonces
<1>8. Rivalry
  BY <1>2, <1>3 DEF Rivalry, HasPassed, InPass
<1>9. Exclusive
  BY <1>2, <1>3 DEF DavInit, Exclusive, LockFits, SawOthers, Holding, InPass
<1> QED
  BY <1>1, <1>4, <1>5, <1>6, <1>7, <1>8, <1>9 DEF DavInv

-----------------------------------------------------------------------------
\* Device d becomes w, and no other device changes.
Becomes(d, w) ==
    /\ device' \in [Device -> DeviceStates]
    /\ device'[d] = w
    /\ \A e \in Device \ {d} : device'[e] = device[e]

Enters(d, locked) == [device[d] EXCEPT !.at = "list", !.token = locked]
Advances(d, label) == [device[d] EXCEPT !.at = label]
AtCheck(nonce) == [Idle EXCEPT !.at = "check", !.nonce = nonce]
Leaves(d) == IF device[d].token THEN AtCheck(device[d].nonce) ELSE Idle
HasListed(d, listed, todo) == [device[d] EXCEPT !.at = "work", !.listed = listed, !.todo = todo]
HasJob(d, label, todo, job) == [device[d] EXCEPT !.at = label, !.todo = todo, !.job = job]
HasLoaded(d) == [device[d] EXCEPT !.at = "index", !.loaded = index, !.tries = device[d].tries + 1]
HasStored(d) == [device[d] EXCEPT !.at = "work", !.job = NoJob, !.loaded = NoIndex, !.tries = 0]

\* A device is given another record.
LEMMA Becoming ==
    ASSUME DavTyped, NEW d \in Device, NEW w \in DeviceStates, device' = [device EXCEPT ![d] = w]
    PROVE  Becomes(d, w)
BY DEF DavTyped, Becomes

\* A device keeps its type, field by field.
LEMMA FieldsTyped ==
    ASSUME NEW w \in DeviceStates
    PROVE  /\ \A at \in Labels : [w EXCEPT !.at = at] \in DeviceStates
           /\ \A nonce \in Nonce \cup {NoNonce} : [w EXCEPT !.nonce = nonce] \in DeviceStates
           /\ \A saw \in Nonce \cup {NoNonce} : [w EXCEPT !.saw = saw] \in DeviceStates
           /\ \A token \in BOOLEAN : [w EXCEPT !.token = token] \in DeviceStates
           /\ \A rivals \in SUBSET Device : [w EXCEPT !.rivals = rivals] \in DeviceStates
           /\ \A listed \in [Record -> Nat] : [w EXCEPT !.listed = listed] \in DeviceStates
           /\ \A todo \in SUBSET Record : [w EXCEPT !.todo = todo] \in DeviceStates
           /\ \A job \in Jobs : [w EXCEPT !.job = job] \in DeviceStates
           /\ \A loaded \in [Record -> Nat] : [w EXCEPT !.loaded = loaded] \in DeviceStates
           /\ \A tries \in 0..IndexAttempts : [w EXCEPT !.tries = tries] \in DeviceStates
BY DEF DeviceStates

\* The labels are labels.
LEMMA LabelsListed ==
    /\ {"idle", "put", "confirm", "check", "release"} \subseteq Labels
    /\ {"list", "work", "tomb", "record", "load", "index"} \subseteq Labels
BY DEF Labels, InPass

\* The records a device may become have the type.
LEMMA StatesTyped ==
    ASSUME DavTyped, NEW d \in Device
    PROVE  /\ \A locked \in BOOLEAN : Enters(d, locked) \in DeviceStates
           /\ \A label \in Labels : Advances(d, label) \in DeviceStates
           /\ \A nonce \in Nonce \cup {NoNonce} : AtCheck(nonce) \in DeviceStates
           /\ \A listed \in [Record -> Nat], todo \in SUBSET Record : HasListed(d, listed, todo) \in DeviceStates
           /\ \A label \in Labels, todo \in SUBSET Record, job \in Jobs : HasJob(d, label, todo, job) \in DeviceStates
           /\ device[d].tries < IndexAttempts => HasLoaded(d) \in DeviceStates
           /\ HasStored(d) \in DeviceStates
<1>1. PICK w \in DeviceStates : w = device[d]
  BY DEF DavTyped
<1>2. ASSUME NEW locked \in BOOLEAN PROVE Enters(d, locked) \in DeviceStates
  <2>1. PICK v \in DeviceStates : v = [w EXCEPT !.at = "list"]
    BY FieldsTyped, LabelsListed
  <2> QED
    BY <1>1, <2>1, FieldsTyped DEF Enters
<1>3. ASSUME NEW label \in Labels PROVE Advances(d, label) \in DeviceStates
  BY <1>1, FieldsTyped DEF Advances
<1>4. ASSUME NEW nonce \in Nonce \cup {NoNonce} PROVE AtCheck(nonce) \in DeviceStates
  <2>1. PICK v \in DeviceStates : v = [Idle EXCEPT !.at = "check"]
    BY FieldsTyped, LabelsListed, IdleTyped
  <2> QED
    BY <2>1, FieldsTyped DEF AtCheck
<1>5. ASSUME NEW listed \in [Record -> Nat], NEW todo \in SUBSET Record
      PROVE  HasListed(d, listed, todo) \in DeviceStates
  <2>1. PICK v \in DeviceStates : v = [w EXCEPT !.at = "work"]
    BY FieldsTyped, LabelsListed
  <2>2. PICK u \in DeviceStates : u = [v EXCEPT !.listed = listed]
    BY FieldsTyped
  <2> QED
    BY <1>1, <2>1, <2>2, FieldsTyped DEF HasListed
<1>6. ASSUME NEW label \in Labels, NEW todo \in SUBSET Record, NEW job \in Jobs
      PROVE  HasJob(d, label, todo, job) \in DeviceStates
  <2>1. PICK v \in DeviceStates : v = [w EXCEPT !.at = label]
    BY FieldsTyped
  <2>2. PICK u \in DeviceStates : u = [v EXCEPT !.todo = todo]
    BY FieldsTyped
  <2> QED
    BY <1>1, <2>1, <2>2, FieldsTyped DEF HasJob
<1>7. ASSUME device[d].tries < IndexAttempts PROVE HasLoaded(d) \in DeviceStates
  <2>1. PICK v \in DeviceStates : v = [w EXCEPT !.at = "index"]
    BY FieldsTyped, LabelsListed
  <2>2. PICK u \in DeviceStates : u = [v EXCEPT !.loaded = index]
    BY <2>1, FieldsTyped DEF DavTyped
  <2>3. device[d].tries + 1 \in 0..IndexAttempts
    <3>1. device[d].tries \in 0..IndexAttempts
      BY <1>1 DEF DeviceStates
    <3> QED
      BY <1>7, <3>1 DEF IndexAttempts
  <2> QED
    BY <1>1, <2>1, <2>2, <2>3, FieldsTyped DEF HasLoaded
<1>8. HasStored(d) \in DeviceStates
  <2>1. PICK v \in DeviceStates : v = [w EXCEPT !.at = "work"]
    BY FieldsTyped, LabelsListed
  <2>2. PICK u \in DeviceStates : u = [v EXCEPT !.job = NoJob]
    BY FieldsTyped, IdleTyped
  <2>3. PICK x \in DeviceStates : x = [u EXCEPT !.loaded = NoIndex]
    BY FieldsTyped, IdleTyped
  <2>4. 0 \in 0..IndexAttempts
    BY DEF IndexAttempts
  <2> QED
    BY <1>1, <2>1, <2>2, <2>3, <2>4, FieldsTyped DEF HasStored
<1> QED
  BY <1>2, <1>3, <1>4, <1>5, <1>6, <1>7, <1>8

Wants(n) == [Idle EXCEPT !.at = "put", !.nonce = n, !.saw = lockFile.nonce]

ListedNow ==
    [r \in Record |-> IF r \in {q \in Record : index[q] > 0 /\ file[q].version > 0} THEN file[r].version ELSE 0]

\* What each action makes of the device that takes it.
DavMoves(d) ==
    \/ /\ device[d].at = "idle" /\ LoadLock(d)
       /\ \E n \in FreshNonces : Becomes(d, Wants(n)) /\ expired' = expired \ {n}
    \/ /\ LoadLockFails(d) \/ PutLockFails(d) \/ ReadBackFails(d)
       /\ Becomes(d, Enters(d, FALSE))
    \/ ReadBack(d) /\ HoldsLock(d) /\ Becomes(d, Enters(d, TRUE))
    \/ ((ReadBack(d) /\ ~HoldsLock(d)) \/ CheckLock(d) \/ ReleaseLock(d) \/ Abandon(d)) /\ Becomes(d, Idle)
    \/ List(d) /\ \E todo \in SUBSET Record : Becomes(d, HasListed(d, ListedNow, todo))
    \/ \E r \in Record : \E todo \in SUBSET Record :
          \/ /\ Upsert(d, r)
             /\ Becomes(d, HasJob(d, "record", todo, [record |-> r, version |-> index[r] + 1, deletes |-> FALSE]))
          \/ /\ Tombstone(d, r)
             /\ Becomes(d, HasJob(d, "tomb", todo, [record |-> r, version |-> file[r].version + 1, deletes |-> TRUE]))
    \/ PutTombstone(d) /\ Becomes(d, Advances(d, "record"))
    \/ PutRecord(d) /\ Becomes(d, Advances(d, "load"))
    \/ LoadIndex(d) /\ Becomes(d, HasLoaded(d))
    \/ PutIndex(d) /\ Becomes(d, HasStored(d))
    \/ PutIndexRejected(d) /\ device[d].tries < IndexAttempts /\ Becomes(d, Advances(d, "load"))
    \/ /\ \/ PutIndexRejected(d) \/ RequestFails(d) \/ Finish(d)
          \/ \E r \in Record : UpsertRefused(d, r)
       /\ Becomes(d, Leaves(d))
    \/ CheckLock(d) /\ HoldsLock(d) /\ Becomes(d, Advances(d, "release"))

\* A pass ends.
LEMMA PassEnding == ASSUME DavTyped, NEW d \in Device, EndPass(d) PROVE Becomes(d, Leaves(d))
<1>1. device' = [device EXCEPT ![d] = Leaves(d)]
  BY DEF DavTyped, EndPass, Leaves, AtCheck
<1>2. device[d].nonce \in Nonce \cup {NoNonce}
  BY DEF DavTyped, DeviceStates
<1>3. Leaves(d) \in DeviceStates
  BY <1>2, StatesTyped, IdleTyped DEF Leaves
<1> QED
  BY <1>1, <1>3, Becoming

\* A device goes to another label.
LEMMA Going == ASSUME DavTyped, NEW d \in Device, NEW label \in Labels, Goto(d, label) PROVE Becomes(d, Advances(d, label))
<1>1. device' = [device EXCEPT ![d] = Advances(d, label)]
  BY DEF DavTyped, Goto, Advances
<1> QED
  BY <1>1, StatesTyped, Becoming

\* A pass begins.
LEMMA Beginning ==
    ASSUME DavTyped, NEW d \in Device, NEW locked \in BOOLEAN, BeginPass(d, locked)
    PROVE  Becomes(d, Enters(d, locked))
<1>1. device' = [device EXCEPT ![d] = Enters(d, locked)]
  BY DEF DavTyped, BeginPass, Enters
<1> QED
  BY <1>1, StatesTyped, Becoming

\* Each action of a device but the PUT of the lock file is one of those.
LEMMA StepMoves ==
    ASSUME DavTyped, JobsFit, NEW d \in Device,
           AcquireStep(d) \/ PassStep(d) \/ ReleaseStep(d) \/ Abandon(d), ~PutLock(d)
    PROVE  DavMoves(d)
<1>1. CASE LoadLock(d)
  <2>1. PICK n \in FreshNonces : /\ device' = [device EXCEPT ![d] = Wants(n)]
                                 /\ expired' = expired \ {n}
    <3> DEFINE n == CHOOSE m \in FreshNonces : TRUE
    <3>1. n \in FreshNonces
      BY <1>1 DEF LoadLock
    <3>2. device' = [device EXCEPT ![d] = Wants(n)] /\ expired' = expired \ {n}
      BY <1>1 DEF LoadLock, Wants
    <3> QED
      BY <3>1, <3>2
  <2>2. n \in Nonce /\ lockFile.nonce \in Nonce \cup {NoNonce}
    BY DEF FreshNonces, DavTyped, Locks
  <2>3. Wants(n) \in DeviceStates
    <3>1. PICK v \in DeviceStates : v = [Idle EXCEPT !.at = "put"]
      BY FieldsTyped, LabelsListed, IdleTyped
    <3>2. PICK u \in DeviceStates : u = [v EXCEPT !.nonce = n]
      BY <2>2, FieldsTyped
    <3> QED
      BY <2>2, <3>1, <3>2, FieldsTyped DEF Wants
  <2> QED
    BY <1>1, <2>1, <2>3, Becoming DEF DavMoves, LoadLock
<1>2. CASE LoadLockFails(d) \/ PutLockFails(d) \/ ReadBackFails(d)
  <2>1. BeginPass(d, FALSE)
    BY <1>2 DEF LoadLockFails, PutLockFails, ReadBackFails
  <2> QED
    BY <1>2, <2>1, Beginning DEF DavMoves
<1>3. CASE ReadBack(d)
  <2>1. CASE HoldsLock(d)
    <3>1. BeginPass(d, TRUE)
      BY <1>3, <2>1 DEF ReadBack
    <3> QED
      BY <1>3, <2>1, <3>1, Beginning DEF DavMoves
  <2>2. CASE ~HoldsLock(d)
    <3>1. device' = [device EXCEPT ![d] = Idle]
      BY <1>3, <2>2 DEF ReadBack
    <3> QED
      BY <1>3, <2>2, <3>1, IdleTyped, Becoming DEF DavMoves
  <2> QED
    BY <2>1, <2>2
<1>4. CASE List(d)
  <2>1. PICK todo \in SUBSET Record : device' = [device EXCEPT ![d] = HasListed(d, ListedNow, todo)]
    BY <1>4 DEF List, HasListed, ListedNow, DavTyped
  <2>2. ListedNow \in [Record -> Nat]
    BY DEF ListedNow, DavTyped, Files
  <2> QED
    BY <1>4, <2>1, <2>2, StatesTyped, Becoming DEF DavMoves
<1>5. ASSUME NEW r \in Record, Upsert(d, r) PROVE DavMoves(d)
  <2> DEFINE job == [record |-> r, version |-> index[r] + 1, deletes |-> FALSE]
  <2>1. device[d].todo \ {r} \in SUBSET Record
    BY DEF DavTyped, DeviceStates
  <2>2. device' = [device EXCEPT ![d] = HasJob(d, "record", device[d].todo \ {r}, job)]
    BY <1>5 DEF Upsert, HasJob, DavTyped
  <2>3. job \in Jobs
    BY DEF Jobs, DavTyped
  <2>4. HasJob(d, "record", device[d].todo \ {r}, job) \in DeviceStates
    BY <2>1, <2>3, StatesTyped, LabelsListed
  <2> QED
    BY <1>5, <2>1, <2>2, <2>4, Becoming DEF DavMoves
<1>6. ASSUME NEW r \in Record, Tombstone(d, r) PROVE DavMoves(d)
  <2> DEFINE job == [record |-> r, version |-> file[r].version + 1, deletes |-> TRUE]
  <2>1. device[d].todo \ {r} \in SUBSET Record
    BY DEF DavTyped, DeviceStates
  <2>2. device' = [device EXCEPT ![d] = HasJob(d, "tomb", device[d].todo \ {r}, job)]
    BY <1>6 DEF Tombstone, HasJob, DavTyped
  <2>3. job \in Jobs
    BY DEF Jobs, DavTyped, Files
  <2>4. HasJob(d, "tomb", device[d].todo \ {r}, job) \in DeviceStates
    BY <2>1, <2>3, StatesTyped, LabelsListed
  <2> QED
    BY <1>6, <2>1, <2>2, <2>4, Becoming DEF DavMoves
<1>7. CASE PutTombstone(d) \/ PutRecord(d)
  BY <1>7, Going, LabelsListed DEF DavMoves, PutTombstone, PutRecord
<1>8. CASE LoadIndex(d)
  <2>1. device[d].tries < IndexAttempts
    BY <1>8 DEF LoadIndex, JobsFit, JobFits
  <2>2. device' = [device EXCEPT ![d] = HasLoaded(d)]
    BY <1>8 DEF LoadIndex, HasLoaded, DavTyped
  <2> QED
    BY <1>8, <2>1, <2>2, StatesTyped, Becoming DEF DavMoves
<1>9. CASE PutIndex(d)
  <2>1. device' = [device EXCEPT ![d] = HasStored(d)]
    BY <1>9 DEF PutIndex, HasStored, DavTyped
  <2> QED
    BY <1>9, <2>1, StatesTyped, Becoming DEF DavMoves
<1>10. CASE PutIndexRejected(d)
  BY <1>10, Going, PassEnding, LabelsListed DEF DavMoves, PutIndexRejected
<1>11. CASE RequestFails(d) \/ Finish(d) \/ \E r \in Record : UpsertRefused(d, r)
  <2>1. EndPass(d)
    BY <1>11 DEF RequestFails, Finish, UpsertRefused
  <2> QED
    BY <1>11, <2>1, PassEnding DEF DavMoves
<1>12. CASE CheckLock(d)
  <2>1. (HoldsLock(d) /\ Goto(d, "release")) \/ device' = [device EXCEPT ![d] = Idle]
    BY <1>12 DEF CheckLock
  <2> QED
    BY <1>12, <2>1, Going, LabelsListed, IdleTyped, Becoming DEF DavMoves
<1>13. CASE ReleaseLock(d) \/ Abandon(d)
  <2>1. device' = [device EXCEPT ![d] = Idle]
    BY <1>13 DEF ReleaseLock, Abandon
  <2> QED
    BY <1>13, <2>1, IdleTyped, Becoming DEF DavMoves
<1> QED
  BY <1>1, <1>2, <1>3, <1>4, <1>5, <1>6, <1>7, <1>8, <1>9, <1>10, <1>11, <1>12, <1>13
  DEF AcquireStep, PassStep, ReleaseStep

\* A device with another label, another claim to the lock or another job.
Fields(w, at, nonce, token, saw, rivals, job, loaded, tries) ==
    /\ w.at = at /\ w.nonce = nonce /\ w.token = token /\ w.saw = saw /\ w.rivals = rivals
    /\ w.job = job /\ w.loaded = loaded /\ w.tries = tries

\* What the fields of those records are.
LEMMA FieldsOfStates ==
    ASSUME DavTyped, NEW d \in Device
    PROVE  /\ \A locked \in BOOLEAN :
                 Fields(Enters(d, locked), "list", device[d].nonce, locked, device[d].saw, device[d].rivals, device[d].job, device[d].loaded, device[d].tries)
           /\ \A label \in Labels :
                 Fields(Advances(d, label), label, device[d].nonce, device[d].token, device[d].saw, device[d].rivals, device[d].job, device[d].loaded, device[d].tries)
           /\ \A nonce : Fields(AtCheck(nonce), "check", nonce, FALSE, NoNonce, {}, NoJob, NoIndex, 0)
           /\ \A nonce : Fields(Wants(nonce), "put", nonce, FALSE, lockFile.nonce, {}, NoJob, NoIndex, 0)
           /\ Fields(Idle, "idle", NoNonce, FALSE, NoNonce, {}, NoJob, NoIndex, 0)
           /\ \A listed, todo :
                 Fields(HasListed(d, listed, todo), "work", device[d].nonce, device[d].token, device[d].saw, device[d].rivals, device[d].job, device[d].loaded, device[d].tries)
           /\ \A label, todo, job :
                 Fields(HasJob(d, label, todo, job), label, device[d].nonce, device[d].token, device[d].saw, device[d].rivals, job, device[d].loaded, device[d].tries)
           /\ Fields(HasLoaded(d), "index", device[d].nonce, device[d].token, device[d].saw, device[d].rivals, device[d].job, index, device[d].tries + 1)
           /\ Fields(HasStored(d), "work", device[d].nonce, device[d].token, device[d].saw, device[d].rivals, NoJob, NoIndex, 0)
<1>0. PICK w : w = device[d]
  OBVIOUS
<1>1. w \in DeviceStates
  BY <1>0 DEF DavTyped
<1>2. \A locked \in BOOLEAN :
          Fields(Enters(d, locked), "list", w.nonce, locked, w.saw, w.rivals, w.job, w.loaded, w.tries)
  BY <1>0, <1>1 DEF Fields, Enters, DeviceStates
<1>3. \A label \in Labels :
          Fields(Advances(d, label), label, w.nonce, w.token, w.saw, w.rivals, w.job, w.loaded, w.tries)
  BY <1>0, <1>1 DEF Fields, Advances, DeviceStates
<1>4. \A nonce : Fields(AtCheck(nonce), "check", nonce, FALSE, NoNonce, {}, NoJob, NoIndex, 0)
  BY DEF Fields, AtCheck, Idle
<1>5. \A nonce : Fields(Wants(nonce), "put", nonce, FALSE, lockFile.nonce, {}, NoJob, NoIndex, 0)
  BY DEF Fields, Wants, Idle
<1>6. Fields(Idle, "idle", NoNonce, FALSE, NoNonce, {}, NoJob, NoIndex, 0)
  BY DEF Fields, Idle
<1>7. \A listed, todo :
          Fields(HasListed(d, listed, todo), "work", w.nonce, w.token, w.saw, w.rivals, w.job, w.loaded, w.tries)
  BY <1>0, <1>1 DEF Fields, HasListed, DeviceStates
<1>8. \A label, todo, job :
          Fields(HasJob(d, label, todo, job), label, w.nonce, w.token, w.saw, w.rivals, job, w.loaded, w.tries)
  BY <1>0, <1>1 DEF Fields, HasJob, DeviceStates
<1>9. Fields(HasLoaded(d), "index", w.nonce, w.token, w.saw, w.rivals, w.job, index, w.tries + 1)
  BY <1>0, <1>1 DEF Fields, HasLoaded, DeviceStates
<1>10. Fields(HasStored(d), "work", w.nonce, w.token, w.saw, w.rivals, NoJob, NoIndex, 0)
  BY <1>0, <1>1 DEF Fields, HasStored, DeviceStates
<1> QED
  BY <1>0, <1>2, <1>3, <1>4, <1>5, <1>6, <1>7, <1>8, <1>9, <1>10

\* The PUT of the lock file makes the device and those that wrote before it,
\* and have not read back yet, rivals of each other, and changes nothing else.
LEMMA PutMoves ==
    ASSUME DavTyped, NEW d \in Device, PutLock(d)
    PROVE  /\ device' \in [Device -> DeviceStates]
           /\ LET w == device[d] IN
              Fields(device'[d], "confirm", w.nonce, w.token, NoNonce,
                     {e \in Device \ {d} : device[e].at = "confirm"}, w.job, w.loaded, w.tries)
           /\ \A e \in Device \ {d} : LET w == device[e] IN
              Fields(device'[e], w.at, w.nonce, w.token, w.saw,
                     IF w.at = "confirm" THEN w.rivals \cup {d} ELSE w.rivals, w.job, w.loaded, w.tries)
<1> DEFINE rivals == {e \in Device \ {d} : device[e].at = "confirm"}
           own == [device[d] EXCEPT !.at = "confirm", !.rivals = rivals, !.saw = NoNonce]
           other(e) == IF e \in rivals THEN [device[e] EXCEPT !.rivals = device[e].rivals \cup {d}] ELSE device[e]
<1>1. device' = [e \in Device |-> IF e = d THEN own ELSE other(e)]
  BY DEF PutLock, DavTyped
<1>2. device[d] \in DeviceStates /\ rivals \in SUBSET Device
  BY DEF DavTyped
<1>3. own \in DeviceStates
  <2> HIDE DEF rivals
  <2>1. PICK v \in DeviceStates : v = [device[d] EXCEPT !.at = "confirm"]
    BY <1>2, FieldsTyped, LabelsListed
  <2>2. PICK u \in DeviceStates : u = [v EXCEPT !.rivals = rivals]
    BY <1>2, FieldsTyped
  <2> QED
    BY <2>1, <2>2, FieldsTyped
<1>4. LET w == device[d] IN
      Fields(own, "confirm", w.nonce, w.token, NoNonce, rivals, w.job, w.loaded, w.tries)
  <2> HIDE DEF rivals
  <2> QED
    BY <1>2 DEF Fields, DeviceStates
<1>5. ASSUME NEW e \in Device \ {d}
      PROVE  /\ other(e) \in DeviceStates
             /\ LET w == device[e] IN
                Fields(other(e), w.at, w.nonce, w.token, w.saw,
                       IF w.at = "confirm" THEN w.rivals \cup {d} ELSE w.rivals, w.job, w.loaded, w.tries)
  <2>1. device[e] \in DeviceStates /\ (e \in rivals <=> device[e].at = "confirm")
    BY DEF DavTyped
  <2>2. device[e].rivals \cup {d} \in SUBSET Device
    BY <2>1 DEF DeviceStates
  <2>3. other(e) \in DeviceStates
    BY <2>1, <2>2, FieldsTyped
  <2> HIDE DEF rivals
  <2> QED
    BY <2>1, <2>3 DEF Fields, DeviceStates
<1>6. device'[d] = own /\ \A e \in Device \ {d} : device'[e] = other(e)
  BY <1>1
<1>7. device' \in [Device -> DeviceStates]
  <2> HIDE DEF own, other
  <2> QED
    BY <1>1, <1>3, <1>5
<1> QED
  <2> HIDE DEF own, other
  <2> QED
    BY <1>4, <1>5, <1>6, <1>7

-----------------------------------------------------------------------------
Others(d) == \A e \in Device \ {d} : device'[e] = device[e]

\* What the jobs are about, in the record of device d after a step.
JobNow(d, at, job, loaded, tries) ==
    /\ device'[d].at = at /\ device'[d].job = job
    /\ device'[d].loaded = loaded /\ device'[d].tries = tries

AlreadyPassing(d) == device[d].at \in InPass \/ device'[d].at \notin InPass

WritesNothing(d) ==
    /\ device'[d].at \notin Writing /\ device'[d].tries = 0
    /\ \/ AlreadyPassing(d) /\ UNCHANGED overlap
       \/ overlap' = (overlap \/ SomeonesPass(d))
    /\ UNCHANGED <<index, file, tombstone, stored>>

FailsAfterWriting(d) ==
    /\ device[d].at \in InPass /\ device'[d].at \notin InPass /\ device'[d].tries = 0
    /\ \/ device[d].at = "tomb" /\ tombstone' = tombstone \cup {device[d].job.record}
                               /\ UNCHANGED <<index, file>>
       \/ device[d].at = "record" /\ file' = WrittenFile(device[d].job)
                                 /\ UNCHANGED <<index, tombstone>>
       \/ device[d].at = "index" /\ index' = WrittenIndex(d)
                                /\ UNCHANGED <<file, tombstone>>
    /\ UNCHANGED <<stored, overlap>>

TakesJob(d) ==
    /\ device[d].at = "work"
    /\ \E r \in Record :
          \/ JobNow(d, "record", [record |-> r, version |-> index[r] + 1, deletes |-> FALSE],
                    device[d].loaded, device[d].tries)
          \/ JobNow(d, "tomb", [record |-> r, version |-> file[r].version + 1, deletes |-> TRUE],
                    device[d].loaded, device[d].tries)
    /\ UNCHANGED <<index, file, tombstone, stored, overlap>>

GoesOnWriting(d) ==
    /\ \/ /\ device[d].at = "tomb"
          /\ JobNow(d, "record", device[d].job, device[d].loaded, device[d].tries)
          /\ tombstone' = tombstone \cup {device[d].job.record}
          /\ UNCHANGED <<index, file, stored>>
       \/ /\ device[d].at = "record"
          /\ JobNow(d, "load", device[d].job, device[d].loaded, device[d].tries)
          /\ file' = WrittenFile(device[d].job)
          /\ UNCHANGED <<index, tombstone, stored>>
       \/ /\ device[d].at = "load"
          /\ JobNow(d, "index", device[d].job, index, device[d].tries + 1)
          /\ UNCHANGED <<index, file, tombstone, stored>>
       \/ /\ device[d].at = "index" /\ device[d].tries < IndexAttempts
          /\ JobNow(d, "load", device[d].job, device[d].loaded, device[d].tries)
          /\ UNCHANGED <<index, file, tombstone, stored>>
       \/ /\ device[d].at = "index"
          /\ JobNow(d, "work", NoJob, NoIndex, 0)
          /\ index' = WrittenIndex(d)
          /\ stored' = [stored EXCEPT ![device[d].job.record] = device[d].job.version]
          /\ UNCHANGED <<file, tombstone>>
    /\ UNCHANGED overlap

\* The steps of a device by what they do to its job.
JobStep(d) == WritesNothing(d) \/ FailsAfterWriting(d) \/ TakesJob(d) \/ GoesOnWriting(d)

\* Each action of a device but the PUT of the lock file is one of those.
LEMMA JobSteps ==
    ASSUME DavTyped, JobsFit, NEW d \in Device, DavMoves(d)
    PROVE  JobStep(d) /\ Others(d) /\ device' \in [Device -> DeviceStates]
<1>0. PICK w : w = device[d]
  OBVIOUS
<1>1. Others(d) /\ device' \in [Device -> DeviceStates]
  BY DEF DavMoves, Becomes, Others
<1>2. Fields(Idle, "idle", NoNonce, FALSE, NoNonce, {}, NoJob, NoIndex, 0)
  BY FieldsOfStates
<1>3. Leaves(d).at \in {"check", "idle"} /\ Leaves(d).tries = 0
  <2>1. Fields(AtCheck(device[d].nonce), "check", device[d].nonce, FALSE, NoNonce, {}, NoJob, NoIndex, 0)
    BY FieldsOfStates
  <2> QED
    BY <1>2, <2>1 DEF Leaves, Fields
<1>4. device[d].at \notin {"load", "index"} => device[d].tries = 0
  BY DEF JobsFit, JobFits
<1>5. {"list", "work", "tomb", "record", "load", "index"} = InPass
  BY DEF InPass
<1>6. CASE LoadLock(d) /\ \E n \in FreshNonces : Becomes(d, Wants(n))
  <2>1. device'[d].at = "put" /\ device'[d].tries = 0
    <3>1. PICK n : Becomes(d, Wants(n))
      BY <1>6
    <3>2. Fields(Wants(n), "put", n, FALSE, lockFile.nonce, {}, NoJob, NoIndex, 0)
      BY FieldsOfStates
    <3> QED
      BY <3>1, <3>2 DEF Becomes, Fields
  <2> QED
    BY <1>1, <1>6, <2>1, <1>5 DEF LoadLock, JobStep, WritesNothing, AlreadyPassing, Writing
<1>7. CASE (LoadLockFails(d) \/ PutLockFails(d) \/ ReadBackFails(d)) /\ Becomes(d, Enters(d, FALSE))
  <2>1. device[d].at \in {"idle", "put", "confirm"}
    BY <1>7 DEF LoadLockFails, PutLockFails, ReadBackFails
  <2>2. device'[d].at = "list" /\ device'[d].tries = 0
    <3>1. Fields(Enters(d, FALSE), "list", w.nonce, FALSE, w.saw, w.rivals, w.job, w.loaded, w.tries)
      BY <1>0, <1>7, FieldsOfStates, LabelsListed
    <3> QED
      BY <1>0, <1>4, <1>7, <2>1, <3>1 DEF Becomes, Fields
  <2> QED
    BY <1>1, <1>7, <2>2 DEF LoadLockFails, PutLockFails, ReadBackFails, BeginPass, JobStep, WritesNothing, Writing
<1>8. CASE ReadBack(d) /\ HoldsLock(d) /\ Becomes(d, Enters(d, TRUE))
  <2>1. device[d].at = "confirm"
    BY <1>8 DEF ReadBack
  <2>2. device'[d].at = "list" /\ device'[d].tries = 0
    <3>1. Fields(Enters(d, TRUE), "list", w.nonce, TRUE, w.saw, w.rivals, w.job, w.loaded, w.tries)
      BY <1>0, <1>8, FieldsOfStates, LabelsListed
    <3> QED
      BY <1>0, <1>4, <1>8, <2>1, <3>1 DEF Becomes, Fields
  <2> QED
    BY <1>1, <1>8, <2>2 DEF ReadBack, BeginPass, JobStep, WritesNothing, Writing
<1>9. CASE ((ReadBack(d) /\ ~HoldsLock(d)) \/ CheckLock(d) \/ ReleaseLock(d) \/ Abandon(d)) /\ Becomes(d, Idle)
  <2>1. device'[d].at = "idle" /\ device'[d].tries = 0
    BY <1>2, <1>9 DEF Becomes, Fields
  <2> QED
    BY <1>1, <1>5, <1>9, <2>1
    DEF ReadBack, CheckLock, ReleaseLock, Abandon, JobStep, WritesNothing, AlreadyPassing, Writing
<1>10. CASE List(d) /\ \E todo \in SUBSET Record : Becomes(d, HasListed(d, ListedNow, todo))
  <2>1. device[d].at = "list"
    BY <1>10 DEF List
  <2>2. device'[d].at = "work" /\ device'[d].tries = 0
    <3>1. PICK todo : Becomes(d, HasListed(d, ListedNow, todo))
      BY <1>10
    <3>2. Fields(HasListed(d, ListedNow, todo), "work", w.nonce, w.token, w.saw, w.rivals, w.job, w.loaded, w.tries)
      BY <1>0, FieldsOfStates
    <3> QED
      BY <1>0, <1>4, <2>1, <3>1, <3>2 DEF Becomes, Fields
  <2> QED
    BY <1>1, <1>5, <1>10, <2>1, <2>2 DEF List, JobStep, WritesNothing, AlreadyPassing, Writing
<1>11. CASE \E r \in Record : \E todo \in SUBSET Record :
               \/ /\ Upsert(d, r)
                  /\ Becomes(d, HasJob(d, "record", todo, [record |-> r, version |-> index[r] + 1, deletes |-> FALSE]))
               \/ /\ Tombstone(d, r)
                  /\ Becomes(d, HasJob(d, "tomb", todo, [record |-> r, version |-> file[r].version + 1, deletes |-> TRUE]))
  <2>1. /\ device[d].at = "work"
        /\ UNCHANGED <<index, file, tombstone, stored, overlap>>
    BY <1>11 DEF Upsert, Tombstone
  <2>2. \E r \in Record :
            \/ JobNow(d, "record", [record |-> r, version |-> index[r] + 1, deletes |-> FALSE],
                      device[d].loaded, device[d].tries)
            \/ JobNow(d, "tomb", [record |-> r, version |-> file[r].version + 1, deletes |-> TRUE],
                      device[d].loaded, device[d].tries)
    <3>1. PICK r \in Record :
              \E label, job, todo :
                 /\ Becomes(d, HasJob(d, label, todo, job))
                 /\ \/ label = "record" /\ job = [record |-> r, version |-> index[r] + 1, deletes |-> FALSE]
                    \/ label = "tomb" /\ job = [record |-> r, version |-> file[r].version + 1, deletes |-> TRUE]
      BY <1>11
    <3>2. PICK label, job, todo :
              /\ Becomes(d, HasJob(d, label, todo, job))
              /\ \/ label = "record" /\ job = [record |-> r, version |-> index[r] + 1, deletes |-> FALSE]
                 \/ label = "tomb" /\ job = [record |-> r, version |-> file[r].version + 1, deletes |-> TRUE]
      BY <3>1
    <3>3. Fields(HasJob(d, label, todo, job), label, w.nonce, w.token, w.saw, w.rivals, job, w.loaded, w.tries)
      BY <1>0, FieldsOfStates
    <3>4. JobNow(d, label, job, device[d].loaded, device[d].tries)
      BY <1>0, <3>2, <3>3 DEF Becomes, Fields, JobNow
    <3> QED
      BY <3>2, <3>4
  <2> QED
    BY <1>1, <2>1, <2>2 DEF JobStep, TakesJob
<1>12. CASE PutTombstone(d) /\ Becomes(d, Advances(d, "record"))
  <2>1. JobNow(d, "record", device[d].job, device[d].loaded, device[d].tries)
    <3>1. Fields(Advances(d, "record"), "record", w.nonce, w.token, w.saw, w.rivals, w.job, w.loaded, w.tries)
      BY <1>0, <1>12, FieldsOfStates, LabelsListed
    <3> QED
      BY <1>0, <1>12, <3>1 DEF Becomes, Fields, JobNow
  <2> QED
    BY <1>1, <1>12, <2>1 DEF PutTombstone, JobStep, GoesOnWriting
<1>13. CASE PutRecord(d) /\ Becomes(d, Advances(d, "load"))
  <2>1. JobNow(d, "load", device[d].job, device[d].loaded, device[d].tries)
    <3>1. Fields(Advances(d, "load"), "load", w.nonce, w.token, w.saw, w.rivals, w.job, w.loaded, w.tries)
      BY <1>0, <1>13, FieldsOfStates, LabelsListed
    <3> QED
      BY <1>0, <1>13, <3>1 DEF Becomes, Fields, JobNow
  <2> QED
    BY <1>1, <1>13, <2>1 DEF PutRecord, JobStep, GoesOnWriting
<1>14. CASE LoadIndex(d) /\ Becomes(d, HasLoaded(d))
  <2>1. JobNow(d, "index", device[d].job, index, device[d].tries + 1)
    <3>1. Fields(HasLoaded(d), "index", w.nonce, w.token, w.saw, w.rivals, w.job, index, w.tries + 1)
      BY <1>0, <1>14, FieldsOfStates, LabelsListed
    <3> QED
      BY <1>0, <1>14, <3>1 DEF Becomes, Fields, JobNow
  <2> QED
    BY <1>1, <1>14, <2>1 DEF LoadIndex, JobStep, GoesOnWriting
<1>15. CASE PutIndex(d) /\ Becomes(d, HasStored(d))
  <2>1. JobNow(d, "work", NoJob, NoIndex, 0)
    <3>1. Fields(HasStored(d), "work", w.nonce, w.token, w.saw, w.rivals, NoJob, NoIndex, 0)
      BY <1>0, <1>15, FieldsOfStates, LabelsListed
    <3> QED
      BY <1>0, <1>15, <3>1 DEF Becomes, Fields, JobNow
  <2> QED
    BY <1>1, <1>15, <2>1 DEF PutIndex, JobStep, GoesOnWriting
<1>16. CASE PutIndexRejected(d) /\ device[d].tries < IndexAttempts /\ Becomes(d, Advances(d, "load"))
  <2>1. JobNow(d, "load", device[d].job, device[d].loaded, device[d].tries)
    <3>1. Fields(Advances(d, "load"), "load", w.nonce, w.token, w.saw, w.rivals, w.job, w.loaded, w.tries)
      BY <1>0, <1>16, FieldsOfStates, LabelsListed
    <3> QED
      BY <1>0, <1>16, <3>1 DEF Becomes, Fields, JobNow
  <2> QED
    BY <1>1, <1>16, <2>1 DEF PutIndexRejected, JobStep, GoesOnWriting
<1>17. CASE /\ \/ PutIndexRejected(d) \/ RequestFails(d) \/ Finish(d)
               \/ \E r \in Record : UpsertRefused(d, r)
            /\ Becomes(d, Leaves(d))
  <2>1. device'[d].at \in {"check", "idle"} /\ device'[d].tries = 0
    BY <1>3, <1>17 DEF Becomes, Fields
  <2>2. device'[d].at \notin InPass /\ device'[d].at \notin Writing
    BY <1>5, <2>1 DEF Writing
  <2>3. CASE RequestFails(d)
    BY <1>1, <2>1, <2>2, <2>3 DEF RequestFails, JobStep, WritesNothing, AlreadyPassing, FailsAfterWriting
  <2>4. CASE PutIndexRejected(d) \/ Finish(d) \/ \E r \in Record : UpsertRefused(d, r)
    <3>1. UNCHANGED <<index, file, tombstone, stored, overlap>>
      BY <2>4 DEF PutIndexRejected, Finish, UpsertRefused
    <3> QED
      BY <1>1, <2>1, <2>2, <3>1 DEF JobStep, WritesNothing, AlreadyPassing
  <2> QED
    BY <1>17, <2>3, <2>4
<1>18. CASE CheckLock(d) /\ HoldsLock(d) /\ Becomes(d, Advances(d, "release"))
  <2>1. device[d].at = "check"
    BY <1>18 DEF CheckLock
  <2>2. device'[d].at = "release" /\ device'[d].tries = 0
    <3>1. Fields(Advances(d, "release"), "release", w.nonce, w.token, w.saw, w.rivals, w.job, w.loaded, w.tries)
      BY <1>0, <1>18, FieldsOfStates, LabelsListed
    <3> QED
      BY <1>0, <1>4, <1>18, <2>1, <3>1 DEF Becomes, Fields
  <2> QED
    BY <1>1, <1>5, <1>18, <2>2 DEF CheckLock, JobStep, WritesNothing, AlreadyPassing, Writing
<1> QED
  BY <1>6, <1>7, <1>8, <1>9, <1>10, <1>11, <1>12, <1>13, <1>14, <1>15, <1>16, <1>17, <1>18 DEF DavMoves

-----------------------------------------------------------------------------
\* What the lock is about, in the record of device d after a step.
LockNow(d, at, nonce, token, saw, rivals) ==
    /\ device'[d].at = at /\ device'[d].nonce = nonce /\ device'[d].token = token
    /\ device'[d].saw = saw /\ device'[d].rivals = rivals

TakesNonce(d) ==
    /\ device[d].at = "idle" /\ LockIsFree
    /\ \E n \in FreshNonces : LockNow(d, "put", n, FALSE, lockFile.nonce, {}) /\ expired' = expired \ {n}
    /\ UNCHANGED <<lockFile, overlap, excuse>>

PassesUnlocked(d) ==
    /\ device[d].at \in {"idle", "put", "confirm"}
    /\ LockNow(d, "list", device[d].nonce, FALSE, device[d].saw, device[d].rivals)
    /\ \/ UNCHANGED lockFile
       \/ device[d].at = "put" /\ lockFile' = [nonce |-> device[d].nonce, released |-> FALSE]
    /\ UNCHANGED expired
    /\ excuse'

PassesLocked(d) ==
    /\ device[d].at = "confirm" /\ HoldsLock(d)
    /\ LockNow(d, "list", device[d].nonce, TRUE, device[d].saw, device[d].rivals)
    /\ UNCHANGED <<lockFile, expired, excuse>>
    /\ overlap' = (overlap \/ SomeonesPass(d))

GoesIdle(d) ==
    /\ device'[d] = Idle
    /\ UNCHANGED <<lockFile, expired, overlap, excuse>>

GoesToCheck(d) ==
    /\ device[d].at \in InPass
    /\ LockNow(d, "check", device[d].nonce, FALSE, NoNonce, {})
    /\ UNCHANGED <<lockFile, expired, overlap, excuse>>

HoldsOn(d) ==
    /\ \/ device[d].at \in InPass /\ device'[d].at \in InPass
       \/ device[d].at = "check" /\ device'[d].at = "release"
    /\ LockNow(d, device'[d].at, device[d].nonce, device[d].token, device[d].saw, device[d].rivals)
    /\ UNCHANGED <<lockFile, expired, overlap, excuse>>

LetsGo(d) ==
    /\ device[d].at = "release"
    /\ device'[d] = Idle
    /\ lockFile' = [nonce |-> device[d].nonce, released |-> TRUE]
    /\ excuse' = (excuse \/ (BlocksOthers(lockFile) /\ lockFile.nonce # device[d].nonce))
    /\ UNCHANGED <<expired, overlap>>

\* The steps of a device by what they do to its claim to the lock.
LockStep(d) ==
    \/ TakesNonce(d) \/ PassesUnlocked(d) \/ PassesLocked(d) \/ GoesIdle(d)
    \/ GoesToCheck(d) \/ HoldsOn(d) \/ LetsGo(d)

\* Each action of a device but the PUT of the lock file is one of those.
LEMMA LockSteps == ASSUME DavTyped, NEW d \in Device, DavMoves(d) PROVE LockStep(d)
<1>0. PICK w : w = device[d]
  OBVIOUS
<1>1. {"list", "work", "tomb", "record", "load", "index"} = InPass
  BY DEF InPass
<1>2. CASE LoadLock(d) /\ \E n \in FreshNonces : Becomes(d, Wants(n)) /\ expired' = expired \ {n}
  <2>1. PICK n \in FreshNonces : Becomes(d, Wants(n)) /\ expired' = expired \ {n}
    BY <1>2
  <2>2. Fields(Wants(n), "put", n, FALSE, lockFile.nonce, {}, NoJob, NoIndex, 0)
    BY FieldsOfStates
  <2>3. LockNow(d, "put", n, FALSE, lockFile.nonce, {})
    BY <2>1, <2>2 DEF Becomes, Fields, LockNow
  <2>4. device[d].at = "idle" /\ LockIsFree /\ UNCHANGED <<lockFile, overlap, excuse>>
    BY <1>2 DEF LoadLock
  <2> QED
    BY <2>1, <2>3, <2>4 DEF LockStep, TakesNonce
<1>3. CASE (LoadLockFails(d) \/ PutLockFails(d) \/ ReadBackFails(d)) /\ Becomes(d, Enters(d, FALSE))
  <2>1. Fields(Enters(d, FALSE), "list", w.nonce, FALSE, w.saw, w.rivals, w.job, w.loaded, w.tries)
    BY <1>0, FieldsOfStates, LabelsListed
  <2>2. LockNow(d, "list", device[d].nonce, FALSE, device[d].saw, device[d].rivals)
    BY <1>0, <1>3, <2>1 DEF Becomes, Fields, LockNow
  <2>3. device'[d].at = "list"
    BY <2>2 DEF LockNow
  <2> QED
    BY <1>1, <1>3, <2>2, <2>3 DEF LoadLockFails, PutLockFails, ReadBackFails, BeginPass, LockStep, PassesUnlocked
<1>4. CASE ReadBack(d) /\ HoldsLock(d) /\ Becomes(d, Enters(d, TRUE))
  <2>1. Fields(Enters(d, TRUE), "list", w.nonce, TRUE, w.saw, w.rivals, w.job, w.loaded, w.tries)
    BY <1>0, FieldsOfStates, LabelsListed
  <2>2. LockNow(d, "list", device[d].nonce, TRUE, device[d].saw, device[d].rivals)
    BY <1>0, <1>4, <2>1 DEF Becomes, Fields, LockNow
  <2>3. device'[d].at = "list"
    BY <2>2 DEF LockNow
  <2> QED
    <3>1. device[d].at = "confirm" /\ UNCHANGED <<lockFile, expired>> /\ BeginPass(d, TRUE)
      BY <1>4 DEF ReadBack
    <3>2. excuse' = excuse
      BY <3>1 DEF BeginPass, DavTyped
    <3> QED
      BY <1>4, <2>2, <3>1, <3>2 DEF BeginPass, LockStep, PassesLocked
<1>5. CASE ((ReadBack(d) /\ ~HoldsLock(d)) \/ CheckLock(d) \/ ReleaseLock(d) \/ Abandon(d)) /\ Becomes(d, Idle)
  <2>1. device'[d] = Idle
    BY <1>5 DEF Becomes
  <2>2. CASE ReleaseLock(d)
    BY <2>1, <2>2 DEF ReleaseLock, Released, LockStep, LetsGo
  <2>3. CASE (ReadBack(d) /\ ~HoldsLock(d)) \/ CheckLock(d) \/ Abandon(d)
    BY <2>1, <2>3 DEF ReadBack, CheckLock, Abandon, LockStep, GoesIdle
  <2> QED
    BY <1>5, <2>2, <2>3
<1>6. CASE List(d) /\ \E todo \in SUBSET Record : Becomes(d, HasListed(d, ListedNow, todo))
  <2>1. PICK todo : Becomes(d, HasListed(d, ListedNow, todo))
    BY <1>6
  <2>2. Fields(HasListed(d, ListedNow, todo), "work", w.nonce, w.token, w.saw, w.rivals, w.job, w.loaded, w.tries)
    BY <1>0, FieldsOfStates
  <2>3. LockNow(d, device'[d].at, device[d].nonce, device[d].token, device[d].saw, device[d].rivals) /\ device'[d].at = "work"
    BY <1>0, <2>1, <2>2 DEF Becomes, Fields, LockNow
  <2> QED
    <3>1. device[d].at = "list" /\ UNCHANGED <<lockFile, expired, overlap, excuse>>
      BY <1>6 DEF List
    <3> QED
      BY <1>1, <2>3, <3>1 DEF LockStep, HoldsOn
<1>7. CASE \E r \in Record : \E todo \in SUBSET Record :
               \/ /\ Upsert(d, r)
                  /\ Becomes(d, HasJob(d, "record", todo, [record |-> r, version |-> index[r] + 1, deletes |-> FALSE]))
               \/ /\ Tombstone(d, r)
                  /\ Becomes(d, HasJob(d, "tomb", todo, [record |-> r, version |-> file[r].version + 1, deletes |-> TRUE]))
  <2>1. \E label \in {"record", "tomb"} : \E todo, job : Becomes(d, HasJob(d, label, todo, job))
    BY <1>7
  <2>2. PICK label, todo, job : label \in {"record", "tomb"} /\ Becomes(d, HasJob(d, label, todo, job))
    BY <2>1
  <2>3. Fields(HasJob(d, label, todo, job), label, w.nonce, w.token, w.saw, w.rivals, job, w.loaded, w.tries)
    BY <1>0, FieldsOfStates
  <2>4. LockNow(d, device'[d].at, device[d].nonce, device[d].token, device[d].saw, device[d].rivals) /\ device'[d].at \in InPass
    BY <1>0, <1>1, <2>2, <2>3 DEF Becomes, Fields, LockNow
  <2>5. device[d].at \in InPass /\ UNCHANGED <<lockFile, expired, overlap, excuse>>
    BY <1>1, <1>7 DEF Upsert, Tombstone
  <2> QED
    BY <2>4, <2>5 DEF LockStep, HoldsOn
<1>8. CASE PutTombstone(d) /\ Becomes(d, Advances(d, "record"))
  <2>1. Fields(Advances(d, "record"), "record", w.nonce, w.token, w.saw, w.rivals, w.job, w.loaded, w.tries)
    BY <1>0, FieldsOfStates, LabelsListed
  <2>2. LockNow(d, "record", device[d].nonce, device[d].token, device[d].saw, device[d].rivals)
    BY <1>0, <1>8, <2>1 DEF Becomes, Fields, LockNow
  <2>3. device'[d].at = "record"
    BY <2>2 DEF LockNow
  <2> QED
    BY <1>1, <1>8, <2>2, <2>3 DEF PutTombstone, LockStep, HoldsOn
<1>9. CASE PutRecord(d) /\ Becomes(d, Advances(d, "load"))
  <2>1. Fields(Advances(d, "load"), "load", w.nonce, w.token, w.saw, w.rivals, w.job, w.loaded, w.tries)
    BY <1>0, FieldsOfStates, LabelsListed
  <2>2. LockNow(d, "load", device[d].nonce, device[d].token, device[d].saw, device[d].rivals)
    BY <1>0, <1>9, <2>1 DEF Becomes, Fields, LockNow
  <2>3. device'[d].at = "load"
    BY <2>2 DEF LockNow
  <2> QED
    BY <1>1, <1>9, <2>2, <2>3 DEF PutRecord, LockStep, HoldsOn
<1>10. CASE LoadIndex(d) /\ Becomes(d, HasLoaded(d))
  <2>1. Fields(HasLoaded(d), "index", w.nonce, w.token, w.saw, w.rivals, w.job, index, w.tries + 1)
    BY <1>0, FieldsOfStates, LabelsListed
  <2>2. LockNow(d, "index", device[d].nonce, device[d].token, device[d].saw, device[d].rivals)
    BY <1>0, <1>10, <2>1 DEF Becomes, Fields, LockNow
  <2>3. device'[d].at = "index"
    BY <2>2 DEF LockNow
  <2> QED
    BY <1>1, <1>10, <2>2, <2>3 DEF LoadIndex, LockStep, HoldsOn
<1>11. CASE PutIndex(d) /\ Becomes(d, HasStored(d))
  <2>1. Fields(HasStored(d), "work", w.nonce, w.token, w.saw, w.rivals, NoJob, NoIndex, 0)
    BY <1>0, FieldsOfStates, LabelsListed
  <2>2. LockNow(d, "work", device[d].nonce, device[d].token, device[d].saw, device[d].rivals)
    BY <1>0, <1>11, <2>1 DEF Becomes, Fields, LockNow
  <2>3. device'[d].at = "work"
    BY <2>2 DEF LockNow
  <2> QED
    BY <1>1, <1>11, <2>2, <2>3 DEF PutIndex, LockStep, HoldsOn
<1>12. CASE PutIndexRejected(d) /\ device[d].tries < IndexAttempts /\ Becomes(d, Advances(d, "load"))
  <2>1. Fields(Advances(d, "load"), "load", w.nonce, w.token, w.saw, w.rivals, w.job, w.loaded, w.tries)
    BY <1>0, FieldsOfStates, LabelsListed
  <2>2. LockNow(d, "load", device[d].nonce, device[d].token, device[d].saw, device[d].rivals)
    BY <1>0, <1>12, <2>1 DEF Becomes, Fields, LockNow
  <2>3. device'[d].at = "load"
    BY <2>2 DEF LockNow
  <2> QED
    BY <1>1, <1>12, <2>2, <2>3 DEF PutIndexRejected, LockStep, HoldsOn
<1>13. CASE /\ \/ PutIndexRejected(d) \/ RequestFails(d) \/ Finish(d)
               \/ \E r \in Record : UpsertRefused(d, r)
            /\ Becomes(d, Leaves(d))
  <2>1. device[d].at \in InPass /\ UNCHANGED <<lockFile, expired, overlap, excuse>>
    BY <1>1, <1>13 DEF PutIndexRejected, RequestFails, Finish, UpsertRefused
  <2>2. CASE device[d].token
    <3>1. Fields(AtCheck(device[d].nonce), "check", device[d].nonce, FALSE, NoNonce, {}, NoJob, NoIndex, 0)
      BY FieldsOfStates
    <3>2. LockNow(d, "check", device[d].nonce, FALSE, NoNonce, {})
      BY <1>13, <2>2, <3>1 DEF Leaves, Becomes, Fields, LockNow
    <3> QED
      BY <2>1, <3>2 DEF LockStep, GoesToCheck
  <2>3. CASE ~device[d].token
    BY <1>13, <2>1, <2>3 DEF Leaves, Becomes, LockStep, GoesIdle
  <2> QED
    BY <2>2, <2>3
<1>14. CASE CheckLock(d) /\ HoldsLock(d) /\ Becomes(d, Advances(d, "release"))
  <2>1. Fields(Advances(d, "release"), "release", w.nonce, w.token, w.saw, w.rivals, w.job, w.loaded, w.tries)
    BY <1>0, FieldsOfStates, LabelsListed
  <2>2. LockNow(d, "release", device[d].nonce, device[d].token, device[d].saw, device[d].rivals)
    BY <1>0, <1>14, <2>1 DEF Becomes, Fields, LockNow
  <2>3. device'[d].at = "release"
    BY <2>2 DEF LockNow
  <2> QED
    BY <1>1, <1>14, <2>2, <2>3 DEF CheckLock, LockStep, HoldsOn
<1> QED
  BY <1>2, <1>3, <1>4, <1>5, <1>6, <1>7, <1>8, <1>9, <1>10, <1>11, <1>12, <1>13, <1>14 DEF DavMoves

-----------------------------------------------------------------------------
\* What a job that writes has to write.
LEMMA JobTypes ==
    ASSUME DavTyped, JobsFit, NEW d \in Device, device[d].at \in Writing
    PROVE  /\ device[d].job.record \in Record
           /\ device[d].job.version \in Nat /\ device[d].job.version > 0
           /\ device[d].job.deletes \in BOOLEAN
           /\ device[d].loaded \in [Record -> Nat]
<1>1. device[d].job \in Jobs /\ device[d].loaded \in [Record -> Nat]
  BY DEF DavTyped, DeviceStates
<1>2. device[d].job.record \in Record /\ device[d].job.version > 0
  BY DEF JobsFit, JobFits
<1> QED
  BY <1>1, <1>2 DEF Jobs

\* What is written is of the type of the store.
LEMMA JobStepTypes ==
    ASSUME DavTyped, JobsFit, NEW d \in Device, JobStep(d)
    PROVE  /\ index' \in [Record -> Nat] /\ stored' \in [Record -> Nat]
           /\ file' \in [Record -> Files] /\ tombstone' \in SUBSET Record /\ overlap' \in BOOLEAN
<1>1. CASE WritesNothing(d) \/ TakesJob(d)
  BY <1>1 DEF DavTyped, WritesNothing, TakesJob
<1>2. CASE FailsAfterWriting(d) \/ GoesOnWriting(d)
  <2>1. stored' \in [Record -> Nat]
    BY <1>2, JobTypes DEF DavTyped, FailsAfterWriting, GoesOnWriting, Writing
  <2>2. index' \in [Record -> Nat]
    BY <1>2, JobTypes DEF DavTyped, FailsAfterWriting, GoesOnWriting, Writing, WrittenIndex
  <2>3. file' \in [Record -> Files]
    <3>1. CASE UNCHANGED file
      BY <3>1 DEF DavTyped
    <3>2. CASE device[d].at = "record" /\ file' = WrittenFile(device[d].job)
      BY <3>2, JobTypes DEF DavTyped, WrittenFile, Files, Writing
    <3> QED
      BY <1>2, <3>1, <3>2 DEF FailsAfterWriting, GoesOnWriting
  <2>4. tombstone' \in SUBSET Record
    BY <1>2, JobTypes DEF DavTyped, FailsAfterWriting, GoesOnWriting, Writing
  <2>5. overlap' \in BOOLEAN
    BY <1>2 DEF DavTyped, FailsAfterWriting, GoesOnWriting
  <2> QED
    BY <2>1, <2>2, <2>3, <2>4, <2>5
<1> QED
  BY <1>1, <1>2 DEF JobStep

\* The types of the lock file and its neighbours.
LEMMA LockStepTypes ==
    ASSUME DavTyped, NEW d \in Device, LockStep(d)
    PROVE  lockFile' \in Locks /\ expired' \in SUBSET Nonce /\ excuse' \in BOOLEAN
<1>1. device[d].nonce \in Nonce \cup {NoNonce}
  BY DEF DavTyped, DeviceStates
<1>2. lockFile' \in Locks
  <2>1. \/ UNCHANGED lockFile
        \/ \E released \in BOOLEAN : lockFile' = [nonce |-> device[d].nonce, released |-> released]
    BY DEF LockStep, TakesNonce, PassesUnlocked, PassesLocked, GoesIdle, GoesToCheck, HoldsOn, LetsGo
  <2> QED
    BY <1>1, <2>1 DEF DavTyped, Locks
<1>3. expired' \in SUBSET Nonce
  BY DEF DavTyped, LockStep, TakesNonce, PassesUnlocked, PassesLocked, GoesIdle, GoesToCheck, HoldsOn, LetsGo
<1>4. excuse' \in BOOLEAN
  <2>1. excuse \in BOOLEAN
    BY DEF DavTyped
  <2>2. CASE LetsGo(d)
    BY <2>2 DEF LetsGo
  <2>3. CASE PassesUnlocked(d)
    BY <2>3 DEF PassesUnlocked
  <2>4. CASE TakesNonce(d) \/ PassesLocked(d) \/ GoesIdle(d) \/ GoesToCheck(d) \/ HoldsOn(d)
    BY <2>1, <2>4 DEF TakesNonce, PassesLocked, GoesIdle, GoesToCheck, HoldsOn
  <2> QED
    BY <2>2, <2>3, <2>4 DEF LockStep
<1> QED
  BY <1>2, <1>3, <1>4

\* Trouble is counted up to its bound.
LEMMA TroubleBounded == ASSUME DavTyped, UNCHANGED trouble \/ Trouble PROVE trouble' \in 0..MaxTrouble
BY DavAssumption DEF DavTyped, Trouble

\* The types are kept by the steps of a device.
LEMMA StepTypes ==
    ASSUME DavTyped, JobsFit, NEW d \in Device,
           AcquireStep(d) \/ PassStep(d) \/ ReleaseStep(d) \/ Abandon(d)
    PROVE  DavTyped'
<1>1. trouble' \in 0..MaxTrouble
  <2>1. UNCHANGED trouble \/ Trouble
    BY DEF AcquireStep, PassStep, ReleaseStep, LoadLock, LoadLockFails, PutLock, PutLockFails, ReadBack, ReadBackFails,
       List, Upsert, UpsertRefused, Tombstone, PutTombstone, PutRecord, LoadIndex, PutIndex, PutIndexRejected,
       RequestFails, Finish, CheckLock, ReleaseLock, Abandon
  <2> QED
    BY <2>1, TroubleBounded
<1>2. CASE PutLock(d)
  <2>1. device' \in [Device -> DeviceStates]
    BY <1>2, PutMoves
  <2>2. device[d].nonce \in Nonce \cup {NoNonce}
    BY DEF DavTyped, DeviceStates
  <2>3. lockFile' \in Locks
    BY <1>2, <2>2 DEF PutLock, WriteLock, Locks
  <2>4. excuse' \in BOOLEAN
    BY <1>2 DEF PutLock, WriteLock
  <2>5. UNCHANGED <<expired, index, file, tombstone, stored, overlap>>
    BY <1>2 DEF PutLock
  <2> QED
    BY <1>1, <2>1, <2>3, <2>4, <2>5 DEF DavTyped
<1>3. CASE ~PutLock(d)
  <2>1. DavMoves(d)
    BY <1>3, StepMoves
  <2> QED
    BY <1>1, <2>1, JobSteps, LockSteps, JobStepTypes, LockStepTypes DEF DavTyped
<1> QED
  BY <1>2, <1>3

-----------------------------------------------------------------------------
\* A record file that is there stays there, and so does a tombstone.
LEMMA FilesStay ==
    ASSUME DavTyped, JobsFit, NEW d \in Device, JobStep(d)
    PROVE  /\ tombstone \subseteq tombstone'
           /\ \A r \in Record : file[r].version > 0 => file'[r].version > 0
<1>1. tombstone \subseteq tombstone'
  BY DEF JobStep, WritesNothing, FailsAfterWriting, TakesJob, GoesOnWriting
<1>2. CASE UNCHANGED file
  BY <1>1, <1>2
<1>3. CASE device[d].at = "record" /\ file' = WrittenFile(device[d].job)
  <2>1. device[d].job.record \in Record /\ device[d].job.version > 0
    BY <1>3, JobTypes DEF Writing
  <2> QED
    BY <1>1, <1>3, <2>1 DEF WrittenFile, DavTyped
<1> QED
  BY <1>2, <1>3 DEF JobStep, WritesNothing, FailsAfterWriting, TakesJob, GoesOnWriting

\* Whatever is written is written in the order that IndexedFilesExist needs.
LEMMA FilesKept ==
    ASSUME DavTyped, JobsFit, IndexedFilesExist, NEW d \in Device, JobStep(d), Others(d)
    PROVE  JobsFit' /\ IndexedFilesExist'
<1>1. ASSUME NEW e \in Device, e # d PROVE JobFits(device'[e], file', tombstone')
  <2>1. device'[e] = device[e] /\ JobFits(device[e], file, tombstone)
    BY <1>1 DEF Others, JobsFit
  <2>2. \A r \in Record : device[e].loaded[r] > 0 /\ file[r].version > 0 => file'[r].version > 0
    BY FilesStay
  <2> QED
    BY <2>1, <2>2, FilesStay DEF JobFits, Writing
<1>2. JobFits(device[d], file, tombstone)
  BY DEF JobsFit
<1>3. CASE WritesNothing(d) \/ FailsAfterWriting(d)
  <2>1. JobFits(device'[d], file', tombstone')
    BY <1>3 DEF WritesNothing, FailsAfterWriting, JobFits, Writing, InPass
  <2>2. JobsFit'
    BY <1>1, <2>1 DEF JobsFit
  <2>3. CASE WritesNothing(d)
    BY <2>2, <2>3 DEF WritesNothing, IndexedFilesExist
  <2>4. CASE device[d].at = "tomb" /\ UNCHANGED <<index, file>>
    BY <2>2, <2>4, FilesStay DEF IndexedFilesExist
  <2>5. CASE device[d].at = "record" /\ file' = WrittenFile(device[d].job) /\ UNCHANGED <<index, tombstone>>
    <3>1. device[d].job.record \in Record /\ device[d].job.version > 0 /\ device[d].job.deletes \in BOOLEAN
      BY <2>5, JobTypes DEF Writing
    <3>2. device[d].job.deletes => device[d].job.record \in tombstone
      BY <1>2, <2>5 DEF JobFits
    <3> QED
      BY <2>2, <2>5, <3>1, <3>2 DEF IndexedFilesExist, WrittenFile, DavTyped
  <2>6. CASE device[d].at = "index" /\ index' = WrittenIndex(d) /\ UNCHANGED <<file, tombstone>>
    <3>1. device[d].job.record \in Record /\ device[d].loaded \in [Record -> Nat]
      BY <2>6, JobTypes DEF Writing
    <3>2. file[device[d].job.record].version > 0 /\ \A r \in Record : device[d].loaded[r] > 0 => file[r].version > 0
      BY <1>2, <2>6 DEF JobFits
    <3> QED
      BY <2>2, <2>6, <3>1, <3>2 DEF IndexedFilesExist, WrittenIndex
  <2> QED
    BY <1>3, <2>3, <2>4, <2>5, <2>6 DEF FailsAfterWriting
<1>4. CASE TakesJob(d)
  <2>1. device'[d].at \in {"record", "tomb"} /\ device'[d].tries = 0
    BY <1>2, <1>4 DEF TakesJob, JobNow, JobFits
  <2>2. PICK r \in Record :
            \/ device'[d].job = [record |-> r, version |-> index[r] + 1, deletes |-> FALSE]
            \/ device'[d].job = [record |-> r, version |-> file[r].version + 1, deletes |-> TRUE] /\ device'[d].at = "tomb"
    BY <1>4 DEF TakesJob, JobNow
  <2>3. index[r] + 1 > 0 /\ file[r].version + 1 > 0
    BY DEF DavTyped, Files
  <2>4. JobFits(device'[d], file', tombstone')
    BY <2>1, <2>2, <2>3 DEF JobFits, Writing
  <2>5. UNCHANGED <<index, file, tombstone>>
    BY <1>4 DEF TakesJob
  <2> QED
    BY <1>1, <2>4, <2>5 DEF JobsFit, IndexedFilesExist
<1>5. CASE GoesOnWriting(d)
  <2>1. device[d].at \in Writing
    BY <1>5 DEF GoesOnWriting, Writing
  <2>2. /\ device[d].job.record \in Record /\ device[d].job.version > 0 /\ device[d].job.deletes \in BOOLEAN
        /\ device[d].loaded \in [Record -> Nat]
    BY <2>1, JobTypes
  <2>3. CASE /\ device[d].at = "tomb"
             /\ JobNow(d, "record", device[d].job, device[d].loaded, device[d].tries)
             /\ tombstone' = tombstone \cup {device[d].job.record}
             /\ UNCHANGED <<index, file, stored>>
    <3>1. JobFits(device'[d], file', tombstone')
      BY <1>2, <2>2, <2>3 DEF JobFits, JobNow, Writing
    <3> QED
      BY <1>1, <2>3, <3>1, FilesStay DEF JobsFit, IndexedFilesExist
  <2>4. CASE /\ device[d].at = "record"
             /\ JobNow(d, "load", device[d].job, device[d].loaded, device[d].tries)
             /\ file' = WrittenFile(device[d].job)
             /\ UNCHANGED <<index, tombstone, stored>>
    <3>1. JobFits(device'[d], file', tombstone')
      BY <1>2, <2>2, <2>4 DEF JobFits, JobNow, Writing, WrittenFile, DavTyped, IndexAttempts
    <3>2. device[d].job.deletes => device[d].job.record \in tombstone
      BY <1>2, <2>4 DEF JobFits
    <3> QED
      BY <1>1, <2>2, <2>4, <3>1, <3>2 DEF JobsFit, IndexedFilesExist, WrittenFile, DavTyped
  <2>5. CASE /\ device[d].at = "load"
             /\ JobNow(d, "index", device[d].job, index, device[d].tries + 1)
             /\ UNCHANGED <<index, file, tombstone, stored>>
    <3>1. JobFits(device'[d], file', tombstone')
      BY <1>2, <2>2, <2>5 DEF JobFits, JobNow, Writing, IndexedFilesExist
    <3> QED
      BY <1>1, <2>5, <3>1 DEF JobsFit, IndexedFilesExist
  <2>6. CASE /\ device[d].at = "index" /\ device[d].tries < IndexAttempts
             /\ JobNow(d, "load", device[d].job, device[d].loaded, device[d].tries)
             /\ UNCHANGED <<index, file, tombstone, stored>>
    <3>1. JobFits(device'[d], file', tombstone')
      BY <1>2, <2>2, <2>6 DEF JobFits, JobNow, Writing
    <3> QED
      BY <1>1, <2>6, <3>1 DEF JobsFit, IndexedFilesExist
  <2>7. CASE /\ device[d].at = "index"
             /\ JobNow(d, "work", NoJob, NoIndex, 0)
             /\ index' = WrittenIndex(d)
             /\ UNCHANGED <<file, tombstone>>
    <3>1. JobFits(device'[d], file', tombstone')
      BY <2>7 DEF JobFits, JobNow, Writing
    <3>2. file[device[d].job.record].version > 0 /\ \A r \in Record : device[d].loaded[r] > 0 => file[r].version > 0
      BY <1>2, <2>7 DEF JobFits
    <3> QED
      BY <1>1, <2>2, <2>7, <3>1, <3>2 DEF JobsFit, IndexedFilesExist, WrittenIndex
  <2> QED
    BY <1>5, <2>3, <2>4, <2>5, <2>6, <2>7 DEF GoesOnWriting
<1> QED
  BY <1>3, <1>4, <1>5 DEF JobStep

-----------------------------------------------------------------------------
\* A pass that is alone in the collection stores what it reports, and an
\* earlier store is never overtaken.
LEMMA AloneKept ==
    ASSUME DavTyped, DavTyped', JobsFit, ~overlap => Alone, NEW d \in Device, JobStep(d), Others(d)
    PROVE  ~overlap' => Alone'
<1> SUFFICES ASSUME ~overlap' PROVE Alone'
  OBVIOUS
<1>1. ~overlap
  BY DEF JobStep, WritesNothing, FailsAfterWriting, TakesJob, GoesOnWriting
<1>2. Alone
  BY <1>1
<1>3. \A e, f \in Device : device'[e].at \in InPass /\ device'[f].at \in InPass => e = f
  <2>1. CASE device[d].at \in InPass \/ device'[d].at \notin InPass
    BY <1>2, <2>1 DEF Alone, Others
  <2>2. CASE device[d].at \notin InPass /\ device'[d].at \in InPass
    <3>1. WritesNothing(d)
      BY <2>2 DEF JobStep, FailsAfterWriting, TakesJob, GoesOnWriting, InPass
    <3>2. ~SomeonesPass(d)
      BY <2>2, <3>1 DEF WritesNothing, AlreadyPassing
    <3> QED
      BY <3>2 DEF SomeonesPass, Others
  <2> QED
    BY <2>1, <2>2
<1>4. Writing \subseteq InPass
  BY DEF Writing, InPass
<1>5. CASE UNCHANGED <<index, file, stored>>
  <2>1. \A e \in Device \ {d} : WritesForward(device'[e], index', file')
    BY <1>2, <1>5 DEF Alone, Others
  <2>2. WritesForward(device'[d], index', file')
    <3>1. CASE WritesNothing(d) \/ FailsAfterWriting(d)
      BY <1>4, <3>1 DEF WritesNothing, FailsAfterWriting, WritesForward, Writing
    <3>2. CASE TakesJob(d)
      <4>1. device'[d].at \in {"record", "tomb"}
        BY <3>2 DEF TakesJob, JobNow
      <4>2. PICK r \in Record :
                device'[d].job.record = r
                /\ (device'[d].job.version = index[r] + 1 \/ device'[d].job.version = file[r].version + 1)
        BY <3>2 DEF TakesJob, JobNow
      <4>3. index[r] \in Nat /\ file[r].version \in Nat /\ index[r] <= file[r].version
        BY <1>2 DEF DavTyped, Files, Alone
      <4>4. device'[d].job.version > index[r]
        BY <4>2, <4>3
      <4> QED
        BY <1>5, <4>1, <4>2, <4>4 DEF WritesForward
    <3>3. CASE GoesOnWriting(d)
      <4>1. WritesForward(device[d], index, file)
        BY <1>2 DEF Alone
      <4>2. CASE device[d].at \in {"tomb", "load"} \/ (device[d].at = "index" /\ device'[d].at = "load")
        BY <1>5, <3>3, <4>1, <4>2 DEF GoesOnWriting, JobNow, WritesForward, Writing
      <4>3. CASE device'[d].at = "work"
        BY <4>3 DEF WritesForward, Writing
      <4>4. CASE device[d].at = "record"
        <5>1. /\ JobNow(d, "load", device[d].job, device[d].loaded, device[d].tries)
              /\ file' = WrittenFile(device[d].job)
          BY <3>3, <4>4 DEF GoesOnWriting
        <5>2. device[d].job.record \in Record
          BY <4>4, JobTypes DEF Writing
        <5>3. file'[device[d].job.record].version = device[d].job.version
          BY <5>1, <5>2 DEF WrittenFile, DavTyped
        <5> QED
          BY <1>5, <4>1, <4>4, <5>1, <5>3 DEF WritesForward, Writing, JobNow
      <4> QED
        BY <3>3, <4>2, <4>3, <4>4 DEF GoesOnWriting, JobNow
    <3> QED
      BY <3>1, <3>2, <3>3 DEF JobStep
  <2>3. \A r \in Record : stored'[r] <= index'[r] /\ index'[r] <= file'[r].version
    BY <1>2, <1>5 DEF Alone
  <2> QED
    BY <1>3, <2>1, <2>2, <2>3 DEF Alone
<1>6. ASSUME device[d].at \in {"record", "index"}
      PROVE  /\ \A e \in Device \ {d} : device'[e].at \notin InPass
             /\ \A e \in Device \ {d} : WritesForward(device'[e], index', file')
  <2>1. \A e \in Device \ {d} : device[e].at \notin InPass
    BY <1>2, <1>6 DEF Alone, InPass
  <2>2. \A e \in Device \ {d} : device'[e].at \notin InPass
    BY <2>1 DEF Others
  <2> QED
    BY <1>4, <2>2 DEF WritesForward, Writing
<1>7. CASE device[d].at = "record" /\ file' = WrittenFile(device[d].job) /\ UNCHANGED <<index, stored>>
  <2>1. PICK r \in Record, v \in Nat : r = device[d].job.record /\ v = device[d].job.version
    BY <1>7, JobTypes DEF Writing
  <2>2. v > index[r]
    BY <1>2, <1>7, <2>1 DEF Alone, WritesForward, Writing
  <2>3. file'[r].version = v /\ \A q \in Record \ {r} : file'[q] = file[q]
    BY <1>7, <2>1 DEF WrittenFile, DavTyped
  <2>4. \A q \in Record : stored'[q] <= index'[q] /\ index'[q] <= file'[q].version
    <3>1. index[r] \in Nat
      BY DEF DavTyped
    <3> QED
      BY <1>2, <1>7, <2>2, <2>3, <3>1 DEF Alone
  <2>5. WritesForward(device'[d], index', file')
    <3>1. CASE FailsAfterWriting(d)
      BY <1>4, <3>1 DEF FailsAfterWriting, WritesForward, Writing
    <3>2. CASE ~FailsAfterWriting(d) /\ device'[d].at = "load"
      <4>1. device'[d].job = device[d].job
        BY <1>7, <3>2 DEF JobStep, WritesNothing, TakesJob, GoesOnWriting, JobNow, Writing
      <4> QED
        BY <1>7, <2>1, <2>2, <2>3, <3>2, <4>1 DEF WritesForward
    <3>3. CASE device'[d].at \notin Writing
      BY <3>3 DEF WritesForward, Writing
    <3> QED
      BY <1>7, <3>1, <3>2, <3>3 DEF JobStep, WritesNothing, TakesJob, GoesOnWriting, JobNow
  <2> QED
    BY <1>3, <1>6, <1>7, <2>4, <2>5 DEF Alone
<1>8. CASE /\ device[d].at = "index" /\ index' = WrittenIndex(d) /\ UNCHANGED file
           /\ UNCHANGED stored \/ stored' = [stored EXCEPT ![device[d].job.record] = device[d].job.version]
           /\ device'[d].at \notin Writing
  <2>1. PICK r \in Record, v \in Nat : r = device[d].job.record /\ v = device[d].job.version
    BY <1>8, JobTypes DEF Writing
  <2>2. v > index[r] /\ file[r].version = v /\ device[d].loaded = index
    BY <1>2, <1>8, <2>1 DEF Alone, WritesForward, Writing
  <2>3. index'[r] = v /\ \A q \in Record \ {r} : index'[q] = index[q]
    BY <1>8, <2>1, <2>2 DEF WrittenIndex, DavTyped
  <2>4. (stored'[r] = v \/ stored'[r] = stored[r]) /\ \A q \in Record \ {r} : stored'[q] = stored[q]
    BY <1>8, <2>1 DEF DavTyped
  <2>5. \A q \in Record : stored'[q] <= index'[q] /\ index'[q] <= file'[q].version
    <3>1. index[r] \in Nat /\ stored[r] \in Nat /\ stored[r] <= index[r]
      BY <1>2 DEF DavTyped, Alone
    <3>2. stored'[r] <= v
      BY <2>2, <2>4, <3>1
    <3> QED
      BY <1>2, <1>8, <2>2, <2>3, <2>4, <3>2 DEF Alone
  <2>6. WritesForward(device'[d], index', file')
    BY <1>8 DEF WritesForward, Writing
  <2> QED
    BY <1>3, <1>6, <1>8, <2>5, <2>6 DEF Alone
<1>9. CASE WritesNothing(d) \/ TakesJob(d)
  BY <1>5, <1>9 DEF WritesNothing, TakesJob
<1>10. CASE FailsAfterWriting(d)
  <2>1. device'[d].at \notin Writing /\ UNCHANGED stored
    BY <1>4, <1>10 DEF FailsAfterWriting
  <2> QED
    BY <1>5, <1>7, <1>8, <1>10, <2>1 DEF FailsAfterWriting
<1>11. CASE GoesOnWriting(d)
  <2>1. \/ UNCHANGED <<index, file, stored>>
        \/ device[d].at = "record" /\ file' = WrittenFile(device[d].job) /\ UNCHANGED <<index, stored>>
        \/ /\ device[d].at = "index" /\ index' = WrittenIndex(d) /\ UNCHANGED file
           /\ stored' = [stored EXCEPT ![device[d].job.record] = device[d].job.version]
           /\ device'[d].at = "work"
    BY <1>11 DEF GoesOnWriting, JobNow
  <2> QED
    BY <1>5, <1>7, <1>8, <2>1 DEF Writing
<1> QED
  BY <1>9, <1>10, <1>11 DEF JobStep

-----------------------------------------------------------------------------
\* What an idle device is.
LEMMA IdleFields == Idle.at = "idle" /\ Idle.nonce = NoNonce /\ Idle.saw = NoNonce /\ Idle.rivals = {} /\ Idle.token = FALSE
BY DEF Idle

\* A nonce drawn afresh is nobody's, and nobody has seen it.
LEMMA FreshNonce ==
    ASSUME DavTyped, NEW n \in FreshNonces
    PROVE  /\ n \in Nonce /\ n # NoNonce /\ n # lockFile.nonce
           /\ \A d \in Device : n # device[d].nonce /\ n # device[d].saw
BY DavAssumption DEF FreshNonces

\* Where the label, the nonce and the rivals of the device may come from.
LEMMA LabelsAndNonces ==
    ASSUME DavTyped, NEW d \in Device, LockStep(d)
    PROVE  \/ TakesNonce(d)
           \/ device'[d] = Idle
           \/ device'[d].at \in Holding /\ device'[d].nonce = device[d].nonce
BY DEF LockStep, TakesNonce, PassesUnlocked, PassesLocked, GoesIdle, GoesToCheck, HoldsOn, LetsGo, LockNow, Holding, InPass

\* Nonces stay distinct.
LEMMA NoncesKept ==
    ASSUME DavTyped, Nonces, NEW d \in Device, LockStep(d), Others(d)
    PROVE  Nonces'
<1> DEFINE Own(w) == /\ w.at = "idle" => w = Idle
                     /\ w.at \in {"put", "confirm"} => w.nonce \in Nonce
                     /\ w.at = "put" => w.rivals = {}
<1>1. CASE TakesNonce(d)
  <2>1. PICK n \in FreshNonces : LockNow(d, "put", n, FALSE, lockFile.nonce, {})
    BY <1>1 DEF TakesNonce
  <2>2. Own(device'[d])
    BY <2>1, FreshNonce DEF LockNow
  <2>3. device'[d].nonce = n
    BY <2>1 DEF LockNow
  <2> QED
    BY <2>2, <2>3, FreshNonce DEF Nonces, Others
<1>2. CASE device'[d] = Idle
  <2>1. Own(device'[d]) /\ device'[d].nonce = NoNonce
    BY <1>2, IdleFields
  <2> QED
    BY <2>1 DEF Nonces, Others
<1>3. CASE device'[d].at \in Holding /\ device'[d].nonce = device[d].nonce
  <2>1. Own(device'[d])
    BY <1>3 DEF Holding, InPass
  <2> QED
    BY <1>3, <2>1 DEF Nonces, Others
<1> QED
  BY <1>1, <1>2, <1>3, LabelsAndNonces

\* Of two rivals the second does not find its nonce any more.
LEMMA RivalryKept ==
    ASSUME DavTyped, Nonces, Rivalry, NEW d \in Device, LockStep(d), Others(d)
    PROVE  Rivalry'
<1> SUFFICES ASSUME NEW e \in Device, NEW f \in Device, MutualRivals(e, f)', e # f, HasPassed(e)'
             PROVE  ~HasPassed(f)' /\ (device'[f].at = "confirm" => lockFile'.nonce # device'[f].nonce)
  BY DEF Rivalry
<1>1. e \in device'[f].rivals /\ f \in device'[e].rivals /\ device'[e].at \in InPass /\ device'[e].token
  BY DEF MutualRivals, HasPassed
<1>2. device'[f].at # "put" /\ device'[e].at # "put"
  BY <1>1, NoncesKept DEF Nonces
<1>3. (~TakesNonce(d) /\ device'[d] # Idle) \/ d \notin {e, f}
  BY <1>1, <1>2, IdleFields DEF TakesNonce, LockNow
<1>4. d \in {e, f} => \/ PassesUnlocked(d) \/ PassesLocked(d) \/ HoldsOn(d)
  BY <1>1, <1>3 DEF LockStep, GoesIdle, GoesToCheck, LetsGo, LockNow
<1>5. d \in {e, f} => device'[d].rivals = device[d].rivals /\ device'[d].nonce = device[d].nonce
  BY <1>4 DEF PassesUnlocked, PassesLocked, HoldsOn, LockNow
<1>6. MutualRivals(e, f) /\ MutualRivals(f, e)
  BY <1>1, <1>5 DEF MutualRivals, Others
\* The lock file changes to the nonce of the device that takes the step.
<1>7. UNCHANGED lockFile \/ (lockFile'.nonce = device[d].nonce /\ device[d].at \in {"put", "release"})
  <2>1. \/ UNCHANGED lockFile
        \/ /\ device[d].at \in {"put", "release"}
           /\ \E released \in BOOLEAN : lockFile' = [nonce |-> device[d].nonce, released |-> released]
    BY DEF LockStep, TakesNonce, PassesUnlocked, PassesLocked, GoesIdle, GoesToCheck, HoldsOn, LetsGo
  <2> QED
    BY <2>1
<1>8. d # f /\ HasPassed(e) => (device'[f].at = "confirm" => lockFile'.nonce # device'[f].nonce)
  <2> SUFFICES ASSUME d # f, device'[f].at = "confirm", HasPassed(e) PROVE lockFile'.nonce # device'[f].nonce
    OBVIOUS
  <2>1. device'[f] = device[f] /\ device[f].nonce \in Nonce
    BY DEF Others, Nonces
  <2>2. device[d].nonce # device[f].nonce
    BY <2>1, DavAssumption DEF Nonces
  <2>3. HasPassed(e) => lockFile.nonce # device[f].nonce
    BY <1>6, <2>1 DEF Rivalry
  <2> QED
    BY <1>7, <2>1, <2>2, <2>3
<1>9. CASE d \notin {e, f}
  <2>1. HasPassed(e) /\ device'[f] = device[f]
    BY <1>1, <1>9 DEF Others, HasPassed
  <2>2. ~HasPassed(f)
    BY <1>6, <2>1 DEF Rivalry
  <2>3. ~HasPassed(f)'
    BY <2>1, <2>2 DEF HasPassed
  <2> QED
    BY <1>8, <1>9, <2>1, <2>3
<1>10. CASE d = e
  <2>1. device'[f] = device[f]
    BY <1>10 DEF Others
  <2>2. CASE PassesLocked(d)
    <3>1. device[e].at = "confirm" /\ lockFile.nonce = device[e].nonce /\ UNCHANGED lockFile
      BY <1>10, <2>2 DEF PassesLocked, HoldsLock
    <3>2. ~HasPassed(f)
      BY <1>6, <3>1 DEF Rivalry
    <3>3. ~HasPassed(f)'
      BY <2>1, <3>2 DEF HasPassed
    <3>4. device[f].at = "confirm" => lockFile.nonce # device[f].nonce
      <4>1. device[e].nonce \in Nonce
        BY <3>1 DEF Nonces
      <4> QED
        BY <3>1, <4>1, DavAssumption DEF Nonces
    <3> QED
      BY <2>1, <3>1, <3>3, <3>4
  <2>3. CASE HoldsOn(d)
    <3>1. HasPassed(e)
      BY <1>1, <1>10, <2>3 DEF HoldsOn, LockNow, HasPassed, InPass
    <3>2. ~HasPassed(f)
      BY <1>6, <3>1 DEF Rivalry
    <3>3. ~HasPassed(f)'
      BY <2>1, <3>2 DEF HasPassed
    <3> QED
      BY <1>8, <1>10, <3>1, <3>3
  <2>4. ~PassesUnlocked(d)
    BY <1>1, <1>10 DEF PassesUnlocked, LockNow
  <2> QED
    BY <1>4, <1>10, <2>2, <2>3, <2>4
<1>11. CASE d = f
  <2>1. device'[e] = device[e] /\ HasPassed(e)
    BY <1>1, <1>11 DEF Others, HasPassed
  <2>2. ~HasPassed(f) /\ (device[f].at = "confirm" => lockFile.nonce # device[f].nonce)
    BY <1>6, <2>1 DEF Rivalry
  <2>3. device'[f].at # "confirm"
    BY <1>4, <1>11 DEF PassesUnlocked, PassesLocked, HoldsOn, LockNow, InPass
  <2>4. ~PassesLocked(d)
    BY <1>11, <2>2 DEF PassesLocked, HoldsLock
  <2>5. ~HasPassed(f)'
    <3>1. CASE PassesUnlocked(d)
      BY <1>11, <3>1 DEF PassesUnlocked, LockNow, HasPassed
    <3>2. CASE HoldsOn(d)
      BY <1>11, <2>2, <3>2 DEF HoldsOn, LockNow, HasPassed, InPass
    <3> QED
      BY <1>4, <1>11, <2>4, <3>1, <3>2
  <2> QED
    BY <2>3, <2>5
<1> QED
  BY <1>9, <1>10, <1>11

-----------------------------------------------------------------------------
\* The nonces of two devices differ, if they have one.
LEMMA OwnNonce ==
    ASSUME Nonces, NEW d \in Device, NEW e \in Device \ {d},
           device[d].nonce \in Nonce \/ device[e].nonce \in Nonce
    PROVE  device[d].nonce # device[e].nonce
BY DavAssumption DEF Nonces

\* A device that draws a nonce has seen the lock file, and no lock that stands.
LEMMA TakingKeeps ==
    ASSUME DavTyped, Nonces, Exclusive, NEW d \in Device, TakesNonce(d), Others(d)
    PROVE  Exclusive'
<1>1. PICK n \in FreshNonces : LockNow(d, "put", n, FALSE, lockFile.nonce, {}) /\ expired' = expired \ {n}
  BY DEF TakesNonce
<1>2. lockFile' = lockFile /\ ~overlap' /\ (lockFile.released \/ lockFile.nonce \in expired)
  BY DEF TakesNonce, LockIsFree, BlocksOthers, Exclusive
<1>3. lockFile.nonce # n
  BY FreshNonce
<1>4. ASSUME NEW e \in Device PROVE LockFits(device'[e], lockFile', expired')
  <2>1. CASE e = d
    <3>1. device'[e].at = "put" /\ device'[e].nonce = n
      BY <1>1, <2>1 DEF LockNow
    <3> QED
      BY <1>1, <1>2, <1>3, <3>1 DEF LockFits, Holding, InPass
  <2>2. CASE e # d
    <3>1. device'[e] = device[e] /\ LockFits(device[e], lockFile, expired)
      BY <2>2 DEF Others, Exclusive
    <3> QED
      BY <1>1, <1>2, <1>3, <3>1 DEF LockFits
  <2> QED
    BY <2>1, <2>2
\* Nobody has the nonce that is in the lock file: it would be a lock that stands.
<1>5. ASSUME NEW e \in Device, lockFile.nonce # NoNonce PROVE device[e].nonce # lockFile.nonce
  <2>1. LockFits(device[e], lockFile, expired)
    BY DEF Exclusive
  <2>2. device[e].at \in Holding \cup {"idle", "put", "confirm"}
    BY DEF DavTyped, DeviceStates, Labels, Holding
  <2>3. device[e].at = "idle" => device[e].nonce = NoNonce
    BY IdleFields DEF Nonces
  <2> QED
    BY <1>2, <1>5, <2>1, <2>2, <2>3 DEF LockFits
<1>6. SawOthers'
  <2> SUFFICES ASSUME NEW e \in Device, NEW f \in Device, device'[e].saw # NoNonce
               PROVE  device'[f].nonce # device'[e].saw
    BY DEF SawOthers
  <2>1. e = d => device'[e].saw = lockFile.nonce
    BY <1>1 DEF LockNow
  <2>2. f = d => device'[f].nonce = n
    BY <1>1 DEF LockNow
  <2>3. CASE e = d /\ f = d
    BY <1>3, <2>1, <2>2, <2>3
  <2>4. CASE e = d /\ f # d
    BY <1>5, <2>1, <2>4 DEF Others
  <2>5. CASE e # d /\ f = d
    BY <2>2, <2>5, FreshNonce DEF Others
  <2>6. CASE e # d /\ f # d
    BY <2>6 DEF Others, Exclusive, SawOthers
  <2> QED
    BY <2>3, <2>4, <2>5, <2>6
<1> QED
  BY <1>2, <1>4, <1>6 DEF Exclusive

\* A step that leaves the lock file alone and draws no nonce keeps the rest,
\* if it fits the device that takes it.
LEMMA LeavingKeeps ==
    ASSUME DavTyped, Exclusive, NEW d \in Device, Others(d), UNCHANGED <<lockFile, expired>>, ~overlap',
           LockFits(device'[d], lockFile, expired),
           device'[d].nonce \in {device[d].nonce, NoNonce}, device'[d].saw \in {device[d].saw, NoNonce}
    PROVE  Exclusive'
<1>1. \A e \in Device : LockFits(device'[e], lockFile', expired')
  BY DEF Exclusive, Others
<1>2. SawOthers'
  BY DEF Exclusive, SawOthers, Others
<1> QED
  BY <1>1, <1>2 DEF Exclusive

\* Nothing excuses an overlap, and no passes overlap: the lock stays exclusive.
LEMMA ExclusiveKept ==
    ASSUME DavTyped, Nonces, ~excuse => Exclusive, NEW d \in Device, LockStep(d), Others(d)
    PROVE  ~excuse' => Exclusive'
<1> SUFFICES ASSUME ~excuse' PROVE Exclusive'
  OBVIOUS
<1>1. ~excuse /\ ~PassesUnlocked(d)
  <2>1. ~PassesUnlocked(d)
    BY DEF PassesUnlocked
  <2>2. CASE LetsGo(d)
    BY <2>1, <2>2 DEF LetsGo
  <2>3. CASE TakesNonce(d) \/ PassesLocked(d) \/ GoesIdle(d) \/ GoesToCheck(d) \/ HoldsOn(d)
    <3>1. excuse' = excuse
      BY <2>3 DEF TakesNonce, PassesLocked, GoesIdle, GoesToCheck, HoldsOn
    <3> QED
      BY <2>1, <3>1
  <2> QED
    BY <2>1, <2>2, <2>3 DEF LockStep
<1>2. Exclusive /\ LockFits(device[d], lockFile, expired)
  BY <1>1 DEF Exclusive
<1>3. CASE TakesNonce(d)
  BY <1>2, <1>3, TakingKeeps
<1>4. CASE PassesLocked(d)
  <2>1. device[d].at = "confirm" /\ lockFile.nonce = device[d].nonce /\ device[d].nonce \in Nonce
    BY <1>4 DEF PassesLocked, HoldsLock, Nonces
  <2>2. LockFits(device'[d], lockFile, expired)
    <3>1. device'[d].at = "list" /\ device'[d].nonce = device[d].nonce
      BY <1>4 DEF PassesLocked, LockNow
    <3> QED
      BY <1>2, <2>1, <3>1 DEF LockFits
  <2>3. ~SomeonesPass(d)
    <3> SUFFICES ASSUME NEW e \in Device \ {d}, device[e].at \in InPass PROVE FALSE
      BY DEF SomeonesPass
    <3>1. LockFits(device[e], lockFile, expired)
      BY <1>2 DEF Exclusive
    <3>2. device[e].nonce = lockFile.nonce
      BY <3>1 DEF LockFits, Holding
    <3> QED
      BY <2>1, <3>2, OwnNonce
  <2>4. ~overlap'
    BY <1>2, <1>4, <2>3 DEF PassesLocked, Exclusive
  <2> QED
    BY <1>2, <1>4, <2>2, <2>4, LeavingKeeps DEF PassesLocked, LockNow
<1>5. CASE GoesIdle(d)
  <2>1. NoNonce \notin expired
    BY DavAssumption DEF DavTyped
  <2>2. LockFits(device'[d], lockFile, expired)
    BY <1>5, <2>1, IdleFields DEF GoesIdle, LockFits, Holding, InPass
  <2> QED
    BY <1>2, <1>5, <2>2, IdleFields, LeavingKeeps DEF GoesIdle, Exclusive
<1>6. CASE GoesToCheck(d)
  <2>1. LockFits(device'[d], lockFile, expired)
    BY <1>2, <1>6 DEF GoesToCheck, LockNow, LockFits, Holding
  <2> QED
    BY <1>2, <1>6, <2>1, LeavingKeeps DEF GoesToCheck, LockNow, Exclusive
<1>7. CASE HoldsOn(d)
  <2>1. device[d].at \in Holding /\ device'[d].at \in Holding
    BY <1>7 DEF HoldsOn, Holding
  <2>2. LockFits(device'[d], lockFile, expired)
    <3>1. device'[d].at \notin {"put", "confirm"} /\ device'[d].nonce = device[d].nonce
      BY <1>7, <2>1 DEF HoldsOn, LockNow, Holding, InPass
    <3> QED
      BY <1>2, <2>1, <3>1 DEF LockFits
  <2> QED
    BY <1>2, <1>7, <2>2, LeavingKeeps DEF HoldsOn, LockNow, Exclusive
<1>8. CASE LetsGo(d)
  <2>1. device[d].nonce \in Nonce /\ device[d].nonce = lockFile.nonce
    BY <1>2, <1>8 DEF LetsGo, LockFits, Holding
  <2>2. lockFile'.nonce = device[d].nonce /\ lockFile'.released = TRUE /\ expired' = expired /\ ~overlap'
    BY <1>2, <1>8 DEF LetsGo, Exclusive
  <2>3. NoNonce \notin expired
    BY DavAssumption DEF DavTyped
  <2>4. ASSUME NEW e \in Device PROVE LockFits(device'[e], lockFile', expired')
    <3>1. CASE e = d
      BY <1>8, <2>2, <2>3, <3>1, IdleFields DEF LetsGo, LockFits, Holding, InPass
    <3>2. CASE e # d
      <4>1. device'[e] = device[e] /\ LockFits(device[e], lockFile, expired)
        BY <1>2, <3>2 DEF Others, Exclusive
      <4>2. device[e].nonce # device[d].nonce
        BY <2>1, <3>2, OwnNonce
      <4> QED
        BY <2>1, <2>2, <4>1, <4>2 DEF LockFits
    <3> QED
      BY <3>1, <3>2
  <2>5. SawOthers'
    <3>1. device'[d].nonce = NoNonce /\ device'[d].saw = NoNonce
      BY <1>8, IdleFields DEF LetsGo
    <3> QED
      BY <1>2, <3>1 DEF Exclusive, SawOthers, Others
  <2> QED
    BY <2>2, <2>4, <2>5 DEF Exclusive
<1> QED
  BY <1>1, <1>3, <1>4, <1>5, <1>6, <1>7, <1>8 DEF LockStep

-----------------------------------------------------------------------------
\* The PUT of the lock file changes no job.
LEMMA PutKeepsJobs ==
    ASSUME DavTyped, JobsFit, IndexedFilesExist, ~overlap => Alone, NEW d \in Device, PutLock(d)
    PROVE  JobsFit' /\ IndexedFilesExist' /\ (~overlap' => Alone')
<1>1. UNCHANGED <<index, file, tombstone, stored, overlap>> /\ device[d].at = "put"
  BY DEF PutLock
<1>2. /\ device'[d].at = "confirm"
      /\ \A e \in Device : /\ device'[e].at = device[e].at \/ (e = d /\ device'[e].at = "confirm")
                           /\ device'[e].job = device[e].job /\ device'[e].loaded = device[e].loaded
                           /\ device'[e].tries = device[e].tries
  BY PutMoves DEF Fields
<1>3. IndexedFilesExist'
  BY <1>1 DEF IndexedFilesExist
<1>4. JobsFit'
  BY <1>1, <1>2 DEF JobsFit, JobFits, Writing
<1>5. ~overlap' => Alone'
  BY <1>1, <1>2 DEF Alone, WritesForward, Writing, InPass
<1> QED
  BY <1>3, <1>4, <1>5

\* The PUT of the lock file keeps the nonces apart, and its rivals are still
\* to read back.
LEMMA PutKeepsRivalry ==
    ASSUME DavTyped, Nonces, Rivalry, NEW d \in Device, PutLock(d)
    PROVE  Nonces' /\ Rivalry'
<1>1. device[d].at = "put" /\ lockFile'.nonce = device[d].nonce /\ device[d].rivals = {} /\ device[d].nonce \in Nonce
  BY DEF PutLock, WriteLock, Nonces
<1>2. /\ device'[d].at = "confirm" /\ device'[d].nonce = device[d].nonce
      /\ device'[d].rivals = {e \in Device \ {d} : device[e].at = "confirm"}
  BY PutMoves DEF Fields
<1>3. \A e \in Device \ {d} :
          /\ device'[e].at = device[e].at /\ device'[e].nonce = device[e].nonce /\ device'[e].token = device[e].token
          /\ device'[e].rivals = IF device[e].at = "confirm" THEN device[e].rivals \cup {d} ELSE device[e].rivals
  BY PutMoves DEF Fields
<1>4. \A e \in Device \ {d} : device[e].at = "idle" => device'[e] = device[e]
  BY DEF PutLock, DavTyped
<1>5. Nonces'
  <2>1. \A e \in Device :
            /\ device'[e].at = "idle" => device'[e] = Idle
            /\ device'[e].at \in {"put", "confirm"} => device'[e].nonce \in Nonce
            /\ device'[e].at = "put" => device'[e].rivals = {}
    <3>1. ASSUME NEW e \in Device \ {d}
          PROVE  /\ device'[e].at = "idle" => device'[e] = Idle
                 /\ device'[e].at \in {"put", "confirm"} => device'[e].nonce \in Nonce
                 /\ device'[e].at = "put" => device'[e].rivals = {}
      <4>1. /\ device[e].at = "idle" => device[e] = Idle
            /\ device[e].at \in {"put", "confirm"} => device[e].nonce \in Nonce
            /\ device[e].at = "put" => device[e].rivals = {}
        BY DEF Nonces
      <4> QED
        BY <1>3, <1>4, <4>1
    <3> QED
      BY <1>1, <1>2, <3>1
  <2>2. \A e \in Device : device'[e].nonce = device[e].nonce
    BY <1>2, <1>3
  <2> QED
    BY <2>1, <2>2 DEF Nonces
<1>6. Rivalry'
  <2> SUFFICES ASSUME NEW e \in Device, NEW f \in Device, MutualRivals(e, f)', e # f, HasPassed(e)'
               PROVE  ~HasPassed(f)' /\ (device'[f].at = "confirm" => lockFile'.nonce # device'[f].nonce)
    BY DEF Rivalry
  <2>1. e # d /\ device[e].at \in InPass /\ device[e].token
    BY <1>2, <1>3 DEF HasPassed, InPass
  <2>2. f # d
    BY <1>2, <2>1 DEF MutualRivals, InPass
  <2>3. MutualRivals(e, f) /\ HasPassed(e)
    BY <1>3, <2>1, <2>2 DEF MutualRivals, HasPassed
  <2>4. ~HasPassed(f)'
    BY <1>3, <2>2, <2>3 DEF Rivalry, HasPassed
  <2>5. device'[f].nonce # device[d].nonce
    BY <1>1, <1>3, <2>2, OwnNonce
  <2> QED
    BY <1>1, <2>4, <2>5
<1> QED
  BY <1>5, <1>6

\* A lock file that is written over no lock that the writer had not seen
\* is written over no lock that stands.
LEMMA PutKeepsExclusive ==
    ASSUME DavTyped, Nonces, ~excuse => Exclusive, NEW d \in Device, PutLock(d)
    PROVE  ~excuse' => Exclusive'
<1> SUFFICES ASSUME ~excuse' PROVE Exclusive'
  OBVIOUS
<1>1. /\ device[d].at = "put" /\ lockFile'.nonce = device[d].nonce /\ lockFile'.released = FALSE
      /\ device[d].nonce \in Nonce /\ UNCHANGED <<expired, overlap>>
  BY DEF PutLock, WriteLock, Nonces
<1>2. ~excuse /\ ~(BlocksOthers(lockFile) /\ lockFile.nonce # device[d].saw)
  BY DEF PutLock, WriteLock
<1>3. Exclusive /\ LockFits(device[d], lockFile, expired)
  BY <1>2 DEF Exclusive
<1>4. lockFile.released \/ lockFile.nonce \in expired
  BY <1>1, <1>2, <1>3 DEF LockFits, BlocksOthers
<1>5. device'[d].at = "confirm" /\ device'[d].nonce = device[d].nonce /\ device'[d].saw = NoNonce
  BY PutMoves DEF Fields
<1>6. \A e \in Device \ {d} :
          device'[e].at = device[e].at /\ device'[e].nonce = device[e].nonce /\ device'[e].saw = device[e].saw
  BY PutMoves DEF Fields
<1>7. ASSUME NEW e \in Device PROVE LockFits(device'[e], lockFile', expired')
  <2>1. CASE e = d
    BY <1>1, <1>3, <1>5, <2>1 DEF LockFits, Holding, InPass
  <2>2. CASE e # d
    <3>1. LockFits(device[e], lockFile, expired)
      BY <1>3 DEF Exclusive
    <3>2. device[e].at \notin Holding
      BY <1>4, <3>1 DEF LockFits
    <3>3. device[e].nonce # device[d].nonce
      BY <1>1, <2>2, OwnNonce
    <3>4. device[e].saw # device[d].nonce
      BY <1>1, <1>3, DavAssumption DEF Exclusive, SawOthers
    <3> QED
      BY <1>1, <1>6, <2>2, <3>1, <3>2, <3>3, <3>4 DEF LockFits
  <2> QED
    BY <2>1, <2>2
<1>8. SawOthers'
  BY <1>3, <1>5, <1>6 DEF Exclusive, SawOthers
<1> QED
  BY <1>1, <1>3, <1>7, <1>8, DavAssumption DEF Exclusive

\* A lock grows old; while somebody is still at work with it, that is an excuse.
LEMMA ExpireKeeps ==
    ASSUME DavInv, NEW n \in Nonce, Expire(n)
    PROVE  DavInv'
<1>1. /\ UNCHANGED <<lockFile, index, file, tombstone, device, stored, overlap>>
      /\ expired' = expired \cup {n} /\ n = lockFile.nonce
  BY DEF Expire
<1>2. DavTyped'
  <2>1. trouble' \in 0..MaxTrouble
    BY TroubleBounded DEF Expire, DavInv
  <2>2. excuse' \in BOOLEAN
    BY DEF Expire
  <2> QED
    BY <1>1, <2>1, <2>2 DEF DavTyped, DavInv
<1>3. JobsFit' /\ IndexedFilesExist' /\ Nonces' /\ Rivalry' /\ (~overlap' => Alone')
  BY <1>1 DEF DavInv, JobsFit, IndexedFilesExist, Nonces, Rivalry, MutualRivals, HasPassed, Alone
<1>4. ASSUME ~excuse' PROVE Exclusive'
  <2>1. ~excuse /\ ~\E d \in Device : device[d].nonce = n
    BY <1>4 DEF Expire
  <2>2. Exclusive
    BY <2>1 DEF DavInv
  <2>3. \A d \in Device : LockFits(device[d], lockFile, expired')
    BY <1>1, <2>1, <2>2 DEF Exclusive, LockFits
  <2> QED
    BY <1>1, <2>2, <2>3 DEF Exclusive, SawOthers
<1> QED
  BY <1>2, <1>3, <1>4 DEF DavInv

-----------------------------------------------------------------------------
\* The invariant is kept by every step.
LEMMA DavStepsKeep == DavInv /\ [DavNext]_davVars => DavInv'
<1> SUFFICES ASSUME DavInv, [DavNext]_davVars PROVE DavInv'
  OBVIOUS
<1>1. DavTyped /\ JobsFit /\ IndexedFilesExist /\ (~overlap => Alone) /\ Nonces /\ Rivalry /\ (~excuse => Exclusive)
  BY DEF DavInv
<1>2. ASSUME NEW d \in Device, AcquireStep(d) \/ PassStep(d) \/ ReleaseStep(d) \/ Abandon(d)
      PROVE  DavInv'
  <2>1. DavTyped'
    BY <1>1, <1>2, StepTypes
  <2>2. CASE PutLock(d)
    BY <1>1, <2>1, <2>2, PutKeepsJobs, PutKeepsRivalry, PutKeepsExclusive DEF DavInv
  <2>3. CASE ~PutLock(d)
    <3>1. JobStep(d) /\ Others(d) /\ LockStep(d)
      BY <1>1, <1>2, <2>3, StepMoves, JobSteps, LockSteps
    <3>2. JobsFit' /\ IndexedFilesExist'
      BY <1>1, <3>1, FilesKept
    <3>3. ~overlap' => Alone'
      BY <1>1, <2>1, <3>1, AloneKept
    <3>4. Nonces' /\ Rivalry'
      BY <1>1, <3>1, NoncesKept, RivalryKept
    <3>5. ~excuse' => Exclusive'
      BY <1>1, <3>1, ExclusiveKept
    <3> QED
      BY <2>1, <3>2, <3>3, <3>4, <3>5 DEF DavInv
  <2> QED
    BY <2>2, <2>3
<1>3. CASE \E n \in Nonce : Expire(n)
  BY <1>3, ExpireKeeps
<1>4. CASE UNCHANGED davVars
  <2>1. UNCHANGED <<lockFile, expired, index, file, tombstone, device, trouble, stored, overlap, excuse>>
    BY <1>4 DEF davVars
  <2>2. DavTyped' /\ JobsFit' /\ IndexedFilesExist' /\ Nonces' /\ Rivalry'
    BY <1>1, <2>1 DEF DavTyped, JobsFit, IndexedFilesExist, Nonces, Rivalry, MutualRivals, HasPassed
  <2>3. (~overlap' => Alone') /\ (~excuse' => Exclusive')
    BY <1>1, <2>1 DEF Alone, Exclusive, SawOthers
  <2> QED
    BY <2>2, <2>3 DEF DavInv
<1> QED
  BY <1>2, <1>3, <1>4 DEF DavNext

\* Every reachable state of the WebDAV store satisfies the invariant.
THEOREM DavInvariant == DavSpec => []DavInv
<1>1. DavInit => DavInv
  BY DavStarts
<1>2. DavInv /\ [DavNext]_davVars => DavInv'
  BY DavStepsKeep
<1> QED
  BY <1>1, <1>2, PTL DEF DavSpec

\* The type invariant of the collection and of the devices.
THEOREM DavTypes == DavSpec => []DavTypeOK
<1>1. DavInv => DavTypeOK
  BY DavTypedMeansTypeOK DEF DavInv
<1> QED
  BY <1>1, DavInvariant, PTL

\* A record in the index has its file and a record file marked as deleted has
\* its tombstone, wherever a pass is cut short and however passes interleave:
\* the order of the writes in upsert_record and tombstone_record.
THEOREM IndexNamesFiles == DavSpec => []IndexedFilesExist
<1>1. DavInv => IndexedFilesExist
  BY DEF DavInv
<1> QED
  BY <1>1, DavInvariant, PTL

\* As long as passes did not overlap, what a pass reported as stored is in the
\* index and in the files, in that version or a later one.
THEOREM StoresStick == DavSpec => []UpsertSticks
<1>1. DavInv => UpsertSticks
  BY DEF DavInv, Alone, UpsertSticks
<1> QED
  BY <1>1, DavInvariant, PTL

\* Of two devices that both read the lock file as free and wrote it before the
\* other had read back, at most one passes with the lock (acquire_lock).
THEOREM OneRivalPasses == DavSpec => []ReadBackArbitrates
<1>1. DavInv => ReadBackArbitrates
  BY DEF DavInv, ReadBackArbitrates, Rivalry, MutualRivals, HasPassed, Passing
<1> QED
  BY <1>1, DavInvariant, PTL

\* Passes overlap only after a lock request that failed, a lock that was
\* overdue, or a lock file written over a lock the writer had not seen.
THEOREM OverlapsAreExcused == DavSpec => []PassesExclude
<1>1. DavInv => PassesExclude
  BY DEF DavInv, Exclusive, PassesExclude
<1> QED
  BY <1>1, DavInvariant, PTL

-----------------------------------------------------------------------------
(***************************************************************************)
(* The Git store.                                                          *)
(***************************************************************************)

\* GitTypeOK, variable by variable.
GitTyped ==
    /\ dirty \in BOOLEAN /\ marking \in BOOLEAN /\ rebasing \in BOOLEAN
    /\ unmerged \in BOOLEAN /\ mended \in BOOLEAN
    /\ accepted \in SUBSET Change /\ work \in SUBSET Change /\ staged \in SUBSET Change
    /\ ahead \in SUBSET Change /\ remote \in SUBSET Change /\ discarded \in SUBSET Change
    /\ stash \in Seq(SUBSET Change)
    /\ behind \in {"nothing", "commits", "collisions"}
    /\ gitTask \in [GitTask -> [at : Steps, why : {"flush", "probe"}]]
    /\ moves \in 0..MaxRemoteMoves /\ mishaps \in 0..MaxMishap

BeforeCommit == {"status", "add", "commit"}

\* A probe never commits or pushes, and a task without a command is at rest.
Roles ==
    \A t \in GitTask :
        /\ gitTask[t].at = "idle" => gitTask[t] = Rest
        /\ gitTask[t].at \in BeforeCommit \cup {"push", "pushAgain"} => gitTask[t].why = "flush"

\* The flush has committed what it found, and its push is still to come.
Pushing(task) == task.why = "flush" /\ task.at \notin BeforeCommit \cup {"idle"}

\* As long as nothing went wrong, somebody is left to take up whatever is
\* on the way: what was committed a push, what was added a commit, what was
\* written or stashed the flag, or a flush that has not added yet.
TakenUp ==
    /\ ahead # {} => \E t \in GitTask : Pushing(gitTask[t])
    /\ staged # {} => \E t \in GitTask : gitTask[t].at = "commit"
    /\ work # {} => dirty \/ marking \/ \E t \in GitTask : gitTask[t].at \in {"status", "add"}
    /\ stash # <<>> => dirty \/ marking

GitInv ==
    /\ GitTyped
    /\ ChangeKept
    /\ Roles
    /\ mended => TakenUp

-----------------------------------------------------------------------------
Tasks == [at : Steps, why : {"flush", "probe"}]

\* What is in the stash, whichever entry of it.
Stashed(st) == {c \in Change : \E i \in DOMAIN st : c \in st[i]}

\* ChangeKept as one inclusion.
Kept == accepted \subseteq work \cup staged \cup ahead \cup remote \cup discarded \cup Stashed(stash)

\* The type invariant one way and the other.
LEMMA GitTypedMeansTypeOK == GitTyped <=> GitTypeOK
BY SMT DEF GitTyped, GitTypeOK

\* The inclusion says of every change what ChangeKept says.
LEMMA KeptMeansChangeKept == ASSUME GitTyped PROVE Kept <=> ChangeKept
BY DEF GitTyped, Kept, ChangeKept, Stashed

\* git stash push: the new entry is in the stash with all the others.
LEMMA StashedAfterPush ==
    ASSUME NEW st \in Seq(SUBSET Change), NEW x \in SUBSET Change
    PROVE  /\ <<x>> \o st \in Seq(SUBSET Change)
           /\ Stashed(<<x>> \o st) = x \cup Stashed(st)
<1>1. /\ <<x>> \o st \in Seq(SUBSET Change)
      /\ DOMAIN st = 1..Len(st) /\ Len(st) \in Nat
      /\ DOMAIN (<<x>> \o st) = 1..(1 + Len(st))
      /\ (<<x>> \o st)[1] = x
      /\ \A i \in 1..Len(st) : (<<x>> \o st)[i + 1] = st[i]
  OBVIOUS
<1>2. ASSUME NEW c \in Change
      PROVE  (\E i \in 1..(1 + Len(st)) : c \in (<<x>> \o st)[i])
                <=> c \in x \/ \E i \in 1..Len(st) : c \in st[i]
  <2> DEFINE n == Len(st)
             q == <<x>> \o st
  <2>1. n \in Nat /\ q[1] = x /\ \A i \in 1..n : q[i + 1] = st[i]
    BY <1>1
  <2>2. SUFFICES (\E i \in 1..(1 + n) : c \in q[i]) <=> c \in x \/ \E i \in 1..n : c \in st[i]
    OBVIOUS
  <2> HIDE DEF n, q
  <2>3. ASSUME NEW i \in 1..(1 + n), c \in q[i] PROVE c \in x \/ \E j \in 1..n : c \in st[j]
    <3>1. CASE i = 1
      BY <3>1, <2>1, <2>3
    <3>2. CASE i # 1
      <4>1. i - 1 \in 1..n /\ q[(i - 1) + 1] = st[i - 1] /\ (i - 1) + 1 = i
        BY <3>2, <2>1
      <4> QED
        BY <4>1, <2>3
    <3> QED
      BY <3>1, <3>2
  <2>4. ASSUME NEW j \in 1..n, c \in st[j] PROVE \E i \in 1..(1 + n) : c \in q[i]
    <3>1. j + 1 \in 1..(1 + n) /\ q[j + 1] = st[j]
      BY <2>1
    <3> QED
      BY <3>1, <2>4
  <2>5. ASSUME c \in x PROVE \E i \in 1..(1 + n) : c \in q[i]
    BY <2>1, <2>5
  <2> QED
    BY <2>3, <2>4, <2>5
<1> QED
  BY <1>1, <1>2 DEF Stashed

\* git stash pop: what was pushed last comes out, the rest stays.
LEMMA StashedAfterPop ==
    ASSUME NEW st \in Seq(SUBSET Change), st # <<>>
    PROVE  /\ Tail(st) \in Seq(SUBSET Change)
           /\ Head(st) \in SUBSET Change
           /\ Stashed(st) = Head(st) \cup Stashed(Tail(st))
<1>1. PICK n \in Nat : n = Len(st) /\ n > 0
  OBVIOUS
<1>2. PICK q : q = Tail(st)
  OBVIOUS
<1>3. /\ q \in Seq(SUBSET Change)
      /\ Head(st) = st[1] /\ st[1] \in SUBSET Change
      /\ DOMAIN st = 1..n /\ DOMAIN q = 1..(n - 1)
      /\ \A i \in 1..(n - 1) : q[i] = st[i + 1]
  BY <1>1, <1>2
<1>4. ASSUME NEW c \in Change
      PROVE  (\E i \in 1..n : c \in st[i]) <=> c \in st[1] \/ \E i \in 1..(n - 1) : c \in q[i]
  <2>1. ASSUME NEW i \in 1..n, c \in st[i] PROVE c \in st[1] \/ \E j \in 1..(n - 1) : c \in q[j]
    <3>1. CASE i = 1
      BY <3>1, <2>1
    <3>2. CASE i # 1
      <4>1. i - 1 \in 1..(n - 1) /\ q[i - 1] = st[(i - 1) + 1] /\ (i - 1) + 1 = i
        BY <3>2, <1>1, <1>3
      <4> QED
        BY <4>1, <2>1
    <3> QED
      BY <3>1, <3>2
  <2>2. ASSUME NEW j \in 1..(n - 1), c \in q[j] PROVE \E i \in 1..n : c \in st[i]
    <3>1. j + 1 \in 1..n /\ q[j] = st[j + 1]
      BY <1>1, <1>3
    <3> QED
      BY <3>1, <2>2
  <2>3. ASSUME c \in st[1] PROVE \E i \in 1..n : c \in st[i]
    <3>1. 1 \in 1..n
      BY <1>1
    <3> QED
      BY <3>1, <2>3
  <2> QED
    BY <2>1, <2>2, <2>3
<1> QED
  BY <1>2, <1>3, <1>4 DEF Stashed

\* Task t comes to another command, and no other task moves.
Moved(t, task) ==
    /\ gitTask' \in [GitTask -> Tasks]
    /\ gitTask'[t] = task
    /\ \A u \in GitTask \ {t} : gitTask'[u] = gitTask[u]

To(step, why) == [at |-> step, why |-> why]

\* A task goes on with another command.
LEMMA GoesOn ==
    ASSUME GitTyped, NEW t \in GitTask, NEW step \in Steps, Goes(t, step)
    PROVE  Moved(t, To(step, gitTask[t].why))
BY DEF GitTyped, Goes, Tasks, Moved, To

\* A task ends.
LEMMA Ends ==
    ASSUME GitTyped, NEW t \in GitTask, gitTask' = [gitTask EXCEPT ![t] = Rest]
    PROVE  Moved(t, Rest)
BY DEF GitTyped, Rest, Tasks, Steps, Moved

\* After a pull or a pop: a flush goes on, a probe may end.
LEMMA GoesOnAfterPull ==
    ASSUME GitTyped, NEW t \in GitTask, AfterPull(t)
    PROVE  \/ gitTask[t].at = "pullStashed" /\ Moved(t, To("pop", gitTask[t].why))
           \/ gitTask[t].why = "flush" /\ Moved(t, To("pushAgain", "flush"))
           \/ gitTask[t].why # "flush" /\ Moved(t, Rest)
<1>1. CASE gitTask[t].at = "pullStashed"
  <2>1. Goes(t, "pop") /\ "pop" \in Steps
    BY <1>1 DEF AfterPull, Steps
  <2> QED
    BY <2>1, <1>1, GoesOn
<1>2. CASE gitTask[t].at # "pullStashed" /\ gitTask[t].why = "flush"
  <2>1. Goes(t, "pushAgain") /\ "pushAgain" \in Steps
    BY <1>2 DEF AfterPull, Steps
  <2> QED
    BY <2>1, <1>2, GoesOn
<1>3. CASE gitTask[t].at # "pullStashed" /\ gitTask[t].why # "flush"
  <2>1. gitTask' = [gitTask EXCEPT ![t] = Rest]
    BY <1>3 DEF AfterPull
  <2> QED
    BY <2>1, <1>3, Ends
<1> QED
  BY <1>1, <1>2, <1>3

-----------------------------------------------------------------------------
\* Where a task comes to in each of its actions.
TaskMoves(t) ==
    \/ BeginFlush(t) /\ Moved(t, To("status", "flush"))
    \/ BeginProbe(t) /\ Moved(t, To("pull", "probe"))
    \/ Status(t) /\ work \cup staged = {} /\ Moved(t, Rest)
    \/ Status(t) /\ Moved(t, To("add", gitTask[t].why))
    \/ Add(t) /\ Moved(t, To("commit", gitTask[t].why))
    \/ Commit(t) /\ ~unmerged /\ Moved(t, To("push", gitTask[t].why))
    \/ PushDone(t) /\ Moved(t, Rest)
    \/ PushFails(t) /\ gitTask[t].at = "push" /\ Moved(t, To("pull", gitTask[t].why))
    \/ /\ \/ PullDone(t)
          \/ gitTask[t].at = "pop" /\ (PopDone(t) \/ PopFails(t))
       /\ \/ gitTask[t].at = "pullStashed" /\ Moved(t, To("pop", gitTask[t].why))
          \/ gitTask[t].why = "flush" /\ Moved(t, To("pushAgain", "flush"))
          \/ gitTask[t].why # "flush" /\ Moved(t, Rest)
    \/ PullConflicts(t) /\ \E step \in {"abort", "abortAgain", "popFailed"} : Moved(t, To(step, gitTask[t].why))
    \/ PullFails(t) /\ \E step \in {"stash", "popFailed"} : Moved(t, To(step, gitTask[t].why))
    \/ Abort(t) /\ Moved(t, To("pullAgain", gitTask[t].why))
    \/ (Stash(t) \/ Reset(t)) /\ Moved(t, To("pullStashed", gitTask[t].why))
    \/ StashFails(t) /\ Moved(t, To("reset", gitTask[t].why))
    \* The task failed.
    \/ ~mended' /\ Moved(t, Rest)

\* Each action of a task is one of those.
LEMMA TaskStepMoves == ASSUME GitTyped, NEW t \in GitTask, GitTaskStep(t) PROVE TaskMoves(t)
<1> DEFINE Ending == gitTask' = [gitTask EXCEPT ![t] = Rest]
<1>0. {"idle", "status", "add", "commit", "push", "pull", "abort", "pullAgain", "abortAgain", "stash",
       "reset", "pullStashed", "pop", "popFailed", "pushAgain"} \subseteq Steps
  BY DEF Steps
<1>1. CASE BeginFlush(t)
  BY <1>1 DEF BeginFlush, GitTyped, Tasks, Steps, Moved, To, TaskMoves
<1>2. CASE BeginProbe(t)
  BY <1>2 DEF BeginProbe, GitTyped, Tasks, Steps, Moved, To, TaskMoves
<1>3. CASE Status(t)
  <2>1. (work \cup staged = {} /\ Ending) \/ Goes(t, "add")
    BY <1>3 DEF Status
  <2> QED
    BY <2>1, <1>3, <1>0, GoesOn, Ends DEF TaskMoves
<1>4. CASE Add(t)
  <2>1. Goes(t, "commit")
    BY <1>4 DEF Add
  <2> QED
    BY <2>1, <1>4, <1>0, GoesOn, Ends DEF TaskMoves
<1>5. CASE Commit(t)
  <2>1. (~unmerged /\ Goes(t, "push")) \/ (~mended' /\ Ending)
    BY <1>5 DEF Commit, GivesUp
  <2> QED
    BY <2>1, <1>5, <1>0, GoesOn, Ends DEF TaskMoves
<1>6. CASE CommandFails(t)
  <2>1. ~mended' /\ Ending
    BY <1>6 DEF CommandFails, GivesUp
  <2> QED
    BY <2>1, <1>6, <1>0, GoesOn, Ends DEF TaskMoves
<1>7. CASE PushDone(t)
  <2>1. Ending
    BY <1>7 DEF PushDone
  <2> QED
    BY <2>1, <1>7, <1>0, GoesOn, Ends DEF TaskMoves
<1>8. CASE PushFails(t)
  <2>1. (gitTask[t].at = "push" /\ Goes(t, "pull")) \/ (~mended' /\ Ending)
    BY <1>8 DEF PushFails, GivesUp
  <2> QED
    BY <2>1, <1>8, <1>0, GoesOn, Ends DEF TaskMoves
<1>9. CASE AuthFails(t)
  <2>1. ~mended' /\ Ending
    BY <1>9 DEF AuthFails, GivesUp
  <2> QED
    BY <2>1, <1>9, <1>0, GoesOn, Ends DEF TaskMoves
<1>10. CASE PullDone(t)
  <2>1. AfterPull(t)
    BY <1>10 DEF PullDone
  <2> QED
    BY <2>1, <1>10, <1>0, GoesOn, Ends, GoesOnAfterPull DEF TaskMoves
<1>11. CASE PullConflicts(t)
  <2>1. \E step \in {"abort", "abortAgain", "popFailed"} : Goes(t, step)
    BY <1>11 DEF PullConflicts, Pulls
  <2> QED
    BY <2>1, <1>11, <1>0, GoesOn, Ends DEF TaskMoves
<1>12. CASE PullFails(t)
  <2>1. (\E step \in {"stash", "popFailed"} : Goes(t, step)) \/ (~mended' /\ Ending)
    BY <1>12 DEF PullFails, GivesUp
  <2> QED
    BY <2>1, <1>12, <1>0, GoesOn, Ends DEF TaskMoves
<1>13. CASE Abort(t)
  <2>1. Goes(t, "pullAgain") \/ (~mended' /\ Ending)
    BY <1>13 DEF Abort, GivesUp
  <2> QED
    BY <2>1, <1>13, <1>0, GoesOn, Ends DEF TaskMoves
<1>14. CASE Stash(t)
  <2>1. Goes(t, "pullStashed")
    BY <1>14 DEF Stash
  <2> QED
    BY <2>1, <1>14, <1>0, GoesOn, Ends DEF TaskMoves
<1>15. CASE StashFails(t)
  <2>1. Goes(t, "reset")
    BY <1>15 DEF StashFails
  <2> QED
    BY <2>1, <1>15, <1>0, GoesOn, Ends DEF TaskMoves
<1>16. CASE Reset(t)
  <2>1. Goes(t, "pullStashed")
    BY <1>16 DEF Reset
  <2> QED
    BY <2>1, <1>16, <1>0, GoesOn, Ends DEF TaskMoves
<1>17. CASE PopDone(t)
  <2>1. (gitTask[t].at = "pop" /\ AfterPull(t)) \/ (~mended' /\ Ending)
    BY <1>17 DEF PopDone, GivesUp
  <2> QED
    BY <2>1, <1>17, <1>0, GoesOn, Ends, GoesOnAfterPull DEF TaskMoves
<1>18. CASE PopFails(t)
  <2>1. (gitTask[t].at = "pop" /\ AfterPull(t)) \/ (~mended' /\ Ending)
    BY <1>18 DEF PopFails, GivesUp
  <2> QED
    BY <2>1, <1>18, <1>0, GoesOn, Ends, GoesOnAfterPull DEF TaskMoves
<1> QED
  BY <1>1, <1>2, <1>3, <1>4, <1>5, <1>6, <1>7, <1>8, <1>9, <1>10, <1>11, <1>12, <1>13, <1>14, <1>15, <1>16, <1>17, <1>18 DEF GitTaskStep

-----------------------------------------------------------------------------
\* The initial state satisfies the invariant.
LEMMA GitStarts == GitInit => GitInv
<1> SUFFICES ASSUME GitInit PROVE GitInv
  OBVIOUS
<1>1. GitTyped
  <2>1. gitTask \in [GitTask -> [at : Steps, why : {"flush", "probe"}]]
    BY DEF GitInit, Rest, Steps
  <2>2. stash \in Seq(SUBSET Change)
    BY DEF GitInit
  <2>3. 0 \in 0..MaxRemoteMoves /\ 0 \in 0..MaxMishap
    BY GitAssumption
  <2> QED
    BY <2>1, <2>2, <2>3 DEF GitInit, GitTyped
<1>2. ChangeKept /\ Roles /\ TakenUp
  BY DEF GitInit, ChangeKept, Roles, TakenUp, Rest, BeforeCommit
<1> QED
  BY <1>1, <1>2 DEF GitInv

\* The types of what a step of a task leaves in the clone.
LEMMA TaskTypes == ASSUME GitTyped, NEW t \in GitTask, GitTaskStep(t) PROVE GitTyped'
<1> DEFINE Bits == {dirty', marking', rebasing', unmerged', mended'} \subseteq BOOLEAN
           Sets == {accepted', work', staged', ahead', remote', discarded'} \subseteq SUBSET Change
           Rests == /\ stash' \in Seq(SUBSET Change)
                    /\ behind' \in {"nothing", "commits", "collisions"}
                    /\ moves' \in 0..MaxRemoteMoves /\ mishaps' \in 0..MaxMishap
<1>0. gitTask' \in [GitTask -> [at : Steps, why : {"flush", "probe"}]]
  <2>1. TaskMoves(t)
    BY TaskStepMoves
  <2> QED
    BY <2>1 DEF TaskMoves, Moved, Tasks
<1>a. mishaps < MaxMishap /\ mishaps' = mishaps + 1 => mishaps' \in 0..MaxMishap
  BY GitAssumption DEF GitTyped
<1>1. CASE BeginFlush(t)
  <2>1. Bits
    BY <1>1 DEF BeginFlush, GitTyped, clone
  <2>2. Sets
    BY <1>1 DEF BeginFlush, GitTyped, clone
  <2>3. Rests
    BY <1>1, <1>a DEF BeginFlush, GitTyped, clone
  <2> QED
    BY <1>0, <2>1, <2>2, <2>3 DEF GitTyped
<1>2. CASE BeginProbe(t)
  <2>1. Bits
    BY <1>2 DEF BeginProbe, GitTyped, clone
  <2>2. Sets
    BY <1>2 DEF BeginProbe, GitTyped, clone
  <2>3. Rests
    BY <1>2, <1>a DEF BeginProbe, GitTyped, clone
  <2> QED
    BY <1>0, <2>1, <2>2, <2>3 DEF GitTyped
<1>3. CASE Status(t)
  <2>1. Bits
    BY <1>3 DEF Status, GitTyped, clone
  <2>2. Sets
    BY <1>3 DEF Status, GitTyped, clone
  <2>3. Rests
    BY <1>3, <1>a DEF Status, GitTyped, clone
  <2> QED
    BY <1>0, <2>1, <2>2, <2>3 DEF GitTyped
<1>4. CASE Add(t)
  <2>1. Bits
    BY <1>4 DEF Add, GitTyped, clone
  <2>2. Sets
    BY <1>4 DEF Add, GitTyped, clone
  <2>3. Rests
    BY <1>4, <1>a DEF Add, GitTyped, clone
  <2> QED
    BY <1>0, <2>1, <2>2, <2>3 DEF GitTyped
<1>5. CASE Commit(t)
  <2>1. Bits
    BY <1>5 DEF Commit, GivesUp, GitTyped, clone
  <2>2. Sets
    BY <1>5 DEF Commit, GivesUp, GitTyped, clone
  <2>3. Rests
    BY <1>5, <1>a DEF Commit, GivesUp, GitTyped, clone
  <2> QED
    BY <1>0, <2>1, <2>2, <2>3 DEF GitTyped
<1>6. CASE CommandFails(t)
  <2>1. Bits
    BY <1>6 DEF CommandFails, GivesUp, Mishap, GitTyped, clone
  <2>2. Sets
    BY <1>6 DEF CommandFails, GivesUp, Mishap, GitTyped, clone
  <2>3. Rests
    BY <1>6, <1>a DEF CommandFails, GivesUp, Mishap, GitTyped, clone
  <2> QED
    BY <1>0, <2>1, <2>2, <2>3 DEF GitTyped
<1>7. CASE PushDone(t)
  <2>1. Bits
    BY <1>7 DEF PushDone, GitTyped, clone
  <2>2. Sets
    BY <1>7 DEF PushDone, GitTyped, clone
  <2>3. Rests
    BY <1>7, <1>a DEF PushDone, GitTyped, clone
  <2> QED
    BY <1>0, <2>1, <2>2, <2>3 DEF GitTyped
<1>8. CASE PushFails(t)
  <2>1. Bits
    BY <1>8 DEF PushFails, GivesUp, Mishap, GitTyped, clone
  <2>2. Sets
    BY <1>8 DEF PushFails, GivesUp, Mishap, GitTyped, clone
  <2>3. Rests
    BY <1>8, <1>a DEF PushFails, GivesUp, Mishap, GitTyped, clone
  <2> QED
    BY <1>0, <2>1, <2>2, <2>3 DEF GitTyped
<1>9. CASE AuthFails(t)
  <2>1. Bits
    BY <1>9 DEF AuthFails, GivesUp, Mishap, GitTyped, clone
  <2>2. Sets
    BY <1>9 DEF AuthFails, GivesUp, Mishap, GitTyped, clone
  <2>3. Rests
    BY <1>9, <1>a DEF AuthFails, GivesUp, Mishap, GitTyped, clone
  <2> QED
    BY <1>0, <2>1, <2>2, <2>3 DEF GitTyped
<1>10. CASE PullDone(t)
  <2>1. Bits
    BY <1>10 DEF PullDone, GitTyped, clone
  <2>2. Sets
    BY <1>10 DEF PullDone, GitTyped, clone
  <2>3. Rests
    BY <1>10, <1>a DEF PullDone, GitTyped, clone
  <2> QED
    BY <1>0, <2>1, <2>2, <2>3 DEF GitTyped
<1>11. CASE PullConflicts(t)
  <2>1. Bits
    BY <1>11 DEF PullConflicts, GitTyped, clone
  <2>2. Sets
    BY <1>11 DEF PullConflicts, GitTyped, clone
  <2>3. Rests
    BY <1>11, <1>a DEF PullConflicts, GitTyped, clone
  <2> QED
    BY <1>0, <2>1, <2>2, <2>3 DEF GitTyped
<1>12. CASE PullFails(t)
  <2>1. Bits
    BY <1>12 DEF PullFails, GivesUp, Mishap, GitTyped, clone
  <2>2. Sets
    BY <1>12 DEF PullFails, GivesUp, Mishap, GitTyped, clone
  <2>3. Rests
    BY <1>12, <1>a DEF PullFails, GivesUp, Mishap, GitTyped, clone
  <2> QED
    BY <1>0, <2>1, <2>2, <2>3 DEF GitTyped
<1>13. CASE Abort(t)
  <2>1. Bits
    BY <1>13 DEF Abort, GivesUp, GitTyped, clone
  <2>2. Sets
    BY <1>13 DEF Abort, GivesUp, GitTyped, clone
  <2>3. Rests
    BY <1>13, <1>a DEF Abort, GivesUp, GitTyped, clone
  <2> QED
    BY <1>0, <2>1, <2>2, <2>3 DEF GitTyped
<1>14. CASE Stash(t)
  <2>1. Bits
    BY <1>14 DEF Stash, GitTyped, clone
  <2>2. Sets
    BY <1>14, StashedAfterPush DEF Stash, GitTyped, clone
  <2>3. Rests
    BY <1>14, <1>a, StashedAfterPush DEF Stash, GitTyped, clone
  <2> QED
    BY <1>0, <2>1, <2>2, <2>3 DEF GitTyped
<1>15. CASE StashFails(t)
  <2>1. Bits
    BY <1>15 DEF StashFails, Mishap, GitTyped, clone
  <2>2. Sets
    BY <1>15 DEF StashFails, Mishap, GitTyped, clone
  <2>3. Rests
    BY <1>15, <1>a DEF StashFails, Mishap, GitTyped, clone
  <2> QED
    BY <1>0, <2>1, <2>2, <2>3 DEF GitTyped
<1>16. CASE Reset(t)
  <2>1. Bits
    BY <1>16 DEF Reset, GitTyped, clone
  <2>2. Sets
    BY <1>16 DEF Reset, GitTyped, clone
  <2>3. Rests
    BY <1>16, <1>a DEF Reset, GitTyped, clone
  <2> QED
    BY <1>0, <2>1, <2>2, <2>3 DEF GitTyped
<1>17. CASE PopDone(t)
  <2>1. Bits
    BY <1>17 DEF PopDone, GivesUp, GitTyped, clone
  <2>2. Sets
    BY <1>17, StashedAfterPop DEF PopDone, GivesUp, GitTyped, clone
  <2>3. Rests
    BY <1>17, <1>a, StashedAfterPop DEF PopDone, GivesUp, GitTyped, clone
  <2> QED
    BY <1>0, <2>1, <2>2, <2>3 DEF GitTyped
<1>18. CASE PopFails(t)
  <2>1. Bits
    BY <1>18 DEF PopFails, GivesUp, Mishap, GitTyped, clone
  <2>2. Sets
    BY <1>18 DEF PopFails, GivesUp, Mishap, GitTyped, clone
  <2>3. Rests
    BY <1>18, <1>a DEF PopFails, GivesUp, Mishap, GitTyped, clone
  <2> QED
    BY <1>0, <2>1, <2>2, <2>3 DEF GitTyped
<1> QED
  BY <1>1, <1>2, <1>3, <1>4, <1>5, <1>6, <1>7, <1>8, <1>9, <1>10, <1>11, <1>12, <1>13, <1>14, <1>15, <1>16, <1>17, <1>18 DEF GitTaskStep

\* No step of a task loses a change: each moves it on, or discards it.
LEMMA TaskKeeps == ASSUME GitTyped, Kept, NEW t \in GitTask, GitTaskStep(t) PROVE Kept'
<1>1. CASE BeginFlush(t)
  BY <1>1 DEF BeginFlush, Kept, clone
<1>2. CASE BeginProbe(t)
  BY <1>2 DEF BeginProbe, Kept, clone
<1>3. CASE Status(t)
  BY <1>3 DEF Status, Kept, clone
<1>4. CASE Add(t)
  BY <1>4 DEF Add, Kept, clone
<1>5. CASE Commit(t)
  BY <1>5 DEF Commit, Kept, clone
<1>6. CASE CommandFails(t)
  BY <1>6 DEF CommandFails, Kept, clone
<1>7. CASE PushDone(t)
  BY <1>7 DEF PushDone, Kept, clone
<1>8. CASE PushFails(t)
  BY <1>8 DEF PushFails, Kept, clone
<1>9. CASE AuthFails(t)
  BY <1>9 DEF AuthFails, Kept, clone
<1>10. CASE PullDone(t)
  BY <1>10 DEF PullDone, Kept, clone
<1>11. CASE PullConflicts(t)
  BY <1>11 DEF PullConflicts, Kept, clone
<1>12. CASE PullFails(t)
  BY <1>12 DEF PullFails, Kept, clone
<1>13. CASE Abort(t)
  BY <1>13 DEF Abort, Kept, clone
<1>14. CASE Stash(t)
  <2>1. work \cup staged \in SUBSET Change
    BY DEF GitTyped
  <2>2. CASE work \cup staged = {}
    BY <1>14, <2>2 DEF Stash, Kept
  <2>3. CASE work \cup staged # {}
    <3>1. Stashed(stash') = (work \cup staged) \cup Stashed(stash)
      BY <1>14, <2>1, <2>3, StashedAfterPush DEF Stash, GitTyped
    <3> QED
      BY <1>14, <2>3, <3>1 DEF Stash, Kept
  <2> QED
    BY <2>2, <2>3
<1>15. CASE StashFails(t)
  BY <1>15 DEF StashFails, Kept, clone
<1>16. CASE Reset(t)
  BY <1>16 DEF Reset, Kept, clone
<1>17. CASE PopDone(t)
  BY <1>17, StashedAfterPop DEF PopDone, Kept, GitTyped
<1>18. CASE PopFails(t)
  BY <1>18 DEF PopFails, Kept, clone
<1> QED
  BY <1>1, <1>2, <1>3, <1>4, <1>5, <1>6, <1>7, <1>8, <1>9, <1>10, <1>11, <1>12, <1>13, <1>14, <1>15, <1>16, <1>17, <1>18 DEF GitTaskStep

\* A probe stays a probe and a flush a flush.
LEMMA TaskRoles == ASSUME GitTyped, Roles, NEW t \in GitTask, GitTaskStep(t) PROVE Roles'
<1> DEFINE Fits(task) == /\ task.at = "idle" => task = Rest
                         /\ task.at \in BeforeCommit \cup {"push", "pushAgain"} => task.why = "flush"
<1>1. TaskMoves(t)
  BY TaskStepMoves
<1>2. \A u \in GitTask \ {t} : gitTask'[u] = gitTask[u]
  BY <1>1 DEF TaskMoves, Moved
<1>3. Fits(Rest)
  BY DEF Rest, BeforeCommit
<1>4. Status(t) \/ Add(t) \/ Commit(t) => gitTask[t].why = "flush"
  BY DEF Roles, BeforeCommit, Status, Add, Commit
<1>5. Fits(gitTask'[t])
  BY <1>1, <1>3, <1>4 DEF TaskMoves, Moved, To, BeforeCommit
<1> QED
  BY <1>2, <1>5 DEF Roles

\* What the other tasks promise, and what the task that moves promised if it
\* goes on promising it, stays promised.
LEMMA PromisesStay ==
    ASSUME NEW t \in GitTask, NEW task, Moved(t, task)
    PROVE  /\ (\E u \in GitTask : Pushing(gitTask[u])) /\ (Pushing(gitTask[t]) => Pushing(task))
                  => \E u \in GitTask : Pushing(gitTask'[u])
           /\ (\E u \in GitTask : gitTask[u].at = "commit") /\ gitTask[t].at # "commit"
                  => \E u \in GitTask : gitTask'[u].at = "commit"
           /\ (\E u \in GitTask : gitTask[u].at \in {"status", "add"}) /\ gitTask[t].at \notin {"status", "add"}
                  => \E u \in GitTask : gitTask'[u].at \in {"status", "add"}
BY DEF Moved

\* Whatever a task does while nothing goes wrong, what was on the way is
\* taken up by somebody.
LEMMA TaskTakesUp ==
    ASSUME GitTyped, Roles, mended => TakenUp, NEW t \in GitTask, GitTaskStep(t)
    PROVE  mended' => TakenUp'
<1> SUFFICES ASSUME mended' PROVE TakenUp'
  OBVIOUS
<1>1. TaskMoves(t)
  BY TaskStepMoves
<1>2. gitTask[t].at = "idle" => gitTask[t] = Rest
  BY DEF Roles
<1>3. Status(t) \/ Add(t) \/ Commit(t) => gitTask[t].why = "flush"
  BY DEF Roles, BeforeCommit, Status, Add, Commit
<1>4. CASE BeginFlush(t) /\ Moved(t, To("status", "flush"))
  <2>1. mended /\ stash = <<>> /\ TakenUp /\ gitTask[t].at = "idle"
    BY <1>4 DEF BeginFlush
  <2>2. ~Pushing(gitTask[t])
    BY <2>1 DEF Pushing
  <2>3. gitTask'[t].at = "status"
    BY <1>4 DEF Moved, To
  <2> QED
    BY <1>4, <2>1, <2>2, <2>3, PromisesStay DEF BeginFlush, TakenUp, clone
<1>5. CASE BeginProbe(t) /\ Moved(t, To("pull", "probe"))
  <2>1. mended /\ TakenUp /\ gitTask[t].at = "idle"
    BY <1>5 DEF BeginProbe
  <2>2. ~Pushing(gitTask[t])
    BY <2>1 DEF Pushing
  <2> QED
    BY <1>5, <2>1, <2>2, PromisesStay DEF BeginProbe, TakenUp, clone
<1>6. CASE Status(t) /\ work \cup staged = {} /\ Moved(t, Rest)
  <2>1. mended /\ TakenUp /\ gitTask[t].at = "status"
    BY <1>6 DEF Status
  <2>2. ~Pushing(gitTask[t])
    BY <2>1 DEF Pushing, BeforeCommit
  <2> QED
    BY <1>6, <2>1, <2>2, PromisesStay DEF Status, TakenUp, clone
<1>7. CASE Status(t) /\ Moved(t, To("add", gitTask[t].why))
  <2>1. mended /\ TakenUp /\ gitTask[t].at = "status"
    BY <1>7 DEF Status
  <2>2. ~Pushing(gitTask[t])
    BY <2>1 DEF Pushing, BeforeCommit
  <2>3. gitTask'[t].at = "add"
    BY <1>7 DEF Moved, To
  <2> QED
    BY <1>7, <2>1, <2>2, <2>3, PromisesStay DEF Status, TakenUp, clone
<1>8. CASE Add(t) /\ Moved(t, To("commit", gitTask[t].why))
  <2>1. mended /\ TakenUp /\ gitTask[t].at = "add"
    BY <1>8 DEF Add
  <2>2. ~Pushing(gitTask[t])
    BY <2>1 DEF Pushing, BeforeCommit
  <2>3. gitTask'[t].at = "commit"
    BY <1>8 DEF Moved, To
  <2> QED
    BY <1>8, <2>1, <2>2, <2>3, PromisesStay DEF Add, TakenUp
<1>9. CASE Commit(t) /\ ~unmerged /\ Moved(t, To("push", gitTask[t].why))
  <2>1. mended /\ TakenUp /\ gitTask[t].at = "commit"
    BY <1>9 DEF Commit
  <2>2. Pushing(gitTask'[t])
    BY <1>3, <1>9 DEF Pushing, BeforeCommit, Moved, To
  <2> QED
    BY <1>9, <2>1, <2>2, PromisesStay DEF Commit, TakenUp
<1>10. CASE PushDone(t) /\ Moved(t, Rest)
  <2>1. gitTask[t].at \in {"push", "pushAgain"} /\ ahead' = {}
    BY <1>10 DEF PushDone
  <2>2. CASE mended
    BY <1>10, <2>1, <2>2, PromisesStay DEF PushDone, TakenUp
  <2>3. CASE ~mended
    BY <1>10, <2>1, <2>3 DEF PushDone, TakenUp
  <2> QED
    BY <2>2, <2>3
<1>11. CASE PushFails(t) /\ gitTask[t].at = "push" /\ Moved(t, To("pull", gitTask[t].why))
  <2>1. PICK task : Moved(t, task) /\ (Pushing(gitTask[t]) => Pushing(task))
    BY <1>11 DEF Pushing, To, BeforeCommit, Rest
  <2>2. mended /\ TakenUp /\ gitTask[t].at \notin {"status", "add", "commit"}
    BY <1>11 DEF PushFails, GivesUp
  <2> QED
    BY <1>11, <2>1, <2>2, PromisesStay DEF PushFails, TakenUp, clone
<1>12. CASE /\ \/ PullDone(t)
               \/ gitTask[t].at = "pop" /\ (PopDone(t) \/ PopFails(t))
            /\ \/ gitTask[t].at = "pullStashed" /\ Moved(t, To("pop", gitTask[t].why))
               \/ gitTask[t].why = "flush" /\ Moved(t, To("pushAgain", "flush"))
               \/ gitTask[t].why # "flush" /\ Moved(t, Rest)
  <2>1. PICK task : Moved(t, task) /\ (Pushing(gitTask[t]) => Pushing(task))
    BY <1>12 DEF Pushing, To, BeforeCommit
  <2>2. gitTask[t].at \notin {"status", "add", "commit"}
    BY <1>12 DEF PullDone, Pulls
  <2>3. CASE PullDone(t)
    BY <2>1, <2>2, <2>3, PromisesStay DEF PullDone, TakenUp
  <2>4. CASE gitTask[t].at = "pop" /\ PopDone(t)
    <3>1. mended /\ TakenUp /\ (dirty \/ marking)
      BY <2>4 DEF PopDone, TakenUp
    <3> QED
      BY <2>1, <2>2, <2>4, <3>1, PromisesStay DEF PopDone, TakenUp
  <2>5. CASE gitTask[t].at = "pop" /\ PopFails(t)
    <3>1. mended /\ TakenUp
      BY <2>5 DEF PopFails
    <3> QED
      BY <2>1, <2>2, <2>5, <3>1, PromisesStay DEF PopFails, TakenUp
  <2> QED
    BY <1>12, <2>3, <2>4, <2>5
<1>13. CASE PullConflicts(t) /\ \E step \in {"abort", "abortAgain", "popFailed"} : Moved(t, To(step, gitTask[t].why))
  <2>1. PICK task : Moved(t, task) /\ (Pushing(gitTask[t]) => Pushing(task))
    BY <1>13 DEF Pushing, To, BeforeCommit, Rest
  <2>2. mended /\ TakenUp /\ gitTask[t].at \notin {"status", "add", "commit"}
    BY <1>13 DEF PullConflicts, Pulls
  <2> QED
    BY <1>13, <2>1, <2>2, PromisesStay DEF PullConflicts, TakenUp, clone
<1>14. CASE PullFails(t) /\ \E step \in {"stash", "popFailed"} : Moved(t, To(step, gitTask[t].why))
  <2>1. PICK task : Moved(t, task) /\ (Pushing(gitTask[t]) => Pushing(task))
    BY <1>14 DEF Pushing, To, BeforeCommit, Rest
  <2>2. mended /\ TakenUp /\ gitTask[t].at \notin {"status", "add", "commit"}
    BY <1>14 DEF PullFails, Pulls, GivesUp
  <2> QED
    BY <1>14, <2>1, <2>2, PromisesStay DEF PullFails, TakenUp, clone
<1>15. CASE Abort(t) /\ Moved(t, To("pullAgain", gitTask[t].why))
  <2>1. PICK task : Moved(t, task) /\ (Pushing(gitTask[t]) => Pushing(task))
    BY <1>15 DEF Pushing, To, BeforeCommit, Rest
  <2>2. mended /\ TakenUp /\ gitTask[t].at \notin {"status", "add", "commit"}
    BY <1>15 DEF Abort, GivesUp
  <2> QED
    BY <1>15, <2>1, <2>2, PromisesStay DEF Abort, TakenUp, clone
<1>16. CASE (Stash(t) \/ Reset(t)) /\ Moved(t, To("pullStashed", gitTask[t].why))
  <2>1. Pushing(gitTask[t]) => Pushing(To("pullStashed", gitTask[t].why))
    BY DEF Pushing, To, BeforeCommit
  <2>2. gitTask[t].at \notin {"status", "add", "commit"}
    BY <1>16 DEF Stash, Reset
  <2>3. CASE Stash(t)
    <3>1. mended /\ TakenUp
      BY <2>3 DEF Stash
    <3>2. CASE work \cup staged = {}
      BY <1>16, <2>1, <2>2, <2>3, <3>1, <3>2, PromisesStay DEF Stash, TakenUp
    <3>3. CASE work \cup staged # {}
      <4>1. \A u \in GitTask : gitTask[u].at \notin {"status", "add", "commit"}
        <5>1. Rest.at = "idle"
          BY DEF Rest
        <5>2. \A u \in GitTask \ {t} : gitTask[u] = Rest
          BY <2>3, <3>3 DEF Stash
        <5> QED
          BY <2>2, <5>1, <5>2
      <4>2. dirty \/ marking
        BY <3>1, <3>3, <4>1 DEF TakenUp
      <4> QED
        BY <1>16, <2>1, <2>2, <2>3, <3>1, <4>2, PromisesStay DEF Stash, TakenUp
    <3> QED
      BY <3>2, <3>3
  <2>4. CASE Reset(t)
    <3>1. mended /\ TakenUp
      BY <2>4 DEF Reset
    <3> QED
      BY <1>16, <2>1, <2>2, <2>4, <3>1, PromisesStay DEF Reset, TakenUp
  <2> QED
    BY <1>16, <2>3, <2>4
<1>17. CASE StashFails(t) /\ Moved(t, To("reset", gitTask[t].why))
  <2>1. PICK task : Moved(t, task) /\ (Pushing(gitTask[t]) => Pushing(task))
    BY <1>17 DEF Pushing, To, BeforeCommit, Rest
  <2>2. mended /\ TakenUp /\ gitTask[t].at \notin {"status", "add", "commit"}
    BY <1>17 DEF StashFails
  <2> QED
    BY <1>17, <2>1, <2>2, PromisesStay DEF StashFails, TakenUp, clone
<1> QED
  BY <1>1, <1>4, <1>5, <1>6, <1>7, <1>8, <1>9, <1>10, <1>11, <1>12, <1>13, <1>14, <1>15, <1>16, <1>17 DEF TaskMoves

-----------------------------------------------------------------------------
\* The invariant is kept by every step.
LEMMA GitStepsKeep == GitInv /\ [GitNext]_gitVars => GitInv'
<1> SUFFICES ASSUME GitInv, [GitNext]_gitVars PROVE GitInv'
  OBVIOUS
<1>1. GitTyped /\ Kept /\ Roles /\ (mended => TakenUp)
  BY KeptMeansChangeKept DEF GitInv
<1>2. SUFFICES GitTyped' /\ Kept' /\ Roles' /\ (mended' => TakenUp')
  <2>1. GitTyped' => (Kept' <=> ChangeKept')
    BY KeptMeansChangeKept, PTL
  <2> QED
    BY <2>1 DEF GitInv
<1>3. CASE \E t \in GitTask : GitTaskStep(t)
  BY <1>1, <1>3, TaskTypes, TaskKeeps, TaskRoles, TaskTakesUp
<1>4. CASE \E c \in Change : WriteFile(c)
  <2>1. PICK c \in Change : WriteFile(c)
    BY <1>4
  <2>2. GitTyped'
    BY <1>1, <2>1 DEF WriteFile, GitTyped
  <2> QED
    BY <1>1, <2>1, <2>2 DEF WriteFile, Kept, Roles, TakenUp
<1>5. CASE MarkDirty
  <2>1. GitTyped'
    BY <1>1, <1>5 DEF MarkDirty, GitTyped, clone
  <2> QED
    BY <1>1, <1>5, <2>1 DEF MarkDirty, Kept, Roles, TakenUp, clone
<1>6. CASE RemoteMoves
  <2>1. moves' \in 0..MaxRemoteMoves
    BY <1>1, <1>6, GitAssumption DEF RemoteMoves, GitTyped
  <2>2. GitTyped'
    BY <1>1, <1>6, <2>1 DEF RemoteMoves, GitTyped
  <2> QED
    BY <1>1, <1>6, <2>2 DEF RemoteMoves, Kept, Roles, TakenUp
<1>7. CASE Restart
  <2>1. mishaps' \in 0..MaxMishap
    BY <1>1, <1>7, GitAssumption DEF Restart, GitTyped
  <2>2. gitTask' \in [GitTask -> [at : Steps, why : {"flush", "probe"}]]
    BY <1>7 DEF Restart, Rest, Steps
  <2>3. GitTyped'
    BY <1>1, <1>7, <2>1, <2>2 DEF Restart, GitTyped, clone
  <2>4. Roles'
    BY <1>7 DEF Restart, Roles, Rest, BeforeCommit
  <2> QED
    BY <1>1, <1>7, <2>3, <2>4 DEF Restart, Kept, clone
<1>8. CASE UNCHANGED gitVars
  <2>1. GitTyped'
    BY <1>1, <1>8 DEF gitVars, GitTyped, clone
  <2> QED
    BY <1>1, <1>8, <2>1 DEF gitVars, Kept, Roles, TakenUp, clone
<1> QED
  BY <1>3, <1>4, <1>5, <1>6, <1>7, <1>8 DEF GitNext

\* Every reachable state of the Git store satisfies the invariant.
THEOREM GitInvariant == GitSpec => []GitInv
<1>1. GitInit => GitInv
  BY GitStarts
<1>2. GitInv /\ [GitNext]_gitVars => GitInv'
  BY GitStepsKeep
<1> QED
  BY <1>1, <1>2, PTL DEF GitSpec

\* The type invariant of the clone, its tasks and its bounds.
THEOREM GitTypes == GitSpec => []GitTypeOK
<1>1. GitInv => GitTypeOK
  BY GitTypedMeansTypeOK DEF GitInv
<1> QED
  BY <1>1, GitInvariant, PTL

\* A change the store accepted is on the remote, committed, in the worktree or
\* in a stash, unless git was told to throw it away, through every pull,
\* rebase, stash and pop of any number of tasks that share the clone.
THEOREM ChangesAreKept == GitSpec => []ChangeKept
<1>1. GitInv => ChangeKept
  BY DEF GitInv
<1> QED
  BY <1>1, GitInvariant, PTL

\* When nothing is in progress, the store is clean and nothing went wrong since
\* everything was last pushed, every accepted change is on the remote: flush
\* loses nothing by taking the dirty flag before it commits.
THEOREM NothingIsLeft == GitSpec => []NothingLeftBehind
<1>1. GitInv => NothingLeftBehind
  <2> SUFFICES ASSUME GitInv, mended, ~dirty, ~marking, \A t \in GitTask : gitTask[t] = Rest
               PROVE  accepted \subseteq remote \cup discarded
    BY DEF NothingLeftBehind
  <2>0. Rest.at = "idle"
    BY DEF Rest
  <2>1. \A t \in GitTask : gitTask[t].at = "idle"
    BY <2>0
  <2>2. ahead = {} /\ staged = {} /\ work = {} /\ stash = <<>>
    BY <2>1 DEF GitInv, TakenUp, Pushing
  <2>3. Stashed(stash) = {}
    BY <2>2 DEF Stashed
  <2>4. Kept
    BY KeptMeansChangeKept DEF GitInv
  <2> QED
    BY <2>2, <2>3, <2>4 DEF Kept
<1> QED
  BY <1>1, GitInvariant, PTL
================================================================================
