------------------------ MODULE DirectoryLock_proofs ------------------------
(***************************************************************************)
(* The types of the lock file and of those that use it, and when it does   *)
(* exclude, for any processes.                                             *)
(***************************************************************************)
EXTENDS DirectoryLock, TLAPS

Labels ==
    {"idle", "trying", "filling", "judging", "opening", "writing", "renaming",
     "confirming", "holding", "removing"}

Types ==
    /\ name \in [lock : File \cup {NoFile}, temp : File \cup {NoFile}]
    /\ content \in [File -> Nonce \cup {Torn}]
    /\ pc \in [Process -> Labels]
    /\ nonce \in [Process -> Nonce]
    /\ handle \in [Process -> File \cup {NoFile}]
    /\ expired \in SUBSET Nonce

\* A process has a file open exactly while it writes one.
OpenToWrite == \A p \in Process : pc[p] \in {"filling", "writing"} <=> handle[p] # NoFile

LockInv == Types /\ OpenToWrite

-----------------------------------------------------------------------------
\* A process that has no file open finds a free identity when one of the names is
\* free: what is in use then is one file for each process.
LEMMA AnotherFile ==
  ASSUME LockInv, NEW p \in Process, handle[p] = NoFile,
         name.lock = NoFile \/ name.temp = NoFile
  PROVE  FreshFile \in File /\ FreshFile \notin FilesInUse
  <1> DEFINE named == IF name.lock = NoFile THEN name.temp ELSE name.lock
             inUse == [q \in Process |-> IF q = p THEN named ELSE handle[q]]
  <1>1. inUse \in [Process -> File \cup {NoFile}]
    BY DEF LockInv, Types
  <1>2. PICK f \in File : \A q \in Process : inUse[q] # f
    BY <1>1, SupplyAssumption
  <1>3. f # named /\ \A q \in Process : q # p => handle[q] # f
    BY <1>2
  <1>4. f # NoFile
    BY LockAssumption
  <1>5. f \notin FilesInUse
    BY <1>3, <1>4 DEF FilesInUse
  <1> QED
    BY <1>5 DEF FreshFile

\* A process at rest finds a nonce that nothing shows.
LEMMA AnotherNonce ==
  ASSUME LockInv, NEW p \in Process, pc[p] = "idle"
  PROVE  FreshNonce \in Nonce /\ FreshNonce \notin NoncesInUse
  <1> DEFINE read(f) == IF f \in File THEN content[f] ELSE Torn
             own == [q \in Process |-> IF q = p THEN read(name.lock) ELSE nonce[q]]
             shown == [q \in Process |-> IF q = p THEN read(name.temp) ELSE read(handle[q])]
  <1>1. \A f \in File \cup {NoFile} : read(f) \in Nonce \cup {Torn}
    BY DEF LockInv, Types
  <1>2. handle[p] = NoFile
    BY DEF LockInv, OpenToWrite
  <1>3. own \in [Process -> Nonce \cup {Torn}] /\ shown \in [Process -> Nonce \cup {Torn}]
    BY <1>1 DEF LockInv, Types
  <1>4. PICK n \in Nonce : \A q \in Process : own[q] # n /\ shown[q] # n
    <2> HIDE DEF own, shown
    <2> QED
      BY <1>3, SupplyAssumption
  <1>5. read(name.lock) # n /\ read(name.temp) # n
    BY <1>4
  <1>6. \A q \in Process : q # p => nonce[q] # n /\ read(handle[q]) # n
    BY <1>4
  <1>7. n \notin {nonce[q] : q \in Active}
    BY <1>6 DEF Active
  <1>8. FilesInUse \subseteq File
    BY DEF FilesInUse, LockInv, Types
  <1>9. n \notin {content[f] : f \in FilesInUse}
    BY <1>2, <1>5, <1>6, <1>8 DEF FilesInUse
  <1>10. n \notin NoncesInUse
    BY <1>7, <1>9 DEF NoncesInUse
  <1> QED
    BY <1>10 DEF FreshNonce

\* A step sends its process to a label and its handle to a file or none.
LEMMA HandleFollows ==
  ASSUME LockInv, NEW p \in Process, NEW label \in Labels, NEW f \in File \cup {NoFile},
         Goto(p, label),
         \/ handle' = [handle EXCEPT ![p] = f]
         \/ handle' = handle /\ f = handle[p],
         label \in {"filling", "writing"} <=> f # NoFile
  PROVE  /\ pc' \in [Process -> Labels]
         /\ handle' \in [Process -> File \cup {NoFile}]
         /\ OpenToWrite'
  BY DEF LockInv, Types, OpenToWrite, Goto

LEMMA LockStarts == Init => LockInv
  <1> SUFFICES ASSUME Init PROVE LockInv
    OBVIOUS
  <1>1. ASSUME NEW p \in Process PROVE \E n \in Nonce : TRUE
    <2>1. [q \in Process |-> Torn] \in [Process -> Nonce \cup {Torn}]
      OBVIOUS
    <2> QED
      BY <2>1, SupplyAssumption
  <1>2. nonce \in [Process -> Nonce]
    BY <1>1 DEF Init
  <1> QED
    BY <1>2 DEF Init, LockInv, Types, OpenToWrite, Labels

LEMMA WhatIsRead == ASSUME LockInv PROVE LockNonce \in Nonce \cup {Torn}
  BY DEF LockInv, Types, LockNonce

LEMMA LockSteps == LockInv /\ [Next]_vars => LockInv'
  <1> SUFFICES ASSUME LockInv, [Next]_vars PROVE LockInv'
    OBVIOUS
  <1> USE DEF LockInv
  <1>1. ASSUME NEW p \in Process, Try(p) PROVE LockInv'
    <2>1. FreshNonce \in Nonce
      BY <1>1, AnotherNonce DEF Try
    <2>2. handle[p] = NoFile
      BY <1>1 DEF Try, OpenToWrite
    <2>3. /\ pc' \in [Process -> Labels]
          /\ handle' \in [Process -> File \cup {NoFile}]
          /\ OpenToWrite'
      BY <1>1, <2>2, HandleFollows DEF Try, Labels
    <2> QED
      BY <1>1, <2>1, <2>3 DEF Try, Types
  <1>2. ASSUME NEW p \in Process, Create(p) PROVE LockInv'
    <2>1. handle[p] = NoFile /\ name.lock = NoFile
      BY <1>2 DEF Create, OpenToWrite
    <2>2. FreshFile \in File
      BY <2>1, AnotherFile
    <2>3. FreshFile # NoFile
      BY <2>2, LockAssumption
    <2>4. /\ pc' \in [Process -> Labels]
          /\ handle' \in [Process -> File \cup {NoFile}]
          /\ OpenToWrite'
      BY <1>2, <2>2, <2>3, HandleFollows DEF Create, Labels
    <2> QED
      BY <1>2, <2>2, <2>4 DEF Create, Types
  <1>3. ASSUME NEW p \in Process, Fill(p) PROVE LockInv'
    <2>1. handle[p] \in File
      BY <1>3 DEF Fill, OpenToWrite, Types
    <2>2. /\ pc' \in [Process -> Labels]
          /\ handle' \in [Process -> File \cup {NoFile}]
          /\ OpenToWrite'
      BY <1>3, HandleFollows DEF Fill, Labels
    <2> QED
      BY <1>3, <2>1, <2>2 DEF Fill, Types
  <1>4. ASSUME NEW p \in Process, AlreadyHeld(p) \/ Judge(p) \/ Confirm(p) \/ Release(p)
        PROVE  LockInv'
    <2>1. handle[p] = NoFile
      BY <1>4 DEF AlreadyHeld, Judge, Confirm, Release, OpenToWrite
    <2>2. PICK label \in Labels \ {"filling", "writing"} : Goto(p, label)
      BY <1>4 DEF AlreadyHeld, Judge, Confirm, Release, Labels
    <2>3. UNCHANGED <<name, content, nonce, handle, expired>>
      BY <1>4 DEF AlreadyHeld, Judge, Confirm, Release
    <2>4. /\ pc' \in [Process -> Labels]
          /\ handle' \in [Process -> File \cup {NoFile}]
          /\ OpenToWrite'
      BY <2>1, <2>2, <2>3, HandleFollows
    <2> QED
      BY <2>3, <2>4 DEF Types
  <1>5. ASSUME NEW p \in Process, OpenTemp(p) PROVE LockInv'
    <2> DEFINE f == IF name.temp = NoFile THEN FreshFile ELSE name.temp
    <2>1. handle[p] = NoFile
      BY <1>5 DEF OpenTemp, OpenToWrite
    <2>2. f \in File
      BY <2>1, AnotherFile DEF Types
    <2>3. f # NoFile
      BY <2>2, LockAssumption
    <2>4. /\ name' = [name EXCEPT !.temp = f]
          /\ content' = [content EXCEPT ![f] = Torn]
          /\ handle' = [handle EXCEPT ![p] = f]
          /\ Goto(p, "writing")
          /\ UNCHANGED <<nonce, expired, used>>
      BY <1>5 DEF OpenTemp
    <2> HIDE DEF f
    <2>5. /\ pc' \in [Process -> Labels]
          /\ handle' \in [Process -> File \cup {NoFile}]
          /\ OpenToWrite'
      BY <2>2, <2>3, <2>4, HandleFollows DEF Labels
    <2> QED
      BY <2>2, <2>4, <2>5 DEF Types
  <1>6. ASSUME NEW p \in Process, WriteTemp(p) PROVE LockInv'
    <2>1. handle[p] \in File
      BY <1>6 DEF WriteTemp, OpenToWrite, Types
    <2>2. /\ pc' \in [Process -> Labels]
          /\ handle' \in [Process -> File \cup {NoFile}]
          /\ OpenToWrite'
      BY <1>6, HandleFollows DEF WriteTemp, Labels
    <2>3. PICK bytes \in Nonce \cup {Torn} : content' = [content EXCEPT ![handle[p]] = bytes]
      BY <1>6 DEF WriteTemp, Types
    <2> QED
      BY <1>6, <2>1, <2>2, <2>3 DEF WriteTemp, Types
  <1>7. ASSUME NEW p \in Process, Rename(p) \/ Remove(p) PROVE LockInv'
    <2>1. handle[p] = NoFile
      BY <1>7 DEF Rename, Remove, OpenToWrite
    <2>2. PICK label \in Labels \ {"filling", "writing"} : Goto(p, label)
      BY <1>7 DEF Rename, Remove, Labels
    <2>3. UNCHANGED <<content, nonce, handle, expired>>
      BY <1>7 DEF Rename, Remove
    <2>4. /\ pc' \in [Process -> Labels]
          /\ handle' \in [Process -> File \cup {NoFile}]
          /\ OpenToWrite'
      BY <2>1, <2>2, <2>3, HandleFollows
    <2>5. name' \in [lock : File \cup {NoFile}, temp : File \cup {NoFile}]
      BY <1>7 DEF Rename, Remove, Types
    <2> QED
      BY <2>3, <2>4, <2>5 DEF Types
  <1>8. ASSUME NEW p \in Process, Crash(p) PROVE LockInv'
    <2>1. /\ pc' \in [Process -> Labels]
          /\ handle' \in [Process -> File \cup {NoFile}]
          /\ OpenToWrite'
      BY <1>8, HandleFollows DEF Crash, Labels
    <2> QED
      BY <1>8, <2>1 DEF Crash, Types
  <1>9. CASE Expire
    BY <1>9, WhatIsRead DEF Expire, Types, OpenToWrite
  <1>10. CASE UNCHANGED vars
    BY <1>10 DEF vars, Types, OpenToWrite
  <1> QED
    BY <1>1, <1>2, <1>3, <1>4, <1>5, <1>6, <1>7, <1>8, <1>9, <1>10 DEF Next, Step, Attempt

-----------------------------------------------------------------------------
\* The files and nonces suffice: whatever is killed or raced in between, a
\* process writes through a handle to a file, and only then.
THEOREM LockInvariant == Spec => []LockInv
  BY LockStarts, LockSteps, PTL DEF Spec

THEOREM TypeCorrect == Spec => []TypeOK
  <1>1. LockInv => TypeOK
    BY DEF LockInv, Types, OpenToWrite, TypeOK
  <1> QED
    BY <1>1, LockInvariant, PTL

-----------------------------------------------------------------------------
(***************************************************************************)
(* The lock excludes until somebody takes it over.  A process is engaged   *)
(* while it fills, holds, removes or takes over the lock file.             *)
(***************************************************************************)
Engaged(p) == pc[p] \notin {"idle", "trying", "judging"}

\* A takeover begins only when a lock file has been left behind: it is still there,
\* and nobody is engaged with it.
LeftBehind ==
    \A p \in Process : pc[p] = "judging" /\ pc'[p] = "opening" =>
        name.lock # NoFile /\ \A q \in Process : ~ Engaged(q)

OneEngaged ==
    \A p \in Process : Engaged(p) =>
        /\ name.lock # NoFile
        /\ \A q \in Process : Engaged(q) => p = q

\* A process engages alone when nobody is engaged; it then is the only one.
LEMMA EngagesAlone ==
  ASSUME LockInv, NEW p \in Process, NEW label \in Labels, Goto(p, label),
         \A q \in Process : ~ Engaged(q), name'.lock # NoFile
  PROVE  OneEngaged'
  BY DEF LockInv, Types, Goto, OneEngaged, Engaged

\* A process that goes on, alone if it is engaged, leaves the lock file there.
LEMMA GoesOnAlone ==
  ASSUME LockInv, OneEngaged, NEW p \in Process, NEW label \in Labels, Goto(p, label),
         Engaged(p) \/ label \in {"idle", "trying", "judging"},
         name'.lock # NoFile \/ (Engaged(p) /\ label = "idle") \/ name' = name
  PROVE  OneEngaged'
  BY DEF LockInv, Types, Goto, OneEngaged, Engaged

LEMMA EngagedSteps == LockInv /\ OneEngaged /\ LeftBehind /\ [Next]_vars => OneEngaged'
  <1> SUFFICES ASSUME LockInv, OneEngaged, LeftBehind, [Next]_vars PROVE OneEngaged'
    OBVIOUS
  <1>1. ASSUME NEW p \in Process, Try(p) \/ AlreadyHeld(p) \/ Crash(p) PROVE OneEngaged'
    <2>1. PICK label \in {"idle", "trying", "judging"} : Goto(p, label)
      BY <1>1 DEF Try, AlreadyHeld, Crash
    <2>2. name' = name
      BY <1>1 DEF Try, AlreadyHeld, Crash
    <2> QED
      BY <2>1, <2>2, GoesOnAlone DEF Labels
  <1>2. ASSUME NEW p \in Process, Create(p) PROVE OneEngaged'
    <2>1. \A q \in Process : ~ Engaged(q)
      BY <1>2 DEF Create, OneEngaged
    <2>2. FreshFile \in File
      BY <1>2, AnotherFile DEF Create, LockInv, OpenToWrite
    <2>3. name'.lock # NoFile
      BY <1>2, <2>2, LockAssumption DEF Create, LockInv, Types
    <2>4. Goto(p, "filling")
      BY <1>2 DEF Create
    <2> QED
      BY <2>1, <2>3, <2>4, EngagesAlone DEF Labels
  <1>3. ASSUME NEW p \in Process, Judge(p) PROVE OneEngaged'
    <2>1. name' = name /\ pc[p] = "judging"
      BY <1>3 DEF Judge
    <2>2. CASE Goto(p, "idle")
      BY <2>1, <2>2, GoesOnAlone DEF Labels
    <2>3. CASE Goto(p, "opening")
      <3>1. pc'[p] = "opening"
        BY <2>3 DEF Goto, LockInv, Types
      <3>2. name.lock # NoFile /\ \A q \in Process : ~ Engaged(q)
        BY <2>1, <3>1 DEF LeftBehind
      <3> QED
        BY <2>1, <2>3, <3>2, EngagesAlone DEF Labels
    <2> QED
      BY <1>3, <2>2, <2>3 DEF Judge
  <1>4. ASSUME NEW p \in Process,
               Fill(p) \/ OpenTemp(p) \/ WriteTemp(p) \/ Confirm(p) \/ Release(p) \/ Rename(p)
        PROVE  OneEngaged'
    <2>1. Engaged(p)
      BY <1>4 DEF Fill, OpenTemp, WriteTemp, Confirm, Release, Rename, Engaged
    <2>2. PICK label \in Labels : Goto(p, label)
      BY <1>4 DEF Fill, OpenTemp, WriteTemp, Confirm, Release, Rename, Labels
    <2>3. name'.lock = name.lock \/ name'.lock # NoFile
      BY <1>4 DEF Fill, OpenTemp, WriteTemp, Confirm, Release, Rename, LockInv, Types
    <2>4. name'.lock # NoFile
      BY <2>1, <2>3 DEF OneEngaged
    <2> QED
      BY <2>1, <2>2, <2>4, GoesOnAlone
  <1>5. ASSUME NEW p \in Process, Remove(p) PROVE OneEngaged'
    <2>1. Engaged(p) /\ Goto(p, "idle")
      BY <1>5 DEF Remove, Engaged
    <2> QED
      BY <2>1, GoesOnAlone DEF Labels
  <1>6. CASE Expire \/ UNCHANGED vars
    BY <1>6 DEF Expire, vars, OneEngaged, Engaged
  <1> QED
    BY <1>1, <1>2, <1>3, <1>4, <1>5, <1>6 DEF Next, Step, Attempt

\* Two processes hold the lock together only after one has taken it over while the
\* other was filling, holding, removing or taking it over, or after it was gone.
THEOREM ExcludesUntilTakenOver == Spec /\ [][LeftBehind]_vars => []Exclusion
  <1>1. Init => OneEngaged
    BY DEF Init, OneEngaged, Engaged
  <1>2. LockInv /\ OneEngaged /\ [LeftBehind]_vars /\ [Next]_vars => OneEngaged'
    <2>1. UNCHANGED vars /\ OneEngaged => OneEngaged'
      BY DEF vars, OneEngaged, Engaged
    <2> QED
      BY <2>1, EngagedSteps
  <1>3. OneEngaged => Exclusion
    BY DEF OneEngaged, Engaged, Exclusion, Held
  <1> QED
    BY <1>1, <1>2, <1>3, LockInvariant, PTL DEF Spec
=============================================================================
