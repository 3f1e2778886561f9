------------------------ MODULE PersonalSync_proofs ------------------------
(***************************************************************************)
(* Type correctness of PersonalSync, the meaning of record versions, what  *)
(* the planner guarantees, what a pass relies on while its user keeps      *)
(* still, and why no edit is lost then; for any number of devices, rows    *)
(* and records and any bounds.                                             *)
(***************************************************************************)
EXTENDS PersonalSync, TLAPS

(***************************************************************************)
(* The inductive invariant: besides the types, a pass only plans to use    *)
(* records that are in its snapshot of the store.                          *)
(***************************************************************************)
Known(p) ==
    /\ \A item \in p.plan.cloudUpdates \cup p.plan.localUpdates
                     \cup p.plan.marks \cup p.plan.conflicts :
          item.cid \in CloudId /\ p.records[item.cid] # NoRecord
    /\ \A k \in p.plan.downloads \cup p.tombstones : p.records[k] # NoRecord
    /\ p.pc \in {"idle", "listing", "reading"} => p.plan = EmptyPlan /\ p.tombstones = {}
    /\ p.written # None => p.pc = "applying"

PlansKnown == \A d \in Device : Known(pass[d])

SyncInv == TypeOK /\ PlansKnown

(***************************************************************************)
(* What any step does to the store, to the snapshots that passes hold of   *)
(* it and to those in the conflict tables.                                 *)
(***************************************************************************)
RemoteStep ==
    \A k \in CloudId :
        \/ remote'[k] = remote[k]
        \/ /\ remote'[k] # NoRecord
           /\ remote[k] # NoRecord => remote'[k].ver = remote[k].ver + 1

SnapshotStep ==
    \A d \in Device, k \in CloudId :
        \/ pass'[d].records[k] \in {NoRecord, pass[d].records[k]}
        \/ pass'[d].records[k] = remote[k] /\ remote'[k] = remote[k]

ConflictStep ==
    \A d \in Device, k \in CloudId :
        conflict'[d][k] \in {None, conflict[d][k], pass[d].records[k]}

GoodStep == SyncInv' /\ RemoteStep /\ SnapshotStep /\ ConflictStep

Used == [edits : 0 .. MaxEdits, deletes : 0 .. MaxDeletes, faults : 0 .. MaxFaults]

USE SyncAssumption, PlannerAssumption, MarkersAssumption
    DEF SyncAssumption, PlannerAssumption, MarkersAssumption

\* A device without a pass is in a state of the right shape.
LEMMA IdleGood == IdlePass \in Pass /\ Known(IdlePass) /\ IdlePass.pc = "idle"
  BY DEF IdlePass, Pass, Known, EmptyPlan

\* The invariant holds before anything was synced.
LEMMA InitType == Init => SyncInv
  <1> SUFFICES ASSUME Init PROVE SyncInv
    OBVIOUS
  <1>1. pass \in [Device -> Pass] /\ PlansKnown
    BY IdleGood DEF Init, PlansKnown
  <1>2. \A d \in Device : pass[d].pc # "idle" <=> lock = d
    BY IdleGood DEF Init
  <1> QED BY <1>1, <1>2 DEF Init, SyncInv, TypeOK

\* Replacing the pass of one device by a well-formed one leaves the others alone.
LEMMA PassUpdated ==
  ASSUME SyncInv, NEW d \in Device, NEW q \in Pass, Known(q),
         pass' = [pass EXCEPT ![d] = q]
  PROVE  /\ pass' \in [Device -> Pass] /\ PlansKnown'
         /\ pass'[d] = q
         /\ \A e \in Device \ {d} : pass'[e] = pass[e]
  BY DEF SyncInv, TypeOK, PlansKnown

\* A step of a running pass that keeps its snapshot of the store and the lock.
LEMMA PassContinues ==
  ASSUME SyncInv, NEW d \in Device, NEW q \in Pass, Known(q),
         pass' = [pass EXCEPT ![d] = q],
         q.records = pass[d].records,
         pass[d].pc # "idle", q.pc # "idle", UNCHANGED lock
  PROVE  /\ pass' \in [Device -> Pass] /\ PlansKnown' /\ SnapshotStep
         /\ \A e \in Device : pass'[e].pc # "idle" <=> lock' = e
  <1>1. /\ pass' \in [Device -> Pass] /\ PlansKnown'
        /\ pass'[d] = q
        /\ \A e \in Device \ {d} : pass'[e] = pass[e]
    BY PassUpdated
  <1>2. SnapshotStep
    BY <1>1 DEF SnapshotStep
  <1>3. \A e \in Device : pass'[e].pc # "idle" <=> lock' = e
    BY <1>1 DEF SyncInv, TypeOK
  <1> QED BY <1>1, <1>2, <1>3

\* A pass that is dropped, whether it was running or not, gives the lock back.
LEMMA PassReset ==
  ASSUME SyncInv, NEW d \in Device, pass' = [pass EXCEPT ![d] = IdlePass],
         lock' = IF lock = d THEN NoDevice ELSE lock
  PROVE  /\ pass' \in [Device -> Pass] /\ PlansKnown' /\ SnapshotStep
         /\ \A e \in Device : pass'[e].pc # "idle" <=> lock' = e
  <1>1. /\ pass' \in [Device -> Pass] /\ PlansKnown'
        /\ pass'[d] = IdlePass
        /\ \A e \in Device \ {d} : pass'[e] = pass[e]
    BY PassUpdated, IdleGood
  <1>2. SnapshotStep
    BY <1>1 DEF SnapshotStep, IdlePass
  <1>3. \A e \in Device : pass'[e].pc # "idle" <=> lock' = e
    BY <1>1, IdleGood DEF SyncInv, TypeOK
  <1> QED BY <1>1, <1>2, <1>3

\* A running pass that returns gives the lock back (SyncStoreLock is dropped).
LEMMA PassEnds ==
  ASSUME SyncInv, NEW d \in Device, pass[d].pc # "idle", Ends(d)
  PROVE  /\ pass' \in [Device -> Pass] /\ PlansKnown' /\ SnapshotStep
         /\ \A e \in Device : pass'[e].pc # "idle" <=> lock' = e
  BY PassReset DEF Ends, SyncInv, TypeOK

\* What a device stamps on a record or a row is a time.
LEMMA ClockNat == ASSUME SyncInv, NEW d \in Device PROVE Clock(d) \in Nat
  BY DEF Clock, SyncInv, TypeOK

\* Time stays a number when a write takes a second of its own.
LEMMA StampedNat == ASSUME SyncInv, Stamped PROVE now' \in Nat
  BY DEF Stamped, SyncInv, TypeOK

\* upsert_record stores a record whose version is one above the old one.
LEMMA Upserted ==
  ASSUME SyncInv, NEW d \in Device, NEW k \in CloudId, NEW val \in Content, Upsert(d, k, val)
  PROVE  remote' \in [CloudId -> Record \cup {NoRecord}] /\ now' \in Nat /\ RemoteStep
  <1> DEFINE r == [ver |-> NextVersion(k), upd |-> Clock(d), del |-> FALSE, val |-> val]
  <1>1. NextVersion(k) \in Nat /\ (remote[k] # NoRecord => NextVersion(k) = remote[k].ver + 1)
    BY DEF NextVersion, SyncInv, TypeOK, Record
  <1>2. r \in Record
    BY <1>1, ClockNat DEF Record
  <1>3. r # NoRecord /\ r.ver = NextVersion(k)
    BY <1>2
  <1>4. remote' = [remote EXCEPT ![k] = r]
    BY DEF Upsert
  <1> HIDE DEF r
  <1>5. remote' \in [CloudId -> Record \cup {NoRecord}] /\ RemoteStep
    BY <1>1, <1>2, <1>3, <1>4 DEF SyncInv, TypeOK, RemoteStep
  <1> QED BY <1>5, StampedNat DEF Upsert

\* tombstone_record keeps the content and raises the version by one.
LEMMA Tombstoned ==
  ASSUME SyncInv, NEW d \in Device, NEW k \in CloudId, remote[k] # NoRecord, Tombstone(d, k)
  PROVE  remote' \in [CloudId -> Record \cup {NoRecord}] /\ now' \in Nat /\ RemoteStep
  <1> DEFINE r == [ver |-> remote[k].ver + 1, upd |-> Clock(d), del |-> TRUE, val |-> remote[k].val]
  <1>1. remote[k] \in Record
    BY DEF SyncInv, TypeOK
  <1>2. r \in Record /\ r.ver = remote[k].ver + 1
    BY <1>1, ClockNat DEF Record
  <1>3. r # NoRecord
    BY <1>2
  <1>4. remote' = [remote EXCEPT ![k] = r]
    BY DEF Tombstone, SyncInv, TypeOK
  <1> HIDE DEF r
  <1>5. remote' \in [CloudId -> Record \cup {NoRecord}] /\ RemoteStep
    BY <1>2, <1>3, <1>4 DEF SyncInv, TypeOK, RemoteStep
  <1> QED BY <1>5, StampedNat DEF Tombstone

\* mark_synced changes one row, or none when the row is gone.
LEMMA Marked ==
  ASSUME SyncInv, NEW d \in Device, NEW l, NEW k \in CloudId, NEW synced \in Nat,
         row' = MarkedRows(d, l, k, synced)
  PROVE  row' \in [Device -> [LocalId -> Row \cup {NoRow}]]
  <1>1. CASE l \notin Rows(d)
    BY <1>1 DEF MarkedRows, SyncInv, TypeOK
  <1>2. CASE l \in Rows(d)
    <2> DEFINE r == [row[d][l] EXCEPT !.cid = k, !.base = synced]
    <2>1. l \in LocalId /\ row[d][l] \in Row
      BY <1>2 DEF Rows, SyncInv, TypeOK
    <2>2. r \in Row
      BY <2>1 DEF Row
    <2>3. row' = [row EXCEPT ![d] = [row[d] EXCEPT ![l] = r]]
      BY <1>2, <2>1 DEF MarkedRows, SyncInv, TypeOK
    <2> HIDE DEF r
    <2> QED BY <2>1, <2>2, <2>3 DEF SyncInv, TypeOK
  <1> QED BY <1>1, <1>2

\* What apply_remote makes of a record is a row.
LEMMA RowOfRecord == ASSUME NEW k \in CloudId, NEW r \in Record PROVE RowOf(k, r) \in Row
  BY DEF RowOf, Record, Row

\* Writing or deleting one row keeps the rest of the connections table.
LEMMA SetRow ==
  ASSUME SyncInv, NEW d \in Device, NEW l \in LocalId, NEW r \in Row \cup {NoRow},
         row' = [row EXCEPT ![d][l] = r]
  PROVE  row' \in [Device -> [LocalId -> Row \cup {NoRow}]]
  BY DEF SyncInv, TypeOK

\* What the user sees of a row, up to date or not, is a row.
LEMMA ListedRow ==
  ASSUME SyncInv, NEW d \in Device, NEW l \in LocalId
  PROVE  Listed(d)[l] \in Row \cup {NoRow}
  BY DEF Listed, SyncInv, TypeOK

\* Reloading the list on screen keeps it a list of rows.
LEMMA Reloaded ==
  ASSUME SyncInv, NEW d \in Device, NEW rows \in [LocalId -> Row \cup {NoRow}],
         Reload(d, rows)
  PROVE  shown' \in [Device -> [LocalId -> Row \cup {NoRow}]]
  BY DEF Reload, SyncInv, TypeOK

\* The conflict table only takes in snapshots of the pass of its own device.
LEMMA SetConflict ==
  ASSUME SyncInv, NEW d \in Device, NEW k \in CloudId, NEW r \in Record \cup {None},
         r \in {None, pass[d].records[k]},
         conflict' = [conflict EXCEPT ![d][k] = r]
  PROVE  conflict' \in [Device -> [CloudId -> Record \cup {None}]] /\ ConflictStep
  BY DEF SyncInv, TypeOK, ConflictStep

\* A step that leaves the conflict table alone.
LEMMA KeptConflict ==
  ASSUME SyncInv, UNCHANGED conflict
  PROVE  conflict' \in [Device -> [CloudId -> Record \cup {None}]] /\ ConflictStep
  BY DEF SyncInv, TypeOK, ConflictStep

\* A step that leaves passes and the lock alone.
LEMMA KeptPass ==
  ASSUME SyncInv, UNCHANGED <<pass, lock>>
  PROVE  /\ pass' \in [Device -> Pass] /\ PlansKnown' /\ SnapshotStep
         /\ \A e \in Device : pass'[e].pc # "idle" <=> lock' = e
  BY DEF SyncInv, TypeOK, SnapshotStep, PlansKnown

\* A step that leaves the store alone.
LEMMA KeptRemote ==
  ASSUME SyncInv, UNCHANGED remote
  PROVE  remote' \in [CloudId -> Record \cup {NoRecord}] /\ RemoteStep
  BY DEF SyncInv, TypeOK, RemoteStep

\* The counters of edits, deletions and failures stay within their bounds.
LEMMA UsedUp ==
  ASSUME SyncInv
  PROVE  /\ used.edits < MaxEdits =>
               /\ NewEdit \in Edit
               /\ [used EXCEPT !.edits = NewEdit] \in Used
         /\ used.deletes < MaxDeletes => [used EXCEPT !.deletes = @ + 1] \in Used
         /\ used.faults < MaxFaults => [used EXCEPT !.faults = @ + 1] \in Used
  <1>1. used \in Used
    BY DEF SyncInv, TypeOK, Used
  <1> QED BY <1>1 DEF Used, NewEdit, Edit

\* Every action of the user changes rows, the form, the queue of deletions, and
\* of the conflicts at most forgets one.
LEMMA UserGood == ASSUME SyncInv, NEW d \in Device, UserStep(d) PROVE GoodStep
  <1>1. ASSUME NEW l \in LocalId, CreateRow(d, l) PROVE GoodStep
    <2> DEFINE r == [cid |-> NoId, upd |-> Clock(d), base |-> 0, val |-> {NewEdit}]
    <2>1. r \in Row /\ used' \in Used
      BY <1>1, ClockNat, UsedUp DEF CreateRow, Row, Content
    <2>2. row' \in [Device -> [LocalId -> Row \cup {NoRow}]]
      <3>1. row' = [row EXCEPT ![d][l] = r]
        BY <1>1 DEF CreateRow
      <3> QED BY <2>1, <3>1, SetRow
    <2>3. now' \in Nat
      BY <1>1, StampedNat DEF CreateRow
    <2>4. shown' \in [Device -> [LocalId -> Row \cup {NoRow}]]
      BY <1>1, <2>2, Reloaded DEF CreateRow
    <2> QED
      BY <1>1, <2>1, <2>2, <2>3, <2>4, KeptConflict, KeptPass, KeptRemote
         DEF CreateRow, GoodStep, SyncInv, TypeOK, Used
  <1>2. ASSUME NEW l \in LocalId, OpenForm(d, l) PROVE GoodStep
    <2> DEFINE r == Listed(d)[l]
               f == [local |-> l, cid |-> r.cid, base |-> r.base, val |-> r.val]
    <2>1. r \in Row
      BY <1>2, ListedRow DEF OpenForm
    <2>2. f \in Form
      BY <2>1 DEF Row, Form
    <2>3. form' = [form EXCEPT ![d] = f]
      BY <1>2 DEF OpenForm
    <2> HIDE DEF f
    <2>4. form' \in [Device -> Form \cup {None}]
      BY <2>2, <2>3 DEF SyncInv, TypeOK
    <2> QED
      BY <1>2, <2>4, KeptConflict, KeptPass, KeptRemote
         DEF OpenForm, GoodStep, SyncInv, TypeOK
  <1>3. CASE SaveForm(d)
    <2> DEFINE f == form[d]
               r == [cid |-> f.cid, upd |-> Clock(d), base |-> f.base,
                     val |-> f.val \cup {NewEdit}]
    <2>1. f \in Form
      BY <1>3 DEF SaveForm, SyncInv, TypeOK
    <2>2. r \in Row /\ used' \in Used
      BY <1>3, <2>1, ClockNat, UsedUp DEF SaveForm, Form, Row, Content
    <2>3. row' \in [Device -> [LocalId -> Row \cup {NoRow}]]
      <3>1. row' = [row EXCEPT ![d][f.local] = r] /\ f.local \in LocalId
        BY <1>3, <2>1 DEF SaveForm, Form
      <3> QED BY <2>2, <3>1, SetRow
    <2>4. now' \in Nat
      BY <1>3, StampedNat DEF SaveForm
    <2>5. shown' \in [Device -> [LocalId -> Row \cup {NoRow}]]
      BY <1>3, <2>3, Reloaded DEF SaveForm
    <2> QED
      BY <1>3, <2>2, <2>3, <2>4, <2>5, KeptConflict, KeptPass, KeptRemote
         DEF SaveForm, GoodStep, SyncInv, TypeOK, Used
  <1>4. CASE CloseForm(d)
    BY <1>4, KeptConflict, KeptPass, KeptRemote DEF CloseForm, GoodStep, SyncInv, TypeOK
  <1>5. ASSUME NEW l \in LocalId, DeleteRow(d, l) PROVE GoodStep
    <2> DEFINE k == Listed(d)[l].cid
               old == row[d][l]
               ev == [cid |-> k, base |-> IF old = NoRow THEN 0 ELSE old.base]
    <2>1. Listed(d)[l] \in Row /\ old \in Row \cup {NoRow}
      BY <1>5, ListedRow DEF DeleteRow, SyncInv, TypeOK
    <2>2. row' \in [Device -> [LocalId -> Row \cup {NoRow}]]
      BY <1>5, SetRow DEF DeleteRow
    <2>3. used' \in Used
      BY <1>5, UsedUp DEF DeleteRow
    <2>4. abandoned' \in [Device -> SUBSET Edit]
      <3>1. (IF old = NoRow THEN {} ELSE old.val) \in SUBSET Edit
        BY <2>1 DEF Row, Content
      <3> QED BY <1>5, <3>1 DEF DeleteRow, SyncInv, TypeOK
    <2>5. shown' \in [Device -> [LocalId -> Row \cup {NoRow}]]
      BY <1>5, <2>2, Reloaded DEF DeleteRow
    <2>6. /\ deletions' \in [Device -> SUBSET Event]
          /\ conflict' \in [Device -> [CloudId -> Record \cup {None}]] /\ ConflictStep
      <3>1. CASE k = NoId
        <4>1. UNCHANGED <<deletions, conflict>>
          BY <1>5, <3>1 DEF DeleteRow
        <4> QED BY <4>1, KeptConflict DEF SyncInv, TypeOK
      <3>2. CASE k # NoId
        <4>1. k \in CloudId /\ ev \in Event
          BY <2>1, <3>2 DEF Row, Event
        <4>2. deletions' = [deletions EXCEPT ![d] = deletions[d] \cup {ev}]
          BY <1>5, <3>2 DEF DeleteRow, SyncInv, TypeOK
        <4>3. conflict' = [conflict EXCEPT ![d][k] = None]
          BY <1>5, <3>2 DEF DeleteRow, ForgetRecord
        <4> HIDE DEF ev, k
        <4>4. deletions' \in [Device -> SUBSET Event]
          BY <4>1, <4>2 DEF SyncInv, TypeOK
        <4> QED BY <4>1, <4>3, <4>4, SetConflict
      <3> QED BY <3>1, <3>2
    <2> QED
      BY <1>5, <2>2, <2>3, <2>4, <2>5, <2>6, KeptPass, KeptRemote
         DEF DeleteRow, GoodStep, SyncInv, TypeOK, Used
  <1>6. CASE RefreshList(d)
    <2>1. shown' \in [Device -> [LocalId -> Row \cup {NoRow}]]
      BY <1>6, Reloaded DEF RefreshList, SyncInv, TypeOK
    <2> QED
      BY <1>6, <2>1, KeptConflict, KeptPass, KeptRemote
         DEF RefreshList, GoodStep, SyncInv, TypeOK
  <1> QED BY <1>1, <1>2, <1>3, <1>4, <1>5, <1>6 DEF UserStep

\* The steps of a pass up to its plan: the snapshots are taken, the deletions
\* are applied.
LEMMA DeletingGood ==
  ASSUME SyncInv, NEW d \in Device,
         \/ BeginPass(d) \/ ListItems(d) \/ ListRecords(d) \/ ReadPaused(d)
         \/ \E ev \in pass[d].events :
               ForgetDeleted(d, ev) \/ PauseDeleted(d, ev) \/ PushDelete(d, ev)
         \/ \E k \in CloudId : ApplyTombstone(d, k)
  PROVE  GoodStep
  <1> DEFINE p == pass[d]
  <1>0. p \in Pass /\ Known(p)
    BY DEF SyncInv, TypeOK, PlansKnown
  <1>1. CASE BeginPass(d)
    <2> DEFINE q == [p EXCEPT !.pc = "listing", !.events = deletions[d]]
    <2>1. q \in Pass /\ Known(q) /\ q.records = p.records /\ q.pc # "idle"
      <3>1. q \in Pass /\ q.records = p.records /\ q.pc # "idle"
        BY <1>0 DEF SyncInv, TypeOK, Pass
      <3>2. Known(q)
        BY <1>0, <1>1 DEF BeginPass, Pass, Known
      <3> QED BY <3>1, <3>2
    <2>2. pass' = [pass EXCEPT ![d] = q]
      BY <1>1 DEF BeginPass
    <2>3. /\ pass' \in [Device -> Pass] /\ PlansKnown'
          /\ pass'[d] = q
          /\ \A e \in Device \ {d} : pass'[e] = pass[e]
      BY <2>1, <2>2, PassUpdated
    <2>4. \A e \in Device : pass'[e].pc # "idle" <=> lock' = e
      BY <1>1, <2>1, <2>3 DEF BeginPass, SyncInv, TypeOK
    <2>5. SnapshotStep
      BY <2>1, <2>3 DEF SnapshotStep
    <2>6. deletions' \in [Device -> SUBSET Event]
      BY <1>1 DEF BeginPass, SyncInv, TypeOK
    <2> QED
      BY <1>1, <2>3, <2>4, <2>5, <2>6, KeptConflict, KeptRemote
         DEF BeginPass, GoodStep, SyncInv, TypeOK
  <1>2. CASE ListItems(d)
    <2> DEFINE q == [p EXCEPT !.pc = "reading", !.items = Items(d)]
    <2>1. Items(d) \in SUBSET Item
      BY DEF Items, Snapshot, Item, Rows, Row, SyncInv, TypeOK
    <2>2. q \in Pass /\ Known(q) /\ q.records = p.records /\ q.pc # "idle"
      <3>1. q \in Pass /\ q.records = p.records /\ q.pc # "idle"
        BY <1>0, <2>1 DEF Pass
      <3>2. Known(q)
        BY <1>0, <1>2 DEF ListItems, Pass, Known
      <3> QED BY <3>1, <3>2
    <2>3. pass' = [pass EXCEPT ![d] = q] /\ p.pc # "idle"
      BY <1>2 DEF ListItems
    <2> HIDE DEF q
    <2> QED
      BY <1>2, <2>2, <2>3, PassContinues, KeptConflict, KeptRemote
         DEF ListItems, GoodStep, SyncInv, TypeOK
  <1>3. CASE ListRecords(d)
    <2> DEFINE q == [p EXCEPT !.pc = "pausing", !.records = remote]
    <2>1. q \in Pass /\ q.records = remote /\ q.pc # "idle"
      BY <1>0 DEF Pass, SyncInv, TypeOK
    <2>2. Known(q)
      BY <1>0, <1>3 DEF ListRecords, Known, EmptyPlan
    <2>3. pass' = [pass EXCEPT ![d] = q] /\ p.pc # "idle"
      BY <1>3 DEF ListRecords
    <2> HIDE DEF q
    <2>4. /\ pass' \in [Device -> Pass] /\ PlansKnown'
          /\ pass'[d] = q
          /\ \A e \in Device \ {d} : pass'[e] = pass[e]
      BY <2>1, <2>2, <2>3, PassUpdated
    <2>5. SnapshotStep
      BY <1>3, <2>1, <2>4 DEF SnapshotStep, ListRecords
    <2>6. \A e \in Device : pass'[e].pc # "idle" <=> lock' = e
      BY <1>3, <2>1, <2>3, <2>4 DEF ListRecords, SyncInv, TypeOK
    <2> QED
      BY <1>3, <2>4, <2>5, <2>6, KeptConflict, KeptRemote
         DEF ListRecords, GoodStep, SyncInv, TypeOK
  <1>4. CASE ReadPaused(d)
    <2> DEFINE paused == {k \in CloudId : conflict[d][k] # None}
               deleted == {ev.cid : ev \in p.events}
               tombstones == {k \in CloudId \ paused :
                                /\ p.records[k] # NoRecord
                                /\ p.records[k].del
                                /\ \E item \in p.items : item.cid = k}
               q == [p EXCEPT !.pc = "deleting", !.paused = paused,
                              !.deleted = deleted, !.tombstones = tombstones]
    <2>1. deleted \in SUBSET CloudId
      BY <1>0 DEF Pass, Event
    <2>2. pass' = [pass EXCEPT ![d] = q] /\ p.pc = "pausing"
      BY <1>4 DEF ReadPaused, PausedRecords
    <2>3. q \in Pass /\ Known(q) /\ q.records = p.records /\ q.pc # "idle"
      <3> HIDE DEF p, paused, deleted, tombstones
      <3>1. /\ paused \in SUBSET CloudId /\ tombstones \in SUBSET CloudId
            /\ \A k \in tombstones : p.records[k] # NoRecord
        BY DEF paused, tombstones
      <3>2. q \in Pass /\ q.records = p.records /\ q.pc = "deleting"
        BY <3>1, <1>0, <2>1 DEF Pass
      <3>3. Known(q)
        BY <3>1, <1>0, <2>2 DEF Pass, Known
      <3> QED BY <3>2, <3>3
    <2> HIDE DEF q
    <2> QED
      BY <1>4, <2>2, <2>3, PassContinues, KeptConflict, KeptRemote
         DEF ReadPaused, GoodStep, SyncInv, TypeOK
  <1>5. ASSUME NEW ev \in p.events,
               ForgetDeleted(d, ev) \/ PauseDeleted(d, ev) \/ PushDelete(d, ev)
        PROVE  GoodStep
    <2> DEFINE q == [p EXCEPT !.events = @ \ {ev}]
               r == p.records[ev.cid]
    <2>1. ev.cid \in CloudId /\ r \in Record \cup {NoRecord}
      BY <1>0 DEF Pass, Event
    <2>2. p.pc = "deleting"
      BY <1>5 DEF ForgetDeleted, PauseDeleted, PushDelete
    <2>3. q \in Pass /\ Known(q) /\ q.records = p.records /\ q.pc # "idle"
      BY <1>0, <2>2 DEF Pass, Known
    <2>4. CASE ForgetDeleted(d, ev)
      <3>1. pass' = [pass EXCEPT ![d] = q] /\ UNCHANGED lock
        BY <2>4 DEF ForgetDeleted
      <3>2. conflict' \in [Device -> [CloudId -> Record \cup {None}]] /\ ConflictStep
        BY <2>1, <2>4, SetConflict DEF PauseRecord, ForgetRecord, ForgetDeleted
      <3> HIDE DEF q
      <3> QED
        BY <2>2, <2>3, <2>4, <3>1, <3>2, PassContinues, KeptRemote
           DEF ForgetDeleted, GoodStep, SyncInv, TypeOK
    <2>5. CASE PauseDeleted(d, ev)
      <3>1. pass' = [pass EXCEPT ![d] = q] /\ UNCHANGED lock
        BY <2>5 DEF PauseDeleted
      <3>2. conflict' \in [Device -> [CloudId -> Record \cup {None}]] /\ ConflictStep
        BY <2>1, <2>5, SetConflict DEF PauseRecord, ForgetRecord, PauseDeleted
      <3> HIDE DEF q
      <3> QED
        BY <2>2, <2>3, <2>5, <3>1, <3>2, PassContinues, KeptRemote
           DEF PauseDeleted, GoodStep, SyncInv, TypeOK
    <2>6. CASE PushDelete(d, ev)
      <3>1. conflict' \in [Device -> [CloudId -> Record \cup {None}]] /\ ConflictStep
        BY <2>1, <2>6, SetConflict DEF PauseRecord, ForgetRecord, PushDelete
      <3>2. CASE Accepts(ev.cid, r.ver)
        <4>1. pass' = [pass EXCEPT ![d] = q] /\ UNCHANGED lock /\ Tombstone(d, ev.cid)
          BY <2>6, <3>2 DEF PushDelete
        <4>2. r \in Record
          BY <2>1, <2>6 DEF PushDelete
        <4>3. remote[ev.cid] # NoRecord
          BY <3>2, <4>2 DEF Accepts, Record
        <4> HIDE DEF q
        <4> QED
          BY <2>1, <2>2, <2>3, <2>6, <3>1, <4>1, <4>3, PassContinues, Tombstoned
             DEF PushDelete, GoodStep, SyncInv, TypeOK
      <3>3. CASE ~ Accepts(ev.cid, r.ver)
        <4>1. Ends(d) /\ UNCHANGED <<remote, now>>
          BY <2>6, <3>3 DEF PushDelete
        <4> QED
          BY <2>2, <2>6, <3>1, <4>1, PassEnds, KeptRemote
             DEF PushDelete, GoodStep, SyncInv, TypeOK
      <3> QED BY <3>2, <3>3
    <2> QED BY <1>5, <2>4, <2>5, <2>6
  <1>6. ASSUME NEW k \in CloudId, ApplyTombstone(d, k) PROVE GoodStep
    <2>1. p.pc = "deleting" /\ k \in p.tombstones
      BY <1>6 DEF ApplyTombstone
    <2>2. p.records[k] \in Record
      BY <1>0, <2>1 DEF Pass, Known
    <2>3. PICK item \in p.items :
            /\ item.cid = k
            /\ IF LocalChangedSinceSync(item) \/ item.local \in Referenced
               THEN /\ conflict' = [conflict EXCEPT ![d][k] = p.records[k]]
                    /\ pass' = [pass EXCEPT ![d].tombstones = @ \ {k},
                                            ![d].paused = @ \cup {k}]
                    /\ UNCHANGED row
               ELSE /\ row' = [row EXCEPT ![d][item.local] = NoRow]
                    /\ pass' = [pass EXCEPT ![d].tombstones = @ \ {k}]
                    /\ UNCHANGED conflict
      BY <1>6 DEF ApplyTombstone, PauseRecord
    <2>4. item.local \in LocalId
      BY <1>0 DEF Pass, Item
    <2>5. CASE LocalChangedSinceSync(item) \/ item.local \in Referenced
      <3> DEFINE q == [p EXCEPT !.tombstones = @ \ {k}, !.paused = @ \cup {k}]
      <3>1. q \in Pass /\ Known(q) /\ q.records = p.records /\ q.pc # "idle"
        BY <1>0, <2>1 DEF Pass, Known
      <3>2. pass' = [pass EXCEPT ![d] = q] /\ UNCHANGED row
        BY <2>3, <2>5
      <3>3. conflict' \in [Device -> [CloudId -> Record \cup {None}]] /\ ConflictStep
        BY <2>2, <2>3, <2>5, SetConflict
      <3> HIDE DEF q
      <3> QED
        BY <1>6, <2>1, <3>1, <3>2, <3>3, PassContinues, KeptRemote
           DEF ApplyTombstone, GoodStep, SyncInv, TypeOK
    <2>6. CASE ~ (LocalChangedSinceSync(item) \/ item.local \in Referenced)
      <3> DEFINE q == [p EXCEPT !.tombstones = @ \ {k}]
      <3>1. q \in Pass /\ Known(q) /\ q.records = p.records /\ q.pc # "idle"
        BY <1>0, <2>1 DEF Pass, Known
      <3>2. /\ pass' = [pass EXCEPT ![d] = q] /\ UNCHANGED conflict
            /\ row' = [row EXCEPT ![d][item.local] = NoRow]
        BY <2>3, <2>6
      <3>3. row' \in [Device -> [LocalId -> Row \cup {NoRow}]]
        BY <2>4, <3>2, SetRow
      <3> HIDE DEF q
      <3> QED
        BY <1>6, <2>1, <3>1, <3>2, <3>3, PassContinues, KeptRemote, KeptConflict
           DEF ApplyTombstone, GoodStep, SyncInv, TypeOK
    <2> QED BY <2>5, <2>6
  <1> QED BY <1>1, <1>2, <1>3, <1>4, <1>5, <1>6

\* The planner files an item or a key only when its record is there.
LEMMA PlanGood ==
  ASSUME NEW p \in Pass, NEW records \in [CloudId -> Record \cup {NoRecord}],
         \A k \in CloudId : records[k] # NoRecord => p.records[k] # NoRecord,
         Known(p), p.pc = "deleting"
  PROVE  LET q == [p EXCEPT !.pc = "applying", !.plan = Plan(p.items, records, p.paused)]
         IN  q \in Pass /\ Known(q) /\ q.records = p.records /\ q.pc # "idle"
  <1> DEFINE plan == Plan(p.items, records, p.paused)
             q == [p EXCEPT !.pc = "applying", !.plan = plan]
  <1>1. /\ plan.uploads \in SUBSET Item /\ plan.downloads \in SUBSET CloudId
        /\ \A items \in {plan.cloudUpdates, plan.localUpdates, plan.marks, plan.conflicts} :
              /\ items \in SUBSET Item
              /\ \A item \in items : /\ item.cid \in CloudId
                                     /\ p.records[item.cid] # NoRecord
        /\ \A k \in plan.downloads : p.records[k] # NoRecord
    BY DEF Plan, Differing, IsComparable, Pass, Item
  <1>2. plan = [uploads |-> plan.uploads, cloudUpdates |-> plan.cloudUpdates,
                localUpdates |-> plan.localUpdates, downloads |-> plan.downloads,
                marks |-> plan.marks, conflicts |-> plan.conflicts]
    BY DEF Plan
  <1> HIDE DEF plan
  <1>3. q \in Pass /\ q.records = p.records /\ q.pc # "idle"
    BY <1>1, <1>2 DEF Pass
  <1>4. Known(q)
    BY <1>1 DEF Known, Pass
  <1> QED BY <1>3, <1>4 DEF plan

\* A plan with some of its entries done.
Rest(plan) ==
    [uploads : SUBSET plan.uploads, cloudUpdates : SUBSET plan.cloudUpdates,
     localUpdates : SUBSET plan.localUpdates, downloads : SUBSET plan.downloads,
     marks : SUBSET plan.marks, conflicts : SUBSET plan.conflicts]

Written == [local : LocalId, cid : CloudId, upd : Nat]

\* What is left of a plan after a step is still known.
LEMMA PlanShrinks ==
  ASSUME NEW p \in Pass, Known(p), p.pc = "applying", NEW plan \in Rest(p.plan)
  PROVE  LET q == [p EXCEPT !.plan = plan]
         IN  q \in Pass /\ Known(q) /\ q.records = p.records /\ q.pc = "applying"
  <1> DEFINE q == [p EXCEPT !.plan = plan]
  <1>1. /\ q.plan = plan /\ q.records = p.records /\ q.pc = p.pc
        /\ q.tombstones = p.tombstones /\ q.written = p.written
    BY DEF Pass
  <1>2. q \in Pass
    BY DEF Pass, Rest
  <1>3. Known(q)
    BY <1>1 DEF Known, Pass, Rest
  <1> QED BY <1>1, <1>2, <1>3

\* A pass that has just written a record remembers it.
LEMMA PassWritten ==
  ASSUME NEW p \in Pass, Known(p), p.pc = "applying", NEW written \in Written \cup {None}
  PROVE  LET q == [p EXCEPT !.written = written]
         IN  q \in Pass /\ Known(q) /\ q.records = p.records /\ q.pc = "applying"
  <1> DEFINE q == [p EXCEPT !.written = written]
  <1>1. /\ q.plan = p.plan /\ q.records = p.records /\ q.pc = p.pc
        /\ q.tombstones = p.tombstones
    BY DEF Pass
  <1>2. q \in Pass
    BY DEF Pass, Written
  <1>3. Known(q)
    BY <1>1 DEF Known, Pass
  <1> QED BY <1>1, <1>2, <1>3

\* export_item with upsert_record, shared by uploads and cloud updates: the record is
\* written, or the pass ends with an error.
LEMMA ExportGood ==
  ASSUME SyncInv, NEW d \in Device, NEW item \in Item, NEW expected,
         NEW plan \in Rest(pass[d].plan), Applying(d),
         Export(d, item, expected, plan),
         UNCHANGED <<row, shown, form, deletions, conflict, resolving, used, abandoned>>
  PROVE  GoodStep
  <1>0. pass[d] \in Pass /\ Known(pass[d]) /\ pass[d].pc = "applying"
    BY DEF SyncInv, TypeOK, PlansKnown, Applying
  <1>1. CASE Ends(d) /\ UNCHANGED <<remote, now>>
    BY <1>0, <1>1, PassEnds, KeptRemote, KeptConflict DEF GoodStep, SyncInv, TypeOK
  <1>2. CASE ~ (Ends(d) /\ UNCHANGED <<remote, now>>)
    <2>1. item.local \in Rows(d)
      BY <1>2 DEF Export, ExportId
    <2>2. item.local \in LocalId /\ row[d][item.local] \in Row
      BY <2>1 DEF Rows, SyncInv, TypeOK
    <2>3. PICK k \in IF row[d][item.local].cid = NoId THEN FreshCloud
                     ELSE {row[d][item.local].cid} :
            /\ Upsert(d, k, row[d][item.local].val)
            /\ pass' = [pass EXCEPT
                  ![d].plan = plan,
                  ![d].written = [local |-> item.local, cid |-> k, upd |-> Clock(d)]]
            /\ UNCHANGED lock
      BY <1>2, <2>1 DEF Export, ExportId
    <2>4. k \in CloudId /\ row[d][item.local].val \in Content
      BY <2>2, <2>3 DEF FreshCloud, Row
    <2> DEFINE written == [local |-> item.local, cid |-> k, upd |-> Clock(d)]
               planned == [pass[d] EXCEPT !.plan = plan]
               q == [planned EXCEPT !.written = written]
    <2>5. written \in Written
      BY <2>2, <2>4, ClockNat DEF Written
    <2>6. pass' = [pass EXCEPT ![d] = q]
      BY <2>3
    <2>7. q \in Pass /\ Known(q) /\ q.records = pass[d].records /\ q.pc # "idle"
      <3>1. /\ planned \in Pass /\ Known(planned)
            /\ planned.records = pass[d].records /\ planned.pc = "applying"
        BY <1>0, PlanShrinks
      <3> HIDE DEF planned, written
      <3> QED BY <3>1, <2>5, PassWritten
    <2> HIDE DEF q
    <2> QED
      BY <1>0, <2>3, <2>4, <2>6, <2>7, PassContinues, Upserted, KeptConflict
         DEF GoodStep, SyncInv, TypeOK
  <1> QED BY <1>1, <1>2

\* The steps of a pass from its plan to its end.
LEMMA ApplyingGood ==
  ASSUME SyncInv, NEW d \in Device,
         \/ MakePlan(d) \/ MarkWritten(d) \/ EndPass(d)
         \/ \E k \in CloudId : Download(d, k)
         \/ \E item \in pass[d].items :
               \/ Upload(d, item) \/ UpdateCloud(d, item) \/ UpdateLocal(d, item)
               \/ MarkSynced(d, item) \/ PauseConflict(d, item)
  PROVE  GoodStep
  <1> DEFINE p == pass[d]
  <1>0. p \in Pass /\ Known(p)
    BY DEF SyncInv, TypeOK, PlansKnown
  <1>a. p.pc = "applying" => p.plan \in Rest(p.plan)
    BY <1>0 DEF Pass, Rest
  <1>1. CASE MakePlan(d)
    <2> DEFINE active == [k \in CloudId |->
                            IF p.records[k] = NoRecord THEN NoRecord
                            ELSE IF p.records[k].del \/ k \in p.deleted THEN NoRecord
                            ELSE p.records[k]]
               q == [p EXCEPT !.pc = "applying", !.plan = Plan(p.items, active, p.paused)]
    <2>1. /\ active \in [CloudId -> Record \cup {NoRecord}]
          /\ \A k \in CloudId : active[k] # NoRecord => p.records[k] # NoRecord
      BY <1>0 DEF Pass
    <2>2. pass' = [pass EXCEPT ![d] = q] /\ p.pc = "deleting"
      BY <1>1 DEF MakePlan
    <2>3. q \in Pass /\ Known(q) /\ q.records = p.records /\ q.pc # "idle"
      <3> HIDE DEF active, p
      <3> QED BY <1>0, <2>1, <2>2, PlanGood
    <2> HIDE DEF q
    <2> QED
      BY <1>1, <2>2, <2>3, PassContinues, KeptConflict, KeptRemote
         DEF MakePlan, GoodStep, SyncInv, TypeOK
  <1>2. CASE MarkWritten(d)
    <2> DEFINE q == [p EXCEPT !.written = None]
    <2>1. p.written \in Written /\ p.pc = "applying"
      BY <1>0, <1>2 DEF MarkWritten, Pass, Known, Written
    <2>2. row' \in [Device -> [LocalId -> Row \cup {NoRow}]]
      BY <1>2, <2>1, Marked DEF MarkWritten, Written
    <2>3. pass' = [pass EXCEPT ![d] = q]
      BY <1>2 DEF MarkWritten
    <2>4. q \in Pass /\ Known(q) /\ q.records = p.records /\ q.pc # "idle"
      BY <1>0, <2>1, PassWritten
    <2> HIDE DEF q
    <2> QED
      BY <1>2, <2>1, <2>2, <2>3, <2>4, PassContinues, KeptConflict, KeptRemote
         DEF MarkWritten, GoodStep, SyncInv, TypeOK
  <1>3. CASE EndPass(d)
    BY <1>3, PassEnds, KeptConflict, KeptRemote
       DEF EndPass, Applying, GoodStep, SyncInv, TypeOK
  <1>4. ASSUME NEW k \in CloudId, Download(d, k) PROVE GoodStep
    <2> DEFINE plan == [p.plan EXCEPT !.downloads = @ \ {k}]
               q == [p EXCEPT !.plan = plan]
    <2>1. p.pc = "applying" /\ p.written = None /\ k \in p.plan.downloads
      BY <1>4 DEF Download, Applying
    <2>2. plan \in Rest(p.plan)
      BY <1>a, <2>1 DEF Rest
    <2>3. q \in Pass /\ Known(q) /\ q.records = p.records /\ q.pc # "idle"
      BY <1>0, <2>1, <2>2, PlanShrinks
    <2>4. pass' = [pass EXCEPT ![d] = q]
      BY <1>0, <1>4, <2>1 DEF Download, Pass
    <2>5. p.records[k] \in Record
      BY <1>0, <2>1 DEF Pass, Known
    <2>6. row' \in [Device -> [LocalId -> Row \cup {NoRow}]]
      BY <1>4, <2>5, RowOfRecord, SetRow DEF Download, FreshLocal
    <2> HIDE DEF q
    <2> QED
      BY <1>4, <2>1, <2>3, <2>4, <2>6, PassContinues, KeptConflict, KeptRemote
         DEF Download, GoodStep, SyncInv, TypeOK
  <1>5. ASSUME NEW item \in p.items, Upload(d, item) PROVE GoodStep
    <2> DEFINE plan == [p.plan EXCEPT !.uploads = @ \ {item}]
    <2>1. p.pc = "applying" /\ item \in Item
      BY <1>0, <1>5 DEF Upload, Applying, Pass
    <2>2. plan \in Rest(p.plan)
      BY <1>a, <2>1 DEF Rest
    <2> QED BY <1>5, <2>1, <2>2, ExportGood DEF Upload
  <1>6. ASSUME NEW item \in p.items, UpdateCloud(d, item) PROVE GoodStep
    <2> DEFINE plan == [p.plan EXCEPT !.cloudUpdates = @ \ {item}]
    <2>1. p.pc = "applying" /\ item \in Item
      BY <1>0, <1>6 DEF UpdateCloud, Applying, Pass
    <2>2. plan \in Rest(p.plan)
      BY <1>a, <2>1 DEF Rest
    <2> QED BY <1>6, <2>1, <2>2, ExportGood DEF UpdateCloud
  <1>7. ASSUME NEW item \in p.items, UpdateLocal(d, item) PROVE GoodStep
    <2>1. p.pc = "applying" /\ p.written = None /\ item \in p.plan.localUpdates
      BY <1>7 DEF UpdateLocal, Applying
    <2>2. CASE item.local \notin Rows(d)
      BY <1>7, <2>1, <2>2, PassEnds, KeptConflict, KeptRemote
         DEF UpdateLocal, GoodStep, SyncInv, TypeOK
    <2>3. CASE item.local \in Rows(d)
      <3> DEFINE plan == [p.plan EXCEPT !.localUpdates = @ \ {item}]
                 q == [p EXCEPT !.plan = plan]
      <3>1. plan \in Rest(p.plan)
        BY <1>a, <2>1 DEF Rest
      <3>2. q \in Pass /\ Known(q) /\ q.records = p.records /\ q.pc # "idle"
        BY <1>0, <2>1, <3>1, PlanShrinks
      <3>3. pass' = [pass EXCEPT ![d] = q] /\ UNCHANGED lock
        BY <1>0, <1>7, <2>1, <2>3 DEF UpdateLocal, Pass
      <3>4. /\ item.cid \in CloudId /\ p.records[item.cid] \in Record
            /\ item.local \in LocalId
        BY <1>0, <2>1, <2>3 DEF Pass, Known, Rows
      <3>5. row' \in [Device -> [LocalId -> Row \cup {NoRow}]]
        BY <1>7, <2>3, <3>4, RowOfRecord, SetRow DEF UpdateLocal
      <3> HIDE DEF q
      <3> QED
        BY <1>7, <2>1, <3>2, <3>3, <3>5, PassContinues, KeptConflict, KeptRemote
           DEF UpdateLocal, GoodStep, SyncInv, TypeOK
    <2> QED BY <2>2, <2>3
  <1>8. ASSUME NEW item \in p.items, MarkSynced(d, item) PROVE GoodStep
    <2> DEFINE plan == [p.plan EXCEPT !.marks = @ \ {item}]
               q == [p EXCEPT !.plan = plan]
    <2>1. p.pc = "applying" /\ p.written = None /\ item \in p.plan.marks
      BY <1>8 DEF MarkSynced, Applying
    <2>2. plan \in Rest(p.plan)
      BY <1>a, <2>1 DEF Rest
    <2>3. q \in Pass /\ Known(q) /\ q.records = p.records /\ q.pc # "idle"
      BY <1>0, <2>1, <2>2, PlanShrinks
    <2>4. pass' = [pass EXCEPT ![d] = q]
      BY <1>0, <1>8, <2>1 DEF MarkSynced, Pass
    <2>5. item.cid \in CloudId /\ p.records[item.cid] \in Record
      BY <1>0, <2>1 DEF Pass, Known
    <2>6. row' \in [Device -> [LocalId -> Row \cup {NoRow}]]
      BY <1>8, <2>5, Marked DEF MarkSynced, Record
    <2> HIDE DEF q
    <2> QED
      BY <1>8, <2>1, <2>3, <2>4, <2>6, PassContinues, KeptConflict, KeptRemote
         DEF MarkSynced, GoodStep, SyncInv, TypeOK
  <1>9. ASSUME NEW item \in p.items, PauseConflict(d, item) PROVE GoodStep
    <2> DEFINE plan == [p.plan EXCEPT !.conflicts = @ \ {item}]
               q == [p EXCEPT !.plan = plan]
    <2>1. p.pc = "applying" /\ p.written = None /\ item \in p.plan.conflicts
      BY <1>9 DEF PauseConflict, Applying
    <2>2. plan \in Rest(p.plan)
      BY <1>a, <2>1 DEF Rest
    <2>3. q \in Pass /\ Known(q) /\ q.records = p.records /\ q.pc # "idle"
      BY <1>0, <2>1, <2>2, PlanShrinks
    <2>4. pass' = [pass EXCEPT ![d] = q]
      BY <1>0, <1>9, <2>1 DEF PauseConflict, Pass
    <2>5. item.cid \in CloudId /\ p.records[item.cid] \in Record
      BY <1>0, <2>1 DEF Pass, Known
    <2>6. conflict' \in [Device -> [CloudId -> Record \cup {None}]] /\ ConflictStep
      BY <1>9, <2>5, SetConflict DEF PauseRecord, ForgetRecord, PauseConflict
    <2> HIDE DEF q
    <2> QED
      BY <1>9, <2>1, <2>3, <2>4, <2>6, PassContinues, KeptRemote
         DEF PauseConflict, GoodStep, SyncInv, TypeOK
  <1> QED BY <1>1, <1>2, <1>3, <1>4, <1>5, <1>6, <1>7, <1>8, <1>9

\* Conflict resolution: nothing but its own progress and the conflict it clears.
LEMMA ResolveGood ==
  ASSUME SyncInv, NEW d \in Device, ResolveStart(d) \/ ResolveStep(d)
  PROVE  GoodStep
  <1>1. ASSUME NEW k \in CloudId, UseCloud(d, k) PROVE GoodStep
    <2> DEFINE r == conflict[d][k]
    <2>1. r \in Record
      BY <1>1 DEF UseCloud, SyncInv, TypeOK
    <2>2. row' \in [Device -> [LocalId -> Row \cup {NoRow}]]
      <3>1. CASE UNCHANGED row
        BY <3>1 DEF SyncInv, TypeOK
      <3>2. CASE \E l \in LocalId : row' = [row EXCEPT ![d][l] = NoRow]
        BY <3>2, SetRow
      <3>3. CASE \E l \in LocalId : row' = [row EXCEPT ![d][l] = RowOf(k, r)]
        BY <2>1, <3>3, RowOfRecord, SetRow
      <3> QED
        BY <1>1, <3>1, <3>2, <3>3 DEF UseCloud, FreshLocal, Holding, Rows
    <2>3. conflict' \in [Device -> [CloudId -> Record \cup {None}]] /\ ConflictStep
      BY <1>1, SetConflict DEF PauseRecord, ForgetRecord, UseCloud
    <2>4. abandoned' \in [Device -> SUBSET Edit]
      <3> DEFINE lost == (UNION {row[d][l].val : l \in Holding(d, k)})
                            \ (IF r.del THEN {} ELSE r.val)
      <3>1. \A l \in Holding(d, k) : row[d][l] \in Row
        BY DEF Holding, Rows, SyncInv, TypeOK
      <3>2. lost \in SUBSET Edit
        BY <3>1 DEF Row, Content
      <3>3. abandoned' = [abandoned EXCEPT ![d] = abandoned[d] \cup lost]
        BY <1>1 DEF UseCloud, SyncInv, TypeOK
      <3> HIDE DEF lost
      <3> QED BY <3>2, <3>3 DEF SyncInv, TypeOK
    <2> QED
      BY <1>1, <2>2, <2>3, <2>4, KeptPass, KeptRemote DEF UseCloud, GoodStep, SyncInv, TypeOK
  <1>2. ASSUME NEW k \in CloudId, UseLocalReads(d, k) PROVE GoodStep
    <2>1. /\ conflict[d][k] \in Record
          /\ remote[k] # NoRecord => remote[k] \in Record
      BY <1>2 DEF UseLocalReads, SyncInv, TypeOK
    <2>2. PICK l \in IF Holding(d, k) = {} THEN {None} ELSE Holding(d, k) :
            resolving' = [resolving EXCEPT ![d] =
               [cid |-> k, local |-> l, upd |-> None,
                expected |-> IF remote[k] = NoRecord THEN conflict[d][k].ver
                             ELSE remote[k].ver]]
      BY <1>2 DEF UseLocalReads
    <2>3. resolving' \in [Device -> Resolution \cup {None}]
      <3> DEFINE u == [cid |-> k, local |-> l, upd |-> None,
                       expected |-> IF remote[k] = NoRecord THEN conflict[d][k].ver
                                    ELSE remote[k].ver]
      <3>1. l \in LocalId \cup {None}
        BY <2>2 DEF Holding, Rows
      <3>2. u \in Resolution
        BY <2>1, <3>1 DEF Resolution, Record
      <3> HIDE DEF u
      <3> QED BY <2>2, <3>2 DEF SyncInv, TypeOK, u
    <2>4. abandoned' \in [Device -> SUBSET Edit]
      <3> DEFINE lost == conflict[d][k].val
                            \cup (IF remote[k] = NoRecord THEN {} ELSE remote[k].val)
      <3>1. lost \in SUBSET Edit
        BY <2>1 DEF Record, Content
      <3>2. abandoned' = [abandoned EXCEPT ![d] = abandoned[d] \cup lost]
        BY <1>2 DEF UseLocalReads, SyncInv, TypeOK
      <3> HIDE DEF lost
      <3> QED BY <3>1, <3>2 DEF SyncInv, TypeOK
    <2> QED
      BY <1>2, <2>3, <2>4, KeptPass, KeptRemote, KeptConflict
         DEF UseLocalReads, GoodStep, SyncInv, TypeOK
  <1>3. CASE UseLocalWrites(d)
    <2> DEFINE u == resolving[d]
    <2>1. u \in Resolution
      BY <1>3 DEF UseLocalWrites, SyncInv, TypeOK
    <2>2. CASE u.local = None
      <3>1. remote[u.cid] # NoRecord
        BY <1>3, <2>1 DEF UseLocalWrites, Accepts, Resolution
      <3>2. u.cid \in CloudId
        BY <2>1 DEF Resolution
      <3>3. conflict' \in [Device -> [CloudId -> Record \cup {None}]] /\ ConflictStep
        BY <1>3, <2>2, <3>2, SetConflict DEF PauseRecord, ForgetRecord, UseLocalWrites
      <3>4. resolving' \in [Device -> Resolution \cup {None}]
        BY <1>3, <2>2 DEF UseLocalWrites, SyncInv, TypeOK
      <3>5. Tombstone(d, u.cid)
        BY <1>3, <2>2 DEF UseLocalWrites
      <3> QED
        BY <1>3, <3>1, <3>2, <3>3, <3>4, <3>5, KeptPass, Tombstoned
           DEF UseLocalWrites, GoodStep, SyncInv, TypeOK
    <2>3. CASE u.local # None
      <3>1. /\ u.local \in Rows(d) /\ UNCHANGED conflict
            /\ Upsert(d, u.cid, row[d][u.local].val)
            /\ resolving' = [resolving EXCEPT ![d].upd = Clock(d)]
        BY <1>3, <2>3 DEF UseLocalWrites
      <3>2. u.cid \in CloudId /\ row[d][u.local].val \in Content
        BY <2>1, <3>1 DEF Rows, Resolution, Row, SyncInv, TypeOK
      <3>3. resolving' \in [Device -> Resolution \cup {None}]
        <4> DEFINE v == [u EXCEPT !.upd = Clock(d)]
        <4>1. v \in Resolution
          BY <2>1, ClockNat DEF Resolution
        <4>2. resolving' = [resolving EXCEPT ![d] = v]
          BY <3>1
        <4> HIDE DEF v
        <4> QED BY <4>1, <4>2 DEF SyncInv, TypeOK
      <3> QED
        BY <1>3, <3>1, <3>2, <3>3, KeptPass, KeptConflict, Upserted
           DEF UseLocalWrites, GoodStep, SyncInv, TypeOK
    <2> QED BY <2>2, <2>3
  <1>4. CASE UseLocalMarks(d)
    <2> DEFINE u == resolving[d]
    <2>1. u \in Resolution /\ u.upd \in Nat
      BY <1>4 DEF UseLocalMarks, Resolution, SyncInv, TypeOK
    <2>2. u.cid \in CloudId
      BY <2>1 DEF Resolution
    <2>3. row' \in [Device -> [LocalId -> Row \cup {NoRow}]]
      BY <1>4, <2>1, <2>2, Marked DEF UseLocalMarks
    <2>4. conflict' \in [Device -> [CloudId -> Record \cup {None}]] /\ ConflictStep
      BY <1>4, <2>2, SetConflict DEF PauseRecord, ForgetRecord, UseLocalMarks
    <2>5. resolving' \in [Device -> Resolution \cup {None}]
      BY <1>4 DEF UseLocalMarks, SyncInv, TypeOK
    <2> QED
      BY <1>4, <2>3, <2>4, <2>5, KeptPass, KeptRemote
         DEF UseLocalMarks, GoodStep, SyncInv, TypeOK
  <1>5. CASE UseLocalFails(d)
    <2>1. resolving' \in [Device -> Resolution \cup {None}]
      BY <1>5 DEF UseLocalFails, SyncInv, TypeOK
    <2> QED
      BY <1>5, <2>1, KeptPass, KeptRemote, KeptConflict
         DEF UseLocalFails, GoodStep, SyncInv, TypeOK
  <1> QED BY <1>1, <1>2, <1>3, <1>4, <1>5 DEF ResolveStart, ResolveStep

\* A pass that finds the lock taken, fails, or dies with the application.
LEMMA FailureGood == ASSUME SyncInv, NEW d \in Device, Failure(d) PROVE GoodStep
  <1>1. CASE LockBusy(d)
    <2>1. deletions' \in [Device -> SUBSET Event]
      BY <1>1 DEF LockBusy, SyncInv, TypeOK
    <2> QED
      BY <1>1, <2>1, KeptPass, KeptRemote, KeptConflict
         DEF LockBusy, GoodStep, SyncInv, TypeOK
  <1>2. CASE PassFails(d)
    <2>1. used' \in Used
      BY <1>2, UsedUp DEF PassFails
    <2> QED
      BY <1>2, <2>1, PassEnds, KeptRemote, KeptConflict
         DEF PassFails, GoodStep, SyncInv, TypeOK, Used
  <1>3. CASE Restart(d)
    <2>1. used' \in Used
      BY <1>3, UsedUp DEF Restart
    <2>2. /\ deletions' \in [Device -> SUBSET Event]
          /\ form' \in [Device -> Form \cup {None}]
          /\ resolving' \in [Device -> Resolution \cup {None}]
      BY <1>3 DEF Restart, SyncInv, TypeOK
    <2>3. shown' \in [Device -> [LocalId -> Row \cup {NoRow}]]
      BY <1>3, Reloaded DEF Restart, SyncInv, TypeOK
    <2> QED
      BY <1>3, <2>1, <2>2, <2>3, PassReset, KeptRemote, KeptConflict
         DEF Restart, GoodStep, SyncInv, TypeOK, Used
  <1> QED BY <1>1, <1>2, <1>3 DEF Failure

\* Every step keeps the invariant and respects the versions of the store.
LEMMA NextGood == SyncInv /\ [Next]_vars => GoodStep
  <1> SUFFICES ASSUME SyncInv, [Next]_vars PROVE GoodStep
    OBVIOUS
  <1>1. CASE UNCHANGED vars
    BY <1>1, KeptPass, KeptRemote, KeptConflict DEF vars, GoodStep, SyncInv, TypeOK
  <1>2. CASE Tick
    <2>1. now' \in Nat
      BY <1>2 DEF Tick, SyncInv, TypeOK
    <2> QED
      BY <1>2, <2>1, KeptPass, KeptRemote, KeptConflict DEF Tick, GoodStep, SyncInv, TypeOK
  <1>3. ASSUME NEW d \in Device,
               \/ UserStep(d) \/ BeginPass(d) \/ PassStep(d)
               \/ ResolveStart(d) \/ ResolveStep(d) \/ Failure(d)
        PROVE  GoodStep
    BY <1>3, UserGood, DeletingGood, ApplyingGood, ResolveGood, FailureGood DEF PassStep
  <1> QED BY <1>1, <1>2, <1>3 DEF Next

\* PersonalSync is type correct, only the device in a pass holds the store lock,
\* and a pass only ever applies records that it has read.
THEOREM SyncTypes == Spec => []SyncInv
  <1>1. SyncInv /\ [Next]_vars => SyncInv'
    BY NextGood DEF GoodStep
  <1> QED BY InitType, <1>1, PTL DEF Spec

\* TypeOK alone, the invariant of the runs.
THEOREM TypeCorrect == Spec => []TypeOK
  BY SyncTypes, PTL DEF SyncInv

\* The one argument behind version checks: versions only grow, by a write of the
\* record they belong to.
LEMMA VersionsStep == SyncInv /\ VersionsIdentify /\ GoodStep => VersionsIdentify'
  <1> SUFFICES ASSUME SyncInv, VersionsIdentify, GoodStep PROVE VersionsIdentify'
    OBVIOUS
  <1> DEFINE Still(r, k) == /\ remote'[k] # NoRecord
                            /\ r.ver <= remote'[k].ver
                            /\ r.ver = remote'[k].ver => r = remote'[k]
  <1>1. ASSUME NEW k \in CloudId, NEW r \in Record, Identified(r, k) PROVE Still(r, k)
    <2>1. remote[k] \in Record
      BY <1>1 DEF Identified, SyncInv, TypeOK
    <2>2. CASE remote'[k] = remote[k]
      BY <1>1, <2>2 DEF Identified
    <2>3. CASE remote'[k] # NoRecord /\ remote'[k].ver = remote[k].ver + 1
      BY <1>1, <2>1, <2>3 DEF Identified, Record
    <2> QED BY <2>1, <2>2, <2>3 DEF GoodStep, RemoteStep
  <1>2. ASSUME NEW d \in Device, NEW k \in CloudId, pass'[d].records[k] # NoRecord
        PROVE  Still(pass'[d].records[k], k)
    <2>1. CASE pass'[d].records[k] = pass[d].records[k]
      <3>1. pass[d].records[k] \in Record /\ Identified(pass[d].records[k], k)
        BY <1>2, <2>1 DEF VersionsIdentify, SyncInv, TypeOK, Pass
      <3> QED BY <1>1, <2>1, <3>1
    <2>2. CASE pass'[d].records[k] = remote[k] /\ remote'[k] = remote[k]
      BY <1>2, <2>2 DEF SyncInv, TypeOK, Record
    <2> QED BY <1>2, <2>1, <2>2 DEF GoodStep, SnapshotStep
  <1>3. ASSUME NEW d \in Device, NEW k \in CloudId, conflict'[d][k] # None
        PROVE  Still(conflict'[d][k], k)
    <2>1. conflict'[d][k] \in Record
      BY <1>3 DEF GoodStep, SyncInv, TypeOK
    <2>2. CASE conflict'[d][k] = conflict[d][k]
      BY <1>1, <1>3, <2>1, <2>2 DEF VersionsIdentify
    <2>3. CASE conflict'[d][k] = pass[d].records[k]
      BY <1>1, <2>1, <2>3 DEF VersionsIdentify
    <2> QED BY <1>3, <2>2, <2>3 DEF GoodStep, ConflictStep
  <1> QED BY <1>2, <1>3 DEF VersionsIdentify, Identified

\* At any time, whatever snapshots passes and conflicts hold: equal versions mean
\* the same record, and a snapshot is never newer than the store.  This is what
\* ensure_expected_version relies on.
THEOREM VersionsAreSound == Spec => []VersionsIdentify
  <1>1. Init => VersionsIdentify
    BY DEF Init, VersionsIdentify, IdlePass
  <1>2. SyncInv /\ VersionsIdentify /\ [Next]_vars => SyncInv' /\ VersionsIdentify'
    BY NextGood, VersionsStep DEF GoodStep
  <1> QED BY InitType, <1>1, <1>2, PTL DEF Spec

-----------------------------------------------------------------------------
(***************************************************************************)
(* What PersonalSyncPlanner::plan guarantees for every input: no local     *)
(* item is dropped or handled twice, and paused ones are left alone.       *)
(***************************************************************************)
ItemLists == {"uploads", "cloudUpdates", "localUpdates", "marks", "conflicts"}

\* The lists of a plan that an item is on.
ListsOf(item, plan) == {list \in ItemLists : item \in plan[list]}

Timed(item) == item.upd \in Nat /\ item.base \in Nat

\* Every local item that is not paused is on exactly one list, so the last arm of
\* plan_existing_item's match (no side changed, contents differ) is never taken
\* and no item is silently left out; a paused one is on none.
THEOREM PlannedOnce ==
  ASSUME NEW items, NEW records, NEW paused \in SUBSET CloudId, NEW item \in items,
         Timed(item),
         IsComparable(item, records, paused) => records[item.cid].upd \in Nat
  PROVE  LET lists == ListsOf(item, Plan(items, records, paused)) IN
         IF item.cid \in paused THEN lists = {} ELSE \E list \in ItemLists : lists = {list}
  <1> DEFINE plan == Plan(items, records, paused)
             r == records[item.cid]
             up == IsUpload(item, records, paused)
             cmp == IsComparable(item, records, paused)
             same == SameContent(item, r)
             lc == LocalChanged(item, r)
             rc == RemoteChanged(item, r)
  <1>1. /\ item \in plan.uploads <=> up
        /\ item \in plan.cloudUpdates <=> cmp /\ ~ same /\ lc /\ ~ rc
        /\ item \in plan.localUpdates <=> cmp /\ ~ same /\ ~ lc /\ rc
        /\ item \in plan.marks <=> cmp /\ same
        /\ item \in plan.conflicts <=> cmp /\ ~ same /\ lc /\ rc
    BY DEF Plan, Differing, LocalChanged, RemoteChanged
  <1>2. cmp => lc \/ rc
    BY DEF LocalChanged, RemoteChanged, Timed
  <1>3. IF item.cid \in paused THEN ~ up /\ ~ cmp ELSE (up <=> ~ cmp)
    BY PlannerAssumption DEF IsUpload, IsComparable, PlannerAssumption
  <1>4. /\ plan["uploads"] = plan.uploads /\ plan["cloudUpdates"] = plan.cloudUpdates
        /\ plan["localUpdates"] = plan.localUpdates /\ plan["marks"] = plan.marks
        /\ plan["conflicts"] = plan.conflicts
    OBVIOUS
  <1> HIDE DEF plan, up, cmp, same, lc, rc
  <1>5. CASE item.cid \in paused
    BY <1>1, <1>3, <1>5 DEF ListsOf, ItemLists, plan
  <1>6. CASE item.cid \notin paused /\ up
    <2>1. ListsOf(item, plan) = {"uploads"}
      BY <1>1, <1>3, <1>6 DEF ListsOf, ItemLists
    <2> QED BY <1>6, <2>1 DEF ItemLists, plan
  <1>7. CASE item.cid \notin paused /\ cmp /\ same
    <2>1. ListsOf(item, plan) = {"marks"}
      BY <1>1, <1>3, <1>7 DEF ListsOf, ItemLists
    <2> QED BY <1>7, <2>1 DEF ItemLists, plan
  <1>8. CASE item.cid \notin paused /\ cmp /\ ~ same /\ lc /\ ~ rc
    <2>1. ListsOf(item, plan) = {"cloudUpdates"}
      BY <1>1, <1>3, <1>8 DEF ListsOf, ItemLists
    <2> QED BY <1>8, <2>1 DEF ItemLists, plan
  <1>9. CASE item.cid \notin paused /\ cmp /\ ~ same /\ ~ lc /\ rc
    <2>1. ListsOf(item, plan) = {"localUpdates"}
      BY <1>1, <1>3, <1>9 DEF ListsOf, ItemLists
    <2> QED BY <1>9, <2>1 DEF ItemLists, plan
  <1>10. CASE item.cid \notin paused /\ cmp /\ ~ same /\ lc /\ rc
    <2>1. ListsOf(item, plan) = {"conflicts"}
      BY <1>1, <1>3, <1>10 DEF ListsOf, ItemLists
    <2> QED BY <1>10, <2>1 DEF ItemLists, plan
  <1> QED BY <1>2, <1>3, <1>5, <1>6, <1>7, <1>8, <1>9, <1>10

-----------------------------------------------------------------------------
(***************************************************************************)
(* What a pass relies on while its user keeps still: the invariant behind  *)
(* NoBlindOverwrite and PausedUntouched.  Every part of it is stated for   *)
(* the state of one device: its rows, form f, queued deletions dels,       *)
(* conflict table confs, pass p, resolution u, and the store recs.         *)
(***************************************************************************)
Holds(rows, l, k) == rows[l] # NoRow /\ rows[l].cid = k

NoHolder(rows, k) == \A l \in LocalId : ~ Holds(rows, l, k)

Keeps(rows, l, k) == rows[l] # NoRow => rows[l].cid = k

\* A cloud id names one row, and a record that is in the store.
RowsApart(rows, recs) ==
    \A l \in LocalId : (rows[l] # NoRow /\ rows[l].cid # NoId) =>
        /\ recs[rows[l].cid] # NoRecord
        /\ \A m \in LocalId \ {l} : ~ Holds(rows, m, rows[l].cid)

\* What the user, or a resolution, has at hand still names what it did, nobody
\* resolves or deletes during a pass, and a deletion waits for a pass alone.
AtHand(rows, f, dels, confs, p, u) ==
    /\ f # None /\ f.cid # NoId => Keeps(rows, f.local, f.cid)
    /\ u # None => /\ p.pc = "idle"
                   /\ u.local # None => Keeps(rows, u.local, u.cid)
                   /\ u.upd # None => u.local # None
    /\ dels # {} => p.pc = "idle"
    /\ \A ev \in dels : confs[ev.cid] = None /\ NoHolder(rows, ev.cid)

\* Rows answer to the items listed from them, apart from the cloud ids given to
\* new ones, and none answers to an event of the pass.
ItemsStand(rows, p, recs) ==
    /\ p.pc = "listing" => \A ev \in p.events : NoHolder(rows, ev.cid)
    /\ p.pc \notin {"idle", "listing"} =>
          /\ \A i, j \in p.items :
                (i.local = j.local \/ (i.cid = j.cid /\ i.cid # NoId)) => i = j
          /\ \A i \in p.items :
                /\ i.cid # NoId => recs[i.cid] # NoRecord
                /\ \A ev \in p.events : i.cid # ev.cid
                /\ \/ Keeps(rows, i.local, i.cid)
                   \/ p.pc = "applying" /\ i.cid = NoId /\ i \notin p.plan.uploads
          /\ p.pc # "applying" =>
                \A l \in LocalId : rows[l] # NoRow => \E i \in p.items : i.local = l

\* Only the conflicts are left to do.
Settling(p) ==
    /\ p.pc = "applying" /\ p.written = None
    /\ p.plan.uploads = {} /\ p.plan.cloudUpdates = {} /\ p.plan.localUpdates = {}
    /\ p.plan.downloads = {} /\ p.plan.marks = {}

\* The snapshot of the store knows every item, no item is one of the deleted, and
\* a conflict that is there is paused, deleted or found by this very pass.
SnapshotStands(confs, p) ==
    /\ p.pc \in {"pausing", "deleting", "applying"} =>
          \A i \in p.items : i.cid # NoId => p.records[i.cid] # NoRecord
    /\ p.pc \in {"deleting", "applying"} =>
          /\ \A ev \in p.events : ev.cid \in p.deleted
          /\ \A i \in p.items : i.cid \notin p.deleted
          /\ \A k \in CloudId : confs[k] # None => k \in p.paused \cup p.deleted \/ Settling(p)

\* A tombstone with an item is paused, still to be applied, or its row is gone.
TombstonesStand(rows, p) ==
    p.pc = "deleting" =>
       /\ p.tombstones \cap p.paused = {}
       /\ \A i \in p.items : (i.cid # NoId /\ p.records[i.cid].del) =>
             i.cid \in p.paused \cup p.tombstones \/ rows[i.local] = NoRow

\* A named item planned as an upload has lost its row, paused records are not
\* planned for, and a record to download has no row.
PlanStands(rows, p) ==
    p.pc = "applying" =>
       /\ \A i \in p.plan.uploads : i \in p.items /\ (i.cid # NoId => rows[i.local] = NoRow)
       /\ \A i \in p.plan.cloudUpdates \cup p.plan.localUpdates \cup p.plan.marks :
             i \in p.items /\ i.cid \notin p.paused
       /\ \A k \in p.plan.downloads : NoHolder(rows, k)

\* A record just written is not paused, and only the row it was exported from may
\* carry its cloud id.
WrittenStands(rows, confs, p, recs) ==
    p.written # None =>
       LET w == p.written IN
       /\ recs[w.cid] # NoRecord /\ confs[w.cid] = None /\ w.cid \notin p.plan.downloads
       /\ \A l \in LocalId \ {w.local} : ~ Holds(rows, l, w.cid)
       /\ rows[w.local] # NoRow => rows[w.local].cid \in {NoId, w.cid}
       /\ \A i \in p.items :
             i.local = w.local => i \notin p.plan.uploads /\ i.cid \in {NoId, w.cid}

Stands(rows, f, dels, confs, p, u, recs) ==
    /\ RowsApart(rows, recs)
    /\ AtHand(rows, f, dels, confs, p, u)
    /\ ItemsStand(rows, p, recs)
    /\ SnapshotStands(confs, p)
    /\ TombstonesStand(rows, p)
    /\ PlanStands(rows, p)
    /\ WrittenStands(rows, confs, p, recs)

QuietInv ==
    \A d \in Device :
        Stands(row[d], form[d], deletions[d], conflict[d], pass[d], resolving[d], remote)

-----------------------------------------------------------------------------
RowsOf == [LocalId -> Row \cup {NoRow}]
Conflicts == [CloudId -> Record \cup {None}]
Store == [CloudId -> Record \cup {NoRecord}]

\* Rows disappear, or change without losing their names.
Shrinks(rows, rows2) ==
    \A l \in LocalId : rows2[l] # NoRow => rows[l] # NoRow /\ rows2[l].cid = rows[l].cid

\* Records are never removed.
Grows(recs, recs2) == \A k \in CloudId : recs[k] # NoRecord => recs2[k] # NoRecord

Forgets(confs, confs2) == \A k \in CloudId : confs2[k] \in {None, confs[k]}

\* Anything that takes away from a device's state, and leaves its pass alone.
LEMMA Less ==
  ASSUME NEW rows \in RowsOf, NEW rows2 \in RowsOf, Shrinks(rows, rows2),
         NEW recs \in Store, NEW recs2 \in Store, Grows(recs, recs2),
         NEW confs \in Conflicts, NEW confs2 \in Conflicts, Forgets(confs, confs2),
         NEW f \in Form \cup {None}, NEW f2 \in {None, f},
         NEW u \in Resolution \cup {None}, NEW u2 \in {None, u},
         NEW dels \in SUBSET Event, NEW dels2 \in SUBSET dels,
         NEW p \in Pass, Known(p),
         Stands(rows, f, dels, confs, p, u, recs)
  PROVE  Stands(rows2, f2, dels2, confs2, p, u2, recs2)
  <1>1. RowsApart(rows2, recs2)
    <2> SUFFICES ASSUME NEW l \in LocalId, rows2[l] # NoRow, rows2[l].cid # NoId
                 PROVE  /\ recs2[rows2[l].cid] # NoRecord
                        /\ \A m \in LocalId \ {l} : ~ Holds(rows2, m, rows2[l].cid)
      BY DEF RowsApart
    <2>1. /\ rows[l] # NoRow /\ rows2[l].cid = rows[l].cid
          /\ rows[l].cid \in CloudId
      BY DEF Shrinks, RowsOf, Row
    <2> QED BY <2>1 DEF Stands, RowsApart, Shrinks, Holds, Grows
  <1>2. \A l \in LocalId : \A k : Keeps(rows, l, k) => Keeps(rows2, l, k)
    BY DEF Keeps, Shrinks
  <1>3. \A k : NoHolder(rows, k) => NoHolder(rows2, k)
    BY DEF NoHolder, Holds, Shrinks
  <1>4. AtHand(rows2, f2, dels2, confs2, p, u2)
    <2>1. /\ f # None => f.local \in LocalId
          /\ u # None => u.local \in LocalId \cup {None}
          /\ \A ev \in dels : ev.cid \in CloudId
      BY DEF Form, Resolution, Event
    <2> QED BY <1>2, <1>3, <2>1 DEF Stands, AtHand, Forgets
  <1>5. ItemsStand(rows2, p, recs2)
    <2>1. \A i \in p.items : i.local \in LocalId /\ i.cid \in CloudId \cup {NoId}
      BY DEF Pass, Item
    <2> QED BY <1>2, <1>3, <2>1 DEF Stands, ItemsStand, Grows, Shrinks
  <1>6. SnapshotStands(confs2, p)
    BY DEF Stands, SnapshotStands, Forgets
  <1>7. TombstonesStand(rows2, p) /\ PlanStands(rows2, p)
    <2>1. \A i \in p.items : i.local \in LocalId
      BY DEF Pass, Item
    <2> QED BY <1>3, <2>1 DEF Stands, TombstonesStand, PlanStands, Shrinks
  <1>8. WrittenStands(rows2, confs2, p, recs2)
    <2>1. p.written # None => p.written.local \in LocalId /\ p.written.cid \in CloudId
      BY DEF Pass
    <2> QED BY <2>1 DEF Stands, WrittenStands, Grows, Shrinks, Forgets, Holds
  <1> QED BY <1>1, <1>4, <1>5, <1>6, <1>7, <1>8 DEF Stands

\* Without a pass only the rows and what the user has at hand count.
LEMMA NoPass ==
  ASSUME NEW rows, NEW f, NEW dels, NEW confs, NEW p, NEW u, NEW recs,
         p.pc = "idle", p.written = None,
         RowsApart(rows, recs), AtHand(rows, f, dels, confs, p, u)
  PROVE  Stands(rows, f, dels, confs, p, u, recs)
  BY DEF Stands, ItemsStand, SnapshotStands, TombstonesStand, PlanStands, WrittenStands

\* A pass that is dropped leaves nothing behind.
LEMMA Dropped ==
  ASSUME NEW rows, NEW f, NEW dels, NEW confs, NEW p, NEW u, NEW recs,
         Stands(rows, f, dels, confs, p, u, recs)
  PROVE  Stands(rows, f, dels, confs, IdlePass, u, recs)
  <1>1. IdlePass.pc = "idle" /\ IdlePass.written = None
    BY DEF IdlePass
  <1>2. AtHand(rows, f, dels, confs, IdlePass, u)
    BY <1>1 DEF Stands, AtHand
  <1> QED BY <1>1, <1>2, NoPass DEF Stands

\* A row in a new place, without a name or with one that no other row has.
LEMMA RowAdded ==
  ASSUME NEW rows \in RowsOf, NEW l \in LocalId, rows[l] = NoRow, NEW r \in Row,
         NEW rows2, rows2 = [rows EXCEPT ![l] = r],
         NEW recs \in Store, NEW f \in Form \cup {None}, NEW u \in Resolution \cup {None},
         NEW dels \in SUBSET Event, NEW confs \in Conflicts, NEW p \in Pass,
         f # None => f.local # l, u # None => u.local # l,
         \A i \in p.items : i.local # l,
         p.written = None, p.pc \in {"idle", "applying"},
         r.cid # NoId => /\ NoHolder(rows, r.cid) /\ recs[r.cid] # NoRecord
                         /\ r.cid \notin p.plan.downloads
                         /\ \A ev \in dels : ev.cid # r.cid,
         Stands(rows, f, dels, confs, p, u, recs)
  PROVE  Stands(rows2, f, dels, confs, p, u, recs)
  <1>1. rows2[l] = r /\ \A m \in LocalId \ {l} : rows2[m] = rows[m]
    BY DEF RowsOf
  <1>2. RowsApart(rows2, recs)
    BY <1>1 DEF Stands, RowsApart, NoHolder, Holds
  <1>3. \A m \in LocalId \ {l} : \A k : Keeps(rows, m, k) => Keeps(rows2, m, k)
    BY <1>1 DEF Keeps
  <1>4. \A k : (NoHolder(rows, k) /\ k # r.cid) => NoHolder(rows2, k)
    BY <1>1 DEF NoHolder, Holds
  <1>5. AtHand(rows2, f, dels, confs, p, u)
    <2>1. /\ f # None => f.local \in LocalId
          /\ u # None => u.local \in LocalId \cup {None}
          /\ \A ev \in dels : ev.cid \in CloudId
      BY DEF Form, Resolution, Event
    <2> QED BY <1>3, <1>4, <2>1 DEF Stands, AtHand
  <1>6. \A i \in p.items : i.local \in LocalId /\ i.cid \in CloudId \cup {NoId}
    BY DEF Pass, Item
  <1>7. ItemsStand(rows2, p, recs)
    BY <1>3, <1>6 DEF Stands, ItemsStand
  <1>8. PlanStands(rows2, p)
    <2>1. p.plan.downloads \subseteq CloudId
      BY DEF Pass
    <2> QED BY <1>1, <1>4, <1>6, <2>1 DEF Stands, PlanStands
  <1>9. TombstonesStand(rows2, p) /\ WrittenStands(rows2, confs, p, recs)
    BY DEF TombstonesStand, WrittenStands
  <1> QED BY <1>2, <1>5, <1>7, <1>8, <1>9 DEF Stands

-----------------------------------------------------------------------------
\* A pass takes the queued deletions: no row answers to them.
LEMMA Begun ==
  ASSUME NEW rows \in RowsOf, NEW f, NEW dels \in SUBSET Event, NEW confs, NEW p \in Pass,
         NEW recs, NEW q, q = [p EXCEPT !.pc = "listing", !.events = dels],
         Known(p), p.pc = "idle",
         Stands(rows, f, dels, confs, p, None, recs)
  PROVE  Stands(rows, f, {}, confs, q, None, recs)
  <1>1. q.pc = "listing" /\ q.events = dels /\ q.written = None
    BY DEF Pass, Known
  <1>2. AtHand(rows, f, {}, confs, q, None)
    BY DEF Stands, AtHand
  <1>3. ItemsStand(rows, q, recs)
    BY <1>1 DEF Stands, AtHand, ItemsStand
  <1>4. /\ SnapshotStands(confs, q) /\ TombstonesStand(rows, q) /\ PlanStands(rows, q)
        /\ WrittenStands(rows, confs, q, recs)
    BY <1>1 DEF SnapshotStands, TombstonesStand, PlanStands, WrittenStands
  <1> QED BY <1>2, <1>3, <1>4 DEF Stands

\* list_items: one item per row, under its name.
LEMMA Listing ==
  ASSUME NEW rows \in RowsOf, NEW f, NEW confs, NEW p \in Pass, NEW recs,
         NEW items \in SUBSET Item, NEW q, q = [p EXCEPT !.pc = "reading", !.items = items],
         Known(p), p.pc = "listing",
         \A l \in LocalId : rows[l] # NoRow => \E i \in items : i.local = l,
         \A i \in items : Holds(rows, i.local, i.cid),
         \A i, j \in items : i.local = j.local => i = j,
         Stands(rows, f, {}, confs, p, None, recs)
  PROVE  Stands(rows, f, {}, confs, q, None, recs)
  <1>1. q.pc = "reading" /\ q.events = p.events /\ q.items = items /\ q.written = None
    BY DEF Pass, Known
  <1>2. AtHand(rows, f, {}, confs, q, None)
    BY DEF Stands, AtHand
  <1>3. ItemsStand(rows, q, recs)
    <2>1. \A i \in items : i.local \in LocalId /\ rows[i.local] # NoRow /\ rows[i.local].cid = i.cid
      BY DEF Item, Holds
    <2>2. \A i, j \in items : (i.cid = j.cid /\ i.cid # NoId) => i.local = j.local
      BY <2>1 DEF Stands, RowsApart, Holds
    <2>3. \A i \in items : i.cid # NoId => recs[i.cid] # NoRecord
      BY <2>1 DEF Stands, RowsApart
    <2>4. \A i \in items : \A ev \in p.events : i.cid # ev.cid
      BY <2>1 DEF Stands, ItemsStand, NoHolder, Holds
    <2>5. \A i \in items : Keeps(rows, i.local, i.cid)
      BY <2>1 DEF Keeps
    <2> QED BY <1>1, <2>2, <2>3, <2>4, <2>5 DEF ItemsStand
  <1>4. /\ SnapshotStands(confs, q) /\ TombstonesStand(rows, q) /\ PlanStands(rows, q)
        /\ WrittenStands(rows, confs, q, recs)
    BY <1>1 DEF SnapshotStands, TombstonesStand, PlanStands, WrittenStands
  <1> QED BY <1>2, <1>3, <1>4 DEF Stands

\* list_records: the records of all items are among those read.
LEMMA Reading ==
  ASSUME NEW rows, NEW f, NEW confs, NEW p \in Pass, NEW recs \in Store,
         NEW q, q = [p EXCEPT !.pc = "pausing", !.records = recs],
         Known(p), p.pc = "reading",
         Stands(rows, f, {}, confs, p, None, recs)
  PROVE  Stands(rows, f, {}, confs, q, None, recs)
  <1>1. /\ q.pc = "pausing" /\ q.events = p.events /\ q.items = p.items
        /\ q.records = recs /\ q.written = None
    BY DEF Pass, Known
  <1>2. AtHand(rows, f, {}, confs, q, None)
    BY DEF Stands, AtHand
  <1>3. ItemsStand(rows, q, recs)
    BY <1>1 DEF Stands, ItemsStand
  <1>4. SnapshotStands(confs, q)
    BY <1>1 DEF Stands, ItemsStand, SnapshotStands
  <1>5. /\ TombstonesStand(rows, q) /\ PlanStands(rows, q)
        /\ WrittenStands(rows, confs, q, recs)
    BY <1>1 DEF TombstonesStand, PlanStands, WrittenStands
  <1> QED BY <1>2, <1>3, <1>4, <1>5 DEF Stands

\* paused_record_keys: what the deletion phases will look at.
LEMMA Pausing ==
  ASSUME NEW rows, NEW f, NEW confs \in Conflicts, NEW p \in Pass, NEW recs,
         NEW paused \in SUBSET CloudId, NEW deleted \in SUBSET CloudId,
         NEW tombstones \in SUBSET CloudId,
         NEW q, q = [p EXCEPT !.pc = "deleting", !.paused = paused, !.deleted = deleted,
                              !.tombstones = tombstones],
         Known(p), p.pc = "pausing",
         \A k \in CloudId : k \in paused <=> confs[k] # None,
         deleted = {ev.cid : ev \in p.events},
         \A k \in CloudId : k \in tombstones <=>
            /\ k \notin paused /\ p.records[k] # NoRecord /\ p.records[k].del
            /\ \E i \in p.items : i.cid = k,
         Stands(rows, f, {}, confs, p, None, recs)
  PROVE  Stands(rows, f, {}, confs, q, None, recs)
  <1>1. /\ q.pc = "deleting" /\ q.events = p.events /\ q.items = p.items
        /\ q.records = p.records /\ q.written = None /\ q.paused = paused
        /\ q.deleted = deleted /\ q.tombstones = tombstones
    BY DEF Pass, Known
  <1>2. AtHand(rows, f, {}, confs, q, None)
    BY DEF Stands, AtHand
  <1>3. ItemsStand(rows, q, recs)
    BY <1>1 DEF Stands, ItemsStand
  <1>4. SnapshotStands(confs, q)
    <2>1. \A i \in p.items : i.cid # NoId => p.records[i.cid] # NoRecord
      BY DEF Stands, SnapshotStands
    <2>2. \A i \in p.items : i.cid \notin deleted
      BY DEF Stands, ItemsStand
    <2>3. \A ev \in p.events : ev.cid \in deleted
      OBVIOUS
    <2>4. \A k \in CloudId : confs[k] # None => k \in paused
      OBVIOUS
    <2> QED
      <3>1. \A i \in q.items : i.cid # NoId => q.records[i.cid] # NoRecord
        BY <1>1, <2>1
      <3>2. \A ev \in q.events : ev.cid \in q.deleted
        BY <1>1, <2>3
      <3>3. \A i \in q.items : i.cid \notin q.deleted
        BY <1>1, <2>2
      <3>4. \A k \in CloudId : confs[k] # None => k \in q.paused \cup q.deleted
        BY <1>1, <2>4
      <3> QED BY <3>1, <3>2, <3>3, <3>4 DEF SnapshotStands
  <1>5. TombstonesStand(rows, q)
    <2>1. \A i \in p.items : i.cid \in CloudId \cup {NoId}
      BY DEF Pass, Item
    <2>2. \A i \in p.items : i.cid # NoId => p.records[i.cid] # NoRecord
      BY DEF Stands, SnapshotStands
    <2> QED BY <1>1, <2>1, <2>2 DEF TombstonesStand
  <1>6. PlanStands(rows, q) /\ WrittenStands(rows, confs, q, recs)
    BY <1>1 DEF PlanStands, WrittenStands
  <1> QED BY <1>2, <1>3, <1>4, <1>5, <1>6 DEF Stands

\* One event applied, with or without a conflict on its record.
LEMMA EventDone ==
  ASSUME NEW rows, NEW f, NEW confs \in Conflicts, NEW p \in Pass, NEW recs,
         NEW ev \in p.events, NEW confs2, \A x \in CloudId \ {ev.cid} : confs2[x] = confs[x],
         NEW q, q = [p EXCEPT !.events = @ \ {ev}],
         Known(p), p.pc = "deleting",
         Stands(rows, f, {}, confs, p, None, recs)
  PROVE  Stands(rows, f, {}, confs2, q, None, recs)
  <1>1. /\ q.pc = "deleting" /\ q.events = p.events \ {ev} /\ q.items = p.items
        /\ q.records = p.records /\ q.written = None /\ q.paused = p.paused
        /\ q.deleted = p.deleted /\ q.tombstones = p.tombstones
    BY DEF Pass, Known
  <1>2. AtHand(rows, f, {}, confs2, q, None)
    BY DEF Stands, AtHand
  <1>3. ItemsStand(rows, q, recs)
    BY <1>1 DEF Stands, ItemsStand
  <1>4. SnapshotStands(confs2, q)
    <2>1. ev.cid \in p.deleted /\ \A k \in CloudId \ {ev.cid} : confs2[k] = confs[k]
      BY DEF Stands, SnapshotStands, Conflicts
    <2>2. \A k \in CloudId : confs2[k] # None => k \in p.paused \cup p.deleted
      BY <2>1 DEF Stands, SnapshotStands, Settling
    <2> QED BY <1>1, <2>2 DEF Stands, SnapshotStands
  <1>5. TombstonesStand(rows, q)
    BY <1>1 DEF Stands, TombstonesStand
  <1>6. PlanStands(rows, q) /\ WrittenStands(rows, confs2, q, recs)
    BY <1>1 DEF PlanStands, WrittenStands
  <1> QED BY <1>2, <1>3, <1>4, <1>5, <1>6 DEF Stands

\* A tombstone met by a local change: a conflict, paused at once.
LEMMA TombstonePaused ==
  ASSUME NEW rows, NEW f, NEW confs \in Conflicts, NEW p \in Pass, NEW recs,
         NEW k \in CloudId, NEW confs2, \A x \in CloudId \ {k} : confs2[x] = confs[x],
         NEW q, q.pc = "deleting", q.written = None, q.events = p.events, q.items = p.items,
         q.records = p.records, q.deleted = p.deleted,
         q.paused = p.paused \cup {k}, q.tombstones = p.tombstones \ {k},
         p.pc = "deleting",
         Stands(rows, f, {}, confs, p, None, recs)
  PROVE  Stands(rows, f, {}, confs2, q, None, recs)
  <1>1. q.paused = p.paused \cup {k} /\ q.tombstones = p.tombstones \ {k}
    OBVIOUS
  <1>2. AtHand(rows, f, {}, confs2, q, None)
    BY DEF Stands, AtHand
  <1>3. ItemsStand(rows, q, recs)
    BY <1>1 DEF Stands, ItemsStand
  <1>4. SnapshotStands(confs2, q)
    <2>1. \A x \in CloudId \ {k} : confs2[x] = confs[x]
      BY DEF Conflicts
    <2>2. \A x \in CloudId : confs2[x] # None => x \in q.paused \cup q.deleted
      BY <1>1, <2>1 DEF Stands, SnapshotStands, Settling
    <2> QED BY <1>1, <2>2 DEF Stands, SnapshotStands
  <1>5. TombstonesStand(rows, q)
    BY <1>1 DEF Stands, TombstonesStand
  <1>6. PlanStands(rows, q) /\ WrittenStands(rows, confs2, q, recs)
    BY <1>1 DEF PlanStands, WrittenStands
  <1> QED BY <1>2, <1>3, <1>4, <1>5, <1>6 DEF Stands

\* A tombstone applied: the one row that carries its name is gone.
LEMMA TombstoneDone ==
  ASSUME NEW rows, NEW f, NEW confs, NEW p \in Pass, NEW recs,
         NEW item \in p.items, rows[item.local] = NoRow, item.cid \in CloudId,
         NEW q, q = [p EXCEPT !.tombstones = @ \ {item.cid}],
         Known(p), p.pc = "deleting",
         Stands(rows, f, {}, confs, p, None, recs)
  PROVE  Stands(rows, f, {}, confs, q, None, recs)
  <1>1. /\ q.pc = "deleting" /\ q.events = p.events /\ q.items = p.items
        /\ q.records = p.records /\ q.written = None /\ q.paused = p.paused
        /\ q.deleted = p.deleted /\ q.tombstones = p.tombstones \ {item.cid}
    BY DEF Pass, Known
  <1>2. AtHand(rows, f, {}, confs, q, None)
    BY DEF Stands, AtHand
  <1>3. ItemsStand(rows, q, recs)
    BY <1>1 DEF Stands, ItemsStand
  <1>4. SnapshotStands(confs, q)
    <2>1. \A x \in CloudId : confs[x] # None => x \in p.paused \cup p.deleted
      BY DEF Stands, SnapshotStands, Settling
    <2> QED BY <1>1, <2>1 DEF Stands, SnapshotStands
  <1>5. TombstonesStand(rows, q)
    <2>1. \A i \in p.items : i.cid = item.cid => i = item
      BY DEF Stands, ItemsStand
    <2> QED BY <1>1, <2>1 DEF Stands, TombstonesStand
  <1>6. PlanStands(rows, q) /\ WrittenStands(rows, confs, q, recs)
    BY <1>1 DEF PlanStands, WrittenStands
  <1> QED BY <1>2, <1>3, <1>4, <1>5, <1>6 DEF Stands

\* The plan: a named item can only be an upload when its tombstone was applied.
LEMMA Planning ==
  ASSUME NEW rows \in RowsOf, NEW f, NEW confs, NEW p \in Pass, NEW recs,
         NEW active \in Store,
         \A k \in CloudId : active[k] =
            IF p.records[k] = NoRecord THEN NoRecord
            ELSE IF p.records[k].del \/ k \in p.deleted THEN NoRecord ELSE p.records[k],
         NEW q, q = [p EXCEPT !.pc = "applying", !.plan = Plan(p.items, active, p.paused)],
         Known(p), p.pc = "deleting", p.tombstones = {},
         Stands(rows, f, {}, confs, p, None, recs)
  PROVE  Stands(rows, f, {}, confs, q, None, recs)
  <1> DEFINE plan == Plan(p.items, active, p.paused)
  <1>1. /\ q.pc = "applying" /\ q.events = p.events /\ q.items = p.items
        /\ q.records = p.records /\ q.written = None /\ q.paused = p.paused
        /\ q.deleted = p.deleted /\ q.plan = plan
    BY DEF Pass, Known
  <1>2. AtHand(rows, f, {}, confs, q, None)
    BY DEF Stands, AtHand
  <1> HIDE DEF plan
  <1>3. ItemsStand(rows, q, recs)
    BY <1>1 DEF Stands, ItemsStand
  <1>4. SnapshotStands(confs, q)
    <2>1. \A x \in CloudId : confs[x] # None => x \in p.paused \cup p.deleted
      BY DEF Stands, SnapshotStands, Settling
    <2> QED BY <1>1, <2>1 DEF Stands, SnapshotStands
  <1>5. PlanStands(rows, q)
    <2>0. \A i \in p.items : i.cid \in CloudId \cup {NoId} /\ i.local \in LocalId
      BY DEF Pass, Item
    <2>1. ASSUME NEW i \in plan.uploads PROVE i \in p.items /\ (i.cid # NoId => rows[i.local] = NoRow)
      <3>1. i \in p.items /\ IsUpload(i, active, p.paused)
        BY <2>1 DEF plan, Plan
      <3>2. CASE i.cid # NoId
        <4>1. i.cid \notin p.paused /\ active[i.cid] = NoRecord /\ i.cid \in CloudId
          BY <2>0, <3>1, <3>2 DEF IsUpload
        <4>2. p.records[i.cid] # NoRecord /\ i.cid \notin p.deleted
          BY <3>1, <3>2 DEF Stands, SnapshotStands
        <4>3. p.records[i.cid].del
          BY <4>1, <4>2
        <4> QED BY <3>1, <3>2, <4>1, <4>3 DEF Stands, TombstonesStand
      <3> QED BY <3>1, <3>2
    <2>2. ASSUME NEW i \in plan.cloudUpdates \cup plan.localUpdates \cup plan.marks
          PROVE  i \in p.items /\ i.cid \notin p.paused
      BY <2>2 DEF plan, Plan, Differing, IsComparable
    <2>3. ASSUME NEW k \in plan.downloads PROVE NoHolder(rows, k)
      <3>1. k \in CloudId /\ \A i \in p.items : i.cid # k
        BY <2>3 DEF plan, Plan
      <3>2. ASSUME NEW l \in LocalId, Holds(rows, l, k) PROVE FALSE
        <4>1. PICK i \in p.items : i.local = l
          BY <3>2 DEF Stands, ItemsStand, Holds
        <4>2. Keeps(rows, i.local, i.cid)
          BY <4>1 DEF Stands, ItemsStand
        <4> QED BY <3>1, <3>2, <4>1, <4>2 DEF Keeps, Holds
      <3> QED BY <3>2 DEF NoHolder
    <2> QED BY <1>1, <2>1, <2>2, <2>3 DEF PlanStands
  <1>6. TombstonesStand(rows, q) /\ WrittenStands(rows, confs, q, recs)
    BY <1>1 DEF TombstonesStand, WrittenStands
  <1> QED BY <1>2, <1>3, <1>4, <1>5, <1>6 DEF Stands

\* An entry of the plan is done.
LEMMA PlanDone ==
  ASSUME NEW rows, NEW f, NEW confs, NEW p \in Pass, NEW recs, NEW plan \in Rest(p.plan),
         NEW q, q = [p EXCEPT !.plan = plan],
         Known(p), p.pc = "applying", p.written = None,
         Stands(rows, f, {}, confs, p, None, recs)
  PROVE  Stands(rows, f, {}, confs, q, None, recs)
  <1>1. /\ q.pc = "applying" /\ q.events = p.events /\ q.items = p.items
        /\ q.records = p.records /\ q.written = None /\ q.paused = p.paused
        /\ q.deleted = p.deleted /\ q.plan = plan
    BY DEF Pass
  <1>2. /\ plan.uploads \subseteq p.plan.uploads /\ plan.cloudUpdates \subseteq p.plan.cloudUpdates
        /\ plan.localUpdates \subseteq p.plan.localUpdates
        /\ plan.downloads \subseteq p.plan.downloads /\ plan.marks \subseteq p.plan.marks
    BY DEF Rest
  <1>3. AtHand(rows, f, {}, confs, q, None)
    BY DEF Stands, AtHand
  <1>4. ItemsStand(rows, q, recs)
    BY <1>1, <1>2 DEF Stands, ItemsStand
  <1>5. SnapshotStands(confs, q)
    <2>1. Settling(p) => Settling(q)
      BY <1>1, <1>2 DEF Settling
    <2> QED BY <1>1, <2>1 DEF Stands, SnapshotStands
  <1>6. PlanStands(rows, q)
    BY <1>1, <1>2 DEF Stands, PlanStands
  <1>7. TombstonesStand(rows, q) /\ WrittenStands(rows, confs, q, recs)
    BY <1>1 DEF TombstonesStand, WrittenStands
  <1> QED BY <1>3, <1>4, <1>5, <1>6, <1>7 DEF Stands

\* The last phase finds a conflict.
LEMMA ConflictFound ==
  ASSUME NEW rows, NEW f, NEW confs \in Conflicts, NEW p \in Pass, NEW recs,
         NEW k \in CloudId, NEW confs2, \A x \in CloudId \ {k} : confs2[x] = confs[x],
         p.pc = "applying", p.written = None, Settling(p),
         Stands(rows, f, {}, confs, p, None, recs)
  PROVE  Stands(rows, f, {}, confs2, p, None, recs)
  <1>1. AtHand(rows, f, {}, confs2, p, None)
    BY DEF Stands, AtHand
  <1>2. SnapshotStands(confs2, p) /\ WrittenStands(rows, confs2, p, recs)
    BY DEF Stands, SnapshotStands, WrittenStands
  <1> QED BY <1>1, <1>2 DEF Stands

\* A record was written from the row of an item, which leaves the plan.
LEMMA JustWritten ==
  ASSUME NEW rows \in RowsOf, NEW f, NEW confs \in Conflicts, NEW p \in Pass, NEW recs,
         NEW w \in Written, NEW plan \in Rest(p.plan), NEW q,
         q.pc = "applying", q.written = w, q.plan = plan, q.events = p.events,
         q.items = p.items, q.records = p.records, q.paused = p.paused, q.deleted = p.deleted,
         p.pc = "applying", ~ Settling(p),
         recs[w.cid] # NoRecord, confs[w.cid] = None, w.cid \notin p.plan.downloads,
         \A l \in LocalId \ {w.local} : ~ Holds(rows, l, w.cid),
         rows[w.local] # NoRow => rows[w.local].cid \in {NoId, w.cid},
         \A i \in p.items :
            i.local = w.local => i \notin plan.uploads /\ i.cid \in {NoId, w.cid},
         Stands(rows, f, {}, confs, p, None, recs)
  PROVE  Stands(rows, f, {}, confs, q, None, recs)
  <1>1. /\ plan.uploads \subseteq p.plan.uploads /\ plan.cloudUpdates \subseteq p.plan.cloudUpdates
        /\ plan.localUpdates \subseteq p.plan.localUpdates
        /\ plan.downloads \subseteq p.plan.downloads /\ plan.marks \subseteq p.plan.marks
    BY DEF Rest
  <1>2. AtHand(rows, f, {}, confs, q, None)
    BY DEF Stands, AtHand
  <1>3. ItemsStand(rows, q, recs)
    BY <1>1 DEF Stands, ItemsStand
  <1>4. SnapshotStands(confs, q)
    BY <1>1 DEF Stands, SnapshotStands
  <1>5. PlanStands(rows, q)
    BY <1>1 DEF Stands, PlanStands
  <1>6. TombstonesStand(rows, q) /\ WrittenStands(rows, confs, q, recs)
    BY <1>1 DEF TombstonesStand, WrittenStands
  <1> QED BY <1>2, <1>3, <1>4, <1>5, <1>6 DEF Stands

\* mark_synced after the write: the row takes the name, if it is still there.
LEMMA WrittenMarked ==
  ASSUME NEW rows \in RowsOf, NEW rows2 \in RowsOf, NEW f \in Form \cup {None},
         NEW confs \in Conflicts,
         NEW p \in Pass, NEW recs, p.written # None,
         \A l \in LocalId \ {p.written.local} : rows2[l] = rows[l],
         rows2[p.written.local] # NoRow =>
            rows[p.written.local] # NoRow /\ rows2[p.written.local].cid = p.written.cid,
         NEW q, q = [p EXCEPT !.written = None],
         Known(p),
         Stands(rows, f, {}, confs, p, None, recs)
  PROVE  Stands(rows2, f, {}, confs, q, None, recs)
  <1> DEFINE w == p.written
  <1>0. p.pc = "applying" /\ w \in Written
    BY DEF Pass, Known, Written
  <1>1. /\ q.pc = "applying" /\ q.events = p.events /\ q.items = p.items
        /\ q.records = p.records /\ q.written = None /\ q.paused = p.paused
        /\ q.deleted = p.deleted /\ q.plan = p.plan
    BY <1>0 DEF Pass
  <1>2. /\ recs[w.cid] # NoRecord /\ confs[w.cid] = None /\ w.cid \notin p.plan.downloads
        /\ \A l \in LocalId \ {w.local} : ~ Holds(rows, l, w.cid)
        /\ rows[w.local] # NoRow => rows[w.local].cid \in {NoId, w.cid}
        /\ \A i \in p.items :
              i.local = w.local => i \notin p.plan.uploads /\ i.cid \in {NoId, w.cid}
    BY DEF Stands, WrittenStands
  <1> HIDE DEF w
  <1>3. RowsApart(rows2, recs)
    BY <1>0, <1>2 DEF Stands, RowsApart, Holds, w, Written
  <1>4. AtHand(rows2, f, {}, confs, q, None)
    <2>1. ASSUME f # None, f.cid # NoId PROVE Keeps(rows2, f.local, f.cid)
      <3>1. Keeps(rows, f.local, f.cid) /\ f.local \in LocalId
        BY <2>1 DEF Stands, AtHand, Form
      <3> QED BY <1>2, <2>1, <3>1 DEF Keeps, w
    <2> QED BY <2>1 DEF AtHand
  <1>5. \A i \in p.items : i.local \in LocalId
    BY DEF Pass, Item
  <1>6. ItemsStand(rows2, q, recs)
    <2>1. ASSUME NEW i \in p.items
          PROVE  Keeps(rows2, i.local, i.cid) \/ (i.cid = NoId /\ i \notin p.plan.uploads)
      <3>1. CASE i.local = w.local
        BY <1>2, <2>1, <3>1 DEF Keeps, w
      <3>2. CASE i.local # w.local
        <4>1. rows2[i.local] = rows[i.local]
          BY <1>5, <3>2 DEF w
        <4> QED BY <1>0, <2>1, <4>1 DEF Stands, ItemsStand, Keeps
      <3> QED BY <3>1, <3>2
    <2> QED BY <1>0, <1>1, <2>1 DEF Stands, ItemsStand
  <1>7. SnapshotStands(confs, q)
    BY <1>0, <1>1 DEF Stands, SnapshotStands, Settling
  <1>8. PlanStands(rows2, q)
    <2>1. ASSUME NEW i \in p.plan.uploads, i.cid # NoId PROVE rows2[i.local] = NoRow
      <3>1. i \in p.items /\ rows[i.local] = NoRow /\ i.local # w.local
        BY <1>0, <1>2, <2>1 DEF Stands, PlanStands
      <3> QED BY <1>5, <3>1 DEF w
    <2>2. ASSUME NEW k \in p.plan.downloads PROVE NoHolder(rows2, k)
      <3>1. NoHolder(rows, k) /\ k # w.cid
        BY <1>0, <1>2, <2>2 DEF Stands, PlanStands
      <3> QED BY <1>0, <3>1 DEF NoHolder, Holds, w, Written
    <2> QED BY <1>0, <1>1, <2>1, <2>2 DEF Stands, PlanStands
  <1>9. TombstonesStand(rows2, q) /\ WrittenStands(rows2, confs, q, recs)
    BY <1>1 DEF TombstonesStand, WrittenStands
  <1> QED BY <1>3, <1>4, <1>6, <1>7, <1>8, <1>9 DEF Stands

-----------------------------------------------------------------------------
StandsNext(d) ==
    Stands(row'[d], form'[d], deletions'[d], conflict'[d], pass'[d], resolving'[d], remote')

\* The state of one device, as the lemmas above take it.
LEMMA OneDevice ==
  ASSUME SyncInv, QuietInv, NEW d \in Device
  PROVE  /\ row[d] \in RowsOf /\ form[d] \in Form \cup {None}
         /\ deletions[d] \in SUBSET Event /\ conflict[d] \in Conflicts
         /\ pass[d] \in Pass /\ Known(pass[d]) /\ resolving[d] \in Resolution \cup {None}
         /\ remote \in Store
         /\ Stands(row[d], form[d], deletions[d], conflict[d], pass[d], resolving[d], remote)
         /\ pass[d].pc = "idle" => pass[d].written = None
         /\ pass[d].pc # "idle" => resolving[d] = None /\ deletions[d] = {}
  <1>1. /\ row[d] \in RowsOf /\ form[d] \in Form \cup {None}
        /\ deletions[d] \in SUBSET Event /\ conflict[d] \in Conflicts
        /\ pass[d] \in Pass /\ Known(pass[d]) /\ resolving[d] \in Resolution \cup {None}
        /\ remote \in Store
    BY DEF SyncInv, TypeOK, PlansKnown, RowsOf, Conflicts, Store
  <1>2. Stands(row[d], form[d], deletions[d], conflict[d], pass[d], resolving[d], remote)
    BY DEF QuietInv
  <1>3. pass[d].pc = "idle" => pass[d].written = None
    BY <1>1 DEF Known
  <1>4. pass[d].pc # "idle" => resolving[d] = None /\ deletions[d] = {}
    BY <1>2 DEF Stands, AtHand
  <1> QED BY <1>1, <1>2, <1>3, <1>4

\* What a step leaves of the state of the other devices.
Alone(d) ==
    \A e \in Device \ {d} :
        /\ row'[e] = row[e] /\ form'[e] = form[e] /\ deletions'[e] = deletions[e]
        /\ conflict'[e] = conflict[e] /\ pass'[e] = pass[e] /\ resolving'[e] = resolving[e]

Domains ==
    /\ row \in [Device -> RowsOf] /\ form \in [Device -> Form \cup {None}]
    /\ deletions \in [Device -> SUBSET Event] /\ conflict \in [Device -> Conflicts]
    /\ pass \in [Device -> Pass] /\ resolving \in [Device -> Resolution \cup {None}]

LEMMA MarkedAlone ==
  ASSUME Domains, NEW d \in Device, NEW l, NEW k, NEW synced, row' = MarkedRows(d, l, k, synced)
  PROVE  \A e \in Device \ {d} : row'[e] = row[e]
  BY DEF MarkedRows, Domains

LEMMA UserAlone ==
  ASSUME Domains, NEW d \in Device, UserStep(d) PROVE Alone(d)
  <1>1. ASSUME NEW l \in LocalId, CreateRow(d, l) PROVE Alone(d)
    BY <1>1 DEF CreateRow, Alone, Domains
  <1>2. ASSUME NEW l \in LocalId, OpenForm(d, l) PROVE Alone(d)
    BY <1>2 DEF OpenForm, Alone, Domains
  <1>3. ASSUME NEW l \in LocalId, DeleteRow(d, l) PROVE Alone(d)
    BY <1>3 DEF DeleteRow, ForgetRecord, Alone, Domains
  <1>4. CASE SaveForm(d)
    BY <1>4 DEF SaveForm, Alone, Domains
  <1>5. CASE CloseForm(d)
    BY <1>5 DEF CloseForm, Alone, Domains
  <1>6. CASE RefreshList(d)
    BY <1>6 DEF RefreshList, Alone, Domains
  <1> QED BY <1>1, <1>2, <1>3, <1>4, <1>5, <1>6 DEF UserStep

LEMMA PassAlone ==
  ASSUME Domains, NEW d \in Device, BeginPass(d) \/ PassStep(d) PROVE Alone(d)
  <1>1. CASE BeginPass(d) \/ ListItems(d) \/ ListRecords(d) \/ ReadPaused(d) \/ MakePlan(d)
    BY <1>1 DEF BeginPass, ListItems, ListRecords, ReadPaused, MakePlan, Alone, Domains
  <1>2. ASSUME NEW ev \in pass[d].events,
               ForgetDeleted(d, ev) \/ PauseDeleted(d, ev) \/ PushDelete(d, ev)
        PROVE  Alone(d)
    BY <1>2 DEF ForgetDeleted, PauseDeleted, PushDelete, ForgetRecord, PauseRecord, Ends,
                Alone, Domains
  <1>3. ASSUME NEW k \in CloudId, ApplyTombstone(d, k) PROVE Alone(d)
    <2>1. /\ conflict' = conflict \/ \E r : conflict' = [conflict EXCEPT ![d][k] = r]
          /\ row' = row \/ \E l : row' = [row EXCEPT ![d][l] = NoRow]
          /\ \E q : pass' = [pass EXCEPT ![d] = q]
          /\ UNCHANGED <<form, deletions, resolving>>
      BY <1>3 DEF ApplyTombstone, PauseRecord
    <2> QED BY <2>1 DEF Alone, Domains
  <1>4. ASSUME NEW k \in CloudId, Download(d, k) PROVE Alone(d)
    BY <1>4 DEF Download, Alone, Domains
  <1>5. CASE EndPass(d)
    BY <1>5 DEF EndPass, Ends, Alone, Domains
  <1>6. CASE MarkWritten(d)
    BY <1>6, MarkedAlone DEF MarkWritten, Alone, Domains
  <1>7. ASSUME NEW item \in pass[d].items, MarkSynced(d, item) PROVE Alone(d)
    BY <1>7, MarkedAlone DEF MarkSynced, Alone, Domains
  <1>8. ASSUME NEW item \in pass[d].items,
               UpdateLocal(d, item) \/ PauseConflict(d, item)
        PROVE  Alone(d)
    BY <1>8 DEF UpdateLocal, PauseConflict, PauseRecord, Ends, Alone, Domains
  <1>9. ASSUME NEW item \in pass[d].items, Upload(d, item) \/ UpdateCloud(d, item) PROVE Alone(d)
    <2>1. /\ \E q : pass' = [pass EXCEPT ![d] = q]
          /\ UNCHANGED <<row, form, deletions, conflict, resolving>>
      BY <1>9 DEF Upload, UpdateCloud, Export, Ends
    <2> QED BY <2>1 DEF Alone, Domains
  <1> QED BY <1>1, <1>2, <1>3, <1>4, <1>5, <1>6, <1>7, <1>8, <1>9 DEF PassStep

LEMMA ResolveAlone ==
  ASSUME Domains, NEW d \in Device, ResolveStart(d) \/ ResolveStep(d) \/ Failure(d) PROVE Alone(d)
  <1>1. ASSUME NEW k \in CloudId, UseCloud(d, k) PROVE Alone(d)
    <2>1. /\ row' = row \/ \E l, r : row' = [row EXCEPT ![d][l] = r]
          /\ conflict' = [conflict EXCEPT ![d][k] = None]
          /\ UNCHANGED <<form, deletions, pass, resolving>>
      BY <1>1 DEF UseCloud, ForgetRecord
    <2> QED BY <2>1 DEF Alone, Domains
  <1>2. ASSUME NEW k \in CloudId, UseLocalReads(d, k) PROVE Alone(d)
    <2>1. /\ \E u : resolving' = [resolving EXCEPT ![d] = u]
          /\ UNCHANGED <<row, form, deletions, conflict, pass>>
      BY <1>2 DEF UseLocalReads
    <2> QED BY <2>1 DEF Alone, Domains
  <1>3. CASE UseLocalWrites(d)
    BY <1>3 DEF UseLocalWrites, ForgetRecord, Alone, Domains
  <1>4. CASE UseLocalMarks(d)
    BY <1>4, MarkedAlone DEF UseLocalMarks, ForgetRecord, Alone, Domains
  <1>5. CASE UseLocalFails(d)
    BY <1>5 DEF UseLocalFails, Alone, Domains
  <1>6. CASE LockBusy(d) \/ PassFails(d) \/ Restart(d)
    BY <1>6 DEF LockBusy, PassFails, Restart, Ends, Alone, Domains
  <1> QED BY <1>1, <1>2, <1>3, <1>4, <1>5, <1>6 DEF ResolveStart, ResolveStep, Failure

-----------------------------------------------------------------------------
LEMMA Quiet ==
  ASSUME QuietUser, NEW d \in Device, UserMayAct(d)
  PROVE  pass[d].pc = "idle" /\ resolving[d] = None
  BY DEF UserMayAct

\* The actions of the user.
LEMMA UserStands ==
  ASSUME QuietUser, FreshList, SyncInv, SyncInv', QuietInv, NEW d \in Device, UserStep(d)
  PROVE  StandsNext(d)
  <1> DEFINE rows == row[d]  rows2 == row'[d]  f == form[d]  dels == deletions[d]
             confs == conflict[d]  p == pass[d]  u == resolving[d]
  <1>0. /\ rows \in RowsOf /\ f \in Form \cup {None} /\ dels \in SUBSET Event
        /\ confs \in Conflicts /\ p \in Pass /\ Known(p) /\ u \in Resolution \cup {None}
        /\ remote \in Store /\ Stands(rows, f, dels, confs, p, u, remote)
        /\ p.pc = "idle" => p.written = None
        /\ rows2 \in RowsOf
    <2>1. rows2 \in RowsOf
      BY DEF SyncInv, TypeOK, RowsOf
    <2> QED BY <2>1, OneDevice
  <1>1. ASSUME NEW l \in LocalId, CreateRow(d, l) PROVE StandsNext(d)
    <2> DEFINE r == [cid |-> NoId, upd |-> Clock(d), base |-> 0, val |-> {NewEdit}]
    <2>1. r \in Row
      BY <1>1, ClockNat, UsedUp DEF CreateRow, Row, Content
    <2>2. /\ p.pc = "idle" /\ u = None
          /\ rows[l] = NoRow /\ (f # None => f.local # l)
          /\ \A i \in p.items : i.local # l
      BY <1>1, Quiet DEF CreateRow, FreshLocal, Rows
    <2>3. rows2 = [rows EXCEPT ![l] = r]
      BY <1>1 DEF CreateRow, SyncInv, TypeOK
    <2> HIDE DEF rows, rows2, f, dels, confs, p, u
    <2>4. r.cid = NoId
      OBVIOUS
    <2> HIDE DEF r
    <2>5. Stands(rows2, f, dels, confs, p, u, remote)
      BY <1>0, <2>1, <2>2, <2>3, <2>4, RowAdded
    <2> QED BY <1>1, <2>5 DEF StandsNext, CreateRow, rows, rows2, f, dels, confs, p, u
  <1>2. ASSUME NEW l \in LocalId, OpenForm(d, l) PROVE StandsNext(d)
    <2>1. /\ p.pc = "idle" /\ u = None
          /\ form'[d] = [local |-> l, cid |-> rows[l].cid, base |-> rows[l].base,
                         val |-> rows[l].val]
      BY <1>2, Quiet DEF OpenForm, Listed, SyncInv, TypeOK
    <2>2. AtHand(rows, form'[d], dels, confs, p, u)
      BY <1>0, <2>1 DEF Stands, AtHand, Keeps
    <2>3. Stands(rows, form'[d], dels, confs, p, u, remote)
      BY <1>0, <2>1, <2>2, NoPass DEF Stands
    <2> QED BY <1>2, <2>3 DEF StandsNext, OpenForm
  <1>3. CASE SaveForm(d)
    <2> DEFINE r == [cid |-> f.cid, upd |-> Clock(d), base |-> f.base,
                     val |-> f.val \cup {NewEdit}]
    <2>1. /\ p.pc = "idle" /\ u = None /\ f # None
          /\ f.local \in LocalId /\ rows[f.local] # NoRow
      BY <1>3, Quiet DEF SaveForm, Rows
    <2>2. rows2 = [rows EXCEPT ![f.local] = r] /\ form'[d] = None
      BY <1>3 DEF SaveForm, SyncInv, TypeOK
    <2>3. r.cid = f.cid
      OBVIOUS
    <2>4. rows2[f.local] = r /\ \A m \in LocalId \ {f.local} : rows2[m] = rows[m]
      BY <1>0, <2>1, <2>2 DEF RowsOf
    <2> HIDE DEF r, rows, rows2, f, dels, confs, p, u
    <2>5. CASE f.cid # NoId
      <3>1. rows[f.local].cid = f.cid
        BY <1>0, <2>1, <2>5 DEF Stands, AtHand, Keeps
      <3>2. Shrinks(rows, rows2)
        BY <2>1, <2>3, <2>4, <3>1 DEF Shrinks
      <3>3. Grows(remote, remote) /\ Forgets(confs, confs)
        BY DEF Grows, Forgets
      <3>4. Stands(rows2, None, dels, confs, p, u, remote)
        BY <1>0, <3>2, <3>3, Less
      <3> QED BY <1>3, <2>2, <3>4 DEF StandsNext, SaveForm, rows, rows2, f, dels, confs, p, u
    <2>6. CASE f.cid = NoId
      <3>1. RowsApart(rows2, remote)
        BY <1>0, <2>3, <2>4, <2>6 DEF Stands, RowsApart, Holds
      <3>2. \A k \in CloudId : NoHolder(rows, k) => NoHolder(rows2, k)
        BY <2>3, <2>4, <2>6 DEF NoHolder, Holds
      <3>3. AtHand(rows2, None, dels, confs, p, u)
        BY <1>0, <2>1, <3>2 DEF Stands, AtHand, Event
      <3>4. Stands(rows2, None, dels, confs, p, u, remote)
        BY <1>0, <2>1, <3>1, <3>3, NoPass
      <3> QED BY <1>3, <2>2, <3>4 DEF StandsNext, SaveForm, rows, rows2, f, dels, confs, p, u
    <2> QED BY <2>5, <2>6
  <1>4. CASE CloseForm(d)
    <2>1. form'[d] = None
      BY <1>4 DEF CloseForm, SyncInv, TypeOK
    <2>2. Shrinks(rows, rows) /\ Grows(remote, remote) /\ Forgets(confs, confs)
      BY DEF Shrinks, Grows, Forgets
    <2> HIDE DEF rows, rows2, f, dels, confs, p, u
    <2>3. Stands(rows, None, dels, confs, p, u, remote)
      BY <1>0, <2>2, Less
    <2> QED BY <1>4, <2>1, <2>3 DEF StandsNext, CloseForm, rows, rows2, f, dels, confs, p, u
  <1>5. ASSUME NEW l \in LocalId, DeleteRow(d, l) PROVE StandsNext(d)
    <2> DEFINE k == rows[l].cid
    <2>1. /\ p.pc = "idle" /\ u = None /\ rows[l] # NoRow /\ k \in CloudId \cup {NoId}
          /\ rows2 = [rows EXCEPT ![l] = NoRow]
      <3>1. rows[l] # NoRow /\ row' = [row EXCEPT ![d][l] = NoRow]
        BY <1>5 DEF DeleteRow, Listed
      <3>2. k \in CloudId \cup {NoId}
        BY <1>0, <3>1 DEF RowsOf, Row
      <3>3. rows2 = [rows EXCEPT ![l] = NoRow]
        BY <3>1 DEF SyncInv, TypeOK
      <3> QED BY <1>5, <3>1, <3>2, <3>3, Quiet DEF DeleteRow
    <2>2. rows2[l] = NoRow /\ \A m \in LocalId \ {l} : rows2[m] = rows[m]
      BY <1>0, <2>1 DEF RowsOf
    <2>3. /\ k = NoId => deletions'[d] = dels /\ conflict'[d] = confs
          /\ k # NoId => /\ \E base : deletions'[d] = dels \cup {[cid |-> k, base |-> base]}
                         /\ conflict'[d] = [confs EXCEPT ![k] = None]
      <3>1. Listed(d)[l].cid = k
        BY DEF Listed
      <3>2. CASE k = NoId
        BY <1>5, <3>1, <3>2 DEF DeleteRow
      <3>3. CASE k # NoId
        <4> DEFINE base == IF row[d][l] = NoRow THEN 0 ELSE row[d][l].base
        <4>1. /\ deletions' = [deletions EXCEPT ![d] = @ \cup {[cid |-> k, base |-> base]}]
              /\ conflict' = [conflict EXCEPT ![d][k] = None]
          BY <1>5, <3>1, <3>3 DEF DeleteRow, ForgetRecord
        <4> HIDE DEF base
        <4>2. deletions'[d] = dels \cup {[cid |-> k, base |-> base]}
          BY <4>1 DEF SyncInv, TypeOK
        <4>3. conflict'[d] = [confs EXCEPT ![k] = None]
          BY <4>1 DEF SyncInv, TypeOK
        <4> QED BY <3>3, <4>2, <4>3
      <3> QED BY <3>2, <3>3
    <2> DEFINE confs2 == conflict'[d]  dels2 == deletions'[d]
    <2>4. Forgets(confs, confs2) /\ (k # NoId => confs2[k] = None) /\ confs2 \in Conflicts
      <3>1. CASE k = NoId
        BY <1>0, <2>3, <3>1 DEF Forgets
      <3>2. CASE k # NoId
        BY <1>0, <2>1, <2>3, <3>2 DEF Forgets, Conflicts
      <3> QED BY <3>1, <3>2
    <2> HIDE DEF rows, rows2, f, dels, confs, p, u, confs2, dels2
    <2>5. Shrinks(rows, rows2) /\ Grows(remote, remote)
      BY <2>2 DEF Shrinks, Grows
    <2>6. Stands(rows2, f, dels, confs2, p, u, remote)
      BY <1>0, <2>4, <2>5, Less
    <2>7. k # NoId => NoHolder(rows2, k)
      BY <1>0, <2>1, <2>2 DEF Stands, RowsApart, NoHolder, Holds
    <2>8. AtHand(rows2, f, dels2, confs2, p, u)
      <3>1. \A ev \in dels2 : ev \in dels \/ (k # NoId /\ ev.cid = k)
        BY <2>3 DEF dels2
      <3> QED BY <2>1, <2>4, <2>6, <2>7, <3>1 DEF Stands, AtHand
    <2>9. Stands(rows2, f, dels2, confs2, p, u, remote)
      BY <1>0, <2>1, <2>6, <2>8, NoPass DEF Stands
    <2> QED
      BY <1>5, <2>9 DEF StandsNext, DeleteRow, rows, rows2, f, dels, confs, p, u, confs2, dels2
  <1>6. ~ RefreshList(d)
    BY DEF RefreshList
  <1> QED BY <1>1, <1>2, <1>3, <1>4, <1>5, <1>6 DEF UserStep

\* Conflict resolution: it goes on while no pass runs.
LEMMA ResolveStands ==
  ASSUME QuietUser, SyncInv, SyncInv', VersionsIdentify, RemoteStep, QuietInv,
         NEW d \in Device, ResolveStart(d) \/ ResolveStep(d)
  PROVE  StandsNext(d)
  <1> DEFINE rows == row[d]  rows2 == row'[d]  f == form[d]  dels == deletions[d]
             confs == conflict[d]  confs2 == conflict'[d]  p == pass[d]  u == resolving[d]
             u2 == resolving'[d]
  <1>0. /\ rows \in RowsOf /\ f \in Form \cup {None} /\ dels \in SUBSET Event
        /\ confs \in Conflicts /\ p \in Pass /\ Known(p) /\ u \in Resolution \cup {None}
        /\ remote \in Store /\ Stands(rows, f, dels, confs, p, u, remote)
        /\ p.pc = "idle" => p.written = None
        /\ p.pc # "idle" => u = None
        /\ rows2 \in RowsOf /\ confs2 \in Conflicts /\ remote' \in Store
        /\ Grows(remote, remote')
    <2>1. rows2 \in RowsOf /\ confs2 \in Conflicts /\ remote' \in Store
      BY DEF SyncInv, TypeOK, RowsOf, Conflicts, Store
    <2>2. Grows(remote, remote')
      BY DEF RemoteStep, Grows
    <2> QED BY <2>1, <2>2, OneDevice
  <1>1. ASSUME NEW k \in CloudId, UseCloud(d, k) PROVE StandsNext(d)
    <2> DEFINE r == confs[k]
    <2>1. /\ p.pc = "idle" /\ u = None /\ r \in Record
          /\ UNCHANGED <<form, deletions, pass, resolving, remote>>
      BY <1>1 DEF UseCloud, SyncInv, TypeOK
    <2>2. confs2 = [confs EXCEPT ![k] = None]
      BY <1>1 DEF UseCloud, ForgetRecord, SyncInv, TypeOK
    <2>3. Forgets(confs, confs2)
      BY <1>0, <2>2 DEF Forgets, Conflicts
    <2>4. remote[k] # NoRecord
      BY <2>1 DEF VersionsIdentify, Identified, SyncInv, TypeOK
    <2>5. CASE rows2 = rows \/ \E l \in Holding(d, k) :
                  rows2 = [rows EXCEPT ![l] = NoRow] \/ rows2 = [rows EXCEPT ![l] = RowOf(k, r)]
      <3>1. Shrinks(rows, rows2)
        <4>1. CASE rows2 = rows
          BY <4>1 DEF Shrinks
        <4>2. ASSUME NEW l \in Holding(d, k), rows2 = [rows EXCEPT ![l] = NoRow]
              PROVE  Shrinks(rows, rows2)
          BY <1>0, <4>2 DEF Shrinks, RowsOf
        <4>3. ASSUME NEW l \in Holding(d, k), rows2 = [rows EXCEPT ![l] = RowOf(k, r)]
              PROVE  Shrinks(rows, rows2)
          <5>1. rows[l] # NoRow /\ rows[l].cid = k /\ RowOf(k, r).cid = k /\ l \in LocalId
            BY DEF Holding, Rows, RowOf
          <5> QED BY <1>0, <4>3, <5>1 DEF Shrinks, RowsOf
        <4> QED BY <2>5, <4>1, <4>2, <4>3
      <3> HIDE DEF rows, rows2, f, dels, confs, confs2, p, u
      <3>2. Stands(rows2, f, dels, confs2, p, u, remote')
        BY <1>0, <2>3, <3>1, Less
      <3> QED BY <2>1, <3>2 DEF StandsNext, rows, rows2, f, dels, confs, confs2, p, u
    <2>6. CASE Holding(d, k) = {} /\ \E l \in FreshLocal(d) : rows2 = [rows EXCEPT ![l] = RowOf(k, r)]
      <3>1. PICK l \in FreshLocal(d) : rows2 = [rows EXCEPT ![l] = RowOf(k, r)]
        BY <2>6
      <3>2. /\ l \in LocalId /\ rows[l] = NoRow /\ (f # None => f.local # l)
            /\ \A i \in p.items : i.local # l
        BY DEF FreshLocal, Rows
      <3> DEFINE new == RowOf(k, r)
      <3>3. new \in Row /\ new.cid = k /\ rows2 = [rows EXCEPT ![l] = new]
        BY <2>1, <3>1, RowOfRecord DEF RowOf
      <3>4. NoHolder(rows, k)
        BY <2>6 DEF NoHolder, Holds, Holding, Rows
      <3>5. \A ev \in dels : ev.cid # k
        BY <1>0, <2>1 DEF Stands, AtHand
      <3>6. k \notin p.plan.downloads
        BY <1>0, <2>1 DEF Known, EmptyPlan
      <3> HIDE DEF rows, rows2, f, dels, confs, confs2, p, u, new
      <3>a. /\ NoHolder(rows, new.cid) /\ remote[new.cid] # NoRecord
            /\ new.cid \notin p.plan.downloads /\ \A ev \in dels : ev.cid # new.cid
        BY <2>4, <3>3, <3>4, <3>5, <3>6
      <3>b. p.pc \in {"idle", "applying"} /\ p.written = None /\ (u # None => u.local # l)
        BY <1>0, <2>1
      <3>7. Stands(rows2, f, dels, confs, p, u, remote)
        BY <1>0, <3>2, <3>3, <3>a, <3>b, RowAdded
      <3>8. Shrinks(rows2, rows2)
        BY DEF Shrinks
      <3>9. Stands(rows2, f, dels, confs2, p, u, remote')
        BY <1>0, <2>3, <3>7, <3>8, Less
      <3> QED BY <2>1, <3>9 DEF StandsNext, rows, rows2, f, dels, confs, confs2, p, u
    <2> QED
      <3>1. CASE r.del
        BY <1>1, <2>5, <3>1 DEF UseCloud, SyncInv, TypeOK
      <3>2. CASE ~ r.del
        <4>1. PICK l \in IF Holding(d, k) = {} THEN FreshLocal(d) ELSE Holding(d, k) :
                row' = [row EXCEPT ![d][l] = RowOf(k, r)]
          BY <1>1, <3>2 DEF UseCloud
        <4>2. rows2 = [rows EXCEPT ![l] = RowOf(k, r)]
          BY <4>1 DEF SyncInv, TypeOK
        <4> QED BY <2>5, <2>6, <4>1, <4>2
      <3> QED BY <3>1, <3>2
  <1>2. ASSUME NEW k \in CloudId, UseLocalReads(d, k) PROVE StandsNext(d)
    <2>1. PICK l \in IF Holding(d, k) = {} THEN {None} ELSE Holding(d, k) :
            resolving' = [resolving EXCEPT ![d] =
               [cid |-> k, local |-> l, upd |-> None,
                expected |-> IF remote[k] = NoRecord THEN conflict[d][k].ver
                             ELSE remote[k].ver]]
      BY <1>2 DEF UseLocalReads
    <2>2. u2.cid = k /\ u2.local = l /\ u2.upd = None
      BY <2>1 DEF SyncInv, TypeOK
    <2>3. /\ p.pc = "idle"
          /\ UNCHANGED <<row, form, deletions, conflict, pass, remote>>
      BY <1>2 DEF UseLocalReads
    <2>4. l # None => Keeps(rows, l, k)
      BY <2>1 DEF Holding, Keeps
    <2> HIDE DEF rows, rows2, f, dels, confs, confs2, p, u, u2
    <2>5. AtHand(rows, f, dels, confs, p, u2)
      BY <1>0, <2>2, <2>3, <2>4 DEF Stands, AtHand
    <2>6. Stands(rows, f, dels, confs, p, u2, remote)
      BY <1>0, <2>3, <2>5, NoPass DEF Stands
    <2> QED BY <2>3, <2>6 DEF StandsNext, rows, rows2, f, dels, confs, confs2, p, u, u2
  <1>3. CASE UseLocalWrites(d)
    <2>1. /\ u # None /\ p.pc = "idle"
          /\ UNCHANGED <<row, form, deletions, pass>>
      BY <1>0, <1>3 DEF UseLocalWrites
    <2>2. CASE u.local = None
      <3>1. u2 = None /\ conflict' = [conflict EXCEPT ![d][u.cid] = None]
        BY <1>3, <2>2 DEF UseLocalWrites, ForgetRecord, SyncInv, TypeOK
      <3>2. Forgets(confs, confs2)
        BY <3>1 DEF Forgets, SyncInv, TypeOK
      <3>3. Shrinks(rows, rows)
        BY DEF Shrinks
      <3> HIDE DEF rows, rows2, f, dels, confs, confs2, p, u
      <3>4. Stands(rows, f, dels, confs2, p, None, remote')
        BY <1>0, <3>2, <3>3, Less
      <3> QED BY <2>1, <3>1, <3>4 DEF StandsNext, rows, rows2, f, dels, confs, confs2, p, u
    <2>3. CASE u.local # None
      <3>1. u2 = [u EXCEPT !.upd = Clock(d)] /\ UNCHANGED conflict
        BY <1>3, <2>3 DEF UseLocalWrites, SyncInv, TypeOK
      <3>2. u2.cid = u.cid /\ u2.local = u.local
        BY <1>0, <2>1, <3>1 DEF Resolution
      <3>3. Shrinks(rows, rows) /\ Forgets(confs, confs)
        BY DEF Shrinks, Forgets
      <3> HIDE DEF rows, rows2, f, dels, confs, confs2, p, u, u2
      <3>4. Stands(rows, f, dels, confs, p, u, remote')
        BY <1>0, <3>3, Less
      <3>5. AtHand(rows, f, dels, confs, p, u2)
        BY <2>1, <2>3, <3>2, <3>4 DEF Stands, AtHand
      <3>6. Stands(rows, f, dels, confs, p, u2, remote')
        BY <1>0, <2>1, <3>4, <3>5, NoPass DEF Stands
      <3> QED BY <2>1, <3>1, <3>6 DEF StandsNext, rows, rows2, f, dels, confs, confs2, p, u, u2
    <2> QED BY <2>2, <2>3
  <1>4. CASE UseLocalMarks(d)
    <2>1. /\ u # None /\ u.upd # None /\ p.pc = "idle" /\ u2 = None
          /\ conflict' = [conflict EXCEPT ![d][u.cid] = None]
          /\ UNCHANGED <<form, deletions, pass, remote>>
      BY <1>0, <1>4 DEF UseLocalMarks, ForgetRecord, SyncInv, TypeOK
    <2>2. Forgets(confs, confs2)
      BY <2>1 DEF Forgets, SyncInv, TypeOK
    <2>3. Shrinks(rows, rows2)
      <3>1. CASE u.local \notin Rows(d)
        BY <1>4, <3>1 DEF UseLocalMarks, MarkedRows, Shrinks
      <3>2. CASE u.local \in Rows(d)
        <4>1. /\ u.local \in LocalId /\ rows[u.local] \in Row
              /\ Keeps(rows, u.local, u.cid) /\ rows[u.local] # NoRow
          BY <1>0, <2>1, <3>2 DEF Stands, AtHand, Rows, RowsOf
        <4>2. rows2 = [rows EXCEPT ![u.local] = [@ EXCEPT !.cid = u.cid, !.base = u.upd]]
          BY <1>4, <3>2 DEF UseLocalMarks, MarkedRows, SyncInv, TypeOK
        <4> DEFINE r == [rows[u.local] EXCEPT !.cid = u.cid, !.base = u.upd]
        <4>3. r.cid = u.cid /\ rows2 = [rows EXCEPT ![u.local] = r]
          BY <4>1, <4>2 DEF Row
        <4> HIDE DEF r, rows, rows2
        <4> QED BY <1>0, <4>1, <4>3 DEF Shrinks, Keeps, RowsOf
      <3> QED BY <3>1, <3>2
    <2> HIDE DEF rows, rows2, f, dels, confs, confs2, p, u
    <2>4. Stands(rows2, f, dels, confs2, p, None, remote')
      BY <1>0, <2>2, <2>3, Less
    <2> QED BY <2>1, <2>4 DEF StandsNext, rows, rows2, f, dels, confs, confs2, p, u
  <1>5. CASE UseLocalFails(d)
    <2>1. u2 = None /\ UNCHANGED <<row, form, deletions, conflict, pass, remote>>
      BY <1>5 DEF UseLocalFails, SyncInv, TypeOK
    <2>2. Shrinks(rows, rows) /\ Forgets(confs, confs)
      BY DEF Shrinks, Forgets
    <2> HIDE DEF rows, rows2, f, dels, confs, confs2, p, u
    <2>3. Stands(rows, f, dels, confs, p, None, remote')
      BY <1>0, <2>2, Less
    <2> QED BY <2>1, <2>3 DEF StandsNext, rows, rows2, f, dels, confs, confs2, p, u
  <1> QED BY <1>1, <1>2, <1>3, <1>4, <1>5 DEF ResolveStart, ResolveStep

-----------------------------------------------------------------------------
\* A pass that starts, finds the lock taken, returns, fails or dies.
LEMMA EndsStand ==
  ASSUME SyncInv, QuietUser, QuietInv, NEW d \in Device,
         BeginPass(d) \/ EndPass(d) \/ Failure(d)
  PROVE  StandsNext(d)
  <1> DEFINE rows == row[d]  f == form[d]  dels == deletions[d]
             confs == conflict[d]  p == pass[d]  u == resolving[d]
  <1>0. /\ rows \in RowsOf /\ f \in Form \cup {None} /\ dels \in SUBSET Event
        /\ confs \in Conflicts /\ p \in Pass /\ Known(p) /\ u \in Resolution \cup {None}
        /\ remote \in Store /\ Stands(rows, f, dels, confs, p, u, remote)
    BY OneDevice
  <1>a. Shrinks(rows, rows) /\ Forgets(confs, confs) /\ Grows(remote, remote)
    BY DEF Shrinks, Forgets, Grows
  <1>1. CASE BeginPass(d)
    <2>1. /\ p.pc = "idle" /\ u = None /\ deletions'[d] = {}
          /\ pass'[d] = [p EXCEPT !.pc = "listing", !.events = dels]
          /\ UNCHANGED <<row, form, conflict, resolving, remote>>
      BY <1>1 DEF BeginPass, SyncInv, TypeOK
    <2> DEFINE q == pass'[d]
    <2> HIDE DEF rows, f, dels, confs, p, u, q
    <2>2. Stands(rows, f, {}, confs, q, None, remote)
      BY <1>0, <2>1, Begun DEF q
    <2> QED BY <2>1, <2>2 DEF StandsNext, rows, f, dels, confs, p, u, q
  <1>2. CASE LockBusy(d)
    <2>1. deletions'[d] = {} /\ UNCHANGED <<row, form, conflict, pass, resolving, remote>>
      BY <1>2 DEF LockBusy, SyncInv, TypeOK
    <2> HIDE DEF rows, f, dels, confs, p, u
    <2>2. Stands(rows, f, {}, confs, p, u, remote)
      BY <1>0, <1>a, Less
    <2> QED BY <2>1, <2>2 DEF StandsNext, rows, f, dels, confs, p, u
  <1>3. CASE PassFails(d) \/ EndPass(d)
    <2>1. pass'[d] = IdlePass /\ UNCHANGED <<row, form, deletions, conflict, resolving, remote>>
      BY <1>3 DEF PassFails, EndPass, Ends, SyncInv, TypeOK
    <2>2. Stands(rows, f, dels, confs, IdlePass, u, remote)
      BY <1>0, Dropped
    <2> QED BY <2>1, <2>2 DEF StandsNext
  <1>4. CASE Restart(d)
    <2>1. /\ pass'[d] = IdlePass /\ form'[d] = None /\ deletions'[d] = {} /\ resolving'[d] = None
          /\ UNCHANGED <<row, conflict, remote>>
      BY <1>4 DEF Restart, SyncInv, TypeOK
    <2> HIDE DEF rows, f, dels, confs, p, u
    <2>2. Stands(rows, None, {}, confs, p, None, remote)
      BY <1>0, <1>a, Less
    <2>3. Stands(rows, None, {}, confs, IdlePass, None, remote)
      BY <2>2, Dropped
    <2> QED BY <2>1, <2>3 DEF StandsNext, rows, f, dels, confs, p, u
  <1> QED BY <1>1, <1>2, <1>3, <1>4 DEF Failure

\* The steps of a pass up to its plan.
LEMMA DeletingStands ==
  ASSUME SyncInv, SyncInv', RemoteStep, QuietInv, NEW d \in Device,
         \/ ListItems(d) \/ ListRecords(d) \/ ReadPaused(d) \/ MakePlan(d)
         \/ \E ev \in pass[d].events :
               ForgetDeleted(d, ev) \/ PauseDeleted(d, ev) \/ PushDelete(d, ev)
         \/ \E k \in CloudId : ApplyTombstone(d, k)
  PROVE  StandsNext(d)
  <1> DEFINE rows == row[d]  rows2 == row'[d]  f == form[d]  confs == conflict[d]
             confs2 == conflict'[d]  p == pass[d]  q == pass'[d]
  <1>0. /\ rows \in RowsOf /\ f \in Form \cup {None}
        /\ confs \in Conflicts /\ p \in Pass /\ Known(p)
        /\ remote \in Store
        /\ p.pc # "idle" => /\ deletions[d] = {} /\ resolving[d] = None
                            /\ Stands(rows, f, {}, confs, p, None, remote)
    <2>1. Stands(rows, f, deletions[d], confs, p, resolving[d], remote)
      BY OneDevice
    <2> QED BY <2>1, OneDevice
  <1>a. rows2 \in RowsOf /\ confs2 \in Conflicts /\ remote' \in Store /\ Grows(remote, remote')
    <2>1. rows2 \in RowsOf /\ confs2 \in Conflicts /\ remote' \in Store
      BY DEF SyncInv, TypeOK, RowsOf, Conflicts, Store
    <2>2. Grows(remote, remote')
      BY DEF RemoteStep, Grows
    <2> QED BY <2>1, <2>2
  <1>1. CASE ListItems(d)
    <2> DEFINE items == Items(d)
    <2>1. /\ p.pc = "listing" /\ q = [p EXCEPT !.pc = "reading", !.items = items]
          /\ UNCHANGED <<row, form, deletions, conflict, resolving, remote>>
      BY <1>1 DEF ListItems, SyncInv, TypeOK
    <2>2. items \in SUBSET Item
      BY DEF Items, Snapshot, Item, Rows, Row, SyncInv, TypeOK
    <2>3. /\ \A l \in LocalId : rows[l] # NoRow => \E i \in items : i.local = l
          /\ \A i \in items : Holds(rows, i.local, i.cid)
          /\ \A i, j \in items : i.local = j.local => i = j
      <3>1. \A i \in items : \E l \in Rows(d) : i = Snapshot(d, l)
        BY DEF Items
      <3>2. \A l \in Rows(d) : Snapshot(d, l) \in items
        BY DEF Items
      <3> HIDE DEF items
      <3>3. \A l : Snapshot(d, l).local = l /\ Snapshot(d, l).cid = row[d][l].cid
        BY DEF Snapshot
      <3>4. \A l \in LocalId : l \in Rows(d) <=> row[d][l] # NoRow
        BY DEF Rows
      <3>5. \A l \in LocalId : rows[l] # NoRow => \E i \in items : i.local = l
        BY <3>2, <3>3, <3>4
      <3>6. \A i \in items : Holds(rows, i.local, i.cid)
        BY <3>1, <3>3, <3>4 DEF Rows, Holds
      <3>7. \A i, j \in items : i.local = j.local => i = j
        BY <3>1, <3>3
      <3> QED BY <3>5, <3>6, <3>7
    <2> HIDE DEF rows, rows2, f, confs, confs2, p, q, items
    <2>4. Stands(rows, f, {}, confs, q, None, remote)
      BY <1>0, <2>1, <2>2, <2>3, Listing
    <2> QED BY <1>0, <2>1, <2>4 DEF StandsNext, rows, rows2, f, confs, confs2, p, q
  <1>2. CASE ListRecords(d)
    <2>1. /\ p.pc = "reading" /\ q = [p EXCEPT !.pc = "pausing", !.records = remote]
          /\ UNCHANGED <<row, form, deletions, conflict, resolving, remote>>
      BY <1>2 DEF ListRecords, SyncInv, TypeOK
    <2> HIDE DEF rows, rows2, f, confs, confs2, p, q
    <2>2. Stands(rows, f, {}, confs, q, None, remote)
      BY <1>0, <2>1, Reading
    <2> QED BY <1>0, <2>1, <2>2 DEF StandsNext, rows, rows2, f, confs, confs2, p, q
  <1>3. CASE ReadPaused(d)
    <2> DEFINE paused == PausedRecords(d)
               deleted == {ev.cid : ev \in p.events}
               tombstones == {k \in CloudId \ paused :
                                /\ p.records[k] # NoRecord
                                /\ p.records[k].del
                                /\ \E item \in p.items : item.cid = k}
    <2>1. /\ p.pc = "pausing"
          /\ q = [p EXCEPT !.pc = "deleting", !.paused = paused, !.deleted = deleted,
                           !.tombstones = tombstones]
          /\ UNCHANGED <<row, form, deletions, conflict, resolving, remote>>
      BY <1>3 DEF ReadPaused, SyncInv, TypeOK
    <2>2. paused \in SUBSET CloudId /\ \A k \in CloudId : k \in paused <=> confs[k] # None
      BY DEF PausedRecords
    <2>3. deleted \in SUBSET CloudId
      BY <1>0 DEF Pass, Event
    <2> HIDE DEF paused, p
    <2>4. /\ tombstones \in SUBSET CloudId
          /\ \A k \in CloudId : k \in tombstones <=>
                /\ k \notin paused /\ p.records[k] # NoRecord /\ p.records[k].del
                /\ \E i \in p.items : i.cid = k
      OBVIOUS
    <2> HIDE DEF rows, rows2, f, confs, confs2, q, tombstones
    <2>5. Stands(rows, f, {}, confs, q, None, remote)
      BY <1>0, <2>1, <2>2, <2>3, <2>4, Pausing
    <2> QED BY <1>0, <2>1, <2>5 DEF StandsNext, rows, rows2, f, confs, confs2, p, q
  <1>4. CASE MakePlan(d)
    <2> DEFINE active == [k \in CloudId |->
                            IF p.records[k] = NoRecord THEN NoRecord
                            ELSE IF p.records[k].del \/ k \in p.deleted THEN NoRecord
                            ELSE p.records[k]]
    <2>1. /\ p.pc = "deleting" /\ p.tombstones = {}
          /\ q = [p EXCEPT !.pc = "applying", !.plan = Plan(p.items, active, p.paused)]
          /\ UNCHANGED <<row, form, deletions, conflict, resolving, remote>>
      BY <1>4 DEF MakePlan, SyncInv, TypeOK
    <2>2. active \in Store
      BY <1>0 DEF Pass, Store
    <2>3. \A k \in CloudId : active[k] =
             IF p.records[k] = NoRecord THEN NoRecord
             ELSE IF p.records[k].del \/ k \in p.deleted THEN NoRecord ELSE p.records[k]
      OBVIOUS
    <2> HIDE DEF rows, rows2, f, confs, confs2, p, q, active
    <2>4. Stands(rows, f, {}, confs, q, None, remote)
      BY <1>0, <2>1, <2>2, <2>3, Planning
    <2> QED BY <1>0, <2>1, <2>4 DEF StandsNext, rows, rows2, f, confs, confs2, p, q
  <1>5. ASSUME NEW ev \in p.events,
               ForgetDeleted(d, ev) \/ PauseDeleted(d, ev) \/ PushDelete(d, ev)
        PROVE  StandsNext(d)
    <2>0. p.pc = "deleting" /\ p.pc # "idle"
      BY <1>5 DEF ForgetDeleted, PauseDeleted, PushDelete
    <2>1. \E r : conflict' = [conflict EXCEPT ![d][ev.cid] = r]
      BY <1>5 DEF ForgetDeleted, PauseDeleted, PushDelete, ForgetRecord, PauseRecord
    <2>2. PICK r : conflict' = [conflict EXCEPT ![d][ev.cid] = r]
      BY <2>1
    <2>3. \A x \in CloudId \ {ev.cid} : confs2[x] = confs[x]
      BY <2>2 DEF SyncInv, TypeOK
    <2>4. /\ pass' = [pass EXCEPT ![d].events = @ \ {ev}] \/ Ends(d)
          /\ UNCHANGED <<row, form, deletions, resolving>>
      BY <1>5 DEF ForgetDeleted, PauseDeleted, PushDelete
    <2> DEFINE q1 == [p EXCEPT !.events = @ \ {ev}]
    <2>5. q = q1 \/ q = IdlePass
      BY <2>4 DEF Ends, SyncInv, TypeOK
    <2> HIDE DEF rows, rows2, f, confs, confs2, p, q, q1
    <2>6. Stands(rows, f, {}, confs, p, None, remote')
      <3>1. Shrinks(rows, rows) /\ Forgets(confs, confs)
        BY DEF Shrinks, Forgets
      <3> QED BY <1>0, <1>a, <2>0, <3>1, Less
    <2>7. Stands(rows, f, {}, confs2, q1, None, remote')
      BY <1>0, <2>0, <2>3, <2>6, EventDone DEF q1
    <2>8. Stands(rows, f, {}, confs2, q, None, remote')
      BY <2>5, <2>7, Dropped
    <2> QED BY <1>0, <2>0, <2>4, <2>8 DEF StandsNext, rows, rows2, f, confs, confs2, p, q
  <1>6. ASSUME NEW k \in CloudId, ApplyTombstone(d, k) PROVE StandsNext(d)
    <2>1. /\ p.pc = "deleting" /\ p.pc # "idle"
          /\ UNCHANGED <<form, deletions, resolving, remote>>
      BY <1>6 DEF ApplyTombstone
    <2>2. PICK item \in p.items :
            /\ item.cid = k
            /\ IF LocalChangedSinceSync(item) \/ item.local \in Referenced
               THEN /\ conflict' = [conflict EXCEPT ![d][k] = p.records[k]]
                    /\ pass' = [pass EXCEPT ![d].tombstones = @ \ {k},
                                            ![d].paused = @ \cup {k}]
                    /\ UNCHANGED row
               ELSE /\ row' = [row EXCEPT ![d][item.local] = NoRow]
                    /\ pass' = [pass EXCEPT ![d].tombstones = @ \ {k}]
                    /\ UNCHANGED conflict
      BY <1>6 DEF ApplyTombstone, PauseRecord
    <2>3. CASE LocalChangedSinceSync(item) \/ item.local \in Referenced
      <3> DEFINE q1 == [p EXCEPT !.tombstones = @ \ {k}, !.paused = @ \cup {k}]
      <3>1. /\ conflict' = [conflict EXCEPT ![d][k] = p.records[k]]
            /\ pass' = [pass EXCEPT ![d] = q1]
            /\ UNCHANGED row
        BY <2>2, <2>3
      <3>2. /\ q1.pc = "deleting" /\ q1.written = None /\ q1.events = p.events
            /\ q1.items = p.items /\ q1.records = p.records /\ q1.deleted = p.deleted
            /\ q1.paused = p.paused \cup {k} /\ q1.tombstones = p.tombstones \ {k}
        BY <1>0, <2>1 DEF Pass, Known
      <3> HIDE DEF q1
      <3>3. (\A x \in CloudId \ {k} : confs2[x] = confs[x]) /\ q = q1
        BY <3>1 DEF SyncInv, TypeOK
      <3> HIDE DEF rows, rows2, f, confs, confs2, p, q
      <3>4. Stands(rows, f, {}, confs2, q, None, remote)
        BY <1>0, <2>1, <3>2, <3>3, TombstonePaused
      <3> QED BY <1>0, <2>1, <3>1, <3>4 DEF StandsNext, rows, rows2, f, confs, confs2, p, q
    <2>4. CASE ~ (LocalChangedSinceSync(item) \/ item.local \in Referenced)
      <3>1. /\ rows2 = [rows EXCEPT ![item.local] = NoRow]
            /\ q = [p EXCEPT !.tombstones = @ \ {k}]
            /\ UNCHANGED conflict
        BY <2>2, <2>4 DEF SyncInv, TypeOK
      <3>2. item.local \in LocalId
        BY <1>0 DEF Pass, Item
      <3> HIDE DEF rows, rows2, f, confs, confs2, p, q
      <3>3. Shrinks(rows, rows2) /\ rows2[item.local] = NoRow
        BY <1>0, <3>1, <3>2 DEF Shrinks, RowsOf
      <3>4. Forgets(confs, confs) /\ Grows(remote, remote)
        BY DEF Forgets, Grows
      <3>5. Stands(rows2, f, {}, confs, p, None, remote)
        BY <1>0, <1>a, <2>1, <3>3, <3>4, Less
      <3>6. Stands(rows2, f, {}, confs, q, None, remote)
        BY <1>0, <2>1, <2>2, <3>1, <3>3, <3>5, TombstoneDone
      <3> QED BY <1>0, <2>1, <3>1, <3>6 DEF StandsNext, rows, rows2, f, confs, confs2, p, q
    <2> QED BY <2>3, <2>4
  <1> QED BY <1>1, <1>2, <1>3, <1>4, <1>5, <1>6

-----------------------------------------------------------------------------
\* What an export that succeeds amounts to: it writes record k over what the pass
\* has read of it, from a row that is named k or not at all, as no other row is.
Exported(d, item, k, w, plan) ==
    /\ w \in Written /\ w.local = item.local /\ w.cid = k /\ plan \in Rest(pass[d].plan)
    /\ remote[k] = pass[d].records[k] /\ conflict[d][k] = None
    /\ k \notin pass[d].plan.downloads
    /\ row[d][item.local] # NoRow /\ row[d][item.local].cid \in {NoId, k}
    /\ \A l \in LocalId \ {item.local} : ~ Holds(row[d], l, k)
    /\ item \notin plan.uploads /\ item.cid \in {NoId, k}
    /\ item \in pass[d].plan.cloudUpdates \/ remote[k] = NoRecord
    /\ row[d][item.local].val \in Content /\ Upsert(d, k, row[d][item.local].val)
    /\ w.upd = Clock(d)
    /\ pass' = [pass EXCEPT ![d] = [[pass[d] EXCEPT !.plan = plan] EXCEPT !.written = w]]

\* A record the store has never had is in no snapshot, conflict or row.
LEMMA Unheard ==
  ASSUME SyncInv, VersionsIdentify, QuietInv, NEW d \in Device, NEW k \in CloudId,
         remote[k] = NoRecord
  PROVE  /\ pass[d].records[k] = NoRecord /\ conflict[d][k] = None /\ NoHolder(row[d], k)
         /\ k \notin pass[d].plan.downloads
  <1>1. pass[d].records[k] = NoRecord /\ conflict[d][k] = None
    BY DEF VersionsIdentify, Identified
  <1>2. k \notin pass[d].plan.downloads
    BY <1>1, OneDevice DEF Known
  <1>3. RowsApart(row[d], remote)
    BY OneDevice DEF Stands
  <1>4. NoHolder(row[d], k)
    BY <1>3 DEF RowsApart, NoHolder, Holds
  <1> QED BY <1>1, <1>2, <1>4

\* An upload only ever creates a record; a named item whose record was deleted
\* has lost its row, and the pass ends.
LEMMA UploadExports ==
  ASSUME SyncInv, VersionsIdentify, QuietInv, NEW d \in Device, NEW item \in pass[d].items,
         Upload(d, item), ~ Ends(d)
  PROVE  \E k, w, plan : k \in CloudId /\ Exported(d, item, k, w, plan)
  <1> DEFINE p == pass[d]  r == row[d][item.local]
             plan == [p.plan EXCEPT !.uploads = @ \ {item}]
  <1>0. /\ p \in Pass /\ Known(p) /\ row[d] \in RowsOf
        /\ Stands(row[d], form[d], deletions[d], conflict[d], p, resolving[d], remote)
    BY OneDevice
  <1>1. /\ p.pc = "applying" /\ p.written = None /\ item \in p.plan.uploads
        /\ item \in Item /\ item.local \in LocalId /\ Export(d, item, None, plan)
    BY <1>0 DEF Upload, Applying, Pass, Item
  <1>2. item.local \in Rows(d) /\ r # NoRow
    BY <1>1 DEF Export, Rows
  <1>3. item.cid = NoId
    BY <1>0, <1>1, <1>2 DEF Stands, PlanStands
  <1>4. r.cid = NoId
    BY <1>0, <1>1, <1>2, <1>3 DEF Stands, ItemsStand, Keeps
  <1>5. PICK k \in FreshCloud :
          /\ Upsert(d, k, r.val)
          /\ pass' = [pass EXCEPT
                ![d].plan = plan,
                ![d].written = [local |-> item.local, cid |-> k, upd |-> Clock(d)]]
    BY <1>1, <1>2, <1>4 DEF Export, ExportId
  <1>6. k \in CloudId /\ remote[k] = NoRecord
    BY DEF FreshCloud
  <1>7. plan \in Rest(p.plan) /\ item \notin plan.uploads
    BY <1>0, <1>1 DEF Pass, Rest
  <1> DEFINE w == [local |-> item.local, cid |-> k, upd |-> Clock(d)]
  <1>8. w \in Written /\ w.local = item.local /\ w.cid = k /\ w.upd = Clock(d)
    BY <1>1, <1>6, ClockNat DEF Written
  <1>9. pass' = [pass EXCEPT ![d] = [[p EXCEPT !.plan = plan] EXCEPT !.written = w]]
    BY <1>5
  <1>10. r.val \in Content
    BY <1>0, <1>1, <1>2 DEF RowsOf, Row
  <1>11. /\ p.records[k] = NoRecord /\ conflict[d][k] = None /\ NoHolder(row[d], k)
         /\ k \notin p.plan.downloads
    BY <1>6, Unheard
  <1> HIDE DEF w, plan
  <1>12. Exported(d, item, k, w, plan)
    BY <1>2, <1>3, <1>4, <1>5, <1>6, <1>7, <1>8, <1>9, <1>10, <1>11 DEF Exported, NoHolder
  <1> QED BY <1>6, <1>12

\* A cloud update writes over exactly the record the plan was made from.
LEMMA UpdateExports ==
  ASSUME SyncInv, VersionsIdentify, QuietInv, NEW d \in Device, NEW item \in pass[d].items,
         UpdateCloud(d, item), ~ Ends(d)
  PROVE  \E k, w, plan : k \in CloudId /\ Exported(d, item, k, w, plan)
  <1> DEFINE p == pass[d]  r == row[d][item.local]  k == item.cid
             plan == [p.plan EXCEPT !.cloudUpdates = @ \ {item}]
  <1>0. /\ p \in Pass /\ Known(p) /\ row[d] \in RowsOf
        /\ Stands(row[d], form[d], deletions[d], conflict[d], p, resolving[d], remote)
    BY OneDevice
  <1>1. /\ p.pc = "applying" /\ p.written = None /\ p.plan.uploads = {}
        /\ item \in p.plan.cloudUpdates
        /\ item \in Item /\ item.local \in LocalId /\ Export(d, item, p.records[k].ver, plan)
    BY <1>0 DEF UpdateCloud, Applying, Pass, Item
  <1>2. item.local \in Rows(d) /\ r # NoRow
    BY <1>1 DEF Export, Rows
  <1>3. k \in CloudId /\ p.records[k] # NoRecord /\ p.records[k] \in Record
    BY <1>0, <1>1 DEF Known, Pass
  <1>4. r.cid = k
    BY <1>0, <1>1, <1>2, <1>3 DEF Stands, ItemsStand, Keeps
  <1>5. /\ Accepts(k, p.records[k].ver) /\ Upsert(d, k, r.val)
        /\ pass' = [pass EXCEPT
                ![d].plan = plan,
                ![d].written = [local |-> item.local, cid |-> k, upd |-> Clock(d)]]
    BY <1>1, <1>2, <1>3, <1>4 DEF Export, ExportId
  <1>6. remote[k] = p.records[k]
    BY <1>3, <1>5 DEF Accepts, VersionsIdentify, Identified, Record
  <1>7. plan \in Rest(p.plan) /\ item \notin plan.uploads
    BY <1>0, <1>1 DEF Pass, Rest
  <1> DEFINE w == [local |-> item.local, cid |-> k, upd |-> Clock(d)]
  <1>8. w \in Written /\ w.local = item.local /\ w.cid = k /\ w.upd = Clock(d)
    BY <1>1, <1>3, ClockNat DEF Written
  <1>9. pass' = [pass EXCEPT ![d] = [[p EXCEPT !.plan = plan] EXCEPT !.written = w]]
    BY <1>5
  <1>10. r.val \in Content
    BY <1>0, <1>1, <1>2 DEF RowsOf, Row
  <1>11. conflict[d][k] = None
    BY <1>0, <1>1, <1>3 DEF Stands, SnapshotStands, PlanStands, Settling
  <1>12. \A l \in LocalId \ {item.local} : ~ Holds(row[d], l, k)
    BY <1>0, <1>1, <1>2, <1>3, <1>4 DEF Stands, RowsApart
  <1>13. k \notin p.plan.downloads
    BY <1>0, <1>1, <1>2, <1>4 DEF Stands, PlanStands, NoHolder, Holds
  <1> HIDE DEF w, plan
  <1>14. Exported(d, item, k, w, plan)
    BY <1>1, <1>2, <1>4, <1>5, <1>6, <1>7, <1>8, <1>9, <1>10, <1>11, <1>12, <1>13
    DEF Exported
  <1> QED BY <1>3, <1>14

\* What is left of the state of the device after an export.
LEMMA ExportStands ==
  ASSUME SyncInv, SyncInv', VersionsIdentify, RemoteStep, QuietInv, NEW d \in Device,
         NEW item \in pass[d].items, Upload(d, item) \/ UpdateCloud(d, item)
  PROVE  StandsNext(d)
  <1> DEFINE rows == row[d]  f == form[d]  confs == conflict[d]  p == pass[d]  q == pass'[d]
  <1>0. /\ rows \in RowsOf /\ f \in Form \cup {None}
        /\ confs \in Conflicts /\ p \in Pass /\ Known(p)
        /\ remote \in Store /\ remote' \in Store
        /\ p.pc = "applying" /\ p.written = None /\ deletions[d] = {} /\ resolving[d] = None
        /\ Stands(rows, f, {}, confs, p, None, remote) /\ ~ Settling(p)
    <2>1. p.pc = "applying" /\ p.written = None /\ ~ Settling(p)
      BY DEF Upload, UpdateCloud, Applying, Settling
    <2>2. Stands(rows, f, deletions[d], confs, p, resolving[d], remote)
      BY OneDevice
    <2>3. remote' \in Store
      BY DEF SyncInv, TypeOK, Store
    <2> QED BY <2>1, <2>2, <2>3, OneDevice
  <1>1. UNCHANGED <<row, form, deletions, conflict, resolving>>
    BY DEF Upload, UpdateCloud
  <1>2. Grows(remote, remote') /\ Shrinks(rows, rows) /\ Forgets(confs, confs)
    BY DEF RemoteStep, Grows, Shrinks, Forgets
  <1>3. Stands(rows, f, {}, confs, p, None, remote')
    <2> HIDE DEF rows, f, confs, p
    <2> QED BY <1>0, <1>2, Less
  <1>4. CASE Ends(d)
    <2>1. q = IdlePass
      BY <1>4 DEF Ends, SyncInv, TypeOK
    <2>2. Stands(rows, f, {}, confs, q, None, remote')
      BY <1>3, <2>1, Dropped
    <2> QED BY <1>0, <1>1, <2>2 DEF StandsNext
  <1>5. CASE ~ Ends(d)
    <2>1. PICK k, w, plan : k \in CloudId /\ Exported(d, item, k, w, plan)
      BY <1>5, UploadExports, UpdateExports
    <2>2. /\ w \in Written /\ w.local = item.local /\ w.cid = k /\ plan \in Rest(p.plan)
          /\ confs[w.cid] = None /\ w.cid \notin p.plan.downloads
          /\ rows[w.local] # NoRow /\ rows[w.local].cid \in {NoId, w.cid}
          /\ \A l \in LocalId \ {w.local} : ~ Holds(rows, l, w.cid)
          /\ item \notin plan.uploads /\ item.cid \in {NoId, w.cid}
      BY <2>1 DEF Exported
    <2>3. remote'[w.cid] # NoRecord
      <3>1. PICK val \in Content : Upsert(d, k, val)
        BY <2>1 DEF Exported
      <3> DEFINE r == [ver |-> NextVersion(k), upd |-> Clock(d), del |-> FALSE, val |-> val]
      <3>2. NextVersion(k) \in Nat
        BY <2>1 DEF NextVersion, SyncInv, TypeOK, Record
      <3>3. r \in Record
        BY <3>2, ClockNat DEF Record
      <3>4. remote'[k] = r
        BY <3>1 DEF Upsert, SyncInv, TypeOK
      <3> QED BY <2>2, <3>3, <3>4
    <2>4. \A i \in p.items : i.local = w.local => i = item
      BY <1>0, <2>2 DEF Stands, ItemsStand
    <2> DEFINE q1 == [[p EXCEPT !.plan = plan] EXCEPT !.written = w]
    <2>5. /\ q1.pc = "applying" /\ q1.written = w /\ q1.plan = plan /\ q1.events = p.events
          /\ q1.items = p.items /\ q1.records = p.records /\ q1.paused = p.paused
          /\ q1.deleted = p.deleted
      BY <1>0 DEF Pass
    <2>6. pass' = [pass EXCEPT ![d] = q1]
      BY <2>1 DEF Exported
    <2> HIDE DEF q1
    <2>7. q = q1
      BY <2>6 DEF SyncInv, TypeOK
    <2> HIDE DEF rows, f, confs, p, q
    <2>8. Stands(rows, f, {}, confs, q, None, remote')
      BY <1>0, <1>3, <2>2, <2>3, <2>4, <2>5, <2>7, JustWritten
    <2> QED BY <1>0, <1>1, <2>8 DEF StandsNext, rows, f, confs, p, q
  <1> QED BY <1>4, <1>5

\* mark_synced gives a row the name it is told, and no other.
LEMMA MarkedRow ==
  ASSUME SyncInv, NEW d \in Device, NEW l \in LocalId, NEW k \in CloudId, NEW synced \in Nat,
         row' = MarkedRows(d, l, k, synced)
  PROVE  /\ \A m \in LocalId \ {l} : row'[d][m] = row[d][m]
         /\ row'[d][l] # NoRow => row[d][l] # NoRow /\ row'[d][l].cid = k
  <1>1. CASE l \notin Rows(d)
    BY <1>1 DEF MarkedRows, Rows
  <1>2. CASE l \in Rows(d)
    <2> DEFINE r == [row[d][l] EXCEPT !.cid = k, !.base = synced]
    <2>1. row[d][l] # NoRow /\ row[d][l] \in Row
      BY <1>2 DEF Rows, SyncInv, TypeOK
    <2>2. r.cid = k
      BY <2>1 DEF Row
    <2>3. row' = [row EXCEPT ![d] = [row[d] EXCEPT ![l] = r]]
      BY <1>2 DEF MarkedRows, SyncInv, TypeOK
    <2> HIDE DEF r
    <2> QED BY <2>1, <2>2, <2>3 DEF SyncInv, TypeOK
  <1> QED BY <1>1, <1>2

\* The other steps of a pass that has its plan.
LEMMA ApplyingStands ==
  ASSUME SyncInv, SyncInv', VersionsIdentify, QuietInv, NEW d \in Device,
         \/ MarkWritten(d)
         \/ \E k \in CloudId : Download(d, k)
         \/ \E item \in pass[d].items :
               UpdateLocal(d, item) \/ MarkSynced(d, item) \/ PauseConflict(d, item)
  PROVE  StandsNext(d)
  <1> DEFINE rows == row[d]  rows2 == row'[d]  f == form[d]  confs == conflict[d]
             confs2 == conflict'[d]  p == pass[d]  q == pass'[d]
  <1>0. /\ rows \in RowsOf /\ rows2 \in RowsOf /\ f \in Form \cup {None}
        /\ confs \in Conflicts /\ confs2 \in Conflicts /\ p \in Pass /\ Known(p)
        /\ remote \in Store
        /\ p.pc = "applying" /\ deletions[d] = {} /\ resolving[d] = None
        /\ Stands(rows, f, {}, confs, p, None, remote)
        /\ UNCHANGED <<form, deletions, resolving, remote>>
        /\ p.plan \in Rest(p.plan)
    <2>1. p.pc = "applying" /\ UNCHANGED <<form, deletions, resolving, remote>>
      BY OneDevice DEF Applying, MarkWritten, Download, UpdateLocal, MarkSynced, PauseConflict, Known
    <2>2. Stands(rows, f, deletions[d], confs, p, resolving[d], remote)
      BY OneDevice
    <2>3. rows2 \in RowsOf /\ confs2 \in Conflicts
      BY DEF SyncInv, TypeOK, RowsOf, Conflicts
    <2>4. p.plan \in Rest(p.plan)
      BY OneDevice DEF Pass, Rest
    <2> QED BY <2>1, <2>2, <2>3, <2>4, OneDevice
  <1>a. Grows(remote, remote) /\ Forgets(confs, confs)
    BY DEF Grows, Forgets
  <1>b. \A i \in p.items : i.local \in LocalId
    BY <1>0 DEF Pass, Item
  <1>1. CASE MarkWritten(d)
    <2> DEFINE w == p.written
    <2>1. /\ w # None /\ row' = MarkedRows(d, w.local, w.cid, w.upd) /\ UNCHANGED conflict
          /\ q = [p EXCEPT !.written = None]
      BY <1>1 DEF MarkWritten, SyncInv, TypeOK
    <2>2. w.local \in LocalId /\ w.cid \in CloudId /\ w.upd \in Nat
      BY <1>0, <2>1 DEF Pass
    <2>3. /\ \A l \in LocalId \ {w.local} : rows2[l] = rows[l]
          /\ rows2[w.local] # NoRow => rows[w.local] # NoRow /\ rows2[w.local].cid = w.cid
      BY <2>1, <2>2, MarkedRow
    <2> HIDE DEF rows, rows2, f, confs, confs2, p, q
    <2>4. Stands(rows2, f, {}, confs, q, None, remote)
      BY <1>0, <2>1, <2>3, WrittenMarked
    <2> QED BY <1>0, <2>1, <2>4 DEF StandsNext, rows, rows2, f, confs, confs2, p, q
  <1>2. ASSUME NEW k \in CloudId, Download(d, k) PROVE StandsNext(d)
    <2> DEFINE plan == [p.plan EXCEPT !.downloads = @ \ {k}]
               q1 == [p EXCEPT !.plan = plan]
    <2>1. /\ p.written = None /\ k \in p.plan.downloads /\ UNCHANGED conflict
          /\ pass' = [pass EXCEPT ![d].plan.downloads = @ \ {k}]
      BY <1>2 DEF Download, Applying
    <2>2. pass' = [pass EXCEPT ![d] = q1]
      BY <1>0, <2>1 DEF Pass
    <2>3. plan \in Rest(p.plan) /\ k \notin plan.downloads
      BY <1>0 DEF Rest, Pass
    <2>4. PICK l \in FreshLocal(d) : row' = [row EXCEPT ![d][l] = RowOf(k, p.records[k])]
      BY <1>2 DEF Download
    <2> DEFINE r == RowOf(k, p.records[k])
    <2>5. p.records[k] \in Record /\ remote[k] # NoRecord
      <3>1. p.records[k] # NoRecord
        BY <1>0, <2>1 DEF Known
      <3> QED BY <1>0, <3>1 DEF Pass, VersionsIdentify, Identified
    <2>6. r \in Row /\ r.cid = k
      BY <2>5, RowOfRecord DEF RowOf
    <2>7. /\ l \in LocalId /\ rows[l] = NoRow /\ (f # None => f.local # l)
          /\ \A i \in p.items : i.local # l
      BY DEF FreshLocal, Rows
    <2>8. NoHolder(rows, k)
      BY <1>0, <2>1 DEF Stands, PlanStands
    <2> HIDE DEF r, plan
    <2>9. rows2 = [rows EXCEPT ![l] = r]
      BY <2>4 DEF SyncInv, TypeOK, r
    <2>10. /\ q1 \in Pass /\ q1.pc = "applying" /\ q1.written = None /\ q1.items = p.items
           /\ q1.plan = plan
      <3>1. Known(p) /\ p \in Pass /\ p.pc = "applying"
        BY <1>0
      <3>2. q1 \in Pass
        BY <2>3, <3>1, PlanShrinks
      <3>3. q1.pc = "applying" /\ q1.written = None /\ q1.items = p.items /\ q1.plan = plan
        BY <2>1, <3>1 DEF Pass
      <3> QED BY <3>2, <3>3
    <2>11. Stands(rows, f, {}, confs, q1, None, remote)
      <3> HIDE DEF rows, rows2, f, confs, confs2, p, q
      <3> QED BY <1>0, <2>1, <2>3, PlanDone
    <2> HIDE DEF q1
    <2>12. q = q1
      BY <2>2 DEF SyncInv, TypeOK
    <2> HIDE DEF rows, rows2, f, confs, confs2, p, q
    <2>13. /\ NoHolder(rows, r.cid) /\ remote[r.cid] # NoRecord
           /\ r.cid \notin q1.plan.downloads /\ \A ev \in {} : ev.cid # r.cid
      BY <2>3, <2>5, <2>6, <2>8, <2>10
    <2>14. \A i \in q1.items : i.local # l
      BY <2>7, <2>10
    <2>15. Stands(rows2, f, {}, confs, q1, None, remote)
      BY <1>0, <2>6, <2>7, <2>9, <2>10, <2>11, <2>13, <2>14, RowAdded
    <2> QED BY <1>0, <2>1, <2>12, <2>15 DEF StandsNext, rows, rows2, f, confs, confs2, p, q
  <1>3. ASSUME NEW item \in p.items, UpdateLocal(d, item) PROVE StandsNext(d)
    <2>1. /\ p.written = None /\ item \in p.plan.localUpdates /\ UNCHANGED conflict
          /\ item.cid \in CloudId
      BY <1>0, <1>3 DEF UpdateLocal, Applying, Known
    <2>2. CASE item.local \notin Rows(d)
      <3>1. q = IdlePass /\ UNCHANGED row
        BY <1>3, <2>2 DEF UpdateLocal, Ends, SyncInv, TypeOK
      <3>2. Stands(rows, f, {}, confs, q, None, remote)
        BY <1>0, <3>1, Dropped
      <3> QED BY <1>0, <2>1, <3>1, <3>2 DEF StandsNext
    <2>3. CASE item.local \in Rows(d)
      <3> DEFINE plan == [p.plan EXCEPT !.localUpdates = @ \ {item}]
                 r == RowOf(item.cid, p.records[item.cid])
                 q1 == [p EXCEPT !.plan = plan]
      <3>1. /\ row' = [row EXCEPT ![d][item.local] = r]
            /\ pass' = [pass EXCEPT ![d].plan.localUpdates = @ \ {item}]
        BY <1>3, <2>3 DEF UpdateLocal
      <3>2. r.cid = item.cid
        BY DEF RowOf
      <3> HIDE DEF r
      <3>3. rows2 = [rows EXCEPT ![item.local] = r] /\ rows[item.local] # NoRow
        BY <2>3, <3>1 DEF Rows, SyncInv, TypeOK
      <3>4. plan \in Rest(p.plan)
        BY <1>0 DEF Rest, Pass
      <3>5. pass' = [pass EXCEPT ![d] = q1]
        BY <1>0, <3>1 DEF Pass
      <3> HIDE DEF q1
      <3>6. q = q1
        BY <3>5 DEF SyncInv, TypeOK
      <3> HIDE DEF rows, rows2, f, confs, confs2, p, q, plan
      <3>7. rows[item.local].cid = item.cid
        BY <1>0, <2>1, <3>3 DEF Stands, ItemsStand, Keeps
      <3>8. Shrinks(rows, rows2)
        BY <1>0, <1>b, <3>2, <3>3, <3>7 DEF Shrinks, RowsOf
      <3>9. Stands(rows2, f, {}, confs, p, None, remote)
        BY <1>0, <1>a, <3>8, Less
      <3>10. Stands(rows2, f, {}, confs, q1, None, remote)
        BY <1>0, <2>1, <3>4, <3>9, PlanDone DEF q1
      <3> QED BY <1>0, <2>1, <3>6, <3>10 DEF StandsNext, rows, rows2, f, confs, confs2, p, q
    <2> QED BY <2>2, <2>3
  <1>4. ASSUME NEW item \in p.items, MarkSynced(d, item) PROVE StandsNext(d)
    <2> DEFINE plan == [p.plan EXCEPT !.marks = @ \ {item}]
               q1 == [p EXCEPT !.plan = plan]
    <2>1. /\ p.written = None /\ item \in p.plan.marks /\ UNCHANGED conflict
          /\ item.cid \in CloudId /\ p.records[item.cid] # NoRecord
          /\ row' = MarkedRows(d, item.local, item.cid, p.records[item.cid].upd)
          /\ pass' = [pass EXCEPT ![d].plan.marks = @ \ {item}]
      BY <1>0, <1>4 DEF MarkSynced, Applying, Known
    <2>2. p.records[item.cid].upd \in Nat
      BY <1>0, <2>1 DEF Pass, Record
    <2>3. /\ \A l \in LocalId \ {item.local} : rows2[l] = rows[l]
          /\ rows2[item.local] # NoRow => rows[item.local] # NoRow /\ rows2[item.local].cid = item.cid
      <3> DEFINE l == item.local  k == item.cid  synced == p.records[item.cid].upd
      <3>1. /\ l \in LocalId /\ k \in CloudId /\ synced \in Nat
            /\ row' = MarkedRows(d, l, k, synced)
        BY <1>b, <2>1, <2>2
      <3> HIDE DEF l, k, synced
      <3>2. /\ \A m \in LocalId \ {l} : row'[d][m] = row[d][m]
            /\ row'[d][l] # NoRow => row[d][l] # NoRow /\ row'[d][l].cid = k
        BY <3>1, MarkedRow
      <3> QED BY <3>2 DEF l, k
    <2>4. plan \in Rest(p.plan)
      BY <1>0 DEF Rest, Pass
    <2>5. pass' = [pass EXCEPT ![d] = q1]
      BY <1>0, <2>1 DEF Pass
    <2> HIDE DEF q1
    <2>6. q = q1
      BY <2>5 DEF SyncInv, TypeOK
    <2> HIDE DEF rows, rows2, f, confs, confs2, p, q, plan
    <2>7. Keeps(rows, item.local, item.cid)
      BY <1>0, <2>1 DEF Stands, ItemsStand
    <2>8. Shrinks(rows, rows2)
      BY <2>3, <2>7 DEF Shrinks, Keeps
    <2>9. Stands(rows2, f, {}, confs, p, None, remote)
      BY <1>0, <1>a, <2>8, Less
    <2>10. Stands(rows2, f, {}, confs, q1, None, remote)
      BY <1>0, <2>1, <2>4, <2>9, PlanDone DEF q1
    <2> QED BY <1>0, <2>1, <2>6, <2>10 DEF StandsNext, rows, rows2, f, confs, confs2, p, q
  <1>5. ASSUME NEW item \in p.items, PauseConflict(d, item) PROVE StandsNext(d)
    <2> DEFINE plan == [p.plan EXCEPT !.conflicts = @ \ {item}]
               q1 == [p EXCEPT !.plan = plan]
               k == item.cid
    <2>1. /\ p.written = None /\ item \in p.plan.conflicts /\ UNCHANGED row
          /\ p.plan = [EmptyPlan EXCEPT !.conflicts = p.plan.conflicts]
          /\ conflict' = [conflict EXCEPT ![d][k] = p.records[k]]
          /\ pass' = [pass EXCEPT ![d].plan.conflicts = @ \ {item}]
      BY <1>5 DEF PauseConflict, Applying, PauseRecord
    <2>2. k \in CloudId
      BY <1>0, <2>1 DEF Known
    <2>3. Settling(p)
      BY <1>0, <2>1 DEF Settling, EmptyPlan
    <2>4. plan \in Rest(p.plan)
      BY <1>0 DEF Rest, Pass
    <2>5. pass' = [pass EXCEPT ![d] = q1]
      BY <1>0, <2>1 DEF Pass
    <2> HIDE DEF q1
    <2>6. q = q1 /\ \A x \in CloudId \ {k} : confs2[x] = confs[x]
      BY <2>1, <2>5 DEF SyncInv, TypeOK
    <2> HIDE DEF rows, rows2, f, confs, confs2, p, q, plan
    <2>7. Stands(rows, f, {}, confs2, p, None, remote)
      BY <1>0, <2>1, <2>2, <2>3, <2>6, ConflictFound
    <2>8. Stands(rows, f, {}, confs2, q1, None, remote)
      BY <1>0, <2>1, <2>4, <2>7, PlanDone DEF q1
    <2> QED BY <1>0, <2>1, <2>6, <2>8 DEF StandsNext, rows, rows2, f, confs, confs2, p, q
  <1> QED BY <1>1, <1>2, <1>3, <1>4, <1>5

\* Every step keeps the invariant.
LEMMA QuietStep ==
  ASSUME QuietUser, FreshList, SyncInv, VersionsIdentify, QuietInv, [Next]_vars
  PROVE  QuietInv'
  <1>1. SyncInv' /\ RemoteStep
    BY NextGood DEF GoodStep
  <1>2. Domains
    BY DEF Domains, SyncInv, TypeOK, RowsOf, Conflicts
  <1>3. CASE UNCHANGED vars \/ Tick
    BY <1>3 DEF Tick, vars, QuietInv
  <1>4. ASSUME NEW d \in Device,
               \/ UserStep(d) \/ BeginPass(d) \/ PassStep(d)
               \/ ResolveStart(d) \/ ResolveStep(d) \/ Failure(d)
        PROVE  QuietInv'
    <2>1. StandsNext(d)
      BY <1>1, <1>4, UserStands, EndsStand, DeletingStands, ApplyingStands, ExportStands,
         ResolveStands DEF PassStep
    <2>2. Alone(d)
      BY <1>2, <1>4, UserAlone, PassAlone, ResolveAlone
    <2>3. ASSUME NEW e \in Device \ {d} PROVE StandsNext(e)
      <3> DEFINE rows == row[e]  f == form[e]  dels == deletions[e]
                 confs == conflict[e]  p == pass[e]  u == resolving[e]
      <3>1. /\ rows \in RowsOf /\ f \in Form \cup {None} /\ dels \in SUBSET Event
            /\ confs \in Conflicts /\ p \in Pass /\ Known(p) /\ u \in Resolution \cup {None}
            /\ remote \in Store /\ Stands(rows, f, dels, confs, p, u, remote)
        BY OneDevice
      <3>2. remote' \in Store /\ Grows(remote, remote')
        BY <1>1 DEF SyncInv, TypeOK, Store, RemoteStep, Grows
      <3>3. Shrinks(rows, rows) /\ Forgets(confs, confs)
        BY DEF Shrinks, Forgets
      <3> HIDE DEF rows, f, dels, confs, p, u
      <3>4. Stands(rows, f, dels, confs, p, u, remote')
        BY <3>1, <3>2, <3>3, Less
      <3> QED BY <2>2, <3>4 DEF StandsNext, Alone, rows, f, dels, confs, p, u
    <2> QED BY <2>1, <2>3 DEF QuietInv, StandsNext
  <1> QED BY <1>3, <1>4 DEF Next

LEMMA QuietInit == Init => QuietInv
  <1> SUFFICES ASSUME Init, NEW d \in Device
               PROVE  Stands(row[d], form[d], deletions[d], conflict[d], pass[d],
                             resolving[d], remote)
    BY DEF QuietInv
  <1>1. /\ \A l \in LocalId : row[d][l] = NoRow
        /\ form[d] = None /\ deletions[d] = {} /\ resolving[d] = None
        /\ pass[d] = IdlePass
    BY DEF Init
  <1>2. IdlePass.pc = "idle" /\ IdlePass.written = None
    BY DEF IdlePass
  <1>3. RowsApart(row[d], remote)
    BY <1>1 DEF RowsApart
  <1>4. AtHand(row[d], form[d], deletions[d], conflict[d], pass[d], resolving[d])
    BY <1>1 DEF AtHand
  <1> QED BY <1>1, <1>2, <1>3, <1>4, NoPass

\* While users keep still during passes and see their rows as they are, a cloud id
\* names one row of a device and a pass finds what it has read as it left it.
THEOREM QuietPasses == QuietUser /\ FreshList /\ Spec => []QuietInv
  <1> SUFFICES ASSUME QuietUser, FreshList PROVE Spec => []QuietInv
    OBVIOUS
  <1>1. Init => QuietInv
    BY QuietInit
  <1>2. QuietInv /\ SyncInv /\ VersionsIdentify /\ [Next]_vars => QuietInv'
    BY QuietStep
  <1> QED BY <1>1, <1>2, SyncTypes, VersionsAreSound, PTL DEF Spec

\* An export that ends the pass has not written.
LEMMA EndsWritesNothing ==
  ASSUME SyncInv, QuietInv, NEW d \in Device, NEW item \in pass[d].items,
         Upload(d, item) \/ UpdateCloud(d, item), Ends(d)
  PROVE  UNCHANGED <<remote, now>>
  <1>1. pass[d].pc = "applying" /\ pass'[d].pc = "idle"
    BY DEF Upload, UpdateCloud, Applying, Ends, IdlePass, SyncInv, TypeOK
  <1>2. pass[d] \in Pass
    BY OneDevice
  <1>3. ASSUME NEW plan, NEW w,
               pass' = [pass EXCEPT ![d].plan = plan, ![d].written = w]
        PROVE  FALSE
    BY <1>1, <1>2, <1>3 DEF Pass, SyncInv, TypeOK
  <1>4. ASSUME NEW expected, NEW plan, Export(d, item, expected, plan)
        PROVE  UNCHANGED <<remote, now>>
    BY <1>3, <1>4 DEF Export
  <1>5. CASE Upload(d, item)
    BY <1>4, <1>5 DEF Upload
  <1>6. CASE UpdateCloud(d, item)
    BY <1>4, <1>6 DEF UpdateCloud
  <1> QED BY <1>5, <1>6

\* What a step of the pass of d replaces in the store is what the pass read.
LEMMA OverwritesRead ==
  ASSUME SyncInv, VersionsIdentify, QuietInv, [Next]_vars,
         NEW d \in Device, NEW k \in CloudId, pass'[d] # pass[d], remote'[k] # remote[k]
  PROVE  remote[k] = pass[d].records[k]
  <1>1. Domains
    BY DEF Domains, SyncInv, TypeOK, RowsOf, Conflicts
  <1>2. PICK e \in Device :
           \/ UserStep(e) \/ BeginPass(e) \/ PassStep(e)
           \/ ResolveStart(e) \/ ResolveStep(e) \/ Failure(e)
    BY DEF Next, Tick, vars
  <1>3. e = d
    BY <1>1, <1>2, UserAlone, PassAlone, ResolveAlone DEF Alone
  <1>4. CASE UserStep(d) \/ BeginPass(d) \/ ResolveStart(d) \/ ResolveStep(d) \/ Failure(d)
    BY <1>4 DEF UserStep, CreateRow, OpenForm, DeleteRow, SaveForm, CloseForm, RefreshList,
                BeginPass, ResolveStart, UseCloud, UseLocalReads, ResolveStep, UseLocalWrites,
                UseLocalMarks, UseLocalFails, Failure, LockBusy, PassFails, Restart
  <1>5. ASSUME NEW ev \in pass[d].events, PushDelete(d, ev) PROVE remote[k] = pass[d].records[k]
    <2> DEFINE r == pass[d].records[ev.cid]
    <2>1. ev.cid \in CloudId /\ r \in Record
      BY <1>5, OneDevice DEF PushDelete, Pass, Event
    <2>2. Accepts(ev.cid, r.ver) /\ Tombstone(d, ev.cid)
      BY <1>5 DEF PushDelete
    <2>3. remote[ev.cid] = r
      BY <2>1, <2>2 DEF Accepts, VersionsIdentify, Identified, Record
    <2>4. k = ev.cid
      BY <2>1, <2>2 DEF Tombstone, SyncInv, TypeOK
    <2> QED BY <2>3, <2>4
  <1>6. ASSUME NEW item \in pass[d].items, Upload(d, item) \/ UpdateCloud(d, item)
        PROVE  remote[k] = pass[d].records[k]
    <2>1. CASE Ends(d)
      <3>1. UNCHANGED remote
        BY <1>6, <2>1, EndsWritesNothing
      <3> QED BY <3>1
    <2>2. CASE ~ Ends(d)
      <3>1. PICK x, w, plan : x \in CloudId /\ Exported(d, item, x, w, plan)
        BY <1>6, <2>2, UploadExports, UpdateExports
      <3>2. PICK val \in Content : Upsert(d, x, val)
        BY <3>1 DEF Exported
      <3>3. k = x
        BY <3>2 DEF Upsert, SyncInv, TypeOK
      <3> QED BY <3>1, <3>3 DEF Exported
    <2> QED BY <2>1, <2>2
  <1>7. PassStep(d) => \/ UNCHANGED remote
                       \/ \E ev \in pass[d].events : PushDelete(d, ev)
                       \/ \E item \in pass[d].items : Upload(d, item) \/ UpdateCloud(d, item)
    BY DEF PassStep, ListItems, ListRecords, ReadPaused, ForgetDeleted, PauseDeleted,
           ApplyTombstone, Download, MakePlan, MarkWritten, EndPass, UpdateLocal, MarkSynced,
           PauseConflict
  <1> QED BY <1>2, <1>3, <1>4, <1>5, <1>6, <1>7

\* NoBlindOverwrite, for every number of devices: what a pass replaces in the store
\* is what it read there.  Each write names the version that was read, or is of a
\* record nobody has heard of yet (upload), because no row that is still to be
\* exported under a known cloud id is planned as an upload.
THEOREM NothingOverwrittenBlindly == QuietUser /\ FreshList /\ Spec => NoBlindOverwrite
  <1> SUFFICES ASSUME QuietUser, FreshList PROVE Spec => NoBlindOverwrite
    OBVIOUS
  <1> DEFINE Step == \A d \in Device, k \in CloudId :
                        (pass'[d] # pass[d] /\ remote'[k] # remote[k])
                            => \/ remote[k] = pass[d].records[k]
                               \/ k \in pass[d].deleted /\ remote[k].del
  <1>1. SyncInv /\ VersionsIdentify /\ QuietInv /\ [Next]_vars => [Step]_vars
    BY OverwritesRead
  <1> QED BY <1>1, QuietPasses, SyncTypes, VersionsAreSound, PTL DEF Spec, NoBlindOverwrite

\* While the lists are worked off, an item planned for, or with a tombstone to be
\* applied, has no conflict, and its row answers to it.
LEMMA NoConflict ==
  ASSUME SyncInv, QuietInv, NEW d \in Device, NEW item \in pass[d].items,
         \/ pass[d].pc = "deleting" /\ item.cid \in pass[d].tombstones
         \/ /\ pass[d].pc = "applying"
            /\ item \in pass[d].plan.localUpdates \cup pass[d].plan.marks
  PROVE  /\ item.cid \in CloudId /\ item.local \in LocalId
         /\ conflict[d][item.cid] = None
         /\ row[d][item.local] # NoRow => row[d][item.local].cid = item.cid
  <1> DEFINE p == pass[d]
  <1>1. /\ p \in Pass /\ Known(p)
        /\ Stands(row[d], form[d], deletions[d], conflict[d], p, resolving[d], remote)
    BY OneDevice
  <1>2. item.cid \in CloudId /\ item.local \in LocalId
    BY <1>1 DEF Known, Pass, Item
  <1>3. ~ Settling(p) /\ item.cid \notin p.paused
    BY <1>1 DEF Settling, Stands, TombstonesStand, PlanStands
  <1>4. item.cid \notin p.deleted /\ conflict[d][item.cid] = None
    BY <1>1, <1>2, <1>3 DEF Stands, SnapshotStands
  <1>5. item.cid # NoId
    BY <1>2
  <1>6. Keeps(row[d], item.local, item.cid)
    BY <1>1, <1>5 DEF Stands, ItemsStand
  <1> QED BY <1>2, <1>4, <1>6 DEF Keeps

\* A step of the pass of d leaves a record whose conflict stays, and its row, alone.
LEMMA PausedKept ==
  ASSUME SyncInv, VersionsIdentify, QuietInv, [Next]_vars,
         NEW d \in Device, NEW k \in CloudId, pass'[d] # pass[d],
         conflict[d][k] # None, conflict'[d][k] # None
  PROVE  /\ remote'[k] = remote[k]
         /\ \A l \in Holding(d, k) : row'[d][l] = row[d][l]
  <1> DEFINE Left == /\ remote'[k] = remote[k]
                     /\ \A l \in Holding(d, k) : row'[d][l] = row[d][l]
             p == pass[d]
  <1>0. /\ p \in Pass /\ Known(p) /\ row[d] \in RowsOf /\ Domains
        /\ Stands(row[d], form[d], deletions[d], conflict[d], p, resolving[d], remote)
    BY OneDevice DEF Domains, SyncInv, TypeOK, RowsOf, Conflicts
  <1>1. PICK e \in Device :
           \/ UserStep(e) \/ BeginPass(e) \/ PassStep(e)
           \/ ResolveStart(e) \/ ResolveStep(e) \/ Failure(e)
    BY DEF Next, Tick, vars
  <1>2. e = d
    BY <1>0, <1>1, UserAlone, PassAlone, ResolveAlone DEF Alone
  <1>3. CASE UserStep(d) \/ ResolveStart(d) \/ ResolveStep(d)
    BY <1>3 DEF UserStep, CreateRow, OpenForm, DeleteRow, SaveForm, CloseForm, RefreshList,
                ResolveStart, UseCloud, UseLocalReads, ResolveStep, UseLocalWrites,
                UseLocalMarks, UseLocalFails
  <1>4. CASE BeginPass(d) \/ Failure(d)
    BY <1>4 DEF BeginPass, Failure, LockBusy, PassFails, Restart
  <1>5. ASSUME NEW ev \in p.events, PushDelete(d, ev) PROVE Left
    <2>1. UNCHANGED row /\ conflict' = [conflict EXCEPT ![d][ev.cid] = None]
      BY <1>5 DEF PushDelete, ForgetRecord
    <2>2. k # ev.cid
      BY <1>0, <2>1 DEF SyncInv, TypeOK
    <2>3. remote'[k] = remote[k]
      BY <1>5, <2>2 DEF PushDelete, Tombstone, SyncInv, TypeOK
    <2> QED BY <2>1, <2>3
  <1>6. ASSUME NEW item \in p.items, Upload(d, item) \/ UpdateCloud(d, item) PROVE Left
    <2>1. UNCHANGED row
      BY <1>6 DEF Upload, UpdateCloud
    <2>2. CASE Ends(d)
      <3>1. UNCHANGED remote
        BY <1>6, <2>2, EndsWritesNothing
      <3> QED BY <2>1, <3>1
    <2>3. CASE ~ Ends(d)
      <3>1. PICK x, w, plan : x \in CloudId /\ Exported(d, item, x, w, plan)
        BY <1>6, <2>3, UploadExports, UpdateExports
      <3>2. k # x /\ \E val \in Content : Upsert(d, x, val)
        BY <3>1 DEF Exported
      <3>3. remote'[k] = remote[k]
        BY <3>2 DEF Upsert, SyncInv, TypeOK
      <3> QED BY <2>1, <3>3
    <2> QED BY <2>2, <2>3
  <1>7. ASSUME NEW x \in CloudId, ApplyTombstone(d, x) PROVE Left
    <2>1. PICK item \in p.items :
             /\ item.cid = x
             /\ \/ UNCHANGED row
                \/ row' = [row EXCEPT ![d][item.local] = NoRow]
      BY <1>7 DEF ApplyTombstone
    <2>2. p.pc = "deleting" /\ x \in p.tombstones /\ UNCHANGED remote
      BY <1>7 DEF ApplyTombstone
    <2>3. \A l \in Holding(d, k) : l # item.local
      BY <2>1, <2>2, NoConflict DEF Holding, Rows
    <2> QED BY <2>1, <2>2, <2>3 DEF Holding, Rows, SyncInv, TypeOK
  <1>8. ASSUME NEW x \in CloudId, Download(d, x) PROVE Left
    <2>1. PICK l, r : l \in FreshLocal(d) /\ row' = [row EXCEPT ![d][l] = r]
      BY <1>8 DEF Download
    <2>2. l \notin Holding(d, k) /\ UNCHANGED remote
      BY <1>8, <2>1 DEF Download, FreshLocal, Holding
    <2> QED BY <2>1, <2>2 DEF Holding, Rows, SyncInv, TypeOK
  <1>9. ASSUME NEW item \in p.items, UpdateLocal(d, item) \/ MarkSynced(d, item) PROVE Left
    <2>1. /\ p.pc = "applying" /\ item \in p.plan.localUpdates \cup p.plan.marks
          /\ UNCHANGED remote
      BY <1>9 DEF UpdateLocal, MarkSynced, Applying
    <2>2. \A l \in Holding(d, k) : l # item.local
      BY <2>1, NoConflict DEF Holding, Rows
    <2>3. \A l \in LocalId \ {item.local} : row'[d][l] = row[d][l]
      BY <1>9 DEF UpdateLocal, MarkSynced, MarkedRows, SyncInv, TypeOK
    <2> QED BY <2>1, <2>2, <2>3 DEF Holding, Rows
  <1>10. CASE MarkWritten(d)
    <2> DEFINE w == p.written
    <2>1. w # None /\ row' = MarkedRows(d, w.local, w.cid, w.upd) /\ UNCHANGED remote
      BY <1>10 DEF MarkWritten
    <2>2. /\ conflict[d][w.cid] = None
          /\ row[d][w.local] # NoRow => row[d][w.local].cid \in {NoId, w.cid}
      BY <1>0, <2>1 DEF Stands, WrittenStands
    <2>3. \A l \in Holding(d, k) : l # w.local
      BY <2>2 DEF Holding, Rows
    <2>4. \A l \in LocalId \ {w.local} : row'[d][l] = row[d][l]
      BY <2>1 DEF MarkedRows, SyncInv, TypeOK
    <2> QED BY <2>1, <2>3, <2>4 DEF Holding, Rows
  <1>11. PassStep(d) =>
            \/ UNCHANGED <<row, remote>>
            \/ \E ev \in p.events : PushDelete(d, ev)
            \/ \E x \in CloudId : ApplyTombstone(d, x) \/ Download(d, x)
            \/ MarkWritten(d)
            \/ \E item \in p.items : \/ Upload(d, item) \/ UpdateCloud(d, item)
                                     \/ UpdateLocal(d, item) \/ MarkSynced(d, item)
    BY DEF PassStep, ListItems, ListRecords, ReadPaused, ForgetDeleted, PauseDeleted,
           MakePlan, EndPass, PauseConflict
  <1> QED BY <1>1, <1>2, <1>3, <1>4, <1>5, <1>6, <1>7, <1>8, <1>9, <1>10, <1>11

\* PausedUntouched, for every number of devices, rows and records: while a conflict
\* on a record stays, the passes of this device change neither the record nor its
\* row, because whatever is still planned, or has just been written, has no conflict.
THEOREM PausedStayUntouched == QuietUser /\ FreshList /\ Spec => PausedUntouched
  <1> SUFFICES ASSUME QuietUser, FreshList PROVE Spec => PausedUntouched
    OBVIOUS
  <1> DEFINE Step == \A d \in Device, k \in CloudId :
                        (pass'[d] # pass[d] /\ conflict[d][k] # None /\ conflict'[d][k] # None)
                            => /\ remote'[k] = remote[k]
                               /\ \A l \in Holding(d, k) : row'[d][l] = row[d][l]
  <1>1. SyncInv /\ VersionsIdentify /\ QuietInv /\ [Next]_vars => [Step]_vars
    BY PausedKept
  <1> QED BY <1>1, QuietPasses, SyncTypes, VersionsAreSound, PTL DEF Spec, PausedUntouched

-----------------------------------------------------------------------------
(***************************************************************************)
(* Why no edit is lost, as long as clocks agree and every write has a      *)
(* second of its own: an edit that has once been in the live record k of   *)
(* the store stays there, unless a user decides against it, and whoever    *)
(* writes over a record carries its edits on.  G stands for the edits that *)
(* users decided against, recs for the store.                              *)
(***************************************************************************)
Decided == UNION {abandoned[d] : d \in Device}

SameClocks == \A d, e \in Device : Skew[d] = Skew[e]

Stays(e, k, recs, G) ==
    e \in G \/ (k \in CloudId /\ recs[k] # NoRecord /\ ~ recs[k].del /\ e \in recs[k].val)

AllStay(val, k, recs, G) == \A e \in val : Stays(e, k, recs, G)

\* What is remembered of record k is its present state, or an earlier one.
Past(r, k, recs, G) ==
    /\ recs[k] # NoRecord
    /\ 0 < r.upd /\ r.upd <= recs[k].upd
    /\ r.upd = recs[k].upd => r = recs[k]
    /\ AllStay(r.val, k, recs, G)

\* A content derived from record k as it was at second base: if that is the
\* record's present state, the content has all of its edits.
Descends(base, val, k, recs, G) ==
    /\ recs[k] # NoRecord
    /\ 0 < base /\ base <= recs[k].upd
    /\ base = recs[k].upd => \A e \in recs[k].val : e \in val \/ e \in G

\* A row that the planner would call unchanged has nothing of its own.
RowDescends(r, recs, G) ==
    /\ r.cid = NoId => r.base = 0
    /\ r.cid # NoId => /\ Descends(r.base, r.val, r.cid, recs, G)
                       /\ r.upd <= r.base => AllStay(r.val, r.cid, recs, G)

RowsDescend(rows, recs, G) ==
    \A l \in LocalId : rows[l] # NoRow => RowDescends(rows[l], recs, G)

\* The form has all the edits of its row but those that will stay anyway.
FormDescends(rows, f, recs, G) ==
    f # None =>
       /\ f.cid = NoId => f.base = 0
       /\ f.cid # NoId => Descends(f.base, f.val, f.cid, recs, G)
       /\ rows[f.local] # NoRow => \A e \in rows[f.local].val :
             e \in f.val \/ Stays(e, rows[f.local].cid, recs, G)

\* Whoever deleted the row of a record has decided about the edits it had.
EventsDescend(events, recs, G) ==
    \A ev \in events : Descends(ev.base, {}, ev.cid, recs, G)

SnapshotsPast(confs, p, recs, G) ==
    \A k \in CloudId :
       /\ confs[k] # None => Past(confs[k], k, recs, G)
       /\ p.records[k] # NoRecord => Past(p.records[k], k, recs, G)

BeforePlan == {"reading", "pausing", "deleting"}

SameRow(r, i) == r.cid = i.cid /\ r.upd = i.upd /\ r.base = i.base /\ r.val = i.val

ItemsMatch(rows, p) ==
    p.pc \in BeforePlan => \A i \in p.items : rows[i.local] # NoRow => SameRow(rows[i.local], i)

\* While the snapshot of record k is true, the row has all of the record's edits.
Carries(r, k, p, recs, G) ==
    recs[k] = p.records[k] => \A e \in recs[k].val : e \in r.val \/ e \in G

\* What the plan does to a row or to a record loses no edit of either.
PlanCarries(rows, p, recs, G) ==
    /\ \A i \in p.plan.cloudUpdates \cup p.plan.marks :
          rows[i.local] # NoRow => Carries(rows[i.local], i.cid, p, recs, G)
    /\ \A i \in p.plan.localUpdates \cup p.plan.marks :
          rows[i.local] # NoRow => AllStay(rows[i.local].val, i.cid, recs, G)

\* Row l has been written to record k, at second upd.
Sent(rows, l, k, upd, recs, G) ==
    rows[l] # NoRow => /\ Descends(upd, rows[l].val, k, recs, G)
                       /\ AllStay(rows[l].val, k, recs, G)

WritesSent(rows, p, u, recs, G) ==
    /\ p.written # None => Sent(rows, p.written.local, p.written.cid, p.written.upd, recs, G)
    /\ u # None /\ u.upd # None => Sent(rows, u.local, u.cid, u.upd, recs, G)
    /\ u # None /\ u.upd = None =>
          /\ recs[u.cid] # NoRecord /\ u.expected <= recs[u.cid].ver
          /\ u.expected = recs[u.cid].ver => recs[u.cid].val \subseteq G

Lasts(rows, f, events, confs, p, u, recs, G) ==
    /\ RowsDescend(rows, recs, G)
    /\ FormDescends(rows, f, recs, G)
    /\ EventsDescend(events, recs, G)
    /\ SnapshotsPast(confs, p, recs, G)
    /\ ItemsMatch(rows, p)
    /\ PlanCarries(rows, p, recs, G)
    /\ WritesSent(rows, p, u, recs, G)

\* The records are older than the next write, and a tombstone is a decision.
StoreSound ==
    /\ 0 < now
    /\ \A k \in CloudId : remote[k] # NoRecord =>
          /\ 0 < remote[k].upd /\ \A d \in Device : remote[k].upd < Clock(d)
          /\ remote[k].del => remote[k].val \subseteq Decided

EditsStay ==
    \A e \in 1 .. used.edits :
       \/ \E k \in CloudId : Stays(e, k, remote, Decided)
       \/ e \in Decided
       \/ \E d \in Device, l \in LocalId : row[d][l] # NoRow /\ e \in row[d][l].val

LossInv ==
    /\ StoreSound
    /\ \A d \in Device :
          Lasts(row[d], form[d], deletions[d] \cup pass[d].events, conflict[d], pass[d],
                resolving[d], remote, Decided)
    /\ EditsStay

-----------------------------------------------------------------------------
\* How the store and the decisions of the users move on.
Later(recs, G, recs2, G2) ==
    /\ G \subseteq G2
    /\ \A k \in CloudId :
          \/ recs2[k] = recs[k]
          \/ /\ recs2[k] # NoRecord
             /\ recs[k] # NoRecord => /\ recs2[k].ver > recs[k].ver
                                      /\ recs2[k].upd > recs[k].upd
                                      /\ AllStay(recs[k].val, k, recs2, G2)

LEMMA LaterStays ==
  ASSUME NEW recs, NEW recs2, NEW G, NEW G2, Later(recs, G, recs2, G2),
         NEW e, NEW k, Stays(e, k, recs, G)
  PROVE  Stays(e, k, recs2, G2)
  BY DEF Later, Stays, AllStay

LEMMA LaterDescends ==
  ASSUME NEW recs \in Store, NEW recs2 \in Store, NEW G, NEW G2, Later(recs, G, recs2, G2),
         NEW base \in Nat, NEW val, NEW k \in CloudId, Descends(base, val, k, recs, G)
  PROVE  Descends(base, val, k, recs2, G2)
  <1>1. CASE recs2[k] = recs[k]
    BY <1>1 DEF Later, Descends
  <1>2. CASE recs2[k] # recs[k]
    <2>1. recs[k] \in Record /\ recs2[k] \in Record /\ recs2[k].upd > recs[k].upd
      BY <1>2 DEF Later, Descends, Store
    <2> QED BY <2>1 DEF Descends, Record
  <1> QED BY <1>1, <1>2

LEMMA LaterPast ==
  ASSUME NEW recs \in Store, NEW recs2 \in Store, NEW G, NEW G2, Later(recs, G, recs2, G2),
         NEW r \in Record, NEW k \in CloudId, Past(r, k, recs, G)
  PROVE  Past(r, k, recs2, G2)
  <1>1. AllStay(r.val, k, recs2, G2)
    BY LaterStays DEF Past, AllStay
  <1>2. CASE recs2[k] = recs[k]
    BY <1>1, <1>2 DEF Past
  <1>3. CASE recs2[k] # recs[k]
    <2>1. recs[k] \in Record /\ recs2[k] \in Record /\ recs2[k].upd > recs[k].upd
      BY <1>3 DEF Later, Past, Store
    <2> QED BY <1>1, <2>1 DEF Past, Record
  <1> QED BY <1>2, <1>3

LEMMA LaterSent ==
  ASSUME NEW recs \in Store, NEW recs2 \in Store, NEW G, NEW G2, Later(recs, G, recs2, G2),
         NEW rows, NEW l, NEW k \in CloudId, NEW upd \in Nat, Sent(rows, l, k, upd, recs, G)
  PROVE  Sent(rows, l, k, upd, recs2, G2)
  BY LaterStays, LaterDescends DEF Sent, AllStay

\* Whatever the others write, the state of a device remains as good as it was.
LEMMA LaterLasts ==
  ASSUME NEW recs \in Store, NEW recs2 \in Store, NEW G, NEW G2, Later(recs, G, recs2, G2),
         NEW rows \in RowsOf, NEW f \in Form \cup {None}, NEW events \in SUBSET Event,
         NEW confs \in Conflicts, NEW p \in Pass, Known(p), NEW u \in Resolution \cup {None},
         Lasts(rows, f, events, confs, p, u, recs, G)
  PROVE  Lasts(rows, f, events, confs, p, u, recs2, G2)
  <1>1. RowsDescend(rows, recs2, G2)
    <2> SUFFICES ASSUME NEW l \in LocalId, rows[l] # NoRow PROVE RowDescends(rows[l], recs2, G2)
      BY DEF RowsDescend
    <2>1. rows[l] \in Row /\ RowDescends(rows[l], recs, G)
      BY DEF RowsOf, Lasts, RowsDescend
    <2>2. rows[l].base \in Nat /\ (rows[l].cid # NoId => rows[l].cid \in CloudId)
      BY <2>1 DEF Row
    <2> QED BY <2>1, <2>2, LaterDescends, LaterStays DEF RowDescends, AllStay
  <1>2. FormDescends(rows, f, recs2, G2)
    <2>1. f # None => f.base \in Nat /\ (f.cid # NoId => f.cid \in CloudId)
      BY DEF Form
    <2> QED BY <2>1, LaterDescends, LaterStays DEF Lasts, FormDescends
  <1>3. EventsDescend(events, recs2, G2)
    <2>1. \A ev \in events : ev.base \in Nat /\ ev.cid \in CloudId
      BY DEF Event
    <2> QED BY <2>1, LaterDescends DEF Lasts, EventsDescend
  <1>4. SnapshotsPast(confs, p, recs2, G2)
    <2>1. \A k \in CloudId : /\ confs[k] # None => confs[k] \in Record
                             /\ p.records[k] # NoRecord => p.records[k] \in Record
      BY DEF Conflicts, Pass
    <2> QED BY <2>1, LaterPast DEF Lasts, SnapshotsPast
  <1>5. ASSUME NEW i \in p.plan.cloudUpdates \cup p.plan.marks, rows[i.local] # NoRow
        PROVE  Carries(rows[i.local], i.cid, p, recs2, G2)
    <2>1. i.cid \in CloudId /\ p.records[i.cid] # NoRecord /\ p.records[i.cid] \in Record
      BY DEF Known, Pass
    <2>2. Past(p.records[i.cid], i.cid, recs, G) /\ Carries(rows[i.local], i.cid, p, recs, G)
      BY <1>5, <2>1 DEF Lasts, SnapshotsPast, PlanCarries
    <2>3. CASE recs2[i.cid] = recs[i.cid]
      BY <2>2, <2>3 DEF Carries, Later
    <2>4. CASE recs2[i.cid] # recs[i.cid]
      <3>1. recs[i.cid] \in Record /\ recs2[i.cid] \in Record /\ recs2[i.cid].upd > recs[i.cid].upd
        BY <2>1, <2>2, <2>4 DEF Later, Past, Store
      <3>2. recs2[i.cid] # p.records[i.cid]
        BY <2>1, <2>2, <3>1 DEF Past, Record
      <3> QED BY <3>2 DEF Carries
    <2> QED BY <2>3, <2>4
  <1>6. PlanCarries(rows, p, recs2, G2)
    BY <1>5, LaterStays DEF Lasts, PlanCarries, AllStay
  <1>7. WritesSent(rows, p, u, recs2, G2)
    <2>1. p.written # None => p.written.cid \in CloudId /\ p.written.upd \in Nat
      BY DEF Pass
    <2>2. u # None => /\ u.cid \in CloudId /\ u.expected \in Nat
                      /\ u.upd # None => u.upd \in Nat
      BY DEF Resolution
    <2>3. ASSUME u # None, u.upd = None
          PROVE  /\ recs2[u.cid] # NoRecord /\ u.expected <= recs2[u.cid].ver
                 /\ u.expected = recs2[u.cid].ver => recs2[u.cid].val \subseteq G2
      <3>1. /\ recs[u.cid] \in Record /\ recs2[u.cid] \in Record
            /\ u.expected <= recs[u.cid].ver
            /\ u.expected = recs[u.cid].ver => recs[u.cid].val \subseteq G
        BY <2>2, <2>3 DEF Lasts, WritesSent, Later, Store
      <3>2. recs2[u.cid] = recs[u.cid] \/ recs2[u.cid].ver > recs[u.cid].ver
        BY <2>2, <2>3, <3>1 DEF Later
      <3> QED BY <2>2, <2>3, <3>1, <3>2 DEF Record, Later
    <2> QED BY <2>1, <2>2, <2>3, LaterSent DEF Lasts, WritesSent
  <1> QED BY <1>1, <1>2, <1>3, <1>4, <1>6, <1>7 DEF Lasts

-----------------------------------------------------------------------------
\* Rows that disappear and nothing else.
Fewer(rows, rows2) == \A l \in LocalId : rows2[l] \in {NoRow, rows[l]}

\* A pass that goes on with what it has, has done some of it, or is over.
Drifts(p, q) ==
    /\ \A k \in CloudId : q.records[k] \in {NoRecord, p.records[k]}
    /\ q.pc \in BeforePlan => p.pc \in BeforePlan /\ q.items = p.items
    /\ q.plan.cloudUpdates \subseteq p.plan.cloudUpdates
    /\ q.plan.localUpdates \subseteq p.plan.localUpdates
    /\ q.plan.marks \subseteq p.plan.marks
    /\ q.written \in {None, p.written}

\* Conflicts that are forgotten, or found in what the pass has read.
Found(confs, confs2, p) ==
    \A k \in CloudId : \/ confs2[k] \in {None, confs[k]}
                       \/ confs2[k] = p.records[k] /\ p.records[k] # NoRecord

\* A device that only forgets, or finds a conflict.
Drifted(rows, rows2, f, f2, events, events2, confs, confs2, p, q, u, u2) ==
    /\ rows \in RowsOf /\ Fewer(rows, rows2)
    /\ f \in Form \cup {None} /\ f2 \in {None, f}
    /\ events2 \subseteq events
    /\ p \in Pass /\ q \in Pass /\ Known(q) /\ Drifts(p, q)
    /\ Found(confs, confs2, p)
    /\ (u # None /\ u.upd # None) => u.local \in LocalId
    /\ u2 \in {None, u}

LEMMA DriftLasts ==
  ASSUME NEW rows, NEW rows2, NEW f, NEW f2, NEW events, NEW events2, NEW confs, NEW confs2,
         NEW p, NEW q, NEW u, NEW u2, NEW recs, NEW G,
         Drifted(rows, rows2, f, f2, events, events2, confs, confs2, p, q, u, u2),
         Lasts(rows, f, events, confs, p, u, recs, G)
  PROVE  Lasts(rows2, f2, events2, confs2, q, u2, recs, G)
  <1> USE DEF Drifted
  <1>1. RowsDescend(rows2, recs, G)
    BY DEF Lasts, RowsDescend, Fewer
  <1>2. FormDescends(rows2, f2, recs, G)
    <2>1. f # None => f.local \in LocalId
      BY DEF Form
    <2> QED BY <2>1 DEF Lasts, FormDescends, Fewer
  <1>3. EventsDescend(events2, recs, G)
    BY DEF Lasts, EventsDescend
  <1>4. SnapshotsPast(confs2, q, recs, G)
    BY DEF Lasts, SnapshotsPast, Found, Drifts
  <1>5. ItemsMatch(rows2, q)
    <2>1. \A i \in p.items : i.local \in LocalId
      BY DEF Pass, Item
    <2> QED BY <2>1 DEF Lasts, ItemsMatch, Drifts, Fewer
  <1>6. PlanCarries(rows2, q, recs, G)
    <2>1. \A i \in q.plan.cloudUpdates \cup q.plan.localUpdates \cup q.plan.marks :
             i.local \in LocalId /\ i.cid \in CloudId /\ q.records[i.cid] = p.records[i.cid]
      BY DEF Known, Drifts, Pass, Item
    <2>2. \A i \in q.plan.cloudUpdates \cup q.plan.localUpdates \cup q.plan.marks :
             rows2[i.local] # NoRow => rows2[i.local] = rows[i.local] /\ rows[i.local] # NoRow
      BY <2>1 DEF Fewer
    <2>3. ASSUME NEW i \in q.plan.cloudUpdates \cup q.plan.marks, rows2[i.local] # NoRow
          PROVE  Carries(rows2[i.local], i.cid, q, recs, G)
      <3>1. i \in p.plan.cloudUpdates \cup p.plan.marks
        BY DEF Drifts
      <3>2. Carries(rows[i.local], i.cid, p, recs, G)
        BY <2>2, <2>3, <3>1 DEF Lasts, PlanCarries
      <3> QED BY <2>1, <2>2, <2>3, <3>2 DEF Carries
    <2>4. ASSUME NEW i \in q.plan.localUpdates \cup q.plan.marks, rows2[i.local] # NoRow
          PROVE  AllStay(rows2[i.local].val, i.cid, recs, G)
      <3>1. i \in p.plan.localUpdates \cup p.plan.marks
        BY DEF Drifts
      <3> QED BY <2>2, <2>4, <3>1 DEF Lasts, PlanCarries
    <2> QED BY <2>3, <2>4 DEF PlanCarries
  <1>7. WritesSent(rows2, q, u2, recs, G)
    <2>1. p.written # None => p.written.local \in LocalId
      BY DEF Pass
    <2>2. \A l \in LocalId : \A k, upd : Sent(rows, l, k, upd, recs, G) => Sent(rows2, l, k, upd, recs, G)
      BY DEF Fewer, Sent
    <2> QED BY <2>1, <2>2 DEF Lasts, WritesSent, Drifts
  <1> QED BY <1>1, <1>2, <1>3, <1>4, <1>5, <1>6, <1>7 DEF Lasts

\* A row that is replaced, by a user or by a resolution: no pass is on its way.
LEMMA RowReplaced ==
  ASSUME NEW rows, NEW rows2, NEW l, NEW r, NEW f, NEW f2, NEW events, NEW confs, NEW p,
         NEW recs, NEW G,
         rows \in RowsOf, l \in LocalId, rows2 = [rows EXCEPT ![l] = r],
         f \in Form \cup {None}, f2 \in {None, f},
         p.pc = "idle", p.plan = EmptyPlan, p.written = None,
         RowDescends(r, recs, G),
         f2 # None /\ f2.local = l => \A e \in r.val : e \in f2.val \/ Stays(e, r.cid, recs, G),
         Lasts(rows, f, events, confs, p, None, recs, G)
  PROVE  Lasts(rows2, f2, events, confs, p, None, recs, G)
  <1>1. rows2[l] = r /\ \A m \in LocalId \ {l} : rows2[m] = rows[m]
    BY DEF RowsOf
  <1>2. RowsDescend(rows2, recs, G)
    BY <1>1 DEF Lasts, RowsDescend
  <1>3. FormDescends(rows2, f2, recs, G)
    <2>1. f2 # None => f2.local \in LocalId /\ f2 = f
      BY DEF Form
    <2> QED BY <1>1, <2>1 DEF Lasts, FormDescends
  <1>4. ItemsMatch(rows2, p) /\ PlanCarries(rows2, p, recs, G) /\ WritesSent(rows2, p, None, recs, G)
    BY DEF ItemsMatch, PlanCarries, WritesSent, BeforePlan, EmptyPlan
  <1> QED BY <1>2, <1>3, <1>4 DEF Lasts

\* A row changed by a pass that applies its plan: what it has now stays anyway, or
\* is what it had.
LEMMA RowApplied ==
  ASSUME NEW rows \in RowsOf, NEW l \in LocalId, NEW r, NEW rows2,
         rows2 = [rows EXCEPT ![l] = r],
         NEW f \in Form \cup {None}, NEW events, NEW confs, NEW p \in Pass, NEW recs, NEW G,
         p.pc = "applying", p.written = None,
         RowDescends(r, recs, G),
         \/ rows[l] # NoRow /\ r.val = rows[l].val /\ rows[l].cid \in {NoId, r.cid}
         \/ /\ AllStay(r.val, r.cid, recs, G)
            /\ \A i \in p.items : i.local = l => i.cid = r.cid /\ r.val = p.records[r.cid].val,
         \A i \in p.plan.cloudUpdates \cup p.plan.localUpdates \cup p.plan.marks : i \in p.items,
         Lasts(rows, f, events, confs, p, None, recs, G)
  PROVE  Lasts(rows2, f, events, confs, p, None, recs, G)
  <1>1. rows2[l] = r /\ \A m \in LocalId \ {l} : rows2[m] = rows[m]
    BY DEF RowsOf
  <1>2. RowsDescend(rows2, recs, G)
    BY <1>1 DEF Lasts, RowsDescend
  <1>3. FormDescends(rows2, f, recs, G)
    <2>1. f # None => f.local \in LocalId
      BY DEF Form
    <2>2. (f # None /\ f.local = l) =>
             \A e \in r.val : e \in f.val \/ Stays(e, r.cid, recs, G)
      BY DEF Lasts, FormDescends, AllStay, Stays
    <2> QED BY <1>1, <2>1, <2>2 DEF Lasts, FormDescends
  <1>4. ItemsMatch(rows2, p)
    BY DEF ItemsMatch, BeforePlan
  <1>5. \A i \in p.items : i.local \in LocalId
    BY DEF Pass, Item
  <1>6. ASSUME NEW i \in p.plan.cloudUpdates \cup p.plan.marks, rows2[i.local] # NoRow
        PROVE  Carries(rows2[i.local], i.cid, p, recs, G)
    <2>1. CASE i.local # l
      BY <1>1, <1>5, <1>6, <2>1 DEF Lasts, PlanCarries
    <2>2. CASE i.local = l /\ rows[l] # NoRow /\ r.val = rows[l].val
      <3>1. Carries(rows[l], i.cid, p, recs, G)
        BY <2>2 DEF Lasts, PlanCarries
      <3> QED BY <1>1, <2>2, <3>1 DEF Carries
    <2>3. CASE i.local = l /\ i.cid = r.cid /\ r.val = p.records[r.cid].val
      BY <1>1, <2>3 DEF Carries
    <2> QED BY <2>1, <2>2, <2>3
  <1>7. ASSUME NEW i \in p.plan.localUpdates \cup p.plan.marks, rows2[i.local] # NoRow
        PROVE  AllStay(rows2[i.local].val, i.cid, recs, G)
    <2>1. CASE i.local # l
      BY <1>1, <1>5, <1>7, <2>1 DEF Lasts, PlanCarries
    <2>2. CASE i.local = l /\ rows[l] # NoRow /\ r.val = rows[l].val
      BY <1>1, <2>2 DEF Lasts, PlanCarries
    <2>3. CASE i.local = l /\ i.cid = r.cid /\ AllStay(r.val, r.cid, recs, G)
      BY <1>1, <2>3
    <2> QED BY <2>1, <2>2, <2>3
  <1>8. WritesSent(rows2, p, None, recs, G)
    BY DEF WritesSent
  <1> QED BY <1>2, <1>3, <1>4, <1>6, <1>7, <1>8 DEF Lasts, PlanCarries

-----------------------------------------------------------------------------
\* What a step of device d must do: its own state and the store go on as described,
\* and no edit disappears.
LastsNext(d) ==
    Lasts(row'[d], form'[d], deletions'[d] \cup pass'[d].events, conflict'[d], pass'[d],
          resolving'[d], remote', Decided')

\* The edits of a row are still in it, or stay anyway.
RowsKept(rows, rows2, recs, G) ==
    \A l \in LocalId : rows[l] # NoRow => \A e \in rows[l].val :
        (rows2[l] # NoRow /\ e \in rows2[l].val) \/ Stays(e, rows[l].cid, recs, G)

NewEditsIn(d) ==
    \A e \in 1 .. used'.edits :
        \/ e \in 1 .. used.edits
        \/ \E l \in LocalId : row'[d][l] # NoRow /\ e \in row'[d][l].val

StoreNext == Later(remote, Decided, remote', Decided') /\ StoreSound'

LossStep(d) ==
    /\ LastsNext(d) /\ StoreNext
    /\ RowsKept(row[d], row'[d], remote', Decided') /\ NewEditsIn(d)

LEMMA OneLasts ==
  ASSUME SyncInv, QuietInv, LossInv, NEW d \in Device
  PROVE  /\ row[d] \in RowsOf /\ form[d] \in Form \cup {None}
         /\ deletions[d] \cup pass[d].events \in SUBSET Event
         /\ conflict[d] \in Conflicts /\ pass[d] \in Pass /\ Known(pass[d])
         /\ resolving[d] \in Resolution \cup {None} /\ remote \in Store
         /\ (resolving[d] # None /\ resolving[d].upd # None) => resolving[d].local \in LocalId
         /\ Lasts(row[d], form[d], deletions[d] \cup pass[d].events, conflict[d], pass[d],
                  resolving[d], remote, Decided)
  <1>1. /\ row[d] \in RowsOf /\ form[d] \in Form \cup {None}
        /\ deletions[d] \in SUBSET Event
        /\ conflict[d] \in Conflicts /\ pass[d] \in Pass /\ Known(pass[d])
        /\ resolving[d] \in Resolution \cup {None} /\ remote \in Store
        /\ Stands(row[d], form[d], deletions[d], conflict[d], pass[d], resolving[d], remote)
    BY OneDevice
  <1>2. pass[d].events \in SUBSET Event
    BY <1>1 DEF Pass
  <1>3. (resolving[d] # None /\ resolving[d].upd # None) => resolving[d].local \in LocalId
    BY <1>1 DEF Stands, AtHand, Resolution
  <1> QED BY <1>1, <1>2, <1>3 DEF LossInv

\* A step that writes no record, while time passes and users may decide.
LEMMA StoreUntouched ==
  ASSUME SyncInv, SyncInv', StoreSound, UNCHANGED remote, now' >= now, Decided \subseteq Decided'
  PROVE  StoreNext
  <1>1. Later(remote, Decided, remote', Decided')
    BY DEF Later
  <1>2. \A d \in Device : Clock(d)' >= Clock(d)
    BY DEF Clock, SyncInv, TypeOK
  <1>3. \A d \in Device : Clock(d)' \in Int /\ Clock(d) \in Int
    BY DEF Clock, SyncInv, TypeOK
  <1>4. \A k \in CloudId : remote[k] # NoRecord => remote[k].upd \in Int
    BY DEF SyncInv, TypeOK, Record
  <1>5. now \in Int /\ now' \in Int
    BY DEF SyncInv, TypeOK
  <1> QED BY <1>1, <1>2, <1>3, <1>4, <1>5 DEF StoreNext, StoreSound

LEMMA RowsDriftStep ==
  ASSUME SyncInv, SyncInv', QuietInv, LossInv, NEW d \in Device,
         UNCHANGED <<remote, now, abandoned>>, used'.edits = used.edits,
         Fewer(row[d], row'[d]), RowsKept(row[d], row'[d], remote, Decided),
         form'[d] \in {None, form[d]},
         deletions'[d] \cup pass'[d].events \subseteq deletions[d] \cup pass[d].events,
         Found(conflict[d], conflict'[d], pass[d]), Drifts(pass[d], pass'[d]),
         resolving'[d] \in {None, resolving[d]}
  PROVE  LossStep(d)
  <1>1. Decided' = Decided
    BY DEF Decided
  <1>2. StoreNext
    BY <1>1, StoreUntouched DEF LossInv, SyncInv, TypeOK
  <1>3. pass'[d] \in Pass /\ Known(pass'[d])
    BY DEF SyncInv, TypeOK, PlansKnown
  <1>4. LastsNext(d)
    <2> DEFINE rows == row[d]  rows2 == row'[d]  f == form[d]  f2 == form'[d]
               evs == deletions[d] \cup pass[d].events
               evs2 == deletions'[d] \cup pass'[d].events
               confs == conflict[d]  confs2 == conflict'[d]
               p == pass[d]  q == pass'[d]  u == resolving[d]  u2 == resolving'[d]
    <2>1. /\ rows \in RowsOf /\ f \in Form \cup {None} /\ p \in Pass
          /\ (u # None /\ u.upd # None) => u.local \in LocalId
          /\ Lasts(rows, f, evs, confs, p, u, remote, Decided)
      BY OneLasts
    <2>2. Drifted(rows, rows2, f, f2, evs, evs2, confs, confs2, p, q, u, u2)
      BY <1>3, <2>1 DEF Drifted
    <2> HIDE DEF rows, rows2, f, f2, evs, evs2, confs, confs2, p, q, u, u2
    <2>3. Lasts(rows2, f2, evs2, confs2, q, u2, remote, Decided)
      BY <2>1, <2>2, DriftLasts
    <2> QED BY <1>1, <2>3 DEF LastsNext, rows2, f2, evs2, confs2, q, u2
  <1>5. RowsKept(row[d], row'[d], remote', Decided')
    BY <1>1
  <1>6. NewEditsIn(d)
    BY DEF NewEditsIn
  <1> QED BY <1>2, <1>4, <1>5, <1>6 DEF LossStep

LEMMA DriftStep ==
  ASSUME SyncInv, SyncInv', QuietInv, LossInv, NEW d \in Device,
         UNCHANGED <<row, remote, now, abandoned>>, used'.edits = used.edits,
         form'[d] \in {None, form[d]},
         deletions'[d] \cup pass'[d].events \subseteq deletions[d] \cup pass[d].events,
         Found(conflict[d], conflict'[d], pass[d]), Drifts(pass[d], pass'[d]),
         resolving'[d] \in {None, resolving[d]}
  PROVE  LossStep(d)
  <1>1. Fewer(row[d], row'[d]) /\ RowsKept(row[d], row'[d], remote, Decided)
    BY DEF Fewer, RowsKept
  <1> QED BY <1>1, RowsDriftStep

\* Steps that only change what a pass, or a user, is up to.
LEMMA StandstillLasts ==
  ASSUME SyncInv, SyncInv', QuietInv, LossInv, NEW d \in Device,
         \/ CloseForm(d) \/ RefreshList(d) \/ BeginPass(d) \/ ReadPaused(d) \/ EndPass(d)
         \/ UseLocalFails(d) \/ Failure(d)
         \/ UNCHANGED <<row, remote, now, abandoned, form, deletions, conflict, resolving, used>>
            /\ Ends(d)
  PROVE  LossStep(d)
  <1> DEFINE p == pass[d]  q == pass'[d]
  <1>0. p \in Pass /\ Found(conflict[d], conflict[d], p) /\ Drifts(p, p) /\ Drifts(p, IdlePass)
    BY DEF SyncInv, TypeOK, Found, Drifts, IdlePass, EmptyPlan, BeforePlan
  <1>1. IdlePass.events = {}
    BY DEF IdlePass
  <1>2. CASE CloseForm(d)
    BY <1>0, <1>2, DriftStep DEF CloseForm, SyncInv, TypeOK
  <1>3. CASE RefreshList(d)
    BY <1>0, <1>3, DriftStep DEF RefreshList
  <1>4. CASE BeginPass(d)
    <2>1. q = [p EXCEPT !.pc = "listing", !.events = deletions[d]]
      BY <1>4 DEF BeginPass, SyncInv, TypeOK
    <2>2. Drifts(p, q) /\ q.events = deletions[d] /\ deletions'[d] = {}
      BY <1>0, <1>4, <2>1 DEF BeginPass, Drifts, Pass, BeforePlan, SyncInv, TypeOK
    <2> QED BY <1>0, <1>4, <2>2, DriftStep DEF BeginPass
  <1>5. CASE ReadPaused(d)
    <2>1. PICK paused, deleted, tombs :
             q = [p EXCEPT !.pc = "deleting", !.paused = paused, !.deleted = deleted,
                           !.tombstones = tombs]
      BY <1>5 DEF ReadPaused, SyncInv, TypeOK
    <2>2. p.pc = "pausing"
      BY <1>5 DEF ReadPaused
    <2>3. /\ q.events = p.events /\ q.items = p.items /\ q.records = p.records
          /\ q.plan = p.plan /\ q.written = p.written
      BY <1>0, <2>1 DEF Pass
    <2>4. Drifts(p, q)
      BY <1>0, <2>2, <2>3 DEF Drifts, BeforePlan
    <2> QED BY <1>0, <1>5, <2>3, <2>4, DriftStep DEF ReadPaused
  <1>6. CASE EndPass(d)
    <2>1. q = IdlePass
      BY <1>6 DEF EndPass, Ends, SyncInv, TypeOK
    <2> QED BY <1>0, <1>1, <1>6, <2>1, DriftStep DEF EndPass
  <1>7. CASE UseLocalFails(d)
    BY <1>0, <1>7, DriftStep DEF UseLocalFails, SyncInv, TypeOK
  <1>8. CASE LockBusy(d)
    BY <1>0, <1>8, DriftStep DEF LockBusy, SyncInv, TypeOK
  <1>9. CASE PassFails(d)
    <2>1. q = IdlePass /\ used'.edits = used.edits
      BY <1>9 DEF PassFails, Ends, SyncInv, TypeOK
    <2> QED BY <1>0, <1>1, <1>9, <2>1, DriftStep DEF PassFails
  <1>10. CASE Restart(d)
    <2>1. /\ q = IdlePass /\ used'.edits = used.edits /\ deletions'[d] = {} /\ form'[d] = None
          /\ resolving'[d] = None
      BY <1>10 DEF Restart, SyncInv, TypeOK
    <2> QED BY <1>0, <1>1, <1>10, <2>1, DriftStep DEF Restart
  <1>11. CASE /\ UNCHANGED <<row, remote, now, abandoned, form, deletions, conflict, resolving, used>>
              /\ Ends(d)
    <2>1. q = IdlePass
      BY <1>11 DEF Ends, SyncInv, TypeOK
    <2> QED BY <1>0, <1>1, <1>11, <2>1, DriftStep
  <1> QED BY <1>2, <1>3, <1>4, <1>5, <1>6, <1>7, <1>8, <1>9, <1>10, <1>11 DEF Failure

\* What users decide is never taken back.
LEMMA DecidedGrows ==
  ASSUME SyncInv, NEW d \in Device, NEW gone, abandoned' = [abandoned EXCEPT ![d] = @ \cup gone]
  PROVE  Decided \subseteq Decided' /\ gone \subseteq Decided'
  <1>1. \A e \in Device : abandoned[e] \subseteq abandoned'[e]
    BY DEF SyncInv, TypeOK
  <1>2. gone \subseteq abandoned'[d]
    BY DEF SyncInv, TypeOK
  <1> QED BY <1>1, <1>2 DEF Decided

\* The actions of the user, while nothing else goes on there.
LEMMA UserLasts ==
  ASSUME QuietUser, FreshList, SyncInv, SyncInv', QuietInv, LossInv, NEW d \in Device,
         UserStep(d)
  PROVE  LossStep(d)
  <1> DEFINE rows == row[d]  rows2 == row'[d]  f == form[d]
             evs == deletions[d] \cup pass[d].events  confs == conflict[d]  p == pass[d]
  <1>0. /\ rows \in RowsOf /\ f \in Form \cup {None} /\ evs \in SUBSET Event
        /\ confs \in Conflicts /\ p \in Pass /\ Known(p) /\ remote \in Store
        /\ Lasts(rows, f, evs, confs, p, resolving[d], remote, Decided)
    BY OneLasts
  <1>a. UserMayAct(d) => /\ p.pc = "idle" /\ p.plan = EmptyPlan /\ p.written = None
                         /\ resolving[d] = None
    BY <1>0, Quiet DEF Known
  <1>b. \A k \in CloudId : remote[k] # NoRecord => remote[k] \in Record
    BY <1>0 DEF Store
  <1>c. now' >= now /\ UNCHANGED remote => (Decided \subseteq Decided' => StoreNext)
    BY StoreUntouched DEF LossInv
  <1>d. Stamped => now' >= now
    BY DEF Stamped, SyncInv, TypeOK
  <1>1. ASSUME NEW l \in LocalId, CreateRow(d, l) PROVE LossStep(d)
    <2> DEFINE r == [cid |-> NoId, upd |-> Clock(d), base |-> 0, val |-> {NewEdit}]
    <2>1. /\ p.pc = "idle" /\ p.plan = EmptyPlan /\ p.written = None /\ resolving[d] = None
          /\ rows[l] = NoRow /\ (f # None => f.local # l)
      BY <1>1, <1>a DEF CreateRow, FreshLocal, Rows
    <2>2. rows2 = [rows EXCEPT ![l] = r] /\ r \in Row
      BY <1>1, ClockNat, UsedUp DEF CreateRow, SyncInv, TypeOK, Row, Content
    <2>3. /\ UNCHANGED <<form, deletions, conflict, pass, resolving, remote, abandoned>>
          /\ used'.edits = used.edits + 1 /\ Stamped
      BY <1>1 DEF CreateRow, NewEdit, SyncInv, TypeOK
    <2>4. Decided' = Decided /\ StoreNext
      BY <1>c, <1>d, <2>3 DEF Decided
    <2>5. RowDescends(r, remote, Decided)
      BY DEF RowDescends
    <2>6. NewEditsIn(d)
      <3>1. rows2[l] = r /\ r # NoRow /\ used'.edits \in r.val
        BY <1>0, <1>1, <2>2, <2>3 DEF NewEdit, RowsOf
      <3>2. \A e \in 1 .. used'.edits : e \in 1 .. used.edits \/ e = used'.edits
        <4>1. used.edits \in Nat
          BY DEF SyncInv, TypeOK
        <4> QED BY <2>3, <4>1
      <3> QED BY <3>1, <3>2 DEF NewEditsIn
    <2>7. RowsKept(row[d], row'[d], remote', Decided')
      BY <1>0, <2>1, <2>2 DEF RowsKept, RowsOf
    <2> HIDE DEF rows, rows2, f, evs, confs, p, r
    <2>8. Lasts(rows2, f, evs, confs, p, None, remote, Decided)
      <3>1. Lasts(rows, f, evs, confs, p, None, remote, Decided) /\ l \in LocalId
        BY <1>0, <2>1
      <3>2. f # None /\ f.local = l => \A e \in r.val : e \in f.val \/ Stays(e, r.cid, remote, Decided)
        BY <2>1
      <3> QED BY <1>0, <2>1, <2>2, <2>5, <3>1, <3>2, RowReplaced
    <2>9. LastsNext(d)
      BY <2>1, <2>3, <2>4, <2>8 DEF LastsNext, rows2, f, evs, confs, p
    <2> QED BY <2>4, <2>6, <2>7, <2>9 DEF LossStep
  <1>2. ASSUME NEW l \in LocalId, OpenForm(d, l) PROVE LossStep(d)
    <2> DEFINE r == rows[l]
               f2 == [local |-> l, cid |-> r.cid, base |-> r.base, val |-> r.val]
    <2>1. /\ r # NoRow /\ form'[d] = f2
          /\ UNCHANGED <<row, deletions, conflict, pass, resolving, remote, now, used, abandoned>>
      BY <1>2, FreshList DEF OpenForm, Listed, SyncInv, TypeOK
    <2>2. Decided' = Decided /\ StoreNext
      BY <1>c, <2>1 DEF Decided, SyncInv, TypeOK
    <2>3. RowDescends(r, remote, Decided)
      BY <1>0, <2>1 DEF Lasts, RowsDescend
    <2>4. FormDescends(rows, f2, remote, Decided)
      BY <2>3 DEF FormDescends, RowDescends
    <2>5. Lasts(rows, f2, evs, confs, p, resolving[d], remote, Decided)
      BY <1>0, <2>4 DEF Lasts
    <2>6. LastsNext(d)
      BY <2>1, <2>2, <2>5 DEF LastsNext
    <2> QED BY <2>1, <2>2, <2>6 DEF LossStep, RowsKept, NewEditsIn
  <1>3. ASSUME NEW l \in LocalId, DeleteRow(d, l) PROVE LossStep(d)
    <2> DEFINE r == rows[l]  k == r.cid  confs2 == conflict'[d]
               evs2 == deletions'[d] \cup pass'[d].events
    <2>1. r # NoRow /\ r \in Row
      BY <1>0, <1>3, FreshList DEF DeleteRow, Listed, RowsOf
    <2>2. /\ rows2 = [rows EXCEPT ![l] = NoRow] /\ UserMayAct(d)
          /\ abandoned' = [abandoned EXCEPT ![d] = @ \cup r.val]
          /\ UNCHANGED <<form, pass, resolving, remote, now>> /\ used'.edits = used.edits
      BY <1>3, <2>1 DEF DeleteRow, SyncInv, TypeOK
    <2>3. Decided \subseteq Decided' /\ r.val \subseteq Decided'
      BY <2>2, DecidedGrows
    <2>4. StoreNext
      BY <1>c, <2>2, <2>3 DEF SyncInv, TypeOK
    <2>5. /\ \A x \in CloudId : confs2[x] \in {None, confs[x]}
          /\ evs2 = evs \/ (k # NoId /\ evs2 = evs \cup {[cid |-> k, base |-> r.base]})
      BY <1>3, <2>1, FreshList DEF DeleteRow, Listed, ForgetRecord, SyncInv, TypeOK
    <2>6. RowDescends(r, remote, Decided)
      BY <1>0, <2>1 DEF Lasts, RowsDescend
    <2>7. RowsKept(rows, rows2, remote', Decided')
      BY <1>0, <2>2, <2>3 DEF RowsKept, RowsOf, Stays
    <2>8. Fewer(rows, rows2) /\ Found(confs, confs2, p) /\ Drifts(p, p)
      BY <1>0, <2>2, <2>5 DEF Fewer, RowsOf, Found, Drifts
    <2>9. resolving[d] = None
      BY <1>a, <2>2
    <2>10. Drifted(rows, rows2, f, f, evs, evs, confs, confs2, p, p, None, None)
      BY <1>0, <2>8 DEF Drifted
    <2>11. Later(remote, Decided, remote, Decided')
      BY <2>3 DEF Later
    <2> HIDE DEF rows, rows2, f, evs, evs2, confs, confs2, p, r
    <2>12. Lasts(rows, f, evs, confs, p, None, remote, Decided')
      BY <1>0, <2>9, <2>11, LaterLasts
    <2>13. Lasts(rows2, f, evs, confs2, p, None, remote, Decided')
      BY <2>10, <2>12, DriftLasts
    <2>14. k # NoId => Descends(r.base, {}, k, remote, Decided')
      BY <2>3, <2>6 DEF RowDescends, Descends
    <2>15. EventsDescend(evs2, remote, Decided')
      BY <2>5, <2>13, <2>14 DEF Lasts, EventsDescend
    <2>16. Lasts(rows2, f, evs2, confs2, p, None, remote, Decided')
      BY <2>13, <2>15 DEF Lasts
    <2>17. LastsNext(d)
      BY <2>2, <2>9, <2>16 DEF LastsNext, rows2, f, evs2, confs2, p
    <2>18. NewEditsIn(d)
      BY <2>2 DEF NewEditsIn
    <2> QED BY <2>4, <2>7, <2>17, <2>18 DEF LossStep, rows, rows2
  <1>4. CASE SaveForm(d)
    <2> DEFINE l == f.local
               r == [cid |-> f.cid, upd |-> Clock(d), base |-> f.base,
                     val |-> f.val \cup {NewEdit}]
    <2>1. /\ p.pc = "idle" /\ p.plan = EmptyPlan /\ p.written = None /\ resolving[d] = None
          /\ f # None /\ f \in Form /\ rows[l] # NoRow /\ l \in LocalId
      BY <1>0, <1>4, <1>a DEF SaveForm, Rows
    <2>2. rows2 = [rows EXCEPT ![l] = r] /\ r \in Row
      BY <1>4, <2>1, ClockNat, UsedUp DEF SaveForm, SyncInv, TypeOK, Row, Form, Content
    <2>3. /\ UNCHANGED <<deletions, conflict, pass, resolving, remote, abandoned>>
          /\ form'[d] = None /\ used'.edits = used.edits + 1 /\ Stamped
      BY <1>4 DEF SaveForm, NewEdit, SyncInv, TypeOK
    <2>4. Decided' = Decided /\ StoreNext
      BY <1>c, <1>d, <2>3 DEF Decided
    <2>5. RowDescends(r, remote, Decided)
      <3>1. FormDescends(rows, f, remote, Decided)
        BY <1>0 DEF Lasts
      <3>2. CASE f.cid = NoId
        BY <2>1, <3>1, <3>2 DEF FormDescends, RowDescends
      <3>3. CASE f.cid # NoId
        <4>1. f.cid \in CloudId /\ f.base \in Nat
          BY <2>1, <3>3 DEF Form
        <4>2. Descends(f.base, f.val, f.cid, remote, Decided)
          BY <2>1, <3>1, <3>3 DEF FormDescends
        <4>3. f.base < Clock(d)
          BY <1>b, <4>1, <4>2, ClockNat DEF Descends, LossInv, StoreSound, Record
        <4>4. Descends(r.base, r.val, r.cid, remote, Decided)
          BY <4>2 DEF Descends
        <4>5. ~ (r.upd <= r.base)
          BY <4>1, <4>3, ClockNat
        <4> QED BY <3>3, <4>4, <4>5 DEF RowDescends
      <3> QED BY <3>2, <3>3
    <2>6. NewEditsIn(d)
      <3>1. rows2[l] = r /\ r # NoRow /\ used'.edits \in r.val
        BY <1>0, <2>1, <2>2, <2>3 DEF NewEdit, RowsOf
      <3>2. \A e \in 1 .. used'.edits : e \in 1 .. used.edits \/ e = used'.edits
        <4>1. used.edits \in Nat
          BY DEF SyncInv, TypeOK
        <4> QED BY <2>3, <4>1
      <3> QED BY <2>1, <3>1, <3>2 DEF NewEditsIn
    <2>7. RowsKept(row[d], row'[d], remote', Decided')
      <3>1. \A e \in rows[l].val : e \in f.val \/ Stays(e, rows[l].cid, remote, Decided)
        BY <1>0, <2>1 DEF Lasts, FormDescends
      <3>2. rows2[l] = r /\ r # NoRow /\ \A m \in LocalId \ {l} : rows2[m] = rows[m]
        BY <1>0, <2>1, <2>2 DEF RowsOf
      <3> QED BY <2>3, <2>4, <3>1, <3>2 DEF RowsKept
    <2> HIDE DEF rows, rows2, f, evs, confs, p, r
    <2>8. Lasts(rows2, None, evs, confs, p, None, remote, Decided)
      <3>1. Lasts(rows, f, evs, confs, p, None, remote, Decided)
        BY <1>0, <2>1
      <3> HIDE DEF l
      <3> QED BY <1>0, <2>1, <2>2, <2>5, <3>1, RowReplaced
    <2>9. LastsNext(d)
      BY <2>1, <2>3, <2>4, <2>8 DEF LastsNext, rows2, f, evs, confs, p
    <2> QED BY <2>4, <2>6, <2>7, <2>9 DEF LossStep
  <1>5. CASE CloseForm(d) \/ RefreshList(d)
    BY <1>5, StandstillLasts
  <1> QED BY <1>1, <1>2, <1>3, <1>4, <1>5 DEF UserStep

\* A record written by device d, later than anything that was written before.
LEMMA StoreWritten ==
  ASSUME FineClock, SameClocks, SyncInv, SyncInv', StoreSound, NEW d \in Device,
         NEW k \in CloudId, NEW r \in Record, remote' = [remote EXCEPT ![k] = r],
         r.upd = Clock(d), Stamped, Decided \subseteq Decided',
         remote[k] # NoRecord => /\ r.ver > remote[k].ver
                                 /\ AllStay(remote[k].val, k, remote', Decided'),
         r.del => r.val \subseteq Decided'
  PROVE  StoreNext
  <1>1. now' = now + 1 /\ now \in Nat
    BY DEF Stamped, SyncInv, TypeOK
  <1>2. \A e \in Device : /\ Clock(e) \in Nat /\ Clock(e)' = Clock(e) + 1
                          /\ Clock(e) = Clock(d)
    BY <1>1 DEF Clock, SameClocks
  <1>3. \A x \in CloudId : remote[x] # NoRecord => remote[x] \in Record
    BY DEF SyncInv, TypeOK
  <1>4. /\ remote'[k] = r /\ r # NoRecord /\ r.upd \in Nat
        /\ \A x \in CloudId \ {k} : remote'[x] = remote[x]
    BY DEF SyncInv, TypeOK, Record
  <1>5. Later(remote, Decided, remote', Decided')
    BY <1>2, <1>3, <1>4 DEF Later, StoreSound, Record
  <1>6. 0 < r.upd
    BY <1>1, <1>2 DEF Clock, StoreSound
  <1>7. StoreSound'
    BY <1>1, <1>2, <1>3, <1>4, <1>6 DEF StoreSound, Record
  <1> QED BY <1>5, <1>7 DEF StoreNext

-----------------------------------------------------------------------------
\* A device in a pass, without resolution and without deletions waiting.
LEMMA InPass ==
  ASSUME SyncInv, QuietInv, LossInv, NEW d \in Device, pass[d].pc # "idle"
  PROVE  /\ row[d] \in RowsOf /\ form[d] \in Form \cup {None} /\ pass[d].events \in SUBSET Event
         /\ conflict[d] \in Conflicts /\ pass[d] \in Pass /\ Known(pass[d]) /\ remote \in Store
         /\ resolving[d] = None /\ deletions[d] = {}
         /\ Lasts(row[d], form[d], pass[d].events, conflict[d], pass[d], None, remote, Decided)
         /\ Stands(row[d], form[d], {}, conflict[d], pass[d], None, remote)
  <1>1. resolving[d] = None /\ deletions[d] = {}
    BY OneDevice
  <1> QED BY <1>1, OneLasts, OneDevice

\* The steps that read: the items, the records, and the plan made from them.
LEMMA ReadingLasts ==
  ASSUME SyncInv, SyncInv', QuietInv, LossInv, NEW d \in Device,
         ListItems(d) \/ ListRecords(d) \/ MakePlan(d)
  PROVE  LossStep(d)
  <1> DEFINE rows == row[d]  f == form[d]  evs == pass[d].events  confs == conflict[d]
             p == pass[d]  q == pass'[d]
  <1>0. /\ rows \in RowsOf /\ p \in Pass /\ Known(p) /\ remote \in Store
        /\ resolving[d] = None /\ deletions[d] = {}
        /\ Lasts(rows, f, evs, confs, p, None, remote, Decided)
    BY InPass DEF ListItems, ListRecords, MakePlan
  <1>a. /\ UNCHANGED <<row, form, deletions, conflict, resolving, remote, now, used, abandoned>>
        /\ Decided' = Decided
    BY DEF ListItems, ListRecords, MakePlan, Decided
  <1>b. StoreNext
    BY <1>a, StoreUntouched DEF LossInv, SyncInv, TypeOK
  <1>c. SUFFICES /\ q.events = p.events
                 /\ SnapshotsPast(confs, q, remote, Decided) /\ ItemsMatch(rows, q)
                 /\ PlanCarries(rows, q, remote, Decided)
                 /\ WritesSent(rows, q, None, remote, Decided)
    <2>1. LastsNext(d)
      BY <1>0, <1>a, <1>c DEF Lasts, LastsNext
    <2> QED BY <1>a, <1>b, <2>1 DEF LossStep, RowsKept, NewEditsIn
  <1>1. CASE ListItems(d)
    <2>1. p.pc = "listing" /\ q = [p EXCEPT !.pc = "reading", !.items = Items(d)]
      BY <1>1 DEF ListItems, SyncInv, TypeOK
    <2>2. /\ q.events = p.events /\ q.records = p.records /\ q.plan = EmptyPlan
          /\ q.written = None /\ q.items = Items(d)
      BY <1>0, <2>1 DEF Known, Pass
    <2>3. ItemsMatch(rows, q)
      BY <2>2 DEF ItemsMatch, Items, Snapshot, SameRow
    <2>4. PlanCarries(rows, q, remote, Decided) /\ WritesSent(rows, q, None, remote, Decided)
      BY <2>2 DEF PlanCarries, EmptyPlan, WritesSent
    <2> QED BY <1>0, <2>2, <2>3, <2>4 DEF Lasts, SnapshotsPast
  <1>2. CASE ListRecords(d)
    <2>1. p.pc = "reading" /\ q = [p EXCEPT !.pc = "pausing", !.records = remote]
      BY <1>2 DEF ListRecords, SyncInv, TypeOK
    <2>2. /\ q.events = p.events /\ q.records = remote /\ q.plan = EmptyPlan
          /\ q.written = None /\ q.items = p.items /\ q.pc \in BeforePlan /\ p.pc \in BeforePlan
      BY <1>0, <2>1 DEF Known, Pass, BeforePlan
    <2>3. ItemsMatch(rows, q)
      BY <1>0, <2>2 DEF Lasts, ItemsMatch
    <2>4. PlanCarries(rows, q, remote, Decided) /\ WritesSent(rows, q, None, remote, Decided)
      BY <2>2 DEF PlanCarries, EmptyPlan, WritesSent
    <2>5. ASSUME NEW k \in CloudId, remote[k] # NoRecord PROVE Past(remote[k], k, remote, Decided)
      <3>1. remote[k].upd \in Nat /\ 0 < remote[k].upd
        BY <1>0, <2>5 DEF Store, Record, LossInv, StoreSound
      <3>2. AllStay(remote[k].val, k, remote, Decided)
        BY <2>5 DEF AllStay, Stays, LossInv, StoreSound
      <3> QED BY <2>5, <3>1, <3>2 DEF Past
    <2>6. SnapshotsPast(confs, q, remote, Decided)
      BY <1>0, <2>2, <2>5 DEF Lasts, SnapshotsPast
    <2> QED BY <2>2, <2>3, <2>4, <2>6
  <1>3. CASE MakePlan(d)
    <2> DEFINE active == [k \in CloudId |->
                            IF p.records[k] = NoRecord THEN NoRecord
                            ELSE IF p.records[k].del \/ k \in p.deleted THEN NoRecord
                            ELSE p.records[k]]
               plan == Plan(p.items, active, p.paused)
    <2>1. p.pc = "deleting" /\ q = [p EXCEPT !.pc = "applying", !.plan = plan]
      BY <1>3 DEF MakePlan, SyncInv, TypeOK
    <2>2. /\ q.events = p.events /\ q.records = p.records /\ q.plan = plan
          /\ q.written = None /\ q.items = p.items /\ q.pc = "applying"
      BY <1>0, <2>1 DEF Known, Pass
    <2>3. ItemsMatch(rows, q) /\ SnapshotsPast(confs, q, remote, Decided)
          /\ WritesSent(rows, q, None, remote, Decided)
      BY <1>0, <2>2 DEF Lasts, ItemsMatch, SnapshotsPast, WritesSent, BeforePlan
    <2>4. ASSUME NEW i \in p.items, IsComparable(i, active, p.paused), rows[i.local] # NoRow
          PROVE  /\ active[i.cid] = p.records[i.cid] /\ i.cid \in CloudId
                 /\ p.records[i.cid] \in Record /\ Past(p.records[i.cid], i.cid, remote, Decided)
                 /\ SameRow(rows[i.local], i) /\ rows[i.local] \in Row
                 /\ Descends(i.base, i.val, i.cid, remote, Decided)
                 /\ i.upd <= i.base => AllStay(i.val, i.cid, remote, Decided)
                 /\ i.base \in Nat /\ i.upd \in Nat
      <3>1. i \in Item
        BY <1>0 DEF Pass
      <3>2. /\ i.cid # NoId /\ i.cid \in CloudId /\ i.local \in LocalId
            /\ i.base \in Nat /\ i.upd \in Nat
        BY <2>4, <3>1 DEF Item, IsComparable
      <3>3. p.records[i.cid] # NoRecord /\ active[i.cid] = p.records[i.cid]
        BY <2>4, <3>2 DEF IsComparable
      <3>4. SameRow(rows[i.local], i) /\ RowDescends(rows[i.local], remote, Decided)
        BY <1>0, <2>1, <2>4, <3>2 DEF Lasts, ItemsMatch, BeforePlan, RowsDescend
      <3>5. p.records[i.cid] \in Record /\ Past(p.records[i.cid], i.cid, remote, Decided)
        BY <1>0, <3>2, <3>3 DEF Pass, Lasts, SnapshotsPast
      <3> QED BY <1>0, <2>4, <3>2, <3>3, <3>4, <3>5 DEF SameRow, RowDescends, RowsOf
    <2> HIDE DEF active
    <2>5. ASSUME NEW i \in plan.cloudUpdates, rows[i.local] # NoRow
          PROVE  Carries(rows[i.local], i.cid, q, remote, Decided)
      <3>1. /\ i \in p.items /\ IsComparable(i, active, p.paused)
            /\ RemoteChanged(i, active[i.cid]) = FALSE
        BY DEF Plan, Differing
      <3>2. ~ (p.records[i.cid].upd > i.base)
        BY <2>4, <2>5, <3>1 DEF RemoteChanged
      <3>3. remote[i.cid] = p.records[i.cid] => i.base = remote[i.cid].upd
        BY <2>4, <2>5, <3>1, <3>2 DEF Descends, Record
      <3> QED BY <2>2, <2>4, <2>5, <3>1, <3>3 DEF Carries, Descends, SameRow
    <2>6. ASSUME NEW i \in plan.marks, rows[i.local] # NoRow
          PROVE  /\ Carries(rows[i.local], i.cid, q, remote, Decided)
                 /\ AllStay(rows[i.local].val, i.cid, remote, Decided)
      <3>1. i \in p.items /\ IsComparable(i, active, p.paused) /\ SameContent(i, active[i.cid])
        BY DEF Plan
      <3>2. rows[i.local].val = p.records[i.cid].val
        BY <2>4, <2>6, <3>1 DEF SameContent, SameRow
      <3> QED BY <2>2, <2>4, <2>6, <3>1, <3>2 DEF Carries, Past
    <2>7. ASSUME NEW i \in plan.localUpdates, rows[i.local] # NoRow
          PROVE  AllStay(rows[i.local].val, i.cid, remote, Decided)
      <3>1. /\ i \in p.items /\ IsComparable(i, active, p.paused)
            /\ LocalChanged(i, active[i.cid]) = FALSE
        BY DEF Plan, Differing
      <3>2. ~ (i.upd > i.base)
        BY <3>1 DEF LocalChanged
      <3> QED BY <2>4, <2>7, <3>1, <3>2 DEF SameRow
    <2>8. PlanCarries(rows, q, remote, Decided)
      BY <2>2, <2>5, <2>6, <2>7 DEF PlanCarries
    <2> QED BY <2>2, <2>3, <2>8
  <1> QED BY <1>1, <1>2, <1>3

\* The deletions of a pass: what is made a tombstone was decided on this device, a
\* row that disappears has nothing of its own.
LEMMA DeletingLasts ==
  ASSUME FineClock, SameClocks, SyncInv, SyncInv', VersionsIdentify, QuietInv, LossInv,
         NEW d \in Device,
         \/ \E ev \in pass[d].events :
               ForgetDeleted(d, ev) \/ PauseDeleted(d, ev) \/ PushDelete(d, ev)
         \/ \E k \in CloudId : ApplyTombstone(d, k)
  PROVE  LossStep(d)
  <1> DEFINE rows == row[d]  f == form[d]  evs == pass[d].events  confs == conflict[d]
             p == pass[d]  q == pass'[d]  confs2 == conflict'[d]
  <1>0. /\ rows \in RowsOf /\ f \in Form \cup {None} /\ evs \in SUBSET Event
        /\ confs \in Conflicts /\ p \in Pass /\ Known(p) /\ remote \in Store
        /\ resolving[d] = None /\ deletions[d] = {} /\ p.pc = "deleting"
        /\ Lasts(rows, f, evs, confs, p, None, remote, Decided)
    BY InPass DEF ForgetDeleted, PauseDeleted, PushDelete, ApplyTombstone
  <1>a. /\ \A q1 : pass' = [pass EXCEPT ![d] = q1] => q = q1
        /\ \A k \in CloudId : \A r :
              conflict' = [conflict EXCEPT ![d][k] = r] =>
                 confs2[k] = r /\ \A x \in CloudId \ {k} : confs2[x] = confs[x]
    BY DEF SyncInv, TypeOK
  <1>b. Drifts(p, IdlePass) /\ IdlePass.events = {}
    BY DEF Drifts, IdlePass, EmptyPlan, BeforePlan
  <1>1. ASSUME NEW ev \in p.events PROVE Drifts(p, [p EXCEPT !.events = @ \ {ev}])
                                         /\ [p EXCEPT !.events = @ \ {ev}].events = p.events \ {ev}
    BY <1>0 DEF Drifts, Pass
  <1>2. ASSUME NEW ev \in p.events, ForgetDeleted(d, ev) \/ PauseDeleted(d, ev)
        PROVE  LossStep(d)
    <2>1. ev.cid \in CloudId
      BY <1>0 DEF Event
    <2>2. q = [p EXCEPT !.events = @ \ {ev}]
      BY <1>0, <1>2 DEF ForgetDeleted, PauseDeleted, Pass, SyncInv, TypeOK
    <2>3. Found(confs, confs2, p)
      <3>1. PICK r : /\ conflict' = [conflict EXCEPT ![d][ev.cid] = r]
                     /\ r = None \/ (r = p.records[ev.cid] /\ r # NoRecord)
        BY <1>2 DEF ForgetDeleted, PauseDeleted, ForgetRecord, PauseRecord
      <3>2. confs2[ev.cid] = r /\ \A x \in CloudId \ {ev.cid} : confs2[x] = confs[x]
        BY <1>a, <2>1, <3>1
      <3> QED BY <3>1, <3>2 DEF Found
    <2>4. UNCHANGED <<row, form, deletions, resolving, remote, now, used, abandoned>>
      BY <1>2 DEF ForgetDeleted, PauseDeleted
    <2>5. q.events \subseteq p.events /\ Drifts(p, q)
      BY <1>1, <2>2
    <2> QED BY <2>3, <2>4, <2>5, DriftStep
  <1>3. ASSUME NEW ev \in p.events, PushDelete(d, ev) PROVE LossStep(d)
    <2> DEFINE k == ev.cid
               r == [ver |-> remote[k].ver + 1, upd |-> Clock(d), del |-> TRUE,
                     val |-> remote[k].val]
    <2>1. /\ k \in CloudId /\ ev.base \in Nat
          /\ UNCHANGED <<row, form, deletions, resolving, used, abandoned>>
          /\ p.records[k] # NoRecord /\ ~ RemoteChangedSince(ev, p.records[k])
          /\ conflict' = [conflict EXCEPT ![d][k] = None]
      BY <1>0, <1>3 DEF PushDelete, ForgetRecord, Event
    <2>2. Found(confs, confs2, p)
      BY <1>a, <2>1 DEF Found
    <2>3. CASE ~ Accepts(k, p.records[k].ver)
      <3>1. Ends(d) /\ UNCHANGED <<remote, now>>
        BY <1>3, <2>3 DEF PushDelete
      <3>2. q = IdlePass
        BY <1>a, <3>1 DEF Ends
      <3> QED BY <1>b, <2>1, <2>2, <3>1, <3>2, DriftStep
    <2>4. CASE Accepts(k, p.records[k].ver)
      <3>1. /\ Stamped /\ q = [p EXCEPT !.events = @ \ {ev}]
            /\ remote' = [remote EXCEPT ![k] =
                    [ver |-> @.ver + 1, upd |-> Clock(d), del |-> TRUE, val |-> @.val]]
        BY <1>0, <1>3, <2>4 DEF PushDelete, Tombstone, Pass, SyncInv, TypeOK
      <3>2. remote[k] = p.records[k] /\ remote[k] \in Record
        BY <1>0, <2>1, <2>4 DEF Accepts, VersionsIdentify, Identified, Pass, Record, Store
      <3>3. r \in Record /\ remote' = [remote EXCEPT ![k] = r]
        <4>1. r \in Record
          BY <3>2, ClockNat DEF Record
        <4> QED BY <3>1, <4>1
      <3>4. /\ r.ver > remote[k].ver /\ r.upd = Clock(d) /\ r.del /\ r.val = remote[k].val
        BY <3>2 DEF Record
      <3>5. remote[k].val \subseteq Decided
        <4>1. Descends(ev.base, {}, k, remote, Decided)
          BY <1>0 DEF Lasts, EventsDescend
        <4>2. ev.base = remote[k].upd
          BY <2>1, <3>2, <4>1 DEF RemoteChangedSince, Descends, Record
        <4> QED BY <4>1, <4>2 DEF Descends
      <3>6. Decided' = Decided
        BY <2>1 DEF Decided
      <3>7. AllStay(remote[k].val, k, remote', Decided')
        BY <3>5, <3>6 DEF AllStay, Stays
      <3> HIDE DEF r
      <3>8. StoreNext
        BY <2>1, <3>1, <3>3, <3>4, <3>5, <3>6, <3>7, StoreWritten DEF LossInv
      <3>9. q.events \subseteq p.events /\ Drifts(p, q) /\ q \in Pass /\ Known(q)
            /\ remote' \in Store
        BY <1>1, <3>1 DEF SyncInv, TypeOK, PlansKnown, Store
      <3> DEFINE evs2 == q.events
      <3>10. Drifted(rows, rows, f, f, evs, evs2, confs, confs2, p, q, None, None)
        BY <1>0, <2>2, <3>9 DEF Drifted, Fewer
      <3> HIDE DEF rows, f, evs, evs2, confs, confs2, p, q
      <3>11. Lasts(rows, f, evs, confs, p, None, remote', Decided')
        BY <1>0, <3>8, <3>9, LaterLasts DEF StoreNext
      <3>12. Lasts(rows, f, evs2, confs2, q, None, remote', Decided')
        BY <3>10, <3>11, DriftLasts
      <3>13. LastsNext(d)
        <4>1. deletions'[d] \cup q.events = evs2
          BY <1>0, <2>1 DEF evs2
        <4> QED BY <1>0, <2>1, <3>12, <4>1 DEF LastsNext, rows, f, confs2, q
      <3> QED BY <2>1, <3>8, <3>13 DEF LossStep, RowsKept, NewEditsIn
    <2> QED BY <2>3, <2>4
  <1>4. ASSUME NEW k \in CloudId, ApplyTombstone(d, k) PROVE LossStep(d)
    <2>1. UNCHANGED <<form, deletions, resolving, remote, now, used, abandoned>>
      BY <1>4 DEF ApplyTombstone
    <2>2. PICK item \in p.items :
             /\ item.cid = k
             /\ \/ /\ conflict' = [conflict EXCEPT ![d][k] = p.records[k]]
                   /\ pass' = [pass EXCEPT ![d].tombstones = @ \ {k}, ![d].paused = @ \cup {k}]
                   /\ UNCHANGED row
                \/ /\ ~ LocalChangedSinceSync(item)
                   /\ row' = [row EXCEPT ![d][item.local] = NoRow]
                   /\ pass' = [pass EXCEPT ![d].tombstones = @ \ {k}]
                   /\ UNCHANGED conflict
      BY <1>4 DEF ApplyTombstone, PauseRecord
    <2>3. p.records[k] # NoRecord /\ item.local \in LocalId /\ item \in Item
      BY <1>0, <1>4 DEF ApplyTombstone, Known, Pass, Item
    <2>4. CASE UNCHANGED row
      <3>1. \/ q = [p EXCEPT !.tombstones = @ \ {k}, !.paused = @ \cup {k}]
            \/ q = [p EXCEPT !.tombstones = @ \ {k}]
        BY <1>0, <2>2 DEF Pass, SyncInv, TypeOK
      <3>2. /\ q.events = p.events /\ q.items = p.items /\ q.records = p.records
            /\ q.plan = p.plan /\ q.written = p.written
        BY <1>0, <3>1 DEF Pass
      <3>3. Drifts(p, q)
        BY <1>0, <3>2 DEF Drifts, BeforePlan
      <3>4. Found(confs, confs2, p)
        <4>1. CASE UNCHANGED conflict
          BY <4>1 DEF Found
        <4>2. CASE conflict' = [conflict EXCEPT ![d][k] = p.records[k]]
          <5>1. confs2[k] = p.records[k] /\ \A x \in CloudId \ {k} : confs2[x] = confs[x]
            BY <1>a, <4>2
          <5> QED BY <2>3, <5>1 DEF Found
        <4> QED BY <2>2, <4>1, <4>2
      <3> QED BY <2>1, <2>4, <3>2, <3>3, <3>4, DriftStep
    <2>5. CASE /\ ~ LocalChangedSinceSync(item)
               /\ row' = [row EXCEPT ![d][item.local] = NoRow]
               /\ pass' = [pass EXCEPT ![d].tombstones = @ \ {k}]
               /\ UNCHANGED conflict
      <3>1. q = [p EXCEPT !.tombstones = @ \ {k}]
        BY <1>0, <2>5 DEF Pass, SyncInv, TypeOK
      <3>2. /\ q.events = p.events /\ q.items = p.items /\ q.records = p.records
            /\ q.plan = p.plan /\ q.written = p.written
        BY <1>0, <3>1 DEF Pass
      <3>3. Drifts(p, q) /\ Found(confs, confs2, p)
        BY <1>0, <2>5, <3>2 DEF Drifts, BeforePlan, Found
      <3>4. /\ row'[d][item.local] = NoRow
            /\ \A l \in LocalId \ {item.local} : row'[d][l] = rows[l]
        BY <2>3, <2>5 DEF SyncInv, TypeOK
      <3>5. rows[item.local] # NoRow => AllStay(rows[item.local].val, k, remote, Decided)
        <4> SUFFICES ASSUME rows[item.local] # NoRow
                     PROVE  AllStay(rows[item.local].val, k, remote, Decided)
          OBVIOUS
        <4>1. SameRow(rows[item.local], item)
          BY <1>0 DEF Lasts, ItemsMatch, BeforePlan
        <4>2. RowDescends(rows[item.local], remote, Decided) /\ k # NoId
          BY <1>0, <2>3 DEF Lasts, RowsDescend
        <4>3. item.upd \in Nat /\ item.base \in Nat
          BY <2>3 DEF Item
        <4> QED BY <2>2, <2>5, <4>1, <4>2, <4>3 DEF SameRow, RowDescends, LocalChangedSinceSync
      <3>6. rows[item.local] # NoRow => rows[item.local].cid = k
        BY <1>0, <2>2 DEF Lasts, ItemsMatch, BeforePlan, SameRow
      <3>7. Fewer(row[d], row'[d]) /\ RowsKept(row[d], row'[d], remote, Decided)
        BY <3>4, <3>5, <3>6 DEF Fewer, RowsKept, AllStay
      <3> QED BY <2>1, <2>5, <3>2, <3>3, <3>7, RowsDriftStep
    <2> QED BY <2>2, <2>4, <2>5
  <1> QED BY <1>2, <1>3, <1>4

\* A step of a pass with a plan that changes one row.
LEMMA RowAppliedStep ==
  ASSUME SyncInv, SyncInv', QuietInv, LossInv, NEW d \in Device, NEW l \in LocalId, NEW r,
         UNCHANGED <<form, deletions, conflict, resolving, remote, now, used, abandoned>>,
         row'[d] = [row[d] EXCEPT ![l] = r], r # NoRow,
         pass[d].pc = "applying", pass'[d].pc = "applying", pass'[d].written = None,
         pass'[d].events = pass[d].events, pass'[d].items = pass[d].items,
         pass'[d].records = pass[d].records, Drifts(pass[d], pass'[d]),
         RowDescends(r, remote, Decided),
         \/ /\ row[d][l] # NoRow /\ r.val = row[d][l].val
            /\ row[d][l].cid \in {NoId, r.cid}
         \/ /\ AllStay(r.val, r.cid, remote, Decided)
            /\ \A i \in pass[d].items :
                  i.local = l => i.cid = r.cid /\ r.val = pass[d].records[r.cid].val
            /\ row[d][l] # NoRow => /\ row[d][l].cid = r.cid
                                    /\ AllStay(row[d][l].val, r.cid, remote, Decided)
  PROVE  LossStep(d)
  <1> DEFINE rows == row[d]  rows2 == row'[d]  f == form[d]  evs == pass[d].events
             confs == conflict[d]  p == pass[d]  q == pass'[d]
  <1>0. /\ rows \in RowsOf /\ f \in Form \cup {None} /\ p \in Pass /\ Known(p)
        /\ resolving[d] = None /\ deletions[d] = {}
        /\ Lasts(rows, f, evs, confs, p, None, remote, Decided)
        /\ Stands(rows, f, {}, confs, p, None, remote)
    BY InPass
  <1>1. Decided' = Decided
    BY DEF Decided
  <1>2. StoreNext
    BY <1>1, StoreUntouched DEF LossInv, SyncInv, TypeOK
  <1>3. rows2[l] = r /\ \A m \in LocalId \ {l} : rows2[m] = rows[m]
    BY <1>0 DEF RowsOf
  <1>4. RowsKept(row[d], row'[d], remote', Decided')
    BY <1>1, <1>3 DEF RowsKept, AllStay
  <1>5. NewEditsIn(d)
    BY DEF NewEditsIn
  <1>6. q \in Pass /\ Known(q)
    BY DEF SyncInv, TypeOK, PlansKnown
  <1>7. \A i \in q.plan.cloudUpdates \cup q.plan.localUpdates \cup q.plan.marks : i \in q.items
    BY <1>0 DEF Stands, PlanStands, Drifts
  <1>8. Drifted(rows, rows, f, f, evs, evs, confs, confs, p, q, None, None)
    BY <1>0, <1>6 DEF Drifted, Fewer, Found
  <1>9. rows2 = [rows EXCEPT ![l] = r]
    OBVIOUS
  <1>10. \/ rows[l] # NoRow /\ r.val = rows[l].val /\ rows[l].cid \in {NoId, r.cid}
         \/ /\ AllStay(r.val, r.cid, remote, Decided)
            /\ \A i \in q.items : i.local = l => i.cid = r.cid /\ r.val = q.records[r.cid].val
    OBVIOUS
  <1>11. q.pc = "applying" /\ q.written = None
    OBVIOUS
  <1> HIDE DEF rows, rows2, f, evs, confs, p, q
  <1>12. Lasts(rows, f, evs, confs, q, None, remote, Decided)
    BY <1>0, <1>8, DriftLasts
  <1>13. Lasts(rows2, f, evs, confs, q, None, remote, Decided)
    BY <1>0, <1>6, <1>7, <1>9, <1>10, <1>11, <1>12, RowApplied
  <1>14. LastsNext(d)
    <2>1. deletions'[d] \cup pass'[d].events = evs
      BY <1>0 DEF evs
    <2> QED BY <1>0, <1>1, <1>13, <2>1 DEF LastsNext, rows2, f, confs, q
  <1> QED BY <1>2, <1>4, <1>5, <1>14 DEF LossStep

\* mark_synced: the row, if it is still there, with its new name and baseline.
LEMMA MarkedTo ==
  ASSUME SyncInv, NEW d \in Device, NEW l \in LocalId, NEW k \in CloudId, NEW synced \in Nat,
         row' = MarkedRows(d, l, k, synced)
  PROVE  \/ UNCHANGED row
         \/ /\ row[d][l] # NoRow /\ row[d][l] \in Row
            /\ row'[d] = [row[d] EXCEPT ![l] = [cid |-> k, upd |-> row[d][l].upd,
                                                base |-> synced, val |-> row[d][l].val]]
  <1>1. CASE l \notin Rows(d)
    BY <1>1 DEF MarkedRows
  <1>2. CASE l \in Rows(d)
    <2> DEFINE r == [row[d][l] EXCEPT !.cid = k, !.base = synced]
    <2>1. row[d][l] # NoRow /\ row[d][l] \in Row
      BY <1>2 DEF Rows, SyncInv, TypeOK
    <2>2. r = [cid |-> k, upd |-> row[d][l].upd, base |-> synced, val |-> row[d][l].val]
      <3>1. /\ r \in Row /\ r.cid = k /\ r.base = synced
            /\ r.upd = row[d][l].upd /\ r.val = row[d][l].val
        BY <2>1 DEF Row
      <3>2. \A x \in Row : x = [cid |-> x.cid, upd |-> x.upd, base |-> x.base, val |-> x.val]
        BY DEF Row
      <3> HIDE DEF r
      <3> QED BY <3>1, <3>2
    <2>3. row' = [row EXCEPT ![d] = [row[d] EXCEPT ![l] = r]]
      BY <1>2 DEF MarkedRows, SyncInv, TypeOK
    <2> HIDE DEF r
    <2>4. row'[d] = [row[d] EXCEPT ![l] = r]
      BY <2>3 DEF SyncInv, TypeOK
    <2> QED BY <2>1, <2>2, <2>4
  <1> QED BY <1>1, <1>2

LEMMA PlanDrifts ==
  ASSUME NEW p \in Pass, NEW plan \in Rest(p.plan), p.pc = "applying",
         NEW q, q = [p EXCEPT !.plan = plan]
  PROVE  /\ Drifts(p, q) /\ q.pc = "applying" /\ q.plan = plan
         /\ q.events = p.events /\ q.items = p.items /\ q.records = p.records
         /\ q.written = p.written
  <1>1. /\ q.pc = "applying" /\ q.plan = plan
        /\ q.events = p.events /\ q.items = p.items /\ q.records = p.records
        /\ q.written = p.written
    BY DEF Pass
  <1>2. Drifts(p, q)
    BY <1>1 DEF Drifts, BeforePlan, Rest
  <1> QED BY <1>1, <1>2

\* The steps of a pass that bring the rows and the conflict table up to date.
LEMMA ApplyingLasts ==
  ASSUME SyncInv, SyncInv', VersionsIdentify, QuietInv, LossInv, NEW d \in Device,
         \/ MarkWritten(d)
         \/ \E k \in CloudId : Download(d, k)
         \/ \E item \in pass[d].items :
               UpdateLocal(d, item) \/ MarkSynced(d, item) \/ PauseConflict(d, item)
  PROVE  LossStep(d)
  <1> DEFINE rows == row[d]  f == form[d]  evs == pass[d].events  confs == conflict[d]
             p == pass[d]  q == pass'[d]  confs2 == conflict'[d]
  <1>0. /\ rows \in RowsOf /\ p \in Pass /\ Known(p) /\ p.pc = "applying"
        /\ Lasts(rows, f, evs, confs, p, None, remote, Decided)
        /\ Stands(rows, f, {}, confs, p, None, remote)
        /\ UNCHANGED <<form, deletions, resolving, remote, now, used, abandoned>>
        /\ p.plan \in Rest(p.plan)
    <2>1. p.pc = "applying" /\ UNCHANGED <<form, deletions, resolving, remote, now, used, abandoned>>
      BY OneDevice DEF Applying, MarkWritten, Download, UpdateLocal, MarkSynced, PauseConflict, Known
    <2>2. p.plan \in Rest(p.plan)
      BY OneDevice DEF Pass, Rest
    <2> QED BY <2>1, <2>2, InPass
  <1>a. /\ \A q1 : pass' = [pass EXCEPT ![d] = q1] => q = q1
        /\ \A l, r : row' = [row EXCEPT ![d][l] = r] => row'[d] = [rows EXCEPT ![l] = r]
    BY DEF SyncInv, TypeOK
  <1>b. Found(confs, confs, p) /\ \A i \in p.items : i.local \in LocalId
    BY <1>0 DEF Found, Pass, Item
  <1>c. ASSUME NEW k \in CloudId, p.records[k] # NoRecord
        PROVE  /\ p.records[k] \in Record /\ p.records[k].upd \in Nat
               /\ Past(p.records[k], k, remote, Decided)
               /\ RowOf(k, p.records[k]) # NoRow
               /\ RowDescends(RowOf(k, p.records[k]), remote, Decided)
               /\ AllStay(p.records[k].val, k, remote, Decided)
    <2>1. Past(p.records[k], k, remote, Decided) /\ p.records[k] \in Record
      BY <1>0, <1>c DEF Lasts, SnapshotsPast, Pass
    <2>2. RowOf(k, p.records[k]) # NoRow
      BY <2>1, RowOfRecord
    <2>3. RowDescends(RowOf(k, p.records[k]), remote, Decided)
      BY <2>1 DEF RowDescends, RowOf, Past, Descends
    <2> QED BY <2>1, <2>2, <2>3 DEF Record, Past
  <1>1. CASE MarkWritten(d)
    <2> DEFINE w == p.written
               r == [cid |-> w.cid, upd |-> rows[w.local].upd, base |-> w.upd,
                     val |-> rows[w.local].val]
    <2>1. /\ w # None /\ row' = MarkedRows(d, w.local, w.cid, w.upd) /\ UNCHANGED conflict
          /\ q = [p EXCEPT !.written = None]
      BY <1>1 DEF MarkWritten, SyncInv, TypeOK
    <2>2. w.local \in LocalId /\ w.cid \in CloudId /\ w.upd \in Nat
      BY <1>0, <2>1 DEF Pass
    <2>3. /\ q.events = p.events /\ q.items = p.items /\ q.records = p.records
          /\ q.plan = p.plan /\ q.written = None /\ q.pc = p.pc
      BY <1>0, <2>1 DEF Pass
    <2>4. Drifts(p, q)
      BY <1>0, <2>3 DEF Drifts, BeforePlan
    <2>5. CASE UNCHANGED row
      BY <1>0, <1>b, <2>1, <2>3, <2>4, <2>5, DriftStep
    <2>6. CASE rows[w.local] # NoRow /\ rows[w.local] \in Row
               /\ row'[d] = [rows EXCEPT ![w.local] = r]
      <3>1. /\ Descends(w.upd, rows[w.local].val, w.cid, remote, Decided)
            /\ AllStay(rows[w.local].val, w.cid, remote, Decided)
        BY <1>0, <2>1, <2>6 DEF Lasts, WritesSent, Sent
      <3>2. RowDescends(r, remote, Decided) /\ r.cid = w.cid /\ r.val = rows[w.local].val
        BY <2>2, <3>1 DEF RowDescends
      <3>3. rows[w.local].cid \in {NoId, w.cid}
        BY <1>0, <2>1, <2>6 DEF Stands, WrittenStands
      <3>4. r # NoRow
        <4>1. r \in Row
          BY <2>2, <2>6 DEF Row
        <4> QED BY <4>1
      <3> DEFINE l == w.local
      <3>5. /\ l \in LocalId /\ row'[d] = [row[d] EXCEPT ![l] = r]
            /\ row[d][l] # NoRow /\ r.val = row[d][l].val /\ row[d][l].cid \in {NoId, r.cid}
        BY <2>2, <2>6, <3>2, <3>3
      <3>6. UNCHANGED <<form, deletions, conflict, resolving, remote, now, used, abandoned>>
        BY <1>0, <2>1
      <3> HIDE DEF r, w, l
      <3> QED BY <1>0, <2>3, <2>4, <3>2, <3>4, <3>5, <3>6, RowAppliedStep
    <2> QED BY <2>1, <2>2, <2>5, <2>6, MarkedTo
  <1>2. ASSUME NEW k \in CloudId, Download(d, k) PROVE LossStep(d)
    <2> DEFINE plan == [p.plan EXCEPT !.downloads = @ \ {k}]
               r == RowOf(k, p.records[k])
    <2>1. /\ p.written = None /\ k \in p.plan.downloads /\ UNCHANGED conflict
          /\ pass' = [pass EXCEPT ![d].plan.downloads = @ \ {k}]
      BY <1>2 DEF Download, Applying
    <2>2. plan \in Rest(p.plan)
      BY <1>0 DEF Rest, Pass
    <2>3. q = [p EXCEPT !.plan = plan]
      <3>1. pass' = [pass EXCEPT ![d] = [p EXCEPT !.plan = plan]]
        BY <1>0, <2>1 DEF Pass
      <3> QED BY <1>a, <3>1
    <2>4. /\ Drifts(p, q) /\ q.pc = "applying" /\ q.events = p.events /\ q.items = p.items
          /\ q.records = p.records /\ q.written = None
      <3> HIDE DEF plan, p, q
      <3> QED BY <1>0, <2>1, <2>2, <2>3, PlanDrifts
    <2>5. PICK l \in FreshLocal(d) : row' = [row EXCEPT ![d][l] = r]
      BY <1>2 DEF Download
    <2>6. /\ l \in LocalId /\ rows[l] = NoRow /\ \A i \in p.items : i.local # l
      BY DEF FreshLocal, Rows
    <2>7. p.records[k] # NoRecord
      BY <1>0, <2>1 DEF Known
    <2>8. r # NoRow /\ RowDescends(r, remote, Decided) /\ AllStay(r.val, r.cid, remote, Decided)
      BY <1>c, <2>7 DEF RowOf
    <2>9. row'[d] = [rows EXCEPT ![l] = r]
      BY <1>a, <2>5
    <2> HIDE DEF r
    <2> QED BY <1>0, <2>1, <2>4, <2>6, <2>8, <2>9, RowAppliedStep
  <1>3. ASSUME NEW item \in p.items, UpdateLocal(d, item) PROVE LossStep(d)
    <2>1. /\ p.written = None /\ item \in p.plan.localUpdates /\ UNCHANGED conflict
          /\ item.cid \in CloudId /\ p.records[item.cid] # NoRecord
      BY <1>0, <1>3 DEF UpdateLocal, Applying, Known
    <2>2. CASE item.local \notin Rows(d)
      BY <1>0, <1>3, <2>1, <2>2, StandstillLasts DEF UpdateLocal
    <2>3. CASE item.local \in Rows(d)
      <3> DEFINE plan == [p.plan EXCEPT !.localUpdates = @ \ {item}]
                 l == item.local
                 r == RowOf(item.cid, p.records[item.cid])
      <3>1. /\ row' = [row EXCEPT ![d][l] = r] /\ rows[l] # NoRow
            /\ pass' = [pass EXCEPT ![d].plan.localUpdates = @ \ {item}]
        BY <1>3, <2>3 DEF UpdateLocal, Rows
      <3>2. plan \in Rest(p.plan)
        BY <1>0 DEF Rest, Pass
      <3>3. q = [p EXCEPT !.plan = plan]
        <4>1. pass' = [pass EXCEPT ![d] = [p EXCEPT !.plan = plan]]
          BY <1>0, <3>1 DEF Pass
        <4> QED BY <1>a, <4>1
      <3>4. /\ Drifts(p, q) /\ q.pc = "applying" /\ q.events = p.events /\ q.items = p.items
            /\ q.records = p.records /\ q.written = None
        <4> HIDE DEF plan, p, q
        <4> QED BY <1>0, <2>1, <3>2, <3>3, PlanDrifts
      <3>5. rows[l].cid = item.cid /\ l \in LocalId
        BY <1>0, <2>1, <3>1, NoConflict
      <3>6. AllStay(rows[l].val, item.cid, remote, Decided)
        BY <1>0, <2>1, <3>1 DEF Lasts, PlanCarries
      <3>7. \A i \in p.items : i.local = l => i = item
        BY <1>0 DEF Stands, ItemsStand
      <3>8. /\ r # NoRow /\ RowDescends(r, remote, Decided) /\ r.cid = item.cid
            /\ AllStay(r.val, r.cid, remote, Decided) /\ r.val = p.records[r.cid].val
        BY <1>c, <2>1 DEF RowOf
      <3>9. row'[d] = [rows EXCEPT ![l] = r]
        BY <1>a, <3>1
      <3>10. \A i \in p.items : i.local = l => i.cid = r.cid /\ r.val = p.records[r.cid].val
        BY <3>7, <3>8
      <3> HIDE DEF r, l
      <3> QED BY <1>0, <2>1, <3>1, <3>4, <3>5, <3>6, <3>8, <3>9, <3>10, RowAppliedStep
    <2> QED BY <2>2, <2>3
  <1>4. ASSUME NEW item \in p.items, MarkSynced(d, item) PROVE LossStep(d)
    <2> DEFINE plan == [p.plan EXCEPT !.marks = @ \ {item}]
               l == item.local  k == item.cid  synced == p.records[k].upd
               r == [cid |-> k, upd |-> rows[l].upd, base |-> synced, val |-> rows[l].val]
    <2>1. /\ p.written = None /\ item \in p.plan.marks /\ UNCHANGED conflict
          /\ k \in CloudId /\ p.records[k] # NoRecord
          /\ row' = MarkedRows(d, l, k, synced)
          /\ pass' = [pass EXCEPT ![d].plan.marks = @ \ {item}]
      BY <1>0, <1>4 DEF MarkSynced, Applying, Known
    <2>2. plan \in Rest(p.plan)
      BY <1>0 DEF Rest, Pass
    <2>3. q = [p EXCEPT !.plan = plan]
      <3>1. pass' = [pass EXCEPT ![d] = [p EXCEPT !.plan = plan]]
        BY <1>0, <2>1 DEF Pass
      <3> QED BY <1>a, <3>1
    <2>4. /\ Drifts(p, q) /\ q.pc = "applying" /\ q.events = p.events /\ q.items = p.items
          /\ q.records = p.records /\ q.written = None
      <3> HIDE DEF plan, p, q
      <3> QED BY <1>0, <2>1, <2>2, <2>3, PlanDrifts
    <2>5. l \in LocalId /\ synced \in Nat
      BY <1>b, <1>c, <2>1
    <2>6. CASE UNCHANGED row
      BY <1>0, <1>b, <2>1, <2>4, <2>6, DriftStep
    <2>7. CASE rows[l] # NoRow /\ rows[l] \in Row /\ row'[d] = [rows EXCEPT ![l] = r]
      <3>1. /\ Carries(rows[l], k, p, remote, Decided)
            /\ AllStay(rows[l].val, k, remote, Decided)
        BY <1>0, <2>1, <2>7 DEF Lasts, PlanCarries
      <3>2. Past(p.records[k], k, remote, Decided)
        BY <1>c, <2>1
      <3>3. Descends(synced, rows[l].val, k, remote, Decided)
        BY <3>1, <3>2 DEF Past, Carries, Descends
      <3>4. RowDescends(r, remote, Decided) /\ r.cid = k /\ r.val = rows[l].val
        BY <2>1, <3>1, <3>3 DEF RowDescends
      <3>5. rows[l].cid = k
        BY <1>0, <2>1, <2>7, NoConflict
      <3>6. r # NoRow
        <4>1. r \in Row
          BY <2>1, <2>5, <2>7 DEF Row
        <4> QED BY <4>1
      <3> HIDE DEF r, l, k
      <3> QED BY <1>0, <2>1, <2>4, <2>5, <2>7, <3>4, <3>5, <3>6, RowAppliedStep
    <2> HIDE DEF l, k, synced
    <2> QED BY <2>1, <2>5, <2>6, <2>7, MarkedTo
  <1>5. ASSUME NEW item \in p.items, PauseConflict(d, item) PROVE LossStep(d)
    <2> DEFINE plan == [p.plan EXCEPT !.conflicts = @ \ {item}]
               k == item.cid
    <2>1. /\ p.written = None /\ item \in p.plan.conflicts /\ UNCHANGED row
          /\ conflict' = [conflict EXCEPT ![d][k] = p.records[k]]
          /\ pass' = [pass EXCEPT ![d].plan.conflicts = @ \ {item}]
      BY <1>5 DEF PauseConflict, Applying, PauseRecord
    <2>2. k \in CloudId /\ p.records[k] # NoRecord
      BY <1>0, <2>1 DEF Known
    <2>3. plan \in Rest(p.plan)
      BY <1>0 DEF Rest, Pass
    <2>4. q = [p EXCEPT !.plan = plan]
      <3>1. pass' = [pass EXCEPT ![d] = [p EXCEPT !.plan = plan]]
        BY <1>0, <2>1 DEF Pass
      <3> QED BY <1>a, <3>1
    <2>5. Drifts(p, q) /\ q.events = p.events
      <3> HIDE DEF plan, p, q
      <3> QED BY <1>0, <2>3, <2>4, PlanDrifts
    <2>6. Found(confs, confs2, p)
      <3>1. confs2[k] = p.records[k] /\ \A x \in CloudId \ {k} : confs2[x] = confs[x]
        BY <2>1, <2>2 DEF SyncInv, TypeOK
      <3> QED BY <2>2, <3>1 DEF Found
    <2> QED BY <1>0, <2>1, <2>5, <2>6, DriftStep
  <1> QED BY <1>1, <1>2, <1>3, <1>4, <1>5

\* An export writes a record over one whose edits the row carries.
LEMMA ExportLasts ==
  ASSUME FineClock, SameClocks, SyncInv, SyncInv', VersionsIdentify, QuietInv, LossInv,
         NEW d \in Device, NEW item \in pass[d].items, Upload(d, item) \/ UpdateCloud(d, item)
  PROVE  LossStep(d)
  <1> DEFINE rows == row[d]  f == form[d]  evs == pass[d].events  confs == conflict[d]
             p == pass[d]  q == pass'[d]
  <1>0. /\ rows \in RowsOf /\ f \in Form \cup {None} /\ evs \in SUBSET Event
        /\ confs \in Conflicts /\ p \in Pass /\ Known(p) /\ p.pc = "applying"
        /\ remote \in Store /\ resolving[d] = None /\ deletions[d] = {}
        /\ Lasts(rows, f, evs, confs, p, None, remote, Decided)
    BY InPass DEF Upload, UpdateCloud, Applying
  <1>1. UNCHANGED <<row, form, deletions, conflict, resolving, used, abandoned>>
    BY DEF Upload, UpdateCloud
  <1>2. Decided' = Decided
    BY <1>1 DEF Decided
  <1>3. CASE Ends(d)
    BY <1>1, <1>3, EndsWritesNothing, StandstillLasts
  <1>4. CASE ~ Ends(d)
    <2>1. PICK k, w, plan : k \in CloudId /\ Exported(d, item, k, w, plan)
      BY <1>4, UploadExports, UpdateExports
    <2> DEFINE l == item.local
               val == rows[l].val
               r == [ver |-> NextVersion(k), upd |-> Clock(d), del |-> FALSE, val |-> val]
               p1 == [p EXCEPT !.plan = plan]
    <2>2. /\ w \in Written /\ w.local = l /\ w.cid = k /\ w.upd = Clock(d)
          /\ plan \in Rest(p.plan) /\ val \in Content
          /\ remote' = [remote EXCEPT ![k] = r] /\ Stamped
          /\ pass' = [pass EXCEPT ![d] = [p1 EXCEPT !.written = w]]
      BY <2>1 DEF Exported, Upsert
    <2>3. /\ rows[l] # NoRow /\ item.cid \in {NoId, k}
          /\ remote[k] = p.records[k] /\ (item \in p.plan.cloudUpdates \/ remote[k] = NoRecord)
      BY <2>1 DEF Exported
    <2>4. \A e \in remote[k].val : remote[k] # NoRecord => e \in val \/ e \in Decided
      <3> SUFFICES ASSUME item \in p.plan.cloudUpdates
                   PROVE  \A e \in remote[k].val : e \in val \/ e \in Decided
        BY <2>3
      <3>1. item.cid = k
        BY <1>0, <2>3 DEF Known
      <3>2. Carries(rows[l], k, p, remote, Decided)
        BY <1>0, <2>3, <3>1 DEF Lasts, PlanCarries
      <3> QED BY <2>3, <3>2 DEF Carries
    <2>5. /\ r \in Record /\ r.upd = Clock(d) /\ r.del = FALSE /\ r.val = val
          /\ remote[k] # NoRecord => r.ver > remote[k].ver
      <3>1. remote[k] # NoRecord => remote[k].ver \in Nat
        BY <1>0, <2>1 DEF Store, Record
      <3>2. NextVersion(k) \in Nat /\ (remote[k] # NoRecord => NextVersion(k) > remote[k].ver)
        BY <3>1 DEF NextVersion
      <3> QED BY <2>2, <3>2, ClockNat DEF Record
    <2> HIDE DEF r
    <2>6. remote'[k] = r
      BY <1>0, <2>1, <2>2 DEF Store
    <2>7. remote[k] # NoRecord => AllStay(remote[k].val, k, remote', Decided')
      BY <1>2, <2>1, <2>4, <2>5, <2>6 DEF AllStay, Stays
    <2>8. StoreNext
      BY <1>2, <2>1, <2>2, <2>5, <2>7, StoreWritten DEF LossInv
    <2>9. AllStay(val, k, remote', Decided')
      BY <2>1, <2>5, <2>6 DEF AllStay, Stays
    <2>10. Descends(Clock(d), val, k, remote', Decided')
      <3>1. 0 < r.upd
        BY <2>1, <2>5, <2>6, <2>8 DEF StoreNext, StoreSound
      <3> QED BY <2>5, <2>6, <3>1, ClockNat DEF Descends
    <2>11. Sent(rows, w.local, w.cid, w.upd, remote', Decided')
      BY <2>2, <2>9, <2>10 DEF Sent
    <2>12. /\ Drifts(p, p1) /\ p1 \in Pass /\ Known(p1) /\ p1.pc = "applying"
           /\ p1.events = evs /\ p1.plan = plan /\ p1.records = p.records
      <3>1. p1 \in Pass /\ Known(p1)
        BY <1>0, <2>2, PlanShrinks
      <3> HIDE DEF p1
      <3>2. p1 = [p EXCEPT !.plan = plan]
        BY DEF p1
      <3> HIDE DEF p
      <3> QED BY <1>0, <2>2, <3>1, <3>2, PlanDrifts DEF evs, p
    <2> DEFINE q1 == [p1 EXCEPT !.written = w]
    <2>13. /\ q1.pc = "applying" /\ q1.plan = p1.plan /\ q1.records = p1.records
           /\ q1.events = evs /\ q1.written = w
      <3> HIDE DEF p1, evs
      <3> QED BY <2>12 DEF Pass
    <2>14. q = q1
      BY <2>2 DEF SyncInv, TypeOK
    <2>15. remote' \in Store /\ Later(remote, Decided, remote', Decided')
      BY <2>8 DEF SyncInv, TypeOK, Store, StoreNext
    <2>16. Drifted(rows, rows, f, f, evs, evs, confs, confs, p, p1, None, None)
      BY <1>0, <2>12 DEF Drifted, Fewer, Found
    <2> HIDE DEF rows, f, evs, confs, p, q, p1, q1, l, val
    <2>17. Lasts(rows, f, evs, confs, p, None, remote', Decided')
      BY <1>0, <2>15, LaterLasts
    <2>18. Lasts(rows, f, evs, confs, p1, None, remote', Decided')
      BY <2>16, <2>17, DriftLasts
    <2>19. /\ SnapshotsPast(confs, q1, remote', Decided') /\ ItemsMatch(rows, q1)
           /\ PlanCarries(rows, q1, remote', Decided')
      BY <2>13, <2>18 DEF Lasts, SnapshotsPast, ItemsMatch, PlanCarries, Carries, BeforePlan
    <2>20. WritesSent(rows, q1, None, remote', Decided')
      BY <2>11, <2>13 DEF WritesSent
    <2>21. Lasts(rows, f, evs, confs, q1, None, remote', Decided')
      BY <2>18, <2>19, <2>20 DEF Lasts
    <2>22. LastsNext(d)
      <3>1. deletions'[d] \cup q.events = evs
        BY <1>0, <1>1, <2>13, <2>14
      <3> QED BY <1>0, <1>1, <2>14, <2>21, <3>1 DEF LastsNext, rows, f, confs, q
    <2> QED BY <1>1, <2>8, <2>22 DEF LossStep, RowsKept, NewEditsIn
  <1> QED BY <1>3, <1>4

\* Resolving a conflict while no pass is on its way: what goes is decided against.
LEMMA ResolveLasts ==
  ASSUME QuietUser, FineClock, SameClocks, SyncInv, SyncInv', VersionsIdentify, QuietInv, LossInv,
         NEW d \in Device, ResolveStart(d) \/ ResolveStep(d)
  PROVE  LossStep(d)
  <1> DEFINE rows == row[d]  rows2 == row'[d]  f == form[d]
             evs == deletions[d] \cup pass[d].events
             confs == conflict[d]  confs2 == conflict'[d]  p == pass[d]  u == resolving[d]
             u2 == resolving'[d]
  <1>0. /\ rows \in RowsOf /\ f \in Form \cup {None} /\ evs \in SUBSET Event
        /\ confs \in Conflicts /\ p \in Pass /\ Known(p) /\ u \in Resolution \cup {None}
        /\ remote \in Store /\ (u # None /\ u.upd # None => u.local \in LocalId)
        /\ Lasts(rows, f, evs, confs, p, u, remote, Decided)
    BY OneLasts
  <1>a. Drifts(p, p) /\ Fewer(rows, rows)
        /\ \A k \in CloudId : conflict' = [conflict EXCEPT ![d][k] = None] => Found(confs, confs2, p)
    BY DEF Drifts, Fewer, Found, SyncInv, TypeOK
  <1>b. u # None => p.pc = "idle"
    BY OneDevice DEF Stands, AtHand
  <1>c. p.pc = "idle" => p.plan = EmptyPlan /\ p.written = None
    BY <1>0 DEF Known
  <1>1. ASSUME NEW k \in CloudId, UseCloud(d, k) PROVE LossStep(d)
    <2> DEFINE r == confs[k]  new == RowOf(k, r)
               vals == {row[d][l].val : l \in Holding(d, k)}
               mine == IF r.del THEN {} ELSE r.val
               gone == (UNION vals) \ mine
    <2>1. /\ p.pc = "idle" /\ u = None /\ r \in Record
          /\ conflict' = [conflict EXCEPT ![d][k] = None]
          /\ UNCHANGED <<form, deletions, pass, resolving, remote, now, used>>
          /\ abandoned' = [abandoned EXCEPT ![d] = @ \cup gone]
      BY <1>1 DEF UseCloud, ForgetRecord, SyncInv, TypeOK
    <2>2. Decided \subseteq Decided' /\ gone \subseteq Decided'
      <3> HIDE DEF gone
      <3> QED BY <2>1, DecidedGrows
    <2>3. StoreNext
      BY <2>1, <2>2, StoreUntouched DEF LossInv, SyncInv, TypeOK
    <2>4. Past(r, k, remote, Decided')
      BY <1>0, <2>1, <2>3, LaterPast DEF Lasts, SnapshotsPast, StoreNext
    <2>5. /\ RowDescends(new, remote, Decided') /\ AllStay(new.val, new.cid, remote, Decided')
          /\ new # NoRow /\ new.cid = k /\ new.val = r.val
      <3>1. new # NoRow
        BY <2>1, RowOfRecord
      <3> QED BY <2>4, <3>1 DEF RowDescends, RowOf, Past, Descends
    <2>6. Lasts(rows, f, evs, confs2, p, None, remote, Decided')
      <3>1. Later(remote, Decided, remote, Decided') /\ Found(confs, confs2, p)
        BY <1>a, <2>1, <2>3 DEF StoreNext
      <3>2. Drifted(rows, rows, f, f, evs, evs, confs, confs2, p, p, None, None)
        BY <1>0, <1>a, <3>1 DEF Drifted
      <3> HIDE DEF rows, f, evs, confs, confs2, p
      <3>3. Lasts(rows, f, evs, confs, p, None, remote, Decided')
        BY <1>0, <2>1, <3>1, LaterLasts
      <3> QED BY <3>2, <3>3, DriftLasts
    <2>7. SUFFICES /\ Lasts(rows2, f, evs, confs2, p, None, remote, Decided')
                   /\ RowsKept(rows, rows2, remote, Decided')
      BY <2>1, <2>3, <2>7 DEF LossStep, LastsNext, NewEditsIn
    <2>8. \A l \in Holding(d, k) : /\ l \in LocalId /\ rows[l] # NoRow /\ rows[l].cid = k
                                   /\ \A e \in rows[l].val : e \in gone \/ (~ r.del /\ e \in r.val)
      <3>1. ASSUME NEW l \in Holding(d, k), NEW e \in rows[l].val
            PROVE  e \in gone \/ (~ r.del /\ e \in r.val)
        <4>1. rows[l].val \in vals
          OBVIOUS
        <4> HIDE DEF vals
        <4>2. e \in UNION vals
          BY <4>1
        <4>3. e \in mine => ~ r.del /\ e \in r.val
          BY Zenon
        <4> HIDE DEF mine, r
        <4> QED BY <4>2, <4>3
      <3>2. \A l \in Holding(d, k) : l \in LocalId /\ rows[l] # NoRow /\ rows[l].cid = k
        BY DEF Holding, Rows
      <3> HIDE DEF gone
      <3> QED BY <3>1, <3>2
    <2> HIDE DEF gone
    <2>9. CASE UNCHANGED row
      BY <2>6, <2>9 DEF RowsKept
    <2>10. ASSUME r.del, NEW l \in Holding(d, k), row' = [row EXCEPT ![d][l] = NoRow]
           PROVE  /\ Lasts(rows2, f, evs, confs2, p, None, remote, Decided')
                  /\ RowsKept(rows, rows2, remote, Decided')
      <3>1. rows2[l] = NoRow /\ \A m \in LocalId \ {l} : rows2[m] = rows[m]
        BY <1>0, <2>8, <2>10 DEF SyncInv, TypeOK
      <3>2. RowsKept(rows, rows2, remote, Decided')
        BY <2>2, <2>8, <2>10, <3>1 DEF RowsKept, Stays
      <3>3. Drifted(rows, rows2, f, f, evs, evs, confs2, confs2, p, p, None, None)
        BY <1>0, <1>a, <3>1 DEF Drifted, Fewer, Found
      <3> HIDE DEF rows, rows2, f, evs, confs2, p
      <3> QED BY <2>6, <3>2, <3>3, DriftLasts
    <2>11. ASSUME NEW l \in LocalId, row' = [row EXCEPT ![d][l] = new],
                  rows[l] # NoRow => l \in Holding(d, k), ~ r.del
           PROVE  /\ Lasts(rows2, f, evs, confs2, p, None, remote, Decided')
                  /\ RowsKept(rows, rows2, remote, Decided')
      <3>1. rows2 = [rows EXCEPT ![l] = new]
        BY <2>11 DEF SyncInv, TypeOK
      <3>2. rows2[l] = new /\ \A m \in LocalId \ {l} : rows2[m] = rows[m]
        BY <1>0, <3>1 DEF RowsOf
      <3>3. RowsKept(rows, rows2, remote, Decided')
        BY <2>2, <2>5, <2>8, <2>11, <3>2 DEF RowsKept, Stays
      <3>4. p.pc = "idle" /\ p.plan = EmptyPlan /\ p.written = None
        BY <1>c, <2>1
      <3>5. f # None /\ f.local = l =>
               \A e \in new.val : e \in f.val \/ Stays(e, new.cid, remote, Decided')
        BY <2>5 DEF AllStay
      <3> HIDE DEF rows, rows2, f, evs, confs2, p, new
      <3>6. Lasts(rows2, f, evs, confs2, p, None, remote, Decided')
        BY <1>0, <2>5, <2>6, <3>1, <3>4, <3>5, RowReplaced
      <3> QED BY <3>3, <3>6
    <2>12. CASE r.del
      BY <1>1, <2>9, <2>10, <2>12 DEF UseCloud
    <2>13. CASE ~ r.del
      <3>1. PICK l \in IF Holding(d, k) = {} THEN FreshLocal(d) ELSE Holding(d, k) :
                row' = [row EXCEPT ![d][l] = RowOf(k, r)]
        BY <1>1, <2>13 DEF UseCloud
      <3>2. l \in LocalId /\ (rows[l] # NoRow => l \in Holding(d, k))
        BY <3>1 DEF FreshLocal, Holding, Rows
      <3> QED BY <2>11, <2>13, <3>1, <3>2
    <2> QED BY <2>12, <2>13
  <1>2. ASSUME NEW k \in CloudId, UseLocalReads(d, k) PROVE LossStep(d)
    <2> DEFINE gone == conflict[d][k].val
                         \cup (IF remote[k] = NoRecord THEN {} ELSE remote[k].val)
    <2>1. /\ p.pc = "idle" /\ u = None /\ confs[k] # None
          /\ UNCHANGED <<row, form, deletions, conflict, pass, remote, now, used>>
      BY <1>2 DEF UseLocalReads
    <2>2. abandoned' = [abandoned EXCEPT ![d] = @ \cup gone]
      <3>1. abandoned' = [abandoned EXCEPT ![d] =
                @ \cup conflict[d][k].val \cup (IF remote[k] = NoRecord THEN {} ELSE remote[k].val)]
        BY <1>2 DEF UseLocalReads
      <3>2. \A S, T, U : (S \cup T) \cup U = S \cup (T \cup U)
        OBVIOUS
      <3> QED BY <3>1, <3>2, Zenon
    <2>3. remote[k] # NoRecord /\ remote[k] \in Record
      BY <1>0, <2>1 DEF VersionsIdentify, Identified, Store
    <2>4. Decided \subseteq Decided' /\ remote[k].val \subseteq Decided'
      <3>1. remote[k].val \subseteq gone
        BY <2>3
      <3> HIDE DEF gone
      <3> QED BY <2>2, <3>1, DecidedGrows
    <2>5. StoreNext
      BY <2>1, <2>4, StoreUntouched DEF LossInv, SyncInv, TypeOK
    <2>6. u2.cid = k /\ u2.upd = None /\ u2.expected = remote[k].ver
      <3>1. PICK l : resolving' = [resolving EXCEPT ![d] =
                        [cid |-> k, local |-> l, upd |-> None,
                         expected |-> IF remote[k] = NoRecord THEN conflict[d][k].ver
                                      ELSE remote[k].ver]]
        BY <1>2 DEF UseLocalReads
      <3> QED BY <2>3, <3>1 DEF SyncInv, TypeOK
    <2>7. Lasts(rows, f, evs, confs, p, None, remote, Decided')
      <3>1. Later(remote, Decided, remote, Decided')
        BY <2>1, <2>5 DEF StoreNext
      <3> HIDE DEF rows, f, evs, confs, p
      <3> QED BY <1>0, <2>1, <3>1, LaterLasts
    <2>8. WritesSent(rows, p, u2, remote, Decided')
      BY <1>c, <2>1, <2>3, <2>4, <2>6 DEF WritesSent, Record
    <2>9. Lasts(rows, f, evs, confs, p, u2, remote, Decided')
      BY <2>7, <2>8 DEF Lasts
    <2> QED BY <2>1, <2>5, <2>9 DEF LossStep, LastsNext, RowsKept, NewEditsIn
  <1>3. CASE UseLocalWrites(d)
    <2> DEFINE k == u.cid
    <2>1. /\ u # None /\ u \in Resolution /\ u.upd = None /\ k \in CloudId
          /\ Accepts(k, u.expected) /\ p.pc = "idle"
          /\ UNCHANGED <<row, form, deletions, pass, used, abandoned>> /\ Decided' = Decided
      BY <1>0, <1>3, <1>b DEF UseLocalWrites, Resolution, Decided
    <2>2. /\ remote[k] # NoRecord /\ remote[k] \in Record /\ remote[k].ver = u.expected
          /\ remote[k].ver \in Nat
      BY <1>0, <2>1 DEF Accepts, Resolution, Store, Record
    <2>3. remote[k].val \subseteq Decided
      BY <1>0, <2>1, <2>2 DEF Lasts, WritesSent
    <2>4. AllStay(remote[k].val, k, remote', Decided')
      BY <2>1, <2>3 DEF AllStay, Stays
    <2>5. remote' \in Store
      BY DEF SyncInv, TypeOK, Store
    <2>6. CASE u.local = None
      <3> DEFINE r == [ver |-> remote[k].ver + 1, upd |-> Clock(d), del |-> TRUE,
                       val |-> remote[k].val]
      <3>1. /\ Tombstone(d, k) /\ u2 = None /\ conflict' = [conflict EXCEPT ![d][k] = None]
        BY <1>3, <2>6 DEF UseLocalWrites, ForgetRecord, SyncInv, TypeOK
      <3>2. /\ r \in Record /\ r.ver > remote[k].ver /\ r.upd = Clock(d)
            /\ r.del /\ r.val = remote[k].val
        BY <2>2, ClockNat DEF Record
      <3>3. remote' = [remote EXCEPT ![k] = r] /\ Stamped
        BY <3>1 DEF Tombstone
      <3> HIDE DEF r, k
      <3>4. StoreNext
        BY <2>1, <2>3, <2>4, <3>2, <3>3, StoreWritten DEF LossInv
      <3>5. Drifted(rows, rows, f, f, evs, evs, confs, confs2, p, p, u, None)
        BY <1>0, <1>a, <2>1, <3>1 DEF Drifted
      <3> HIDE DEF rows, f, evs, confs, confs2, p, u
      <3>6. Lasts(rows, f, evs, confs, p, u, remote', Decided')
        BY <1>0, <2>5, <3>4, LaterLasts DEF StoreNext
      <3>7. Lasts(rows, f, evs, confs2, p, None, remote', Decided')
        BY <3>5, <3>6, DriftLasts
      <3> QED BY <2>1, <3>1, <3>4, <3>7
              DEF LossStep, LastsNext, RowsKept, NewEditsIn, rows, f, evs, confs2, p
    <2>7. CASE u.local # None
      <3> DEFINE l == u.local  val == rows[l].val
                 r == [ver |-> remote[k].ver + 1, upd |-> Clock(d), del |-> FALSE, val |-> val]
      <3>1. /\ Upsert(d, k, val) /\ u2 = [u EXCEPT !.upd = Clock(d)] /\ UNCHANGED conflict
            /\ rows[l] # NoRow /\ rows[l] \in Row
        BY <1>0, <1>3, <2>7 DEF UseLocalWrites, Rows, RowsOf, SyncInv, TypeOK
      <3>2. u2.cid = k /\ u2.local = l /\ u2.upd = Clock(d) /\ u2.upd # None
        BY <2>1, <3>1, ClockNat DEF Resolution
      <3>3. r \in Record /\ r.ver > remote[k].ver /\ r.upd = Clock(d) /\ r.del = FALSE /\ r.val = val
        BY <2>2, <3>1, ClockNat DEF Record, Row
      <3>4. remote' = [remote EXCEPT ![k] = r] /\ Stamped
        BY <2>2, <3>1 DEF Upsert, NextVersion
      <3> HIDE DEF r
      <3>5. remote'[k] = r
        BY <1>0, <2>1, <3>4 DEF Store
      <3> HIDE DEF k
      <3>6. StoreNext
        BY <2>1, <2>4, <3>3, <3>4, StoreWritten DEF LossInv
      <3>7. AllStay(val, k, remote', Decided')
        BY <2>1, <3>3, <3>5 DEF AllStay, Stays
      <3>8. Descends(Clock(d), val, k, remote', Decided')
        <4>1. 0 < r.upd /\ r # NoRecord
          BY <2>1, <3>3, <3>5, <3>6 DEF StoreNext, StoreSound
        <4> QED BY <3>3, <3>5, <4>1, ClockNat DEF Descends
      <3> HIDE DEF rows, f, evs, confs, confs2, p, u, u2
      <3>9. Lasts(rows, f, evs, confs, p, u, remote', Decided')
        BY <1>0, <2>5, <3>6, LaterLasts DEF StoreNext
      <3>10. WritesSent(rows, p, u2, remote', Decided')
        BY <1>c, <2>1, <3>2, <3>7, <3>8 DEF WritesSent, Sent
      <3>11. Lasts(rows, f, evs, confs, p, u2, remote', Decided')
        BY <3>9, <3>10 DEF Lasts
      <3> QED BY <2>1, <3>1, <3>6, <3>11
              DEF LossStep, LastsNext, RowsKept, NewEditsIn, rows, f, evs, confs, p, u2
    <2> QED BY <2>6, <2>7
  <1>4. CASE UseLocalMarks(d)
    <2> DEFINE l == u.local  k == u.cid
               r == [cid |-> k, upd |-> rows[l].upd, base |-> u.upd, val |-> rows[l].val]
    <2>1. /\ u # None /\ u.upd # None /\ u \in Resolution /\ u2 = None /\ p.pc = "idle"
          /\ conflict' = [conflict EXCEPT ![d][k] = None]
          /\ row' = MarkedRows(d, l, k, u.upd)
          /\ UNCHANGED <<form, deletions, pass, remote, now, used, abandoned>>
          /\ Decided' = Decided
      BY <1>0, <1>4, <1>b DEF UseLocalMarks, ForgetRecord, SyncInv, TypeOK, Decided
    <2>2. l \in LocalId /\ k \in CloudId /\ u.upd \in Nat
      BY <1>0, <2>1 DEF Resolution
    <2>3. Found(confs, confs2, p)
      BY <1>a, <2>1, <2>2
    <2>4. CASE UNCHANGED row
      BY <1>a, <2>1, <2>3, <2>4, DriftStep
    <2>5. CASE rows[l] # NoRow /\ rows[l] \in Row /\ rows2 = [rows EXCEPT ![l] = r]
      <3>1. StoreNext
        BY <2>1, StoreUntouched DEF LossInv, SyncInv, TypeOK
      <3>2. /\ Descends(u.upd, rows[l].val, k, remote, Decided)
            /\ AllStay(rows[l].val, k, remote, Decided)
        BY <1>0, <2>1, <2>5 DEF Lasts, WritesSent, Sent
      <3>3. /\ RowDescends(r, remote, Decided) /\ r.cid = k /\ r.val = rows[l].val
            /\ r # NoRow
        <4>1. r \in Row
          BY <2>2, <2>5 DEF Row
        <4> QED BY <2>2, <3>2, <4>1 DEF RowDescends
      <3>4. p.plan = EmptyPlan /\ p.written = None
        BY <1>c, <2>1
      <3> HIDE DEF r
      <3>5. RowsKept(rows, rows2, remote, Decided)
        BY <1>0, <2>2, <2>5, <3>3 DEF RowsKept, RowsOf
      <3>6. f # None /\ f.local = l =>
               \A e \in r.val : e \in f.val \/ Stays(e, r.cid, remote, Decided)
        BY <3>2, <3>3 DEF AllStay
      <3>7. Drifted(rows, rows, f, f, evs, evs, confs, confs2, p, p, u, None)
        BY <1>0, <1>a, <2>3 DEF Drifted
      <3> HIDE DEF rows, rows2, f, evs, confs, confs2, p, u, l, k
      <3>8. Lasts(rows, f, evs, confs2, p, None, remote, Decided)
        BY <1>0, <3>7, DriftLasts
      <3>9. Lasts(rows2, f, evs, confs2, p, None, remote, Decided)
        BY <1>0, <2>1, <2>2, <2>5, <3>3, <3>4, <3>6, <3>8, RowReplaced
      <3> QED BY <2>1, <3>1, <3>5, <3>9
              DEF LossStep, LastsNext, NewEditsIn, rows, rows2, f, evs, confs2, p
    <2> HIDE DEF l, k
    <2> QED BY <2>1, <2>2, <2>4, <2>5, MarkedTo DEF rows
  <1>5. CASE UseLocalFails(d)
    BY <1>5, StandstillLasts
  <1> QED BY <1>1, <1>2, <1>3, <1>4, <1>5 DEF ResolveStart, ResolveStep

\* What every step of a device does.
LEMMA DeviceLasts ==
  ASSUME QuietUser, FreshList, FineClock, SameClocks, SyncInv, SyncInv', VersionsIdentify,
         QuietInv, LossInv, NEW d \in Device,
         \/ UserStep(d) \/ BeginPass(d) \/ PassStep(d)
         \/ ResolveStart(d) \/ ResolveStep(d) \/ Failure(d)
  PROVE  LossStep(d)
  <1>1. CASE UserStep(d)
    BY <1>1, UserLasts
  <1>2. CASE BeginPass(d) \/ Failure(d) \/ ReadPaused(d) \/ EndPass(d)
    BY <1>2, StandstillLasts
  <1>3. CASE ListItems(d) \/ ListRecords(d) \/ MakePlan(d)
    BY <1>3, ReadingLasts
  <1>4. CASE \/ \E ev \in pass[d].events :
                   ForgetDeleted(d, ev) \/ PauseDeleted(d, ev) \/ PushDelete(d, ev)
             \/ \E k \in CloudId : ApplyTombstone(d, k)
    BY <1>4, DeletingLasts
  <1>5. CASE \/ MarkWritten(d)
             \/ \E k \in CloudId : Download(d, k)
             \/ \E item \in pass[d].items :
                   UpdateLocal(d, item) \/ MarkSynced(d, item) \/ PauseConflict(d, item)
    BY <1>5, ApplyingLasts
  <1>6. CASE \E item \in pass[d].items : Upload(d, item) \/ UpdateCloud(d, item)
    BY <1>6, ExportLasts
  <1>7. CASE ResolveStart(d) \/ ResolveStep(d)
    BY <1>7, ResolveLasts
  <1> QED BY <1>1, <1>2, <1>3, <1>4, <1>5, <1>6, <1>7 DEF PassStep

\* Every step keeps the invariant.
LEMMA LossNext ==
  ASSUME QuietUser, FreshList, FineClock, SameClocks, SyncInv, VersionsIdentify,
         QuietInv, LossInv, [Next]_vars
  PROVE  LossInv'
  <1>1. SyncInv'
    BY NextGood DEF GoodStep
  <1>2. Domains
    BY DEF Domains, SyncInv, TypeOK, RowsOf, Conflicts
  <1>3. CASE UNCHANGED vars \/ Tick
    <2>1. UNCHANGED vars
      BY <1>3 DEF Tick
    <2> QED BY <2>1 DEF vars, LossInv, StoreSound, EditsStay, Decided, Clock
  <1>4. ASSUME NEW d \in Device,
               \/ UserStep(d) \/ BeginPass(d) \/ PassStep(d)
               \/ ResolveStart(d) \/ ResolveStep(d) \/ Failure(d)
        PROVE  LossInv'
    <2>1. LossStep(d)
      BY <1>1, <1>4, DeviceLasts
    <2>2. Alone(d)
      BY <1>2, <1>4, UserAlone, PassAlone, ResolveAlone
    <2>3. ASSUME NEW e \in Device \ {d} PROVE LastsNext(e)
      <3> DEFINE rows == row[e]  f == form[e]  evs == deletions[e] \cup pass[e].events
                 confs == conflict[e]  p == pass[e]  u == resolving[e]
      <3>1. /\ rows \in RowsOf /\ f \in Form \cup {None} /\ evs \in SUBSET Event
            /\ confs \in Conflicts /\ p \in Pass /\ Known(p) /\ u \in Resolution \cup {None}
            /\ remote \in Store /\ Lasts(rows, f, evs, confs, p, u, remote, Decided)
        BY OneLasts
      <3>2. remote' \in Store /\ Later(remote, Decided, remote', Decided')
        BY <1>1, <2>1 DEF SyncInv, TypeOK, Store, LossStep, StoreNext
      <3> HIDE DEF rows, f, evs, confs, p, u
      <3>3. Lasts(rows, f, evs, confs, p, u, remote', Decided')
        BY <3>1, <3>2, LaterLasts
      <3> QED BY <2>2, <3>3 DEF LastsNext, Alone, rows, f, evs, confs, p, u
    <2>4. ASSUME NEW e \in 1 .. used'.edits
          PROVE  \/ \E k \in CloudId : Stays(e, k, remote', Decided')
                 \/ e \in Decided'
                 \/ \E x \in Device, l \in LocalId : row'[x][l] # NoRow /\ e \in row'[x][l].val
      <3>1. CASE e \notin 1 .. used.edits
        BY <2>1, <3>1 DEF LossStep, NewEditsIn
      <3>2. CASE \E k \in CloudId : Stays(e, k, remote, Decided)
        BY <2>1, <3>2, LaterStays DEF LossStep, StoreNext
      <3>3. CASE e \in Decided
        BY <2>1, <3>3 DEF LossStep, StoreNext, Later
      <3>4. ASSUME NEW x \in Device, NEW l \in LocalId, row[x][l] # NoRow, e \in row[x][l].val
            PROVE  \/ \E k \in CloudId : Stays(e, k, remote', Decided')
                   \/ e \in Decided'
                   \/ row'[x][l] # NoRow /\ e \in row'[x][l].val
        <4>1. CASE x = d
          BY <2>1, <3>4, <4>1 DEF LossStep, RowsKept, Stays
        <4>2. CASE x # d
          BY <2>2, <3>4, <4>2 DEF Alone
        <4> QED BY <4>1, <4>2
      <3> QED BY <3>1, <3>2, <3>3, <3>4 DEF LossInv, EditsStay
    <2>5. EditsStay'
      BY <2>4 DEF EditsStay
    <2>6. StoreSound' /\ \A e \in Device : LastsNext(e)
      BY <2>1, <2>3 DEF LossStep, StoreNext
    <2> QED BY <2>5, <2>6 DEF LossInv, LastsNext
  <1> QED BY <1>3, <1>4 DEF Next

LEMMA LossInit == Init => LossInv
  <1> SUFFICES ASSUME Init PROVE LossInv
    OBVIOUS
  <1>1. StoreSound /\ EditsStay
    BY DEF Init, StoreSound, EditsStay
  <1>2. ASSUME NEW d \in Device
        PROVE  Lasts(row[d], form[d], deletions[d] \cup pass[d].events, conflict[d], pass[d],
                     resolving[d], remote, Decided)
    <2>1. /\ \A l \in LocalId : row[d][l] = NoRow
          /\ form[d] = None /\ resolving[d] = None /\ pass[d] = IdlePass
          /\ deletions[d] \cup pass[d].events = {}
          /\ \A k \in CloudId : conflict[d][k] = None
      BY DEF Init, IdlePass
    <2>2. /\ IdlePass.pc = "idle" /\ IdlePass.plan = EmptyPlan /\ IdlePass.written = None
          /\ \A k \in CloudId : IdlePass.records[k] = NoRecord
      BY DEF IdlePass
    <2>3. RowsDescend(row[d], remote, Decided) /\ FormDescends(row[d], None, remote, Decided)
          /\ EventsDescend({}, remote, Decided)
      BY <2>1 DEF RowsDescend, FormDescends, EventsDescend
    <2>4. SnapshotsPast(conflict[d], IdlePass, remote, Decided) /\ ItemsMatch(row[d], IdlePass)
      BY <2>1, <2>2 DEF SnapshotsPast, ItemsMatch, BeforePlan
    <2>5. PlanCarries(row[d], IdlePass, remote, Decided)
          /\ WritesSent(row[d], IdlePass, None, remote, Decided)
      BY <2>2 DEF PlanCarries, WritesSent, EmptyPlan
    <2> QED BY <2>1, <2>3, <2>4, <2>5 DEF Lasts
  <1> QED BY <1>1, <1>2 DEF LossInv

\* The edits that stay, or are in a row, can be found.
LEMMA StayingIsHeld == LossInv => NoSilentLoss
  <1> SUFFICES ASSUME LossInv, NEW e \in 1 .. used.edits, e \notin Decided
               PROVE  e \in Held
    BY DEF NoSilentLoss, Decided
  <1> DEFINE live == {x \in CloudId : remote[x] # NoRecord /\ ~ remote[x].del}
             inStore == UNION {remote[k].val : k \in live}
             inRows(d) == UNION {row[d][l].val : l \in Rows(d)}
             inAll == UNION {inRows(d) : d \in Device}
  <1>1. inStore \subseteq Held /\ inAll \subseteq Held
    BY DEF Held
  <1>2. ASSUME NEW k \in CloudId, Stays(e, k, remote, Decided) PROVE e \in inStore
    BY <1>2 DEF Stays
  <1>3. ASSUME NEW d \in Device, NEW l \in LocalId, row[d][l] # NoRow, e \in row[d][l].val
        PROVE  e \in inAll
    <2>1. e \in inRows(d)
      BY <1>3 DEF Rows
    <2> HIDE DEF inRows
    <2> QED BY <2>1
  <1> HIDE DEF inStore, inAll
  <1> QED BY <1>1, <1>2, <1>3 DEF LossInv, EditsStay

\* While users keep still during passes and see their rows as they are, clocks agree
\* and every write has a second of its own: an edit that was once in a live record
\* stays in it or is decided against, and what a row, a form or a deletion is based
\* on is not newer than the record.
THEOREM EditsLast == QuietUser /\ FreshList /\ FineClock /\ SameClocks /\ Spec => []LossInv
  <1> SUFFICES ASSUME QuietUser, FreshList, FineClock, SameClocks PROVE Spec => []LossInv
    OBVIOUS
  <1>1. Init => LossInv
    BY LossInit
  <1>2. LossInv /\ QuietInv /\ SyncInv /\ VersionsIdentify /\ [Next]_vars => LossInv'
    BY LossNext
  <1> QED BY <1>1, <1>2, QuietPasses, SyncTypes, VersionsAreSound, PTL DEF Spec

\* NoSilentLoss, for every number of devices, rows and records: an edit some user
\* saved is in a row, a live record or the snapshot of a conflict, or a user decided
\* against it.
THEOREM NothingIsLost ==
    QuietUser /\ FreshList /\ FineClock /\ SameClocks /\ Spec => []NoSilentLoss
  <1>1. LossInv => NoSilentLoss
    BY StayingIsHeld
  <1> QED BY <1>1, EditsLast, PTL
=============================================================================
