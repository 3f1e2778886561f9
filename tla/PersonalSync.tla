---------------------------- MODULE PersonalSync ----------------------------
(***************************************************************************)
(* Personal sync of connection records between devices that share one sync *)
(* store: the pass of PersonalSyncWorker (worker.rs) step by step, the     *)
(* local repositories it reads and writes (local_source.rs), the conflict  *)
(* table (conflict_sink.rs) and the resolution of a conflict               *)
(* (conflict_resolver.rs), interleaved with the edits, deletions and open  *)
(* forms of the users and with passes that fail half-way.                  *)
(*                                                                         *)
(* A content is the set of the user edits it carries: saving a form adds a *)
(* new edit to the content the form was opened with.  Two contents are     *)
(* equal exactly when the code's checksums are.                            *)
(*                                                                         *)
(* The store is what the trait PersonalSyncStore promises: atomic upsert   *)
(* and tombstone with an expected version, and an exclusive lock.          *)
(***************************************************************************)
EXTENDS FiniteSets, Integers, PersonalSyncPlanner

CONSTANTS
    Device,       \* running instances that share the sync store
    LocalId,      \* local row ids of one device (a bound)
    NoRow, NoDevice, None,
    Referenced,   \* rows whose deletion the repository refuses (in use)
    Skew,         \* by how many seconds each device's clock is ahead
    FineClock,    \* every write falls into a second of its own
    QuietUser,    \* the user acts only while no pass or resolution runs there
    FreshList,    \* the user acts on the rows, not on the list loaded earlier
    LongForms,    \* a form may stay open while a pass or resolution runs there
    Contended,    \* a pass may be tried while another device holds the lock
    MaxEdits, MaxDeletes, MaxFaults, MaxTime    \* bounds

ASSUME SyncAssumption ==
    /\ NoDevice \notin Device
    /\ Referenced \subseteq LocalId
    /\ Skew \in [Device -> Nat]
    /\ {FineClock, QuietUser, FreshList, LongForms, Contended} \subseteq BOOLEAN
    /\ {MaxEdits, MaxDeletes, MaxFaults, MaxTime} \subseteq Nat

VARIABLES
    row,        \* the connections table of each device
    shown,      \* the list of connections on screen, when it is not fresh
    form,       \* the edit form open on each device
    deletions,  \* LocalDeleted events queued on each device
    conflict,   \* the conflict table: the remote snapshot of each paused record
    pass,       \* the pass running on each device
    resolving,  \* a "use local version" resolution under way
    remote,     \* the records of the store
    lock,       \* the device holding the store lock
    now,        \* the time, in seconds
    used,       \* how much of each bound is used up
    abandoned   \* edits each device's user deleted or decided against (history)

vars == <<row, shown, form, deletions, conflict, pass, resolving, remote, lock,
          now, used, abandoned>>

Edit == 1 .. MaxEdits
Content == SUBSET Edit

Record == [ver : Nat, upd : Nat, del : BOOLEAN, val : Content]

Row == [cid : CloudId \cup {NoId}, upd : Nat, base : Nat, val : Content]

Form == [local : LocalId, cid : CloudId \cup {NoId}, base : Nat, val : Content]

Event == [cid : CloudId, base : Nat]

Item == [local : LocalId, cid : CloudId \cup {NoId}, upd : Nat, base : Nat, val : Content]

Pass ==
    [pc : {"idle", "listing", "reading", "pausing", "deleting", "applying"},
     events : SUBSET Event, items : SUBSET Item,
     records : [CloudId -> Record \cup {NoRecord}],
     paused : SUBSET CloudId, deleted : SUBSET CloudId, tombstones : SUBSET CloudId,
     plan : [uploads : SUBSET Item, cloudUpdates : SUBSET Item,
             localUpdates : SUBSET Item, downloads : SUBSET CloudId,
             marks : SUBSET Item, conflicts : SUBSET Item],
     written : [local : LocalId, cid : CloudId, upd : Nat] \cup {None}]

Resolution ==
    [cid : CloudId, local : LocalId \cup {None}, upd : Nat \cup {None}, expected : Nat]

ASSUME MarkersAssumption ==
    /\ NoRow \notin Row
    /\ NoRecord \notin Record
    /\ None \notin Record /\ None \notin Nat

IdlePass ==
    [pc |-> "idle", events |-> {}, items |-> {},
     records |-> [k \in CloudId |-> NoRecord], paused |-> {}, deleted |-> {},
     tombstones |-> {}, plan |-> EmptyPlan, written |-> None]

Init ==
    /\ row = [d \in Device |-> [l \in LocalId |-> NoRow]]
    /\ shown = row
    /\ form = [d \in Device |-> None]
    /\ deletions = [d \in Device |-> {}]
    /\ conflict = [d \in Device |-> [k \in CloudId |-> None]]
    /\ pass = [d \in Device |-> IdlePass]
    /\ resolving = [d \in Device |-> None]
    /\ remote = [k \in CloudId |-> NoRecord]
    /\ lock = NoDevice
    /\ now = 1
    /\ used = [edits |-> 0, deletes |-> 0, faults |-> 0]
    /\ abandoned = [d \in Device |-> {}]

-----------------------------------------------------------------------------
(***************************************************************************)
(* Time.  Clock(d) is the second that device d stamps on what it writes.   *)
(***************************************************************************)
Clock(d) == now + Skew[d]

Stamped == now' = IF FineClock THEN now + 1 ELSE now

Tick ==
    /\ ~ FineClock
    /\ now < MaxTime
    /\ now' = now + 1
    /\ UNCHANGED <<row, shown, form, deletions, conflict, pass, resolving, remote,
                   lock, used, abandoned>>

(***************************************************************************)
(* The local repositories of device d.                                     *)
(***************************************************************************)
Rows(d) == {l \in LocalId : row[d][l] # NoRow}

\* What list_items reports of a row.
Snapshot(d, l) ==
    [local |-> l, cid |-> row[d][l].cid, upd |-> row[d][l].upd,
     base |-> row[d][l].base, val |-> row[d][l].val]

Items(d) == {Snapshot(d, l) : l \in Rows(d)}

\* What the user of device d sees: HomePage keeps a list of its own, which a pass
\* does not reload.  (The vault reads a credential's row itself.)
Listed(d) == IF FreshList THEN row[d] ELSE shown[d]

\* load_connections, after each event of a connection this device's user changed.
Reload(d, rows) ==
    shown' = IF FreshList THEN shown ELSE [shown EXCEPT ![d] = rows]

\* AUTOINCREMENT ids are never reused; here: not while anything still names one.
FreshLocal(d) ==
    {l \in LocalId :
        /\ l \notin Rows(d)
        /\ shown[d][l] = NoRow
        /\ \A item \in pass[d].items : item.local # l
        /\ form[d] # None => form[d].local # l
        /\ resolving[d] # None => resolving[d].local # l}

\* A cloud id nobody has used: prepare_sync_data_upload draws a new UUID.
FreshCloud ==
    {k \in CloudId :
        /\ remote[k] = NoRecord
        /\ \A d \in Device : \A l \in Rows(d) : row[d][l].cid # k}

\* The id a row is exported under: its own, or a new one (preserve_cloud_id).
ExportId(d, l) == IF row[d][l].cid = NoId THEN FreshCloud ELSE {row[d][l].cid}

\* Bound: a row that has no cloud id yet is created, or remembered by a form,
\* only while CloudId has an id left for it and one for each failure to come.
RoomForRecord ==
    LET nameless == {x \in Device \X LocalId : /\ row[x[1]][x[2]] # NoRow
                                              /\ row[x[1]][x[2]].cid = NoId}
        forms == {d \in Device : form[d] # None /\ form[d].cid = NoId} IN
    Cardinality(nameless) + Cardinality(forms) + MaxFaults - used.faults
        < Cardinality(FreshCloud)

\* A row that holds exactly the content of record r.
RowOf(k, r) == [cid |-> k, upd |-> r.upd, base |-> r.upd, val |-> r.val]

\* mark_synced: an UPDATE that touches no row once the row is gone.
MarkedRows(d, l, k, synced) ==
    IF l \in Rows(d)
    THEN [row EXCEPT ![d][l].cid = k, ![d][l].base = synced]
    ELSE row

(***************************************************************************)
(* The conflict table of device d, by cloud id.                            *)
(***************************************************************************)
PausedRecords(d) == {k \in CloudId : conflict[d][k] # None}

PauseRecord(d, k, r) == conflict' = [conflict EXCEPT ![d][k] = r]

ForgetRecord(d, k) == conflict' = [conflict EXCEPT ![d][k] = None]

(***************************************************************************)
(* The store.  expected is a version, or None for "no check".              *)
(***************************************************************************)
\* Faulty variant: the expected version is not compared.
AcceptsAnyVersion(k, expected) == TRUE

Accepts(k, expected) ==
    expected = None \/ (remote[k] # NoRecord /\ remote[k].ver = expected)

\* Faulty variant: overwriting a record keeps its version.
SameVersion(k) == IF remote[k] = NoRecord THEN 1 ELSE remote[k].ver

NextVersion(k) == IF remote[k] = NoRecord THEN 1 ELSE remote[k].ver + 1

Upsert(d, k, val) ==
    /\ remote' = [remote EXCEPT ![k] =
                    [ver |-> NextVersion(k), upd |-> Clock(d), del |-> FALSE, val |-> val]]
    /\ Stamped

Tombstone(d, k) ==
    /\ remote' = [remote EXCEPT ![k] =
                    [ver |-> @.ver + 1, upd |-> Clock(d), del |-> TRUE, val |-> @.val]]
    /\ Stamped

-----------------------------------------------------------------------------
(***************************************************************************)
(* The user of device d.                                                   *)
(***************************************************************************)
UserMayAct(d) == QuietUser => (pass[d].pc = "idle" /\ resolving[d] = None)

\* What must be over before a pass or a resolution starts on d.
FormsAway(d) == LongForms \/ form[d] = None

NewEdit == used.edits + 1

CreateRow(d, l) ==
    /\ UserMayAct(d)
    /\ l \in FreshLocal(d)
    /\ used.edits < MaxEdits
    /\ RoomForRecord
    /\ row' = [row EXCEPT ![d][l] =
                 [cid |-> NoId, upd |-> Clock(d), base |-> 0, val |-> {NewEdit}]]
    /\ Reload(d, row'[d])
    /\ used' = [used EXCEPT !.edits = NewEdit]
    /\ Stamped
    /\ UNCHANGED <<form, deletions, conflict, pass, resolving, remote, lock,
                   abandoned>>

\* A form remembers the entry it was opened with, sync metadata included.
OpenForm(d, l) ==
    LET r == Listed(d)[l] IN
    /\ UserMayAct(d)
    /\ form[d] = None
    /\ r # NoRow
    /\ used.edits < MaxEdits
    /\ r.cid = NoId => RoomForRecord
    /\ form' = [form EXCEPT ![d] = [local |-> l, cid |-> r.cid, base |-> r.base,
                                    val |-> r.val]]
    /\ UNCHANGED <<row, shown, deletions, conflict, pass, resolving, remote, lock,
                   now, used, abandoned>>

\* Saving writes the remembered cloud id and baseline back with the new content.
SaveForm(d) ==
    LET f == form[d] IN
    /\ UserMayAct(d)
    /\ f # None
    /\ f.local \in Rows(d)
    /\ row' = [row EXCEPT ![d][f.local] =
                 [cid |-> f.cid, upd |-> Clock(d), base |-> f.base,
                  val |-> f.val \cup {NewEdit}]]
    /\ Reload(d, row'[d])
    /\ used.edits < MaxEdits
    /\ used' = [used EXCEPT !.edits = NewEdit]
    /\ form' = [form EXCEPT ![d] = None]
    /\ Stamped
    /\ UNCHANGED <<deletions, conflict, pass, resolving, remote, lock, abandoned>>

\* The form is dismissed, or its row is gone and saving reports an error.
CloseForm(d) ==
    /\ form[d] # None
    /\ form' = [form EXCEPT ![d] = None]
    /\ UNCHANGED <<row, shown, deletions, conflict, pass, resolving, remote, lock,
                   now, used, abandoned>>

\* refresh_local_home_data: the toolbar's refresh, or opening a connection.
RefreshList(d) ==
    /\ ~ FreshList
    /\ Reload(d, row[d])
    /\ UNCHANGED <<row, form, deletions, conflict, pass, resolving, remote, lock,
                   now, used, abandoned>>

\* Deleting an entry forgets the conflict of the cloud id on the list and queues
\* LocalDeleted with the baseline of the row.
DeleteRow(d, l) ==
    LET k == Listed(d)[l].cid
        old == row[d][l] IN
    /\ UserMayAct(d)
    /\ Listed(d)[l] # NoRow
    /\ l \notin Referenced
    /\ used.deletes < MaxDeletes
    /\ row' = [row EXCEPT ![d][l] = NoRow]
    /\ Reload(d, row'[d])
    /\ used' = [used EXCEPT !.deletes = @ + 1]
    /\ abandoned' = [abandoned EXCEPT ![d] = @ \cup (IF old = NoRow THEN {} ELSE old.val)]
    /\ IF k = NoId
       THEN UNCHANGED <<deletions, conflict>>
       ELSE /\ deletions' = [deletions EXCEPT ![d] = @ \cup
                 {[cid |-> k, base |-> IF old = NoRow THEN 0 ELSE old.base]}]
            /\ ForgetRecord(d, k)
    /\ UNCHANGED <<form, pass, resolving, remote, lock, now>>

-----------------------------------------------------------------------------
(***************************************************************************)
(* The pass of device d.                                                   *)
(***************************************************************************)
\* begin_drain takes the queued events; probe and acquire_lock succeed.
BeginPass(d) ==
    /\ pass[d].pc = "idle"
    /\ QuietUser => resolving[d] = None
    /\ FormsAway(d)
    /\ lock = NoDevice
    /\ lock' = d
    /\ pass' = [pass EXCEPT ![d].pc = "listing", ![d].events = deletions[d]]
    /\ deletions' = [deletions EXCEPT ![d] = {}]
    /\ UNCHANGED <<row, shown, form, conflict, resolving, remote, now, used,
                   abandoned>>

\* acquire_lock fails with LockTimeout, after begin_drain took the events.
LockBusy(d) ==
    /\ Contended
    /\ pass[d].pc = "idle"
    /\ lock \notin {NoDevice, d}
    /\ deletions[d] # {}
    /\ deletions' = [deletions EXCEPT ![d] = {}]
    /\ UNCHANGED <<row, shown, form, conflict, pass, resolving, remote, lock, now,
                   used, abandoned>>

\* Faulty variant: a pass that returns keeps the lock.
EndsLocked(d) ==
    /\ pass' = [pass EXCEPT ![d] = IdlePass]
    /\ UNCHANGED lock

\* The pass returns, with or without an error, and the lock is released.
Ends(d) ==
    /\ pass' = [pass EXCEPT ![d] = IdlePass]
    /\ lock' = NoDevice

ListItems(d) ==
    /\ pass[d].pc = "listing"
    /\ pass' = [pass EXCEPT ![d].pc = "reading", ![d].items = Items(d)]
    /\ UNCHANGED <<row, shown, form, deletions, conflict, resolving, remote, lock,
                   now, used, abandoned>>

ListRecords(d) ==
    /\ pass[d].pc = "reading"
    /\ pass' = [pass EXCEPT ![d].pc = "pausing", ![d].records = remote]
    /\ UNCHANGED <<row, shown, form, deletions, conflict, resolving, remote, lock,
                   now, used, abandoned>>

\* Faulty variant: the paused records are not handed to the rest of the pass.
ReadPausedAfterwards(d) ==
    LET p == pass[d] IN
    /\ p.pc = "pausing"
    /\ pass' = [pass EXCEPT
          ![d].pc = "deleting",
          ![d].deleted = {ev.cid : ev \in p.events},
          ![d].tombstones = {k \in CloudId :
                               /\ p.records[k] # NoRecord
                               /\ p.records[k].del
                               /\ \E item \in p.items : item.cid = k}]
    /\ UNCHANGED <<row, shown, form, deletions, conflict, resolving, remote, lock,
                   now, used, abandoned>>

\* paused_record_keys; what the two deletion phases will look at is fixed now.
ReadPaused(d) ==
    LET p == pass[d]
        paused == PausedRecords(d) IN
    /\ p.pc = "pausing"
    /\ pass' = [pass EXCEPT
          ![d].pc = "deleting",
          ![d].paused = paused,
          ![d].deleted = {ev.cid : ev \in p.events},
          ![d].tombstones = {k \in CloudId \ paused :
                               /\ p.records[k] # NoRecord
                               /\ p.records[k].del
                               /\ \E item \in p.items : item.cid = k}]
    /\ UNCHANGED <<row, shown, form, deletions, conflict, resolving, remote, lock,
                   now, used, abandoned>>

\* apply_local_delete_events, one event.
RemoteChangedSince(ev, record) == ev.base # 0 /\ record.upd > ev.base

ForgetDeleted(d, ev) ==
    LET r == pass[d].records[ev.cid] IN
    /\ pass[d].pc = "deleting"
    /\ ev \in pass[d].events
    /\ r = NoRecord \/ r.del
    /\ ForgetRecord(d, ev.cid)
    /\ pass' = [pass EXCEPT ![d].events = @ \ {ev}]
    /\ UNCHANGED <<row, shown, form, deletions, resolving, remote, lock, now, used,
                   abandoned>>

PauseDeleted(d, ev) ==
    LET r == pass[d].records[ev.cid] IN
    /\ pass[d].pc = "deleting"
    /\ ev \in pass[d].events
    /\ r # NoRecord /\ ~ r.del /\ RemoteChangedSince(ev, r)
    /\ PauseRecord(d, ev.cid, r)
    /\ pass' = [pass EXCEPT ![d].events = @ \ {ev}]
    /\ UNCHANGED <<row, shown, form, deletions, resolving, remote, lock, now, used,
                   abandoned>>

PushDelete(d, ev) ==
    LET k == ev.cid
        r == pass[d].records[k] IN
    /\ pass[d].pc = "deleting"
    /\ ev \in pass[d].events
    /\ r # NoRecord /\ ~ r.del /\ ~ RemoteChangedSince(ev, r)
    /\ ForgetRecord(d, k)
    /\ IF Accepts(k, r.ver)
       THEN /\ Tombstone(d, k)
            /\ pass' = [pass EXCEPT ![d].events = @ \ {ev}]
            /\ UNCHANGED lock
       ELSE Ends(d) /\ UNCHANGED <<remote, now>>
    /\ UNCHANGED <<row, shown, form, deletions, resolving, used, abandoned>>

\* apply_remote_tombstones, one record, once the events are done.
\* Faulty variant: only a row that was never synced counts as changed.
LocalNeverSynced(item) == item.base = 0

LocalChangedSinceSync(item) == item.upd > item.base

ApplyTombstone(d, k) ==
    LET p == pass[d] IN
    /\ p.pc = "deleting"
    /\ p.events = {}
    /\ k \in p.tombstones
    /\ \E item \in p.items :
          /\ item.cid = k
          /\ IF LocalChangedSinceSync(item) \/ item.local \in Referenced
             THEN /\ PauseRecord(d, k, p.records[k])
                  /\ pass' = [pass EXCEPT ![d].tombstones = @ \ {k},
                                          ![d].paused = @ \cup {k}]
                  /\ UNCHANGED row
             ELSE /\ row' = [row EXCEPT ![d][item.local] = NoRow]
                  /\ pass' = [pass EXCEPT ![d].tombstones = @ \ {k}]
                  /\ UNCHANGED conflict
    /\ UNCHANGED <<shown, form, deletions, resolving, remote, lock, now, used,
                   abandoned>>

\* Faulty variant: the planner still sees the records this pass has deleted.
MakePlanWithDeleted(d) ==
    LET p == pass[d]
        active == [k \in CloudId |->
                     IF p.records[k] = NoRecord THEN NoRecord
                     ELSE IF p.records[k].del THEN NoRecord ELSE p.records[k]] IN
    /\ p.pc = "deleting"
    /\ p.events = {}
    /\ p.tombstones = {}
    /\ pass' = [pass EXCEPT ![d].pc = "applying",
                            ![d].plan = Plan(p.items, active, p.paused)]
    /\ UNCHANGED <<row, shown, form, deletions, conflict, resolving, remote, lock,
                   now, used, abandoned>>

\* The planner sees the items listed at the start of the pass, and the records
\* that are neither tombstones nor deleted by an event of this pass.
MakePlan(d) ==
    LET p == pass[d]
        active == [k \in CloudId |->
                     IF p.records[k] = NoRecord THEN NoRecord
                     ELSE IF p.records[k].del \/ k \in p.deleted THEN NoRecord
                     ELSE p.records[k]] IN
    /\ p.pc = "deleting"
    /\ p.events = {}
    /\ p.tombstones = {}
    /\ pass' = [pass EXCEPT ![d].pc = "applying",
                            ![d].plan = Plan(p.items, active, p.paused)]
    /\ UNCHANGED <<row, shown, form, deletions, conflict, resolving, remote, lock,
                   now, used, abandoned>>

\* export_item followed by upsert_record: it fails when the row is gone or the
\* store has another version; otherwise mark_synced is the next step.
Export(d, item, expected, planned) ==
    IF item.local \notin Rows(d)
    THEN Ends(d) /\ UNCHANGED <<remote, now>>
    ELSE \E k \in ExportId(d, item.local) :
           IF Accepts(k, expected)
           THEN /\ Upsert(d, k, row[d][item.local].val)
                /\ pass' = [pass EXCEPT
                     ![d].plan = planned,
                     ![d].written = [local |-> item.local, cid |-> k, upd |-> Clock(d)]]
                /\ UNCHANGED lock
           ELSE Ends(d) /\ UNCHANGED <<remote, now>>

Applying(d) == pass[d].pc = "applying" /\ pass[d].written = None

Upload(d, item) ==
    LET plan == pass[d].plan IN
    /\ Applying(d)
    /\ item \in plan.uploads
    /\ Export(d, item, None, [plan EXCEPT !.uploads = @ \ {item}])
    /\ UNCHANGED <<row, shown, form, deletions, conflict, resolving, used,
                   abandoned>>

UpdateCloud(d, item) ==
    LET plan == pass[d].plan IN
    /\ Applying(d)
    /\ plan.uploads = {}
    /\ item \in plan.cloudUpdates
    /\ Export(d, item, pass[d].records[item.cid].ver,
              [plan EXCEPT !.cloudUpdates = @ \ {item}])
    /\ UNCHANGED <<row, shown, form, deletions, conflict, resolving, used,
                   abandoned>>

MarkWritten(d) ==
    LET w == pass[d].written IN
    /\ w # None
    /\ row' = MarkedRows(d, w.local, w.cid, w.upd)
    /\ pass' = [pass EXCEPT ![d].written = None]
    /\ UNCHANGED <<shown, form, deletions, conflict, resolving, remote, lock, now,
                   used, abandoned>>

\* apply_remote over an existing row, which the UPDATE must still find.
UpdateLocal(d, item) ==
    LET plan == pass[d].plan IN
    /\ Applying(d)
    /\ plan.uploads = {} /\ plan.cloudUpdates = {}
    /\ item \in plan.localUpdates
    /\ IF item.local \in Rows(d)
       THEN /\ row' = [row EXCEPT ![d][item.local] =
                         RowOf(item.cid, pass[d].records[item.cid])]
            /\ pass' = [pass EXCEPT ![d].plan.localUpdates = @ \ {item}]
            /\ UNCHANGED lock
       ELSE Ends(d) /\ UNCHANGED row
    /\ UNCHANGED <<shown, form, deletions, conflict, resolving, remote, now, used,
                   abandoned>>

Download(d, k) ==
    LET plan == pass[d].plan IN
    /\ Applying(d)
    /\ plan.uploads = {} /\ plan.cloudUpdates = {} /\ plan.localUpdates = {}
    /\ k \in plan.downloads
    /\ \E l \in FreshLocal(d) :
          row' = [row EXCEPT ![d][l] = RowOf(k, pass[d].records[k])]
    /\ pass' = [pass EXCEPT ![d].plan.downloads = @ \ {k}]
    /\ UNCHANGED <<shown, form, deletions, conflict, resolving, remote, lock, now,
                   used, abandoned>>

MarkSynced(d, item) ==
    LET plan == pass[d].plan IN
    /\ Applying(d)
    /\ plan.uploads = {} /\ plan.cloudUpdates = {} /\ plan.localUpdates = {}
    /\ plan.downloads = {}
    /\ item \in plan.marks
    /\ row' = MarkedRows(d, item.local, item.cid, pass[d].records[item.cid].upd)
    /\ pass' = [pass EXCEPT ![d].plan.marks = @ \ {item}]
    /\ UNCHANGED <<shown, form, deletions, conflict, resolving, remote, lock, now,
                   used, abandoned>>

PauseConflict(d, item) ==
    LET plan == pass[d].plan IN
    /\ Applying(d)
    /\ plan = [EmptyPlan EXCEPT !.conflicts = plan.conflicts]
    /\ item \in plan.conflicts
    /\ PauseRecord(d, item.cid, pass[d].records[item.cid])
    /\ pass' = [pass EXCEPT ![d].plan.conflicts = @ \ {item}]
    /\ UNCHANGED <<row, shown, form, deletions, resolving, remote, lock, now, used,
                   abandoned>>

EndPass(d) ==
    /\ Applying(d)
    /\ pass[d].plan = EmptyPlan
    /\ Ends(d)
    /\ UNCHANGED <<row, shown, form, deletions, conflict, resolving, remote, now,
                   used, abandoned>>

\* Any step may fail instead (store, network or database error): the pass
\* returns at once and its events are gone.
PassFails(d) ==
    /\ pass[d].pc # "idle"
    /\ used.faults < MaxFaults
    /\ used' = [used EXCEPT !.faults = @ + 1]
    /\ Ends(d)
    /\ UNCHANGED <<row, shown, form, deletions, conflict, resolving, remote, now,
                   abandoned>>

\* The application is killed: events and forms live in memory only; the lock it
\* leaves behind runs into its TTL.
Restart(d) ==
    /\ used.faults < MaxFaults
    /\ used' = [used EXCEPT !.faults = @ + 1]
    /\ pass' = [pass EXCEPT ![d] = IdlePass]
    /\ lock' = IF lock = d THEN NoDevice ELSE lock
    /\ Reload(d, row[d])
    /\ deletions' = [deletions EXCEPT ![d] = {}]
    /\ form' = [form EXCEPT ![d] = None]
    /\ resolving' = [resolving EXCEPT ![d] = None]
    /\ UNCHANGED <<row, conflict, remote, now, abandoned>>

-----------------------------------------------------------------------------
(***************************************************************************)
(* Conflict resolution on device d: no lock is taken, and a pass may run.  *)
(***************************************************************************)
\* current_local_item: the row that now carries the conflict's cloud id.
Holding(d, k) == {l \in Rows(d) : row[d][l].cid = k}

UseCloud(d, k) ==
    LET r == conflict[d][k] IN
    /\ QuietUser => pass[d].pc = "idle"
    /\ FormsAway(d)
    /\ resolving[d] = None
    /\ r # None
    /\ IF r.del
       THEN IF Holding(d, k) = {} THEN UNCHANGED row
            ELSE \E l \in Holding(d, k) \ Referenced :
                   row' = [row EXCEPT ![d][l] = NoRow]
       ELSE \E l \in IF Holding(d, k) = {} THEN FreshLocal(d) ELSE Holding(d, k) :
              row' = [row EXCEPT ![d][l] = RowOf(k, r)]
    /\ ForgetRecord(d, k)
    /\ abandoned' = [abandoned EXCEPT ![d] =
          @ \cup ((UNION {row[d][l].val : l \in Holding(d, k)})
                    \ (IF r.del THEN {} ELSE r.val))]
    /\ UNCHANGED <<shown, form, deletions, pass, resolving, remote, lock, now,
                   used>>

\* use_local: the current remote version is read again...
UseLocalReads(d, k) ==
    /\ QuietUser => pass[d].pc = "idle"
    /\ FormsAway(d)
    /\ resolving[d] = None
    /\ conflict[d][k] # None
    /\ \E l \in IF Holding(d, k) = {} THEN {None} ELSE Holding(d, k) :
          resolving' = [resolving EXCEPT ![d] =
             [cid |-> k, local |-> l, upd |-> None,
              expected |-> IF remote[k] = NoRecord THEN conflict[d][k].ver
                           ELSE remote[k].ver]]
    /\ abandoned' = [abandoned EXCEPT ![d] =
          @ \cup conflict[d][k].val
            \cup (IF remote[k] = NoRecord THEN {} ELSE remote[k].val)]
    /\ UNCHANGED <<row, shown, form, deletions, conflict, pass, remote, lock, now,
                   used>>

\* ... and written over, or made a tombstone when there is no local row.
UseLocalWrites(d) ==
    LET u == resolving[d] IN
    /\ u # None
    /\ u.upd = None
    /\ Accepts(u.cid, u.expected)
    /\ IF u.local = None
       THEN /\ Tombstone(d, u.cid)
            /\ ForgetRecord(d, u.cid)
            /\ resolving' = [resolving EXCEPT ![d] = None]
       ELSE /\ u.local \in Rows(d)
            /\ Upsert(d, u.cid, row[d][u.local].val)
            /\ resolving' = [resolving EXCEPT ![d].upd = Clock(d)]
            /\ UNCHANGED conflict
    /\ UNCHANGED <<row, shown, form, deletions, pass, lock, used, abandoned>>

UseLocalMarks(d) ==
    LET u == resolving[d] IN
    /\ u # None
    /\ u.upd # None
    /\ row' = MarkedRows(d, u.local, u.cid, u.upd)
    /\ ForgetRecord(d, u.cid)
    /\ resolving' = [resolving EXCEPT ![d] = None]
    /\ UNCHANGED <<shown, form, deletions, pass, remote, lock, now, used,
                   abandoned>>

\* The row or the version is gone: the error is shown, the conflict stays.
UseLocalFails(d) ==
    LET u == resolving[d] IN
    /\ u # None
    /\ u.upd = None
    /\ ~ Accepts(u.cid, u.expected) \/ (u.local # None /\ u.local \notin Rows(d))
    /\ resolving' = [resolving EXCEPT ![d] = None]
    /\ UNCHANGED <<row, shown, form, deletions, conflict, pass, remote, lock, now,
                   used, abandoned>>

-----------------------------------------------------------------------------
UserStep(d) ==
    \/ \E l \in LocalId : CreateRow(d, l) \/ OpenForm(d, l) \/ DeleteRow(d, l)
    \/ SaveForm(d) \/ CloseForm(d) \/ RefreshList(d)

PassStep(d) ==
    \/ ListItems(d) \/ ListRecords(d) \/ ReadPaused(d)
    \/ \E ev \in pass[d].events :
          ForgetDeleted(d, ev) \/ PauseDeleted(d, ev) \/ PushDelete(d, ev)
    \/ \E k \in CloudId : ApplyTombstone(d, k) \/ Download(d, k)
    \/ MakePlan(d) \/ MarkWritten(d) \/ EndPass(d)
    \/ \E item \in pass[d].items :
          \/ Upload(d, item) \/ UpdateCloud(d, item) \/ UpdateLocal(d, item)
          \/ MarkSynced(d, item) \/ PauseConflict(d, item)

ResolveStep(d) ==
    \/ UseLocalWrites(d) \/ UseLocalMarks(d) \/ UseLocalFails(d)

ResolveStart(d) == \E k \in CloudId : UseCloud(d, k) \/ UseLocalReads(d, k)

Failure(d) == LockBusy(d) \/ PassFails(d) \/ Restart(d)

Next ==
    \/ Tick
    \/ \E d \in Device :
          \/ UserStep(d) \/ BeginPass(d) \/ PassStep(d)
          \/ ResolveStart(d) \/ ResolveStep(d) \/ Failure(d)

Spec == Init /\ [][Next]_vars

(***************************************************************************)
(* Fairness: a task that was started runs to its end, the watcher and the  *)
(* 60 second timer start passes on every device again and again, the user  *)
(* does not leave a form open forever and resolves a conflict that stays.  *)
(***************************************************************************)
Fairness ==
    \A d \in Device :
        /\ WF_vars(PassStep(d))
        /\ WF_vars(ResolveStep(d))
        /\ WF_vars(SaveForm(d) \/ CloseForm(d))
        /\ SF_vars(BeginPass(d))
        /\ \A k \in CloudId : SF_vars(UseCloud(d, k) \/ UseLocalReads(d, k))

FairSpec == Spec /\ Fairness

-----------------------------------------------------------------------------
TypeOK ==
    /\ row \in [Device -> [LocalId -> Row \cup {NoRow}]]
    /\ shown \in [Device -> [LocalId -> Row \cup {NoRow}]]
    /\ form \in [Device -> Form \cup {None}]
    /\ deletions \in [Device -> SUBSET Event]
    /\ conflict \in [Device -> [CloudId -> Record \cup {None}]]
    /\ pass \in [Device -> Pass]
    /\ resolving \in [Device -> Resolution \cup {None}]
    /\ remote \in [CloudId -> Record \cup {NoRecord}]
    /\ now \in Nat
    /\ used \in [edits : 0 .. MaxEdits, deletes : 0 .. MaxDeletes, faults : 0 .. MaxFaults]
    /\ abandoned \in [Device -> SUBSET Edit]
    /\ \A d \in Device : pass[d].pc # "idle" <=> lock = d

\* The edits that can still be found in a row, a live record or the snapshot of
\* a conflict.
Held ==
    (UNION {remote[k].val : k \in {x \in CloudId : remote[x] # NoRecord /\ ~ remote[x].del}})
    \cup (UNION {UNION {row[d][l].val : l \in Rows(d)} : d \in Device})
    \cup (UNION {UNION {conflict[d][k].val :
                         k \in {x \in CloudId : conflict[d][x] # None /\ ~ conflict[d][x].del}}
                : d \in Device})

\* No silent loss: an edit some user saved is still in a row, a live record or
\* the snapshot of a conflict, unless a user deleted it or chose the other side
\* of a conflict (worker.rs and planner.rs: changes on both sides, or a change
\* against a deletion, become conflicts).
NoSilentLoss == 1 .. used.edits \subseteq Held \cup (UNION {abandoned[d] : d \in Device})

\* A version identifies a record: what a pass or a conflict remembers of the store
\* is the store's present record exactly when the versions are equal, and is
\* older otherwise.  Only so does comparing versions (ensure_expected_version)
\* tell whether somebody else has written meanwhile.
Identified(r, k) ==
    /\ remote[k] # NoRecord
    /\ r.ver <= remote[k].ver
    /\ r.ver = remote[k].ver => r = remote[k]

VersionsIdentify ==
    \A d \in Device, k \in CloudId :
        /\ pass[d].records[k] # NoRecord => Identified(pass[d].records[k], k)
        /\ conflict[d][k] # None => Identified(conflict[d][k], k)

\* A deletion sticks: no pass brings back on this device what its user deleted
\* there, unless with an edit the user had not deleted (apply_local_delete_events
\* pushes the tombstone before the planner could download the record again).
DeletionSticks ==
    [][\A d \in Device, l \in LocalId :
          (pass'[d] # pass[d] /\ row[d][l] = NoRow /\ row'[d][l] # NoRow)
              => ~ (row'[d][l].val \subseteq abandoned[d])]_vars

\* No blind overwrite: what a pass replaces in the store is what it read there, or
\* the tombstone of a record this user deleted, although conflict resolutions of
\* other devices write without the lock (ensure_expected_version).
NoBlindOverwrite ==
    [][\A d \in Device, k \in CloudId :
          (pass'[d] # pass[d] /\ remote'[k] # remote[k])
              => \/ remote[k] = pass[d].records[k]
                 \/ k \in pass[d].deleted /\ remote[k].del]_vars

\* A paused record is left alone: while a conflict on it stays, the passes of
\* this device change neither the record nor its row (worker.rs skips paused
\* keys in the deletions and in the planner).
PausedUntouched ==
    [][\A d \in Device, k \in CloudId :
          (pass'[d] # pass[d] /\ conflict[d][k] # None /\ conflict'[d][k] # None)
              => /\ remote'[k] = remote[k]
                 /\ \A l \in Holding(d, k) : row'[d][l] = row[d][l]]_vars

\* Every row planned for an upload is there to be exported: a pass that only
\* applies a deletion made elsewhere succeeds.
ExportFindsRow ==
    \A d \in Device : \A item \in pass[d].plan.uploads : item.local \in Rows(d)

Same(d) ==
    /\ \A l \in Rows(d) : LET k == row[d][l].cid IN
          k # NoId /\ remote[k] # NoRecord /\ ~ remote[k].del /\ remote[k].val = row[d][l].val
    /\ \A k \in CloudId :
          (remote[k] # NoRecord /\ ~ remote[k].del) => Cardinality(Holding(d, k)) = 1

\* Convergence: once the users stop editing and deal with the conflicts, every
\* device ends up with exactly the live records, and stays so.
Converges == <>[](\A d \in Device : Same(d) /\ \A k \in CloudId : conflict[d][k] = None)
=============================================================================
