------------------------ MODULE PersonalSyncPlanner ------------------------
(***************************************************************************)
(* PersonalSyncPlanner::plan (core/cloud_sync/personal/planner.rs): what   *)
(* one pass does, decided from three snapshots: the local items, the live  *)
(* remote records and the keys paused by a conflict.                       *)
(*                                                                         *)
(* An item is [local, cid, upd, base, val]: the local row id, the cloud id *)
(* or NoId, updated_at, last_synced_at (0 for None, which is what the code *)
(* reads it as) and the content, which stands for the checksum.  A record  *)
(* is [ver, upd, del, val]; `records` maps each cloud id to its record, or *)
(* to NoRecord.  Times are in seconds, as in every comparison of the code. *)
(* Team items never reach the planner of the model: list_items drops them. *)
(***************************************************************************)
EXTENDS Integers

CONSTANTS
    CloudId,     \* cloud ids of records (a bound)
    NoId,        \* no cloud id
    NoRecord     \* no such record in the store

ASSUME PlannerAssumption == NoId \notin CloudId

\* An item the other side cannot hold: no cloud id yet, or no live record.
IsUpload(item, records, paused) ==
    \/ item.cid = NoId
    \/ item.cid \notin paused /\ records[item.cid] = NoRecord

\* An item whose record exists and may be compared with it.
IsComparable(item, records, paused) ==
    /\ item.cid # NoId
    /\ item.cid \notin paused
    /\ records[item.cid] # NoRecord

SameContent(item, record) == item.val = record.val

LocalChanged(item, record) == item.upd > item.base \/ record.upd <= item.base

RemoteChanged(item, record) == record.upd > item.base

\* The items whose comparison with their record gives (local, remote) changed.
Differing(items, records, paused, local, remote) ==
    {item \in items :
        /\ IsComparable(item, records, paused)
        /\ ~ SameContent(item, records[item.cid])
        /\ LocalChanged(item, records[item.cid]) = local
        /\ RemoteChanged(item, records[item.cid]) = remote}

EmptyPlan ==
    [uploads |-> {}, cloudUpdates |-> {}, localUpdates |-> {},
     downloads |-> {}, marks |-> {}, conflicts |-> {}]

\* Faulty variant: an item that changed on both sides falls through the match.
PlanWithoutConflicts(items, records, paused) ==
    [EmptyPlan EXCEPT
        !.uploads = {item \in items : IsUpload(item, records, paused)},
        !.cloudUpdates = Differing(items, records, paused, TRUE, FALSE),
        !.localUpdates = Differing(items, records, paused, FALSE, TRUE),
        !.downloads = {k \in CloudId : /\ records[k] # NoRecord
                                       /\ k \notin paused
                                       /\ \A item \in items : item.cid # k},
        !.marks = {item \in items : /\ IsComparable(item, records, paused)
                                    /\ SameContent(item, records[item.cid])}]

Plan(items, records, paused) ==
    [uploads |-> {item \in items : IsUpload(item, records, paused)},
     cloudUpdates |-> Differing(items, records, paused, TRUE, FALSE),
     localUpdates |-> Differing(items, records, paused, FALSE, TRUE),
     downloads |-> {k \in CloudId :
                      /\ records[k] # NoRecord
                      /\ k \notin paused
                      /\ \A item \in items : item.cid # k},
     marks |-> {item \in items :
                  /\ IsComparable(item, records, paused)
                  /\ SameContent(item, records[item.cid])},
     conflicts |-> Differing(items, records, paused, TRUE, TRUE)]
=============================================================================
