----------------------- MODULE MCPersonalSyncRuntime -----------------------
(***************************************************************************)
(* Model values for PersonalSyncRuntime: two futures in flight, two        *)
(* workers, one data event besides FullScan, one configuration with auto   *)
(* sync and one without.                                                   *)
(***************************************************************************)
EXTENDS PersonalSyncRuntime

CONSTANTS t1, t2, w1, w2, change, auto, manual

MCTask == {t1, t2}
MCWorker == {w1, w2}
MCEvent == {change}
MCConfig == {auto, manual}
MCAutoConfig == {auto}
=============================================================================
