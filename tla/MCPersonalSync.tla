--------------------------- MODULE MCPersonalSync ---------------------------
(***************************************************************************)
(* Model values for PersonalSync: two devices, with clocks that agree or   *)
(* one of them a few seconds ahead.                                        *)
(***************************************************************************)
EXTENDS PersonalSync, TLC

CONSTANTS d1, d2, l1, l2, k1, k2, k3

MCDevice == {d1, d2}
MCOneRow == {l1}
MCTwoRows == {l1, l2}
MCOneRecord == {k1}
MCTwoRecords == {k1, k2}
MCThreeRecords == {k1, k2, k3}
MCNoReference == {}
MCReferenced == {l1}

MCSameClock == [d \in MCDevice |-> 0]
MCClockAhead == [d \in MCDevice |-> IF d = d1 THEN 3 ELSE 0]

MCSymmetry == Permutations(MCDevice) \cup Permutations(MCTwoRows)
                  \cup Permutations(MCThreeRecords)

\* Bound for the runs with a coarse clock, where two devices may take turns
\* overwriting each other for as long as a second lasts.
FewVersions == \A k \in CloudId : remote[k] = NoRecord \/ remote[k].ver <= 3
=============================================================================
