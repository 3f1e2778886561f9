CONSTANTS
    d1 = d1
    d2 = d2
    l1 = l1
    l2 = l2
    k1 = k1
    k2 = k2
    k3 = k3
    Device <- MCDevice
    LocalId <- MCTwoRows
    CloudId <- MCOneRecord
    NoId = NoId
    NoRow = NoRow
    NoRecord = NoRecord
    NoDevice = NoDevice
    None = None
    Referenced <- MCReferenced
    Skew <- MCClockAhead
    FineClock = FALSE
    QuietUser = FALSE
    FreshList = TRUE
    LongForms = TRUE
    Contended = TRUE
    MaxEdits = 2
    MaxDeletes = 2
    MaxFaults = 0
    MaxTime = 2
SPECIFICATION Spec
INVARIANTS VersionsIdentify
CONSTRAINT FewVersions
