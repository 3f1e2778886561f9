CONSTANTS
    d1 = d1
    d2 = d2
    l1 = l1
    l2 = l2
    k1 = k1
    k2 = k2
    k3 = k3
    Device <- MCDevice
    LocalId <- MCTwoRows
    CloudId <- MCOneRecord
    NoId = NoId
    NoRow = NoRow
    NoRecord = NoRecord
    NoDevice = NoDevice
    None = None
    Referenced <- MCNoReference
    Skew <- MCSameClock
    FineClock = TRUE
    QuietUser = FALSE
    FreshList = TRUE
    LongForms = FALSE
    Contended = FALSE
    MaxEdits = 3
    MaxDeletes = 0
    MaxFaults = 0
    MaxTime = 1
SPECIFICATION Spec
INVARIANTS NoSilentLoss
