CONSTANTS
    d1 = d1
    d2 = d2
    l1 = l1
    l2 = l2
    k1 = k1
    k2 = k2
    k3 = k3
    Device <- MCDevice
    LocalId <- MCTwoRows
    CloudId <- MCThreeRecords
    NoId = NoId
    NoRow = NoRow
    NoRecord = NoRecord
    NoDevice = NoDevice
    None = None
    Referenced <- MCNoReference
    Skew <- MCSameClock
    FineClock = TRUE
    QuietUser = TRUE
    FreshList = FALSE
    LongForms = FALSE
    Contended = TRUE
    MaxEdits = 2
    MaxDeletes = 2
    MaxFaults = 1
    MaxTime = 1
SPECIFICATION Spec
SYMMETRY MCSymmetry
INVARIANTS NoSilentLoss
PROPERTIES NoBlindOverwrite
