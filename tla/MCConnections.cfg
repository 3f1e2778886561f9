\* The registry: two clients of one key, two generations.  SFTP: three
\* transfers, one of them an upload, on a connection that takes one at a time.
\* Ingress: three chunks, two bytes, one slot.
SPECIFICATION ConnectionsSpec
CONSTANTS
    Client = {c1, c2}
    Key = {k1}
    MaxGeneration = 2
    Candidate = {i1, i2, i3}
    NoKey = NoKey
    NoCandidate = NoCandidate
    t1 = t1
    t2 = t2
    t3 = t3
    sftp = sftp
    Transfer <- MCTransfer
    Connection <- MCConnection
    ConnectionOf <- MCConnectionOf
    Upload <- MCUpload
    MaxConcurrent = 1
    Chunk = {q1, q2, q3}
    NoChunk = NoChunk
    MaxBytes = 2
    MaxChunks = 1
INVARIANTS
    ConnectionsTypeOK
    LeaseAccounting
    NoStrandedWaiter
    CleanReport
    LanesMatchRecords
    LaneWorkConserving
    PanelAgrees
    BudgetKept
    AnswersAreTrue
PROPERTIES
    ClosedForGood
    IdleIsReaped
    KeepsPromise
    EveryTransferFinishes
    EverySendEnds
CHECK_DEADLOCK FALSE
