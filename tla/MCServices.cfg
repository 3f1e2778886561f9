\* WebDAV: two devices and one record.  Git: two tasks and two changes.  The
\* terminal: two requests.  The Max... constants bound what they count.
SPECIFICATION ServicesSpec
CONSTANTS
    Device = {d1, d2}
    Record = {r1}
    Nonce = {n1, n2, n3}
    NoNonce = NoNonce
    NoRecord = NoRecord
    MaxVersion = 2
    MaxTrouble = 1
    GitTask = {g1, g2}
    Change = {x1, x2}
    MaxMishap = 1
    MaxRemoteMoves = 1
    Exec = {e1, e2}
    NoExec = NoExec
    MaxKeys = 1
    MaxLines = 2
SYMMETRY RequestsAlike
INVARIANTS
    ServicesTypeOK
    PassesExclude
    ReadBackArbitrates
    IndexedFilesExist
    UpsertSticks
    ChangeKept
    NothingLeftBehind
    
    FailedNeverWritten
    
    PendingIsTimed
CHECK_DEADLOCK FALSE
