CONSTANTS
    t1 = t1
    t2 = t2
    w1 = w1
    w2 = w2
    change = change
    auto = auto
    manual = manual
    Task <- MCTask
    Worker <- MCWorker
    Event <- MCEvent
    Config <- MCConfig
    AutoConfig <- MCAutoConfig
    FullScan = FullScan
    Off = Off
    NoTask = NoTask
    NoWorker = NoWorker
SPECIFICATION FairSpec
INVARIANTS TypeOK OnePassPerWorker SyncingHasOwner
PROPERTIES EventsAreTaken
