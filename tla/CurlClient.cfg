\* Any two of three requests, of which two have one hash, every outcome of the race.
CONSTANTS
    a = a
    b = b
    c = c
    h1 = h1
    h2 = h2
    NoTask = NoTask
    Requests <- ThreeRequests
    Hashes <- TwoHashes
    Hash <- TwoOfOneKey
    MaxTasks = 2
    MapRaces = TRUE
SPECIFICATION FairSpec
CHECK_DEADLOCK FALSE
INVARIANTS
    
    
    TransfersHaveTasks
    CrashNeedsRaceOrClash
PROPERTIES
    ErasedWhenAnswered
    DestructorReturns
    TransferAnswered
