\* One request and no data race: is every resumed request answered?
CONSTANTS
    a = a
    b = b
    c = c
    h1 = h1
    h2 = h2
    NoTask = NoTask
    Requests <- OneRequest
    Hashes <- TwoHashes
    Hash <- Alone
    MaxTasks = 1
    MapRaces = FALSE
SPECIFICATION FairSpec
CHECK_DEADLOCK FALSE
PROPERTY EveryRequestAnswered
