\* Two requests with one hash and no data race: who gets the answer?
CONSTANTS
    a = a
    b = b
    c = c
    h1 = h1
    h2 = h2
    NoTask = NoTask
    Requests <- TwoRequests
    Hashes <- TwoHashes
    Hash <- SameKey
    MaxTasks = 2
    MapRaces = FALSE
SPECIFICATION Spec
CHECK_DEADLOCK FALSE
INVARIANT AnswerGoesToOwner
