\* Two threads with loops of their own and task runners of each other.
SPECIFICATION Spec
CONSTANTS
    t1 = t1
    t2 = t2
    Threads = {t1, t2}
    MaxQueues = 2
    MaxPosts = 2
    MaxEdits = 2
    Keys = {1, 2}
    NoThread = NoThread
    NoQueue = NoQueue
SYMMETRY Symmetry
INVARIANTS
    TypeOK
    AbortsOnlyByRace
    RunsOnLoopThread
    ObserverRound
