\* Three tasks, one of which terminates the loop itself.
CONSTANTS
    Tasks = {a, b, q}
    Quitters = {q}
    Quit = quit
    Owner = owner
SPECIFICATION FairSpec
CHECK_DEADLOCK FALSE
INVARIANTS
    StackOutlivesThread
    EarlierTasksRan
PROPERTIES
    StartReturns
    JoinReturns
