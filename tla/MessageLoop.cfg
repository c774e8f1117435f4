\* Posts race a loop that is run for a time or forever, with every owner call.
CONSTANTS
    a = a
    b = b
    q = q
    Tasks <- Closures
    Terminators <- Quit
    Delays = {0, 1}
    Times = {1}
    Durations = {1, 2}
    CallsRun = TRUE
    TimeMax = 100
    TicksPerMs = 1
    DeltaMax = 20
    IntMod = 16
    MaxTime = 2
    MaxInterrupts = 1
SPECIFICATION FairSpec
CHECK_DEADLOCK FALSE
INVARIANTS
    TypeOK
    TasksConserved
    OrderedExecution
    WokenAtRequiredTime
    DueTasksAreRunNotDisposed
PROPERTIES
    ImplementsExecutor
    TaskSettled
    TerminationReturns
