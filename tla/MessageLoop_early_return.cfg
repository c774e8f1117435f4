\* RunForTime in a loop that wakes more than once: the budget is overcharged.
CONSTANTS
    a = a
    b = b
    q = q
    Tasks <- TaskAndQuit
    Terminators = {}
    Delays = {0}
    Times = {}
    Durations = {3}
    CallsRun = FALSE
    TimeMax = 100
    TicksPerMs = 1
    DeltaMax = 20
    IntMod = 16
    MaxTime = 5
    MaxInterrupts = 0
SPECIFICATION Spec
CHECK_DEADLOCK FALSE
INVARIANT RunsFullDuration
