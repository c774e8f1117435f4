\* A plain wait beside one with a timeout.
CONSTANTS
    Waiters = {w1}
    TimedWaiters = {t1}
    MaxSignals = 1
    MaxSpurious = 0
SPECIFICATION Spec
CHECK_DEADLOCK FALSE
INVARIANT NoLostWakeup
