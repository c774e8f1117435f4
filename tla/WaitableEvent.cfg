\* Two plain and two timed waits against three signals.
CONSTANTS
    Waiters = {w1, w2}
    TimedWaiters = {t1, t2}
    MaxSignals = 3
    MaxSpurious = 1
SPECIFICATION FairSpec
INVARIANTS
    OneWaitPerSignal
    WakeupLostOnlyToTimeout
PROPERTIES
    SignalSettled
    TimedWaitReturns
