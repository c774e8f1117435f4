--------------------------- MODULE WaitableEvent ---------------------------
(***************************************************************************)
(* AutoResetWaitableEvent (source/base/thread/waitable_event.cpp): a flag, *)
(* a mutex and a condition variable shared by threads that signal, threads *)
(* in Wait() and threads in WaitWithTimeout().                             *)
(*                                                                         *)
(* Every critical section is one step.  A thread inside cv_.wait is either *)
(* "blocked" or "woken": notified, timed out or woken for no reason, and   *)
(* on its way to take mutex_ again.                                        *)
(***************************************************************************)
EXTENDS Integers

CONSTANTS
    Waiters,        \* threads that call Wait()
    TimedWaiters,   \* threads that call WaitWithTimeout()
    MaxSignals,     \* bound: how often Signal() is called
    MaxSpurious     \* bound: how many wake-ups have no cause

ASSUME EventAssumption ==
    /\ Waiters \cap TimedWaiters = {}
    /\ MaxSignals \in Nat /\ MaxSpurious \in Nat

Threads == Waiters \cup TimedWaiters

VARIABLES
    signaled,       \* signaled_
    pc,             \* where each thread is: "idle" outside the event
    expired,        \* the timeout of a WaitWithTimeout has passed
    signals,        \* calls of Signal() so far
    consumed,       \* waits that returned because of a signal
    stolen,         \* history: since the last Signal() a woken wait timed out
                    \* and left the signal where it was
    spurious

vars == <<signaled, pc, expired, signals, consumed, stolen, spurious>>

\* Every variable has its type, and only a thread on its way out of the
\* condition variable has run out of time: the next call starts afresh.
TypeOK ==
    /\ signaled \in BOOLEAN /\ stolen \in BOOLEAN
    /\ pc \in [Threads -> {"idle", "blocked", "woken"}]
    /\ expired \in [Threads -> BOOLEAN]
    /\ signals \in Nat /\ consumed \in Nat /\ spurious \in Nat
    /\ \A t \in Threads : expired[t] => t \in TimedWaiters /\ pc[t] = "woken"

Init ==
    /\ signaled = FALSE /\ stolen = FALSE
    /\ pc = [t \in Threads |-> "idle"]
    /\ expired = [t \in Threads |-> FALSE]
    /\ signals = 0 /\ consumed = 0 /\ spurious = 0

-----------------------------------------------------------------------------
Blocked == {t \in Threads : pc[t] = "blocked"}

\* cv_.notify_one: one of the blocked threads, when there is any.
NotifyOne ==
    \/ Blocked = {} /\ UNCHANGED pc
    \/ \E t \in Blocked : pc' = [pc EXCEPT ![t] = "woken"]

\* Mutant: the flag is set and nobody is told.
SignalWithoutNotify ==
    /\ signals < MaxSignals
    /\ signaled' = TRUE
    /\ signals' = signals + 1
    /\ stolen' = FALSE
    /\ UNCHANGED <<pc, expired, consumed, spurious>>

\* Signal()
Signal ==
    /\ signals < MaxSignals
    /\ signaled' = TRUE
    /\ NotifyOne
    /\ signals' = signals + 1
    /\ stolen' = FALSE
    /\ UNCHANGED <<expired, consumed, spurious>>

\* Mutant: the wait returns and leaves the event signaled.
ConsumeWithoutReset(t) ==
    /\ signaled
    /\ consumed' = consumed + 1
    /\ pc' = [pc EXCEPT ![t] = "idle"]
    /\ expired' = [expired EXCEPT ![t] = FALSE]
    /\ UNCHANGED <<signaled, stolen>>

\* A wait that finds signaled_ resets it and returns.
Consume(t) ==
    /\ signaled
    /\ signaled' = FALSE
    /\ consumed' = consumed + 1
    /\ pc' = [pc EXCEPT ![t] = "idle"]
    /\ expired' = [expired EXCEPT ![t] = FALSE]
    /\ UNCHANGED stolen

Block(t) ==
    /\ ~signaled
    /\ pc' = [pc EXCEPT ![t] = "blocked"]
    /\ UNCHANGED <<signaled, expired, consumed, stolen>>

\* Wait() and WaitWithTimeout() from their entry to the condition variable.
Wait(t) ==
    /\ pc[t] = "idle"
    /\ Consume(t) \/ Block(t)
    /\ UNCHANGED <<signals, spurious>>

\* cv_.wait returns in Wait(): the loop tests the flag again.
WaitResumes(t) ==
    /\ t \in Waiters /\ pc[t] = "woken"
    /\ Consume(t) \/ Block(t)
    /\ UNCHANGED <<signals, spurious>>

\* WaitWithTimeout returns true.
TimesOut(t) ==
    /\ pc' = [pc EXCEPT ![t] = "idle"]
    /\ expired' = [expired EXCEPT ![t] = FALSE]
    /\ stolen' = (stolen \/ signaled)
    /\ UNCHANGED <<signaled, consumed>>

\* Mutant: a timeout is treated like a spurious wake-up.
TimedWaitResumesUntimed(t) ==
    /\ t \in TimedWaiters /\ pc[t] = "woken"
    /\ Consume(t) \/ Block(t)
    /\ UNCHANGED <<signals, spurious>>

\* cv_.wait_for returns in WaitWithTimeout().  It reports a timeout whenever
\* the clock has reached the deadline, notified or not, and then the flag is
\* not looked at.  Otherwise the flag decides, and after a spurious wake-up the
\* clock is read again.
TimedWaitResumes(t) ==
    /\ t \in TimedWaiters /\ pc[t] = "woken"
    /\ \/ expired[t] /\ TimesOut(t)
       \/ ~expired[t] /\ Consume(t)
       \/ ~expired[t] /\ Block(t)
       \/ ~expired[t] /\ ~signaled /\ TimesOut(t)
    /\ UNCHANGED <<signals, spurious>>

\* The clock reaches the deadline of a wait_for, which ends a blocked one.
Elapse(t) ==
    /\ t \in TimedWaiters
    /\ pc[t] # "idle" /\ ~expired[t]
    /\ expired' = [expired EXCEPT ![t] = TRUE]
    /\ pc' = [pc EXCEPT ![t] = "woken"]
    /\ UNCHANGED <<signaled, signals, consumed, stolen, spurious>>

SpuriousWakeup(t) ==
    /\ spurious < MaxSpurious
    /\ pc[t] = "blocked"
    /\ pc' = [pc EXCEPT ![t] = "woken"]
    /\ spurious' = spurious + 1
    /\ UNCHANGED <<signaled, expired, signals, consumed, stolen>>

Next ==
    \/ Signal
    \/ \E t \in Threads :
         Wait(t) \/ WaitResumes(t) \/ TimedWaitResumes(t) \/ Elapse(t)
                 \/ SpuriousWakeup(t)

Spec == Init /\ [][Next]_vars

\* A woken thread gets the mutex in the end, and clocks advance.  Nobody is
\* obliged to signal or to wait.
FairSpec ==
    /\ Spec
    /\ \A t \in Threads :
         WF_vars(WaitResumes(t) \/ TimedWaitResumes(t)) /\ WF_vars(Elapse(t))

-----------------------------------------------------------------------------
(* Properties.                                                             *)

Pending == IF signaled THEN 1 ELSE 0

\* "Exactly one Wait() will be unblocked": no call of Signal() lets two waits
\* return, however they and the wake-ups interleave.
OneWaitPerSignal == consumed + Pending <= signals

\* A signaled event with blocked waiters has a waiter on its way to it.
NoLostWakeup == signaled /\ Blocked # {} => \E t \in Threads : pc[t] = "woken"

\* The same, but for a notified wait that reports a timeout instead.
WakeupLostOnlyToTimeout == NoLostWakeup \/ stolen

\* A signal raised while a thread waits is taken, or a timeout passes it by.
SignalSettled ==
    (signaled /\ ~stolen /\ \E t \in Threads : pc[t] # "idle") ~> (~signaled \/ stolen)

\* WaitWithTimeout() returns, signal or not.
TimedWaitReturns == \A t \in TimedWaiters : (pc[t] # "idle") ~> (pc[t] = "idle")
=============================================================================
