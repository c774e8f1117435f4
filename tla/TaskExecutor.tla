---------------------------- MODULE TaskExecutor ----------------------------
(***************************************************************************)
(* What a message loop promises to those who post tasks to it, without     *)
(* threads, timers or batches: an accepted task is executed at most once,  *)
(* never before its target time and never before a task that was accepted  *)
(* earlier and is due no later; what is not executed is dropped, and only  *)
(* all at once, when the loop is left.                                     *)
(***************************************************************************)
EXTENDS DelayedTask

VARIABLES
    now,        \* the clock
    accepted,   \* how many tasks have been accepted
    pending,    \* accepted and neither executed nor dropped
    executed,
    dropped

vars == <<now, accepted, pending, executed, dropped>>

Init ==
    /\ now = 1
    /\ accepted = 0
    /\ pending = {} /\ executed = {} /\ dropped = {}

Advance ==
    /\ now' = now + 1
    /\ UNCHANGED <<accepted, pending, executed, dropped>>

\* Any closure with any target; its order is the number accepted before it.
Accept(t) ==
    /\ t.order = accepted
    /\ pending' = pending \cup {t}
    /\ accepted' = accepted + 1
    /\ UNCHANGED <<now, executed, dropped>>

Execute(t) ==
    /\ t \in pending
    /\ t.target <= now
    /\ \A u \in pending : ~Precedes(u, t)
    /\ pending' = pending \ {t}
    /\ executed' = executed \cup {t}
    /\ UNCHANGED <<now, accepted, dropped>>

DropAll ==
    /\ dropped' = dropped \cup pending
    /\ pending' = {}
    /\ UNCHANGED <<now, accepted, executed>>

Next ==
    \/ Advance
    \/ \E t \in pending' : Accept(t)
    \/ \E t \in pending : Execute(t)
    \/ DropAll

Spec == Init /\ [][Next]_vars
=============================================================================
