---------------------------- MODULE DelayedTask ----------------------------
(***************************************************************************)
(* The tasks a message loop holds and the order its priority queue gives   *)
(* them (source/base/messageloop/delayed_task.{h,cpp}).                    *)
(*                                                                         *)
(* A DelayedTask is a record: id names the closure, order is the value the *)
(* queues' order_ counter had when the task was registered, target is its  *)
(* target_time_.  std::priority_queue with std::greater keeps the least    *)
(* task on top, so the queue is a set and its top is the least element.    *)
(***************************************************************************)
EXTENDS Integers

\* Mutant: the registration order compared the wrong way round.
BeforeLatestFirst(a, b) ==
    \/ a.target < b.target
    \/ a.target = b.target /\ a.order > b.order

\* DelayedTask::operator>, read as "a leaves the queue before b": the earlier
\* target first, and among equal targets the earlier registration.
Before(a, b) ==
    \/ a.target < b.target
    \/ a.target = b.target /\ a.order < b.order

\* t is what delayed_tasks.top() returns for the queue Q.
IsTop(t, Q) ==
    /\ t \in Q
    /\ \A u \in Q : u # t => Before(t, u)

\* a was registered no later than b and is due no later than b.
Precedes(a, b) == a.order < b.order /\ a.target <= b.target

\* Mutant: a task that is due one tick from now counts as due.
DueSoon(Q, now) == {t \in Q : t.target <= now + 1}

\* GetTasksToRunNow pops while the top's target is not after now, so what it
\* takes out of Q is every due task.
Due(Q, now) == {t \in Q : t.target <= now}
=============================================================================
