------------------------- MODULE MessageLoop_proofs -------------------------
(***************************************************************************)
(* Proofs about MessageLoop, for every set of closures, every delay, every *)
(* duration and every bound.                                               *)
(***************************************************************************)
EXTENDS MessageLoop, TLAPS

\* A timer that will expire has a period, which TimerDrain's reload divides by.
TimerOK == timer.next > 0 => timer.value > 0

TypeInv == TypeOK /\ TimerOK

\* The products the model forms are natural numbers.
LEMMA ProductNat == \A m, n \in Nat : m * n \in Nat
  OBVIOUS

LEMMA RearmType ==
  ASSUME NEW t \in Int
  PROVE  /\ Rearm(t) \in [value : Nat, next : Nat]
         /\ Rearm(t).next > 0 => Rearm(t).value > 0
  BY TimesAssumption DEF Rearm

LEMMA ReloadType ==
  ASSUME TypeInv, Readable
  PROVE  /\ Reload \in [value : Nat, next : Nat]
         /\ Reload.next > 0 => Reload.value > 0
<1>1. timer.value \in Nat /\ timer.value > 0 /\ now \in Nat
  BY DEF TypeInv, TypeOK, TimerOK, Readable
<1>2. now \div timer.value + 1 \in Nat
  BY <1>1
<1>3. (now \div timer.value + 1) * timer.value \in Nat
  BY <1>1, <1>2, ProductNat
<1> QED
  BY <1>1, <1>3 DEF Reload, TypeInv, TypeOK

LEMMA TimeoutType ==
  ASSUME TypeOK, NEW ms \in Int
  PROVE  Timeout(ms) \in Nat
<1>1. AsInt(ms) \in Int
  BY TimesAssumption DEF AsInt
<1>2. AsInt(ms) >= 0 => AsInt(ms) * TicksPerMs \in Nat
  BY <1>1, ProductNat, TimesAssumption
<1> QED
  BY <1>1, <1>2, TimesAssumption DEF Timeout, TypeOK

LEMMA MillisecondsType ==
  ASSUME NEW d \in Int
  PROVE  ToMilliseconds(d) \in Int
  BY TimesAssumption DEF ToMilliseconds

-----------------------------------------------------------------------------
(* Type correctness.                                                       *)

LEMMA TypeInit == Init => TypeInv
<1> SUFFICES ASSUME Init PROVE TypeInv
  OBVIOUS
<1>1. terminated \in BOOLEAN /\ running \in BOOLEAN /\ forever \in BOOLEAN
  BY Zenon DEF Init
<1>2. timer \in [value : Nat, next : Nat] /\ left_at \in [now : Nat, order : Nat]
  BY DEF Init
<1>3. TimerOK
  BY DEF Init, TimerOK
<1> QED
  BY <1>1, <1>2, <1>3 DEF Init, TypeInv, TypeOK, Locations

LEMMA TypeStep == TypeInv /\ [Next]_vars => TypeInv'
<1> SUFFICES ASSUME TypeInv, [Next]_vars PROVE TypeInv'
  OBVIOUS
<1> USE TasksAssumption, TimesAssumption
        DEF TypeInv, TypeOK, TimerOK, Locations, DelayedTasks,
            postVars, queueVars, runVars, historyVars
<1>1. CASE Tick
  BY <1>1 DEF Tick
<1>2. ASSUME NEW id \in Tasks, NEW target \in {now + d : d \in Delays} \cup Times,
             PostTask(id, target)
      PROVE  TypeInv'
  <2>1. target \in Int
    <3>1. CASE target \in Times
      BY <3>1
    <3>2. CASE target \in {now + d : d \in Delays}
      <4>1. PICK d \in Delays : target = now + d
        BY <3>2
      <4> QED
        BY <4>1
    <3> QED
      BY <3>1, <3>2
  <2> QED
    BY <1>2, <2>1 DEF PostTask
<1>3. ASSUME NEW p \in posting, RegisterTask(p)
      PROVE  TypeInv'
  <2>1. [id |-> p.id, order |-> order, target |-> p.target] \in DelayedTasks
    OBVIOUS
  <2>2. delayed_tasks' \subseteq DelayedTasks
    BY <1>3, <2>1 DEF RegisterTask
  <2>3. timer' \in [value : Nat, next : Nat] /\ TimerOK'
    <3>1. PICK top \in delayed_tasks' : timer' = Rearm(top.target)
      BY <1>3 DEF RegisterTask
    <3> QED
      BY <2>2, <3>1, RearmType
  <2> QED
    BY <1>3, <2>2, <2>3 DEF RegisterTask
<1>4. ASSUME NEW d \in Nat, NEW isRun \in BOOLEAN, EnterLoop(d, isRun)
      PROVE  TypeInv'
  <2>1. running' \in BOOLEAN /\ forever' \in BOOLEAN
    BY <1>4, Zenon DEF EnterLoop
  <2> QED
    BY <1>4, <2>1, MillisecondsType DEF EnterLoop
<1>5. CASE RunExpiredTasksNow
  BY <1>5 DEF RunExpiredTasksNow
<1>6. CASE TerminateIdle
  <2>1. terminated' \in BOOLEAN /\ running' \in BOOLEAN
    BY <1>6, Zenon DEF TerminateIdle, DoTerminate
  <2>2. timer' \in [value : Nat, next : Nat] /\ TimerOK'
    BY <1>6, RearmType DEF TerminateIdle, DoTerminate
  <2> QED
    BY <1>6, <2>1, <2>2 DEF TerminateIdle, DoTerminate
<1>7. CASE EpollWait
  BY <1>7, TimeoutType DEF EpollWait
<1>8. CASE EpollReady
  BY <1>8 DEF EpollReady
<1>9. CASE EpollTimeout
  BY <1>9 DEF EpollTimeout
<1>10. CASE EpollInterrupted
  BY <1>10 DEF EpollInterrupted
<1>11. CASE OnEventFired
  <2>1. timer' \in [value : Nat, next : Nat] /\ TimerOK'
    BY <1>11, ReloadType DEF OnEventFired
  <2> QED
    BY <1>11, <2>1 DEF OnEventFired
<1>12. CASE GetTasksToRunNow
  <2>1. Due(delayed_tasks, now) \subseteq DelayedTasks
    BY DEF Due
  <2>2. timer' \in [value : Nat, next : Nat] /\ TimerOK'
    BY <1>12, RearmType DEF GetTasksToRunNow
  <2> QED
    BY <1>12, <2>1, <2>2 DEF GetTasksToRunNow
<1>13. ASSUME NEW t \in invocations, Invoke(t)
       PROVE  TypeInv'
  <2>1. timer' \in [value : Nat, next : Nat] /\ TimerOK'
    BY <1>13, RearmType DEF Invoke, DoTerminate
  <2> QED
    BY <1>13, <2>1 DEF Invoke, DoTerminate
<1>14. CASE EndFlush
  BY <1>14 DEF EndFlush
<1>15. CASE UpdateLeft
  <2>1. ToMilliseconds(now - start) \in Int
    BY MillisecondsType
  <2> QED
    BY <1>15, <2>1 DEF UpdateLeft
<1>16. CASE LeaveLoop
  BY <1>16 DEF LeaveLoop
<1>17. CASE DisposeTasks
  <2>1. forever' \in BOOLEAN
    BY <1>17, Zenon DEF DisposeTasks
  <2>2. left_at' \in [now : Nat, order : Nat]
    BY <1>17 DEF DisposeTasks
  <2> QED
    BY <1>17, <2>1, <2>2 DEF DisposeTasks
<1>18. CASE UNCHANGED vars
  BY <1>18 DEF vars
<1> QED
  BY <1>1, <1>2, <1>3, <1>4, <1>5, <1>6, <1>7, <1>8, <1>9, <1>10, <1>11,
     <1>12, <1>13, <1>14, <1>15, <1>16, <1>17, <1>18
     DEF Next, Post, Register, Owner, Loop, DoRun, DoRunForTime

\* Every reachable state of the loop, its queue, its timer and its posters is
\* well typed, and FlushTasks never returns with closures it has not invoked.
THEOREM TypeCorrect == Spec => []TypeOK
<1>1. Spec => []TypeInv
  BY TypeInit, TypeStep, PTL DEF Spec
<1> QED
  BY <1>1, PTL DEF TypeInv

-----------------------------------------------------------------------------
(* No accepted task is lost or duplicated, and tasks run in order.         *)

\* What the order theorem needs to be inductive: a batch is a prefix of the
\* queue, nothing left behind precedes a task of the batch or one that ran.
BatchInv ==
    /\ \A b \in ran \cup invocations : \A a \in delayed_tasks : ~Precedes(a, b)
    /\ \A b \in ran : \A a \in invocations : ~Precedes(a, b)
    /\ \A t \in invocations : t.target <= now

TaskInv == TypeInv /\ TasksConserved /\ BatchInv

\* The steps that neither move a task nor turn the clock back.
LEMMA TaskInvFrame ==
  ASSUME TypeInv', TasksConserved, BatchInv, now' \in Nat, now \in Nat, now' >= now,
         invocations \subseteq DelayedTasks,
         UNCHANGED <<queueVars, invocations, ran, disposed>>
  PROVE  TaskInv'
<1>1. TasksConserved'
  BY DEF TasksConserved, Accepted, queueVars
<1>2. BatchInv'
  BY DEF BatchInv, Precedes, queueVars, DelayedTasks
<1> QED
  BY <1>1, <1>2 DEF TaskInv

LEMMA TaskInit == Init => TaskInv
<1> SUFFICES ASSUME Init PROVE TaskInv
  OBVIOUS
<1>1. TasksConserved
  BY DEF Init, TasksConserved, Accepted
<1>2. BatchInv
  BY DEF Init, BatchInv
<1> QED
  BY <1>1, <1>2, TypeInit DEF TaskInv

LEMMA RegisterTaskInv ==
  ASSUME TaskInv, TypeInv', NEW p \in posting, RegisterTask(p)
  PROVE  TaskInv'
<1> DEFINE new == [id |-> p.id, order |-> order, target |-> p.target]
<1>1. /\ delayed_tasks' = delayed_tasks \cup {new}
      /\ order' = order + 1
      /\ invocations' = invocations /\ ran' = ran /\ disposed' = disposed
      /\ now' = now
  BY DEF RegisterTask, historyVars
<1>2. order \in Nat /\ now \in Nat /\ Accepted \subseteq DelayedTasks
  BY DEF TaskInv, TypeInv, TypeOK, Accepted
<1>3. \A t \in Accepted : t.order < order
  <2>1. \A t \in Accepted : t.order \in 0 .. order - 1
    BY DEF TaskInv, TasksConserved
  <2> QED
    BY <1>2, <2>1
<1>4. new.order = order
  OBVIOUS
<1>5. new \notin Accepted
  BY <1>2, <1>3, <1>4
<1>6. Accepted' = Accepted \cup {new}
  BY <1>1 DEF Accepted
<1> HIDE DEF new
<1>7. TasksConserved'
  <2>1. {t.order : t \in Accepted'} = 0 .. order' - 1
    <3>1. {t.order : t \in Accepted'} = {t.order : t \in Accepted} \cup {order}
      BY <1>4, <1>6
    <3>2. 0 .. order' - 1 = (0 .. order - 1) \cup {order}
      BY <1>1, <1>2
    <3> QED
      BY <3>1, <3>2 DEF TaskInv, TasksConserved
  <2>2. \A t, u \in Accepted' : t.order = u.order => t = u
    BY <1>2, <1>3, <1>4, <1>6 DEF TaskInv, TasksConserved, DelayedTasks
  <2>3. new \notin delayed_tasks \cup invocations \cup ran \cup disposed
    BY <1>5 DEF Accepted
  <2> QED
    BY <1>1, <2>1, <2>2, <2>3 DEF TaskInv, TasksConserved
<1>8. BatchInv'
  <2>1. \A b \in ran \cup invocations : ~Precedes(new, b)
    <3>1. \A b \in ran \cup invocations : b.order \in Nat /\ b.order < order
      BY <1>2, <1>3 DEF Accepted, DelayedTasks
    <3> QED
      BY <1>2, <1>4, <3>1 DEF Precedes
  <2> QED
    BY <1>1, <2>1 DEF TaskInv, BatchInv, Precedes
<1> QED
  BY <1>7, <1>8 DEF TaskInv

LEMMA GetTasksToRunNowTaskInv ==
  ASSUME TaskInv, TypeInv', GetTasksToRunNow
  PROVE  TaskInv'
<1>1. /\ invocations' = Due(delayed_tasks, now)
      /\ delayed_tasks' = delayed_tasks \ Due(delayed_tasks, now)
      /\ invocations = {}
      /\ order' = order /\ ran' = ran /\ disposed' = disposed /\ now' = now
  BY DEF GetTasksToRunNow, historyVars, TaskInv, TypeInv, TypeOK
<1>2. now \in Nat /\ delayed_tasks \subseteq DelayedTasks
  BY DEF TaskInv, TypeInv, TypeOK
<1>3. Due(delayed_tasks, now) \subseteq delayed_tasks
  BY DEF Due
<1>4. TasksConserved'
  <2>1. Accepted' = Accepted
    BY <1>1, <1>3 DEF Accepted
  <2> QED
    BY <1>1, <1>3, <2>1 DEF TaskInv, TasksConserved
<1>5. BatchInv'
  <2>1. \A b \in invocations' : \A a \in delayed_tasks' : ~Precedes(a, b)
    BY <1>1, <1>2 DEF Due, Precedes, DelayedTasks
  <2>2. \A t \in invocations' : t.target <= now'
    BY <1>1 DEF Due
  <2> QED
    BY <1>1, <1>3, <2>1, <2>2 DEF TaskInv, BatchInv, Precedes
<1> QED
  BY <1>4, <1>5 DEF TaskInv

LEMMA InvokeTaskInv ==
  ASSUME TaskInv, TypeInv', NEW t \in invocations, Invoke(t)
  PROVE  TaskInv'
<1>1. /\ invocations' = invocations \ {t} /\ ran' = ran \cup {t}
      /\ delayed_tasks' = delayed_tasks /\ order' = order
      /\ disposed' = disposed /\ now' = now
      /\ \A u \in invocations : u # t => Before(t, u)
  BY DEF Invoke, IsTop, queueVars
<1>2. invocations \subseteq DelayedTasks
  BY DEF TaskInv, TypeInv, TypeOK
<1>3. TasksConserved'
  <2>1. Accepted' = Accepted
    BY <1>1 DEF Accepted
  <2> QED
    BY <1>1, <2>1 DEF TaskInv, TasksConserved
<1>4. BatchInv'
  <2>1. \A a \in invocations' : ~Precedes(a, t)
    BY <1>1, <1>2 DEF Before, Precedes, DelayedTasks
  <2> QED
    BY <1>1, <2>1 DEF TaskInv, BatchInv, Precedes
<1> QED
  BY <1>3, <1>4 DEF TaskInv

LEMMA DisposeTasksTaskInv ==
  ASSUME TaskInv, TypeInv', DisposeTasks
  PROVE  TaskInv'
<1>1. /\ disposed' = disposed \cup delayed_tasks /\ delayed_tasks' = {}
      /\ invocations' = {} /\ invocations = {}
      /\ order' = order /\ ran' = ran /\ now' = now
  BY DEF DisposeTasks, TaskInv, TypeInv, TypeOK
<1>2. TasksConserved'
  <2>1. Accepted' = Accepted
    BY <1>1 DEF Accepted
  <2> QED
    BY <1>1, <2>1 DEF TaskInv, TasksConserved
<1>3. BatchInv'
  BY <1>1 DEF BatchInv
<1> QED
  BY <1>2, <1>3 DEF TaskInv

LEMMA TaskStep == TaskInv /\ [Next]_vars => TaskInv'
<1> SUFFICES ASSUME TaskInv, [Next]_vars PROVE TaskInv'
  OBVIOUS
<1>1. TypeInv'
  BY TypeStep DEF TaskInv
<1>2. /\ TasksConserved /\ BatchInv /\ now \in Nat
      /\ invocations \subseteq DelayedTasks
  BY DEF TaskInv, TypeInv, TypeOK
<1>3. CASE Register
  BY <1>1, <1>3, RegisterTaskInv DEF Register
<1>4. CASE GetTasksToRunNow
  BY <1>1, <1>4, GetTasksToRunNowTaskInv
<1>5. ASSUME NEW t \in invocations, Invoke(t) PROVE TaskInv'
  BY <1>1, <1>5, InvokeTaskInv
<1>6. CASE DisposeTasks
  BY <1>1, <1>6, DisposeTasksTaskInv
<1>7. CASE Tick
  BY <1>1, <1>2, <1>7, TaskInvFrame DEF Tick, historyVars
<1>8. CASE Post
  BY <1>1, <1>2, <1>8, TaskInvFrame DEF Post, PostTask, historyVars
<1>9. CASE Owner
  BY <1>1, <1>2, <1>9, TaskInvFrame
     DEF Owner, DoRun, DoRunForTime, EnterLoop, RunExpiredTasksNow,
         TerminateIdle, DoTerminate, historyVars
<1>10. CASE EpollWait \/ EpollReady \/ EpollTimeout \/ EpollInterrupted
  BY <1>1, <1>2, <1>10, TaskInvFrame
     DEF EpollWait, EpollReady, EpollTimeout, EpollInterrupted, historyVars
<1>11. CASE OnEventFired \/ EndFlush \/ UpdateLeft \/ LeaveLoop
  BY <1>1, <1>2, <1>11, TaskInvFrame
     DEF OnEventFired, EndFlush, UpdateLeft, LeaveLoop, historyVars
<1>12. CASE UNCHANGED vars
  BY <1>1, <1>2, <1>12, TaskInvFrame DEF vars, historyVars
<1> QED
  BY <1>3, <1>4, <1>5, <1>6, <1>7, <1>8, <1>9, <1>10, <1>11, <1>12 DEF Next, Loop

LEMMA TaskInvAlways == Spec => []TaskInv
  BY TaskInit, TaskStep, PTL DEF Spec

\* RegisterTask, GetTasksToRunNow, FlushTasks and DisposeTasks never lose a
\* task nor hold it twice.
THEOREM Conservation == Spec => []TasksConserved
  BY TaskInvAlways, PTL DEF TaskInv

\* Registration order and target time order the execution of tasks across
\* batches, for any posters and any terminating task.
THEOREM ExecutionOrder == Spec => []OrderedExecution
<1>1. TaskInv => OrderedExecution
  BY DEF TaskInv, BatchInv, OrderedExecution
<1> QED
  BY <1>1, TaskInvAlways, PTL

-----------------------------------------------------------------------------
(* The timer.                                                              *)

\* A time given to PostTaskForTime after the epoch of the clock.  Without it
\* the theorem is false: a target of zero disarms the timer.
SaneTimes == \A t \in Times : t > 0

\* While tasks are queued the timer was set for the first of them, and is
\* still to fire for it, unless the loop's thread has read the expiration and
\* has yet to take the queue's mutex.
WakeInv ==
    /\ \A p \in posting : p.target > 0
    /\ \A t \in delayed_tasks : t.target > 0
    /\ ~terminated /\ delayed_tasks # {} =>
         \E top \in delayed_tasks :
            /\ IsTop(top, delayed_tasks)
            /\ \/ timer.next = top.target
               \/ pc = "flush" /\ top.target <= now

LEMMA RearmPositive ==
  ASSUME NEW t \in Int, t > 0
  PROVE  Rearm(t).next = t
  BY DEF Rearm

LEMMA TopTarget ==
  ASSUME NEW Q \in SUBSET DelayedTasks, NEW top \in Q, IsTop(top, Q)
  PROVE  \A t \in Q : top.target <= t.target
  BY DEF IsTop, Before, DelayedTasks

\* The steps that leave the queue and the timer alone and do not leave "flush".
LEMMA WakeFrame ==
  ASSUME TypeInv, WakeInv, now' \in Nat, now' >= now, pc = "flush" => pc' = "flush",
         terminated => terminated', terminated' \in BOOLEAN,
         UNCHANGED <<posting, delayed_tasks, timer>>
  PROVE  WakeInv'
  BY DEF WakeInv, TypeInv, TypeOK, IsTop, Before, DelayedTasks

LEMMA RegisterTaskWake ==
  ASSUME TypeInv, TypeInv', WakeInv, NEW p \in posting, RegisterTask(p)
  PROVE  WakeInv'
<1>1. /\ posting' \subseteq posting
      /\ \A t \in delayed_tasks' : t \in delayed_tasks \/ t.target = p.target
  BY DEF RegisterTask
<1>2. \A t \in delayed_tasks' : t.target > 0
  BY <1>1 DEF WakeInv
<1>3. PICK top \in delayed_tasks' :
         IsTop(top, delayed_tasks') /\ timer' = Rearm(top.target)
  BY DEF RegisterTask
<1>4. timer'.next = top.target
  BY <1>2, <1>3, RearmPositive DEF TypeInv, TypeOK, DelayedTasks
<1> QED
  BY <1>1, <1>2, <1>3, <1>4 DEF WakeInv, IsTop, Before

LEMMA GetTasksToRunNowWake ==
  ASSUME TypeInv, TypeInv', WakeInv, GetTasksToRunNow
  PROVE  WakeInv'
<1> DEFINE due == Due(delayed_tasks, now)
           rest == delayed_tasks \ due
<1>1. /\ delayed_tasks' = rest /\ posting' = posting
      /\ terminated' = terminated /\ now' = now
  BY DEF GetTasksToRunNow, postVars
<1>2. \A t \in delayed_tasks' : t.target > 0
  BY <1>1 DEF WakeInv
<1>3. CASE due = {}
  <2>1. timer' = timer /\ delayed_tasks' = delayed_tasks
    BY <1>1, <1>3 DEF GetTasksToRunNow
  <2>2. \A t \in delayed_tasks : ~(t.target <= now)
    BY <1>3 DEF Due
  <2> QED
    BY <1>1, <2>1, <2>2 DEF WakeInv, IsTop, Before
<1>4. CASE rest = {}
  BY <1>1, <1>4 DEF WakeInv
<1>5. CASE due # {} /\ rest # {}
  <2>1. PICK top \in rest : IsTop(top, rest) /\ timer' = Rearm(top.target)
    BY <1>5 DEF GetTasksToRunNow
  <2>2. timer'.next = top.target
    BY <1>1, <1>2, <2>1, RearmPositive DEF TypeInv, TypeOK, DelayedTasks
  <2> QED
    BY <1>1, <1>2, <2>1, <2>2 DEF WakeInv, IsTop, Before
<1> QED
  BY <1>3, <1>4, <1>5

LEMMA OnEventFiredWake ==
  ASSUME TypeInv, WakeInv, OnEventFired
  PROVE  WakeInv'
<1>1. /\ posting' = posting /\ delayed_tasks' = delayed_tasks
      /\ terminated' = terminated /\ now' = now /\ pc = "drain"
  BY DEF OnEventFired, postVars, queueVars
<1>2. CASE Readable /\ pc' = "flush"
  BY <1>1, <1>2 DEF WakeInv, Readable, IsTop, Before
<1>3. CASE timer' = timer
  BY <1>1, <1>3 DEF WakeInv, IsTop, Before
<1> QED
  BY <1>2, <1>3 DEF OnEventFired

LEMMA WakeStep ==
  ASSUME SaneTimes, TypeInv, WakeInv, [Next]_vars
  PROVE  WakeInv'
<1>1. TypeInv'
  BY TypeStep
<1>2. /\ now \in Nat /\ now' \in Nat /\ now > 0
      /\ terminated \in BOOLEAN /\ terminated' \in BOOLEAN
  BY <1>1 DEF TypeInv, TypeOK
<1>3. CASE Register
  BY <1>1, <1>3, RegisterTaskWake DEF Register
<1>4. CASE GetTasksToRunNow
  BY <1>1, <1>4, GetTasksToRunNowWake
<1>5. CASE OnEventFired
  BY <1>5, OnEventFiredWake
<1>6. CASE DisposeTasks
  BY <1>6 DEF DisposeTasks, WakeInv, postVars
<1>7. ASSUME NEW id \in Tasks, NEW target \in {now + d : d \in Delays} \cup Times,
             PostTask(id, target)
      PROVE  WakeInv'
  <2>1. target > 0
    <3>1. CASE target \in Times
      BY <3>1 DEF SaneTimes
    <3>2. CASE target \in {now + d : d \in Delays}
      <4>1. PICK d \in Delays : target = now + d
        BY <3>2
      <4> QED
        BY <1>2, <4>1, TimesAssumption
    <3> QED
      BY <3>1, <3>2
  <2>2. \A p \in posting' : p.target > 0
    BY <1>7, <2>1 DEF PostTask, WakeInv
  <2>3. UNCHANGED <<delayed_tasks, timer, terminated, pc, now>>
    BY <1>7 DEF PostTask, queueVars
  <2> QED
    BY <2>2, <2>3 DEF WakeInv, IsTop, Before
<1>8. ASSUME NEW t \in invocations, Invoke(t) PROVE WakeInv'
  <2>1. /\ posting' = posting /\ delayed_tasks' = delayed_tasks
        /\ pc' = pc /\ now' = now
    BY <1>8 DEF Invoke, postVars, queueVars
  <2>2. CASE t.id \in Terminators
    <3>1. terminated'
      BY <1>8, <2>2 DEF Invoke, DoTerminate
    <3> QED
      BY <2>1, <3>1 DEF WakeInv
  <2>3. CASE t.id \notin Terminators
    <3>1. terminated' = terminated /\ timer' = timer
      BY <1>8, <2>3 DEF Invoke
    <3> QED
      BY <2>1, <3>1 DEF WakeInv, IsTop, Before
  <2> QED
    BY <2>2, <2>3
<1>9. CASE TerminateIdle
  <2>1. terminated' /\ posting' = posting /\ delayed_tasks' = delayed_tasks
    BY <1>9 DEF TerminateIdle, DoTerminate, postVars, queueVars
  <2> QED
    BY <2>1 DEF WakeInv
<1>10. CASE LeaveLoop
  <2>1. terminated => terminated'
    BY <1>10 DEF LeaveLoop
  <2> QED
    BY <1>2, <1>10, <2>1, WakeFrame DEF LeaveLoop, postVars, queueVars
<1>11. CASE Tick
  BY <1>2, <1>11, WakeFrame DEF Tick, postVars, queueVars
<1>12. CASE RunExpiredTasksNow \/ (\E d \in Durations : DoRunForTime(d)) \/ DoRun
  BY <1>2, <1>12, WakeFrame
     DEF RunExpiredTasksNow, DoRun, DoRunForTime, EnterLoop, postVars, queueVars
<1>13. CASE EpollWait \/ EpollReady \/ EpollTimeout \/ EpollInterrupted
  BY <1>2, <1>13, WakeFrame
     DEF EpollWait, EpollReady, EpollTimeout, EpollInterrupted, postVars, queueVars
<1>14. CASE EndFlush \/ UpdateLeft
  BY <1>2, <1>14, WakeFrame DEF EndFlush, UpdateLeft, postVars, queueVars
<1>15. CASE UNCHANGED vars
  BY <1>2, <1>15, WakeFrame DEF vars, postVars, queueVars
<1> QED
  BY <1>3, <1>4, <1>5, <1>6, <1>7, <1>8, <1>9, <1>10, <1>11, <1>12, <1>13,
     <1>14, <1>15 DEF Next, Loop, Post, Owner

\* As long as every PostTaskForTime names a time after the clock's epoch, no
\* race between a registration, TimerDrain and GetTasksToRunNow leaves a queued
\* task without a timer that fires by its target.
THEOREM WakeUp == SaneTimes => (Spec => []WokenAtRequiredTime)
<1> SUFFICES ASSUME SaneTimes PROVE Spec => []WokenAtRequiredTime
  OBVIOUS
<1>1. Init => WakeInv
  BY DEF Init, WakeInv
<1>2. TypeInv /\ WakeInv /\ [Next]_vars => WakeInv'
  BY WakeStep
<1>3. TypeInv /\ WakeInv => WokenAtRequiredTime
  <2> SUFFICES ASSUME TypeInv, WakeInv, ~terminated, pc # "flush",
                      NEW t \in delayed_tasks
               PROVE  0 < timer.next /\ timer.next <= t.target
    BY DEF WokenAtRequiredTime
  <2>1. PICK top \in delayed_tasks :
           IsTop(top, delayed_tasks) /\ timer.next = top.target
    BY DEF WakeInv
  <2>2. top.target <= t.target /\ top.target > 0
    BY <2>1, TopTarget DEF TypeInv, TypeOK, WakeInv
  <2> QED
    BY <2>1, <2>2
<1> QED
  BY <1>1, <1>2, <1>3, TypeInit, TypeStep, PTL DEF Spec

-----------------------------------------------------------------------------
(* What DisposeTasks may throw away.                                       *)

DisposeInv ==
    /\ left_at.order <= order
    /\ pc = "dispose" => after = "dispose"
    /\ left_at.now <= now
    /\ pc \in {"invoke", "dispose"} /\ after = "dispose" =>
         \A t \in delayed_tasks :
             t.order >= left_at.order \/ t.target > left_at.now

LEMMA DisposeStep ==
  ASSUME TypeInv, DisposeInv, [Next]_vars
  PROVE  DisposeInv'
<1>1. TypeInv'
  BY TypeStep
<1> USE DEF TypeInv, TypeOK, DisposeInv, postVars, queueVars, runVars, historyVars
<1>2. CASE Register
  <2>1. PICK p \in posting : RegisterTask(p)
    BY <1>2 DEF Register
  <2>2. /\ delayed_tasks' =
             delayed_tasks \cup {[id |-> p.id, order |-> order, target |-> p.target]}
        /\ order' = order + 1 /\ UNCHANGED <<pc, after, now, left_at>>
    BY <2>1 DEF RegisterTask
  <2> QED
    BY <2>2
<1>3. CASE GetTasksToRunNow
  <2>1. /\ delayed_tasks' = delayed_tasks \ Due(delayed_tasks, now)
        /\ pc' = "invoke" /\ UNCHANGED <<order, after, now, left_at>>
    BY <1>3 DEF GetTasksToRunNow
  <2>2. \A t \in delayed_tasks' : t.target > now
    BY <2>1 DEF Due, DelayedTasks
  <2> QED
    BY <2>1, <2>2 DEF DelayedTasks
<1>4. CASE EndFlush
  BY <1>4 DEF EndFlush
<1>5. CASE LeaveLoop
  BY <1>5 DEF LeaveLoop
<1>6. CASE DisposeTasks
  <2>1. left_at'.order = 0 /\ left_at'.now = 0
    BY <1>6 DEF DisposeTasks
  <2>2. pc' = "idle" /\ order' = order /\ now' = now
    BY <1>6 DEF DisposeTasks
  <2> QED
    BY <2>1, <2>2
<1>7. CASE Tick
  BY <1>7 DEF Tick
<1>8. CASE Post
  BY <1>8 DEF Post, PostTask
<1>9. CASE Owner
  BY <1>9 DEF Owner, DoRun, DoRunForTime, EnterLoop, RunExpiredTasksNow,
              TerminateIdle, DoTerminate
<1>10. CASE EpollWait \/ EpollReady \/ EpollTimeout \/ EpollInterrupted
  BY <1>10 DEF EpollWait, EpollReady, EpollTimeout, EpollInterrupted
<1>11. CASE OnEventFired \/ UpdateLeft
  BY <1>11 DEF OnEventFired, UpdateLeft
<1>12. ASSUME NEW t \in invocations, Invoke(t) PROVE DisposeInv'
  BY <1>12 DEF Invoke
<1>13. CASE UNCHANGED vars
  BY <1>13 DEF vars
<1> QED
  BY <1>2, <1>3, <1>4, <1>5, <1>6, <1>7, <1>8, <1>9, <1>10, <1>11, <1>12,
     <1>13 DEF Next, Loop

\* What was registered and due when Run or RunForTime left its loop is
\* executed by the last flush; DisposeTasks cannot reach it.
THEOREM DueTasksRun == Spec => []DueTasksAreRunNotDisposed
<1>1. Init => DisposeInv
  BY DEF Init, DisposeInv
<1>2. TypeInv /\ DisposeInv /\ [Next]_vars => DisposeInv'
  BY DisposeStep
<1>3. DisposeInv => DueTasksAreRunNotDisposed
  BY DEF DisposeInv, DueTasksAreRunNotDisposed
<1> QED
  BY <1>1, <1>2, <1>3, TypeInit, TypeStep, PTL DEF Spec

-----------------------------------------------------------------------------
(* Refinement of the abstract executor.                                    *)

LEMMA ExecutorStep ==
  ASSUME TaskInv, [Next]_vars
  PROVE  [Executor!Next]_Executor!vars
<1> USE DEF Executor!vars, postVars, queueVars, runVars, historyVars
<1>1. CASE Tick
  BY <1>1 DEF Tick, Executor!Next, Executor!Advance
<1>2. ASSUME NEW p \in posting, RegisterTask(p)
      PROVE  Executor!Next
  <2> DEFINE new == [id |-> p.id, order |-> order, target |-> p.target]
  <2>1. new \in (delayed_tasks \cup invocations)' /\ new.order = order
    BY <1>2 DEF RegisterTask
  <2>2. Executor!Accept(new)
    BY <1>2, <2>1 DEF RegisterTask, Executor!Accept
  <2> HIDE DEF new
  <2> QED
    BY <2>1, <2>2 DEF Executor!Next
<1>3. ASSUME NEW t \in invocations, Invoke(t)
      PROVE  Executor!Next
  <2>1. t.target <= now /\ t \notin delayed_tasks /\ t \in delayed_tasks \cup invocations
    BY DEF TaskInv, BatchInv, TasksConserved
  <2>2. \A u \in delayed_tasks \cup invocations : ~Precedes(u, t)
    BY <1>3 DEF TaskInv, TypeInv, TypeOK, BatchInv, Invoke, IsTop, Before,
                Precedes, DelayedTasks
  <2>3. (delayed_tasks \cup invocations)' = (delayed_tasks \cup invocations) \ {t}
    BY <1>3, <2>1 DEF Invoke
  <2>4. Executor!Execute(t)
    BY <1>3, <2>1, <2>2, <2>3
       DEF Invoke, Executor!Execute, Executor!Precedes, Precedes
  <2> QED
    BY <2>1, <2>4 DEF Executor!Next
<1>4. CASE DisposeTasks
  BY <1>4 DEF DisposeTasks, TaskInv, TypeInv, TypeOK, Executor!Next, Executor!DropAll
<1>5. CASE GetTasksToRunNow
  BY <1>5 DEF GetTasksToRunNow, Due, TaskInv, TypeInv, TypeOK
<1>6. CASE Post
  BY <1>6 DEF Post, PostTask
<1>7. CASE Owner
  BY <1>7 DEF Owner, DoRun, DoRunForTime, EnterLoop, RunExpiredTasksNow,
              TerminateIdle, DoTerminate
<1>8. CASE EpollWait \/ EpollReady \/ EpollTimeout \/ EpollInterrupted
  BY <1>8 DEF EpollWait, EpollReady, EpollTimeout, EpollInterrupted
<1>9. CASE OnEventFired \/ EndFlush \/ UpdateLeft \/ LeaveLoop
  BY <1>9 DEF OnEventFired, EndFlush, UpdateLeft, LeaveLoop
<1>10. CASE UNCHANGED vars
  BY <1>10 DEF vars
<1> QED
  BY <1>1, <1>2, <1>3, <1>4, <1>5, <1>6, <1>7, <1>8, <1>9, <1>10
     DEF Next, Loop, Register

\* The message loop implements the abstract executor: tasks are executed once,
\* when due and in order, and dropped only all together.
THEOREM LoopImplementsExecutor == Spec => ImplementsExecutor
<1>1. Init => Executor!Init
  BY DEF Init, Executor!Init
<1>2. TaskInv /\ [Next]_vars => [Executor!Next]_Executor!vars
  BY ExecutorStep
<1> QED
  BY <1>1, <1>2, TaskInvAlways, PTL DEF Spec, ImplementsExecutor, Executor!Spec
=============================================================================
