---------------------------- MODULE MessageLoop ----------------------------
(***************************************************************************)
(* One message loop of source/base/messageloop on Linux: the thread that   *)
(* owns it (MessageLoopImpl::DoRun / DoRunForTime over epoll and one       *)
(* timerfd), its entry in MessageLoopTaskQueues, and the threads that post *)
(* tasks to it through a TaskRunner.                                       *)
(*                                                                         *)
(* The step of the loop thread is everything between two points at which   *)
(* another thread can change what it sees: a per-queue mutex, a system     *)
(* call on the timerfd, the invocation of a closure.  A post is two steps, *)
(* because terminated_ is read without the mutex that RegisterTask takes.  *)
(***************************************************************************)
EXTENDS DelayedTask

CONSTANTS
    Tasks,          \* the closures that may be posted, each at most once
    Terminators,    \* those among them that call MessageLoop::Terminate
    Delays,         \* the delays given to PostTask (0) and PostDelayTask
    Times,          \* the time points given to PostTaskForTime
    Durations,      \* the arguments of RunForTime
    CallsRun,       \* whether the owner of the loop calls Run()
    TimeMax,        \* TimePoint::Max(), and the instant no run reaches
    TicksPerMs,     \* what ToMilliseconds divides by
    DeltaMax,       \* TimeDelta::Max()
    IntMod,         \* the number of values of epoll_wait's int timeout
    MaxTime,        \* bound: the clock stops here
    MaxInterrupts   \* bound: how often a signal interrupts epoll_wait

ASSUME TasksAssumption == Terminators \subseteq Tasks /\ CallsRun \in BOOLEAN

ASSUME TimesAssumption ==
    /\ Delays \subseteq Nat
    /\ Durations \subseteq Nat
    /\ Times \subseteq Int
    /\ MaxTime \in Nat /\ MaxInterrupts \in Nat
    /\ TimeMax \in Nat /\ MaxTime < TimeMax
    /\ DeltaMax \in Nat
    /\ TicksPerMs \in Nat /\ TicksPerMs > 0
    /\ IntMod \in Nat /\ IntMod > 1

VARIABLES
    now,            \* CLOCK_MONOTONIC
    interrupts,     \* signals taken by epoll_wait so far
    unposted,       \* closures nobody has posted yet
    posting,        \* posts between PostTask's test of terminated_ and the queue
    terminated,     \* MessageLoopImpl::terminated_
    delayed_tasks,  \* TaskQueueEntry::delayed_tasks
    order,          \* MessageLoopTaskQueues::order_
    timer,          \* the timerfd: value is it_value = it_interval, next its next expiry
    running,        \* MessageLoopImplLinux::running_
    pc,             \* where the loop thread is
    after,          \* where FlushTasks returns to
    forever,        \* the loop was entered through DoRun
    start,          \* start_time
    duration,       \* the argument of RunForTime
    left,           \* left_milliseconds
    deadline,       \* when the epoll_wait under way times out
    invocations,    \* FlushTasks' vector, what is still to be invoked
    ran,            \* history: tasks that were invoked
    disposed,       \* history: tasks DisposeTasks threw away
    left_at         \* history: clock and order_ when the running loop was left

postVars == <<unposted, posting>>
queueVars == <<delayed_tasks, order>>
runVars == <<forever, start, duration, left>>
historyVars == <<ran, disposed, left_at>>
vars == <<now, interrupts, postVars, terminated, queueVars, timer, running, pc,
          after, runVars, deadline, invocations, historyVars>>

Locations == {"idle", "while", "epoll", "drain", "flush", "invoke", "elapsed", "dispose"}

DelayedTasks == [id : Tasks, order : Nat, target : Int]

\* Every variable has its type, and FlushTasks' vector holds closures only
\* while FlushTasks invokes them: no return leaves one uninvoked.
TypeOK ==
    /\ now \in Nat /\ now > 0
    /\ interrupts \in Nat
    /\ unposted \subseteq Tasks
    /\ posting \subseteq [id : Tasks, target : Int]
    /\ terminated \in BOOLEAN /\ running \in BOOLEAN /\ forever \in BOOLEAN
    /\ delayed_tasks \subseteq DelayedTasks
    /\ order \in Nat
    /\ timer \in [value : Nat, next : Nat]
    /\ pc \in Locations
    /\ after \in {"elapsed", "dispose", "idle"}
    /\ start \in Nat /\ duration \in Nat /\ left \in Int /\ deadline \in Nat
    /\ invocations \subseteq DelayedTasks
    /\ ran \subseteq DelayedTasks
    /\ disposed \subseteq DelayedTasks
    /\ left_at \in [now : Nat, order : Nat]
    /\ pc # "invoke" => invocations = {}

-----------------------------------------------------------------------------
(* The timerfd (platform/linux/timerfd.cpp).                               *)

\* TimerRearm: an absolute expiry that is also the period.  The nanoseconds
\* are unsigned, so a negative time lies beyond any clock value; a zero one
\* disarms the timer, as timerfd_settime does.
Rearm(t) == LET v == IF t < 0 THEN TimeMax ELSE t
            IN  [value |-> v, next |-> v]

\* The timer has expired and its expirations have not been read.
Readable == 0 < timer.next /\ timer.next <= now

\* What reading the expirations leaves: the next multiple of the period.
Reload == [timer EXCEPT !.next = (now \div timer.value + 1) * timer.value]

-----------------------------------------------------------------------------
(* Posting threads (task_runner.cpp, MessageLoopImpl::PostTask,            *)
(* MessageLoopTaskQueues::RegisterTask).                                   *)

\* TaskRunner computes the target time; PostTask returns when it sees
\* terminated_, otherwise it goes on to the queue.
PostTask(id, target) ==
    /\ id \in unposted
    /\ unposted' = unposted \ {id}
    /\ posting' = IF terminated THEN posting
                  ELSE posting \cup {[id |-> id, target |-> target]}
    /\ UNCHANGED <<now, interrupts, terminated, queueVars, timer, running, pc,
                   after, runVars, deadline, invocations, historyVars>>

\* Mutant: order_ is read but not incremented.
RegisterTaskSameOrder(p) ==
    /\ p \in posting
    /\ posting' = posting \ {p}
    /\ delayed_tasks' =
         delayed_tasks \cup {[id |-> p.id, order |-> order, target |-> p.target]}
    /\ \E top \in delayed_tasks' :
         IsTop(top, delayed_tasks') /\ timer' = Rearm(top.target)
    /\ UNCHANGED <<now, interrupts, unposted, terminated, order, running, pc,
                   after, runVars, deadline, invocations, historyVars>>

\* Mutant: the timer is rearmed for the new task instead of the top.
RegisterTaskWakesForItself(p) ==
    /\ p \in posting
    /\ posting' = posting \ {p}
    /\ delayed_tasks' =
         delayed_tasks \cup {[id |-> p.id, order |-> order, target |-> p.target]}
    /\ order' = order + 1
    /\ timer' = Rearm(p.target)
    /\ UNCHANGED <<now, interrupts, unposted, terminated, running, pc, after,
                   runVars, deadline, invocations, historyVars>>

\* Mutant: the loop is not woken for the task.
RegisterTaskSilent(p) ==
    /\ p \in posting
    /\ posting' = posting \ {p}
    /\ delayed_tasks' =
         delayed_tasks \cup {[id |-> p.id, order |-> order, target |-> p.target]}
    /\ order' = order + 1
    /\ UNCHANGED <<now, interrupts, unposted, terminated, timer, running, pc, after,
                   runVars, deadline, invocations, historyVars>>

\* Under the queue's mutex: take the next order, push, and rearm the timer
\* for whatever is then on top.
RegisterTask(p) ==
    /\ p \in posting
    /\ posting' = posting \ {p}
    /\ delayed_tasks' =
         delayed_tasks \cup {[id |-> p.id, order |-> order, target |-> p.target]}
    /\ order' = order + 1
    /\ \E top \in delayed_tasks' :
         IsTop(top, delayed_tasks') /\ timer' = Rearm(top.target)
    /\ UNCHANGED <<now, interrupts, unposted, terminated, running, pc, after,
                   runVars, deadline, invocations, historyVars>>

-----------------------------------------------------------------------------
(* The thread that owns the loop.                                          *)

ToMilliseconds(d) == d \div TicksPerMs

\* The int64_t left_milliseconds as epoll_wait's int parameter.
AsInt(ms) == ((ms + IntMod \div 2) % IntMod) - IntMod \div 2

\* When an epoll_wait entered now gives up; a negative timeout never does.
Timeout(ms) == IF AsInt(ms) < 0 THEN TimeMax ELSE now + AsInt(ms) * TicksPerMs

\* DoRun and DoRunForTime up to the while loop; both return at once when the
\* loop is terminated.
EnterLoop(d, isRun) ==
    /\ pc = "idle" /\ ~terminated
    /\ running' = TRUE
    /\ forever' = isRun
    /\ start' = now
    /\ duration' = d
    /\ left' = ToMilliseconds(d)
    /\ pc' = "while"
    /\ UNCHANGED <<now, interrupts, postVars, terminated, queueVars, timer,
                   after, deadline, invocations, historyVars>>

DoRun == CallsRun /\ EnterLoop(DeltaMax, TRUE)

DoRunForTime(d) == EnterLoop(d, FALSE)

\* The owner's other calls on an idle loop.
RunExpiredTasksNow ==
    /\ pc = "idle"
    /\ pc' = "flush"
    /\ after' = "idle"
    /\ UNCHANGED <<now, interrupts, postVars, terminated, queueVars, timer,
                   running, runVars, deadline, invocations, historyVars>>

\* Mutant: the loop is marked terminated but running_ is left alone.
DoTerminateKeepsRunning ==
    /\ terminated' = TRUE
    /\ timer' = Rearm(now)
    /\ UNCHANGED running

DoTerminate ==
    /\ terminated' = TRUE
    /\ running' = FALSE
    /\ timer' = Rearm(now)

TerminateIdle ==
    /\ pc = "idle" /\ ~terminated
    /\ DoTerminate
    /\ UNCHANGED <<now, interrupts, postVars, queueVars, pc, after, runVars,
                   deadline, invocations, historyVars>>

\* while (running_) ... epoll_wait
EpollWait ==
    /\ pc = "while" /\ running
    /\ pc' = "epoll"
    /\ deadline' = Timeout(left)
    /\ UNCHANGED <<now, interrupts, postVars, terminated, queueVars, timer,
                   running, after, runVars, invocations, historyVars>>

\* epoll_wait reports the timer.
EpollReady ==
    /\ pc = "epoll" /\ Readable
    /\ pc' = "drain"
    /\ deadline' = 0
    /\ UNCHANGED <<now, interrupts, postVars, terminated, queueVars, timer,
                   running, after, runVars, invocations, historyVars>>

\* epoll_wait times out.  errno is not set by a timeout: when an earlier call
\* of this thread left EINTR in it, the result is taken for an interruption.
EpollTimeout ==
    /\ pc = "epoll" /\ now >= deadline
    /\ deadline' = 0
    /\ \/ running' = FALSE /\ pc' = "while"
       \/ running' = running /\ pc' = "elapsed"
    /\ UNCHANGED <<now, interrupts, postVars, terminated, queueVars, timer,
                   after, runVars, invocations, historyVars>>

\* A signal: epoll_wait fails with EINTR and event.data.fd is not the timer.
EpollInterrupted ==
    /\ pc = "epoll" /\ interrupts < MaxInterrupts
    /\ interrupts' = interrupts + 1
    /\ deadline' = 0
    /\ pc' = "elapsed"
    /\ UNCHANGED <<now, postVars, terminated, queueVars, timer, running, after,
                   runVars, invocations, historyVars>>

\* OnEventFired: TimerDrain reads the expirations, and reads nothing when a
\* poster has rearmed the timer for later since epoll_wait returned.
OnEventFired ==
    /\ pc = "drain"
    /\ \/ Readable /\ timer' = Reload /\ pc' = "flush"
       \/ ~Readable /\ UNCHANGED timer /\ pc' = "elapsed"
    /\ after' = "elapsed"
    /\ UNCHANGED <<now, interrupts, postVars, terminated, queueVars, running,
                   runVars, deadline, invocations, historyVars>>

\* GetTasksToRunNow, under the queue's mutex: pop every due task; each pop
\* rearms the timer for the new top, or for TimePoint::Max() when none is
\* left, and without a pop the timer stays as it is.
GetTasksToRunNow ==
    LET due == Due(delayed_tasks, now)
        rest == delayed_tasks \ due
    IN  /\ pc = "flush"
        /\ invocations' = due
        /\ delayed_tasks' = rest
        /\ \/ due = {} /\ UNCHANGED timer
           \/ due # {} /\ rest = {} /\ timer' = Rearm(TimeMax)
           \/ due # {} /\ \E top \in rest :
                IsTop(top, rest) /\ timer' = Rearm(top.target)
        /\ pc' = "invoke"
        /\ UNCHANGED <<now, interrupts, postVars, terminated, order, running,
                       after, runVars, deadline, historyVars>>

\* FlushTasks invokes the closures in the order they were popped.
Invoke(t) ==
    /\ pc = "invoke"
    /\ IsTop(t, invocations)
    /\ invocations' = invocations \ {t}
    /\ ran' = ran \cup {t}
    /\ IF t.id \in Terminators THEN DoTerminate
                               ELSE UNCHANGED <<terminated, running, timer>>
    /\ UNCHANGED <<now, interrupts, postVars, queueVars, pc, after, runVars,
                   deadline, disposed, left_at>>

\* Mutant: FlushTasks returns with closures left in its vector.
EndFlushEarly ==
    /\ pc = "invoke"
    /\ pc' = after
    /\ UNCHANGED <<now, interrupts, postVars, terminated, queueVars, timer,
                   running, after, runVars, deadline, invocations, historyVars>>

EndFlush ==
    /\ pc = "invoke" /\ invocations = {}
    /\ pc' = after
    /\ UNCHANGED <<now, interrupts, postVars, terminated, queueVars, timer,
                   running, after, runVars, deadline, invocations, historyVars>>

\* The rest of the while body: what is subtracted is the time since the loop
\* was entered, not since the previous subtraction.
UpdateLeft ==
    /\ pc = "elapsed"
    /\ left' = left - ToMilliseconds(now - start)
    /\ running' = (running /\ left' > 0)
    /\ pc' = "while"
    /\ UNCHANGED <<now, interrupts, postVars, terminated, queueVars, timer,
                   after, forever, start, duration, deadline, invocations,
                   historyVars>>

\* Mutant: the tasks are disposed of without the last flush.
LeaveLoopWithoutFlush ==
    /\ pc = "while" /\ ~running
    /\ terminated' = (terminated \/ forever)
    /\ left_at' = [now |-> now, order |-> order]
    /\ pc' = "dispose"
    /\ UNCHANGED <<now, interrupts, postVars, queueVars, timer, running, after,
                   runVars, deadline, invocations, ran, disposed>>

\* Run / RunForTime return; DoRun then sets terminated_, and both flush.
LeaveLoop ==
    /\ pc = "while" /\ ~running
    /\ terminated' = (terminated \/ forever)
    /\ left_at' = [now |-> now, order |-> order]
    /\ pc' = "flush"
    /\ after' = "dispose"
    /\ UNCHANGED <<now, interrupts, postVars, queueVars, timer, running,
                   runVars, deadline, invocations, ran, disposed>>

\* DisposeTasks, and DoRun / DoRunForTime return to the owner.
DisposeTasks ==
    /\ pc = "dispose"
    /\ disposed' = disposed \cup delayed_tasks
    /\ delayed_tasks' = {}
    /\ left_at' = [now |-> 0, order |-> 0]
    /\ start' = 0 /\ duration' = 0 /\ left' = 0 /\ forever' = FALSE
    /\ pc' = "idle"
    /\ UNCHANGED <<now, interrupts, postVars, terminated, order, timer,
                   running, after, deadline, invocations, ran>>

-----------------------------------------------------------------------------
Tick ==
    /\ now < MaxTime
    /\ now' = now + 1
    /\ UNCHANGED <<interrupts, postVars, terminated, queueVars, timer, running,
                   pc, after, runVars, deadline, invocations, historyVars>>

\* The monotonic clock counts from boot: it is never zero.
Init ==
    /\ now = 1 /\ interrupts = 0
    /\ unposted = Tasks /\ posting = {}
    /\ terminated = FALSE /\ running = FALSE
    /\ delayed_tasks = {} /\ order = 0
    /\ timer = [value |-> 0, next |-> 0]
    /\ pc = "idle" /\ after = "idle"
    /\ forever = FALSE /\ start = 0 /\ duration = 0 /\ left = 0 /\ deadline = 0
    /\ invocations = {} /\ ran = {} /\ disposed = {}
    /\ left_at = [now |-> 0, order |-> 0]

Post ==
    \E id \in Tasks : \E target \in {now + d : d \in Delays} \cup Times :
        PostTask(id, target)

Register == \E p \in posting : RegisterTask(p)

\* What the owner of the loop decides to do with it.
Owner == DoRun \/ (\E d \in Durations : DoRunForTime(d))
               \/ RunExpiredTasksNow \/ TerminateIdle

\* What the loop's thread does once it has been called.
Loop == \/ EpollWait \/ EpollReady \/ EpollTimeout
        \/ OnEventFired \/ GetTasksToRunNow
        \/ \E t \in invocations : Invoke(t)
        \/ EndFlush \/ UpdateLeft \/ LeaveLoop \/ DisposeTasks

Next == Tick \/ Post \/ Register \/ Owner \/ Loop \/ EpollInterrupted

Spec == Init /\ [][Next]_vars

\* Time passes, and the operating system runs a thread that can take a step:
\* a poster that has begun posts, a loop thread that is not blocked goes on.
\* Nothing obliges anybody to post a task or to run the loop.
FairSpec == Spec /\ WF_vars(Tick) /\ WF_vars(Register) /\ WF_vars(Loop)
-----------------------------------------------------------------------------
(* Properties.                                                             *)

Accepted == delayed_tasks \cup invocations \cup ran \cup disposed

\* RegisterTask, GetTasksToRunNow, FlushTasks and DisposeTasks hand a task from
\* one to the next: each accepted task is in exactly one place, under an order
\* no other task has.
TasksConserved ==
    /\ {t.order : t \in Accepted} = 0 .. order - 1
    /\ \A t, u \in Accepted : t.order = u.order => t = u
    /\ delayed_tasks \cap (invocations \cup ran \cup disposed) = {}
    /\ invocations \cap (ran \cup disposed) = {}
    /\ ran \cap disposed = {}

\* A task that was registered earlier and is due no later than one that has
\* been invoked is not still waiting, whatever was posted between the flushes
\* and wherever a terminating task fell: the queue and FlushTasks keep the
\* order of DelayedTask::operator> across batches.
OrderedExecution ==
    \A b \in ran : \A a \in delayed_tasks \cup invocations : ~Precedes(a, b)

\* The timer is armed, and for no later than the first pending task is due,
\* whenever the loop may go to sleep: a registration that races TimerDrain or
\* GetTasksToRunNow never leaves the loop without a wake-up.
WokenAtRequiredTime ==
    ~terminated /\ pc # "flush" =>
        \A t \in delayed_tasks : 0 < timer.next /\ timer.next <= t.target

\* DisposeTasks never throws away a task that was registered and due when the
\* running loop was left; only later registrations and later targets go.
DueTasksAreRunNotDisposed ==
    pc = "dispose" =>
        \A t \in delayed_tasks : t.order >= left_at.order \/ t.target > left_at.now

\* The loop as an abstract executor: a batch taken out of the queue is still
\* pending there, and only the invocation of a closure executes it.
Executor == INSTANCE TaskExecutor
            WITH accepted <- order, pending <- delayed_tasks \cup invocations,
                 executed <- ran, dropped <- disposed

\* Every step of the posters, the timer and the loop's thread is a step of
\* the abstract executor or invisible to it.
ImplementsExecutor == Executor!Spec

\* RunForTime does not return before its duration is over, unless the loop
\* was terminated (message_loop_test.cpp RunForTime).
RunsFullDuration ==
    pc = "flush" /\ after = "dispose" /\ ~terminated => now - start >= duration

\* The loop's thread is inside DoRun or DoRunForTime.
InRun == pc # "idle" /\ ~(pc \in {"flush", "invoke"} /\ after = "idle")

\* A registered task that the clock reaches does not stay queued behind a loop
\* that is running: it is invoked, or thrown away when the loop is left.
TaskSettled ==
    \A id \in Tasks :
        (InRun /\ \E t \in delayed_tasks : t.id = id /\ t.target <= MaxTime)
            ~> (\E t \in ran \cup disposed : t.id = id)

\* What Thread::Join relies on: once a terminating task is queued, Run()
\* returns and the loop refuses further tasks.
TerminationReturns ==
    (forever /\ \E t \in delayed_tasks : t.id \in Terminators /\ t.target <= MaxTime)
        ~> (pc = "idle" /\ terminated)
=============================================================================
