------------------------------- MODULE Thread -------------------------------
(***************************************************************************)
(* Thread (source/base/thread/thread.cpp): Start creates a thread with a   *)
(* message loop and waits on an AutoResetWaitableEvent until the loop's    *)
(* task runner is there; Join posts a closure that terminates the loop and *)
(* joins the thread.                                                       *)
(*                                                                         *)
(* The event is an instance of WaitableEvent.  It and the task_runner that *)
(* the thread fills in live on the stack of Start.  Of the loop the module *)
(* keeps what MessageLoop shows of Run: flushes until it is terminated or  *)
(* returns by itself, one more flush, the disposal of what is then queued. *)
(* Join is called by the owner alone, after Start.                         *)
(***************************************************************************)
EXTENDS Naturals

CONSTANTS
    Tasks,          \* closures that anybody may post, each once
    Quitters,       \* those among them that call MessageLoop::Terminate
    Quit,           \* the closure that Join posts
    Owner           \* the thread that calls Start and Join

ASSUME ThreadAssumption == Quitters \subseteq Tasks /\ Quit \notin Tasks

VARIABLES
    ev_signaled, ev_pc, ev_expired, ev_signals, ev_consumed, ev_stolen, ev_spurious,
    opc,            \* where the owner is
    tpc,            \* where the new thread is
    local_runner,   \* Start's task_runner has been assigned
    task_runner,    \* task_runner_ is not null
    joined,         \* joined_
    unposted,       \* closures nobody has posted yet
    posting,        \* posts between the test of terminated_ and the queue
    queue,          \* the loop's delayed_tasks
    batch,          \* taken by FlushTasks and not yet invoked
    last_flush,     \* it is the flush after the loop was left
    terminated,     \* the loop's terminated_
    expired,        \* history: Run returned by itself
    registered,     \* history: closures that reached the queue
    before,         \* history: those that did before Join's closure
    ran             \* history: closures invoked

evVars == <<ev_signaled, ev_pc, ev_expired, ev_signals, ev_consumed, ev_stolen,
            ev_spurious>>
startVars == <<local_runner, task_runner>>
postVars == <<unposted, posting>>
loopVars == <<batch, last_flush, terminated, expired, ran>>
registerVars == <<queue, registered, before>>
vars == <<evVars, opc, tpc, startVars, joined, postVars, loopVars, registerVars>>

Event == INSTANCE WaitableEvent
         WITH Waiters <- {Owner}, TimedWaiters <- {}, MaxSignals <- 1, MaxSpurious <- 1,
              signaled <- ev_signaled, pc <- ev_pc, expired <- ev_expired,
              signals <- ev_signals, consumed <- ev_consumed, stolen <- ev_stolen,
              spurious <- ev_spurious

All == Tasks \cup {Quit}

\* Every variable has its type; the thread holds closures in hand only while
\* it invokes them, and the event keeps its own type.
TypeOK ==
    /\ Event!TypeOK
    /\ opc \in {"new", "start", "started", "joining", "joined"}
    /\ tpc \in {"none", "init", "signal", "loop", "invoke", "dispose", "exited"}
    /\ local_runner \in BOOLEAN /\ task_runner \in BOOLEAN
    /\ joined \in BOOLEAN /\ terminated \in BOOLEAN /\ last_flush \in BOOLEAN
    /\ expired \in BOOLEAN
    /\ unposted \subseteq Tasks /\ posting \subseteq All
    /\ queue \subseteq registered /\ batch \subseteq registered
    /\ ran \subseteq registered /\ before \subseteq registered
    /\ registered \subseteq All
    /\ tpc # "invoke" => batch = {}

-----------------------------------------------------------------------------
(* Thread::Start.                                                          *)

\* The std::thread is created.
Spawn ==
    /\ opc = "new"
    /\ opc' = "start" /\ tpc' = "init"
    /\ UNCHANGED <<evVars, startVars, joined, postVars, loopVars, registerVars>>

\* The new thread: EnsureInitializedForCurrentThread, and the task runner is
\* written to Start's variable ...
InitLoop ==
    /\ tpc = "init"
    /\ local_runner' = TRUE
    /\ tpc' = "signal"
    /\ UNCHANGED <<evVars, opc, task_runner, joined, postVars, loopVars, registerVars>>

\* Mutant: the event is signaled before the task runner is written.
SignalReadyFirst ==
    /\ tpc = "init"
    /\ Event!Signal
    /\ tpc' = "signal"
    /\ UNCHANGED <<opc, startVars, joined, postVars, loopVars, registerVars>>

\* Mutant: the event is not signaled.
SignalReadyNever ==
    /\ tpc = "signal"
    /\ tpc' = "loop"
    /\ UNCHANGED <<evVars, opc, startVars, joined, postVars, loopVars, registerVars>>

\* ... and the event is signaled.  loop.Run() follows.
SignalReady ==
    /\ tpc = "signal"
    /\ Event!Signal
    /\ tpc' = "loop"
    /\ UNCHANGED <<opc, startVars, joined, postVars, loopVars, registerVars>>

\* The owner waits; when the wait returns it copies the task runner, and the
\* event and the variable are gone with Start's stack.
WaitReady ==
    /\ opc = "start"
    /\ Event!Wait(Owner) \/ Event!WaitResumes(Owner)
    /\ IF ev_consumed' > ev_consumed
       THEN opc' = "started" /\ task_runner' = local_runner
       ELSE UNCHANGED <<opc, task_runner>>
    /\ UNCHANGED <<tpc, local_runner, joined, postVars, loopVars, registerVars>>

Spurious ==
    /\ Event!SpuriousWakeup(Owner)
    /\ UNCHANGED <<opc, tpc, startVars, joined, postVars, loopVars, registerVars>>

-----------------------------------------------------------------------------
(* Posts, and Thread::Join.                                                *)

\* GetTaskRunner()->PostTask, by anybody, once Start has returned.
Post(t) ==
    /\ opc \in {"started", "joining", "joined"}
    /\ t \in unposted
    /\ unposted' = unposted \ {t}
    /\ posting' = IF terminated THEN posting ELSE posting \cup {t}
    /\ UNCHANGED <<evVars, opc, tpc, startVars, joined, loopVars, registerVars>>

Register(t) ==
    /\ t \in posting
    /\ posting' = posting \ {t}
    /\ queue' = queue \cup {t}
    /\ registered' = registered \cup {t}
    /\ before' = IF t = Quit THEN registered ELSE before
    /\ UNCHANGED <<evVars, opc, tpc, startVars, joined, unposted, loopVars>>

\* Mutant: Join does not tell the loop to terminate.
JoinWithoutPost ==
    /\ opc = "started" /\ ~joined
    /\ joined' = TRUE
    /\ opc' = "joining"
    /\ UNCHANGED <<evVars, tpc, startVars, postVars, loopVars, registerVars>>

\* Join, or the destructor: mark, and post the closure that terminates the
\* loop, which PostTask refuses when the loop has been left already.
Join ==
    /\ opc = "started" /\ ~joined
    /\ joined' = TRUE
    /\ posting' = IF terminated THEN posting ELSE posting \cup {Quit}
    /\ opc' = "joining"
    /\ UNCHANGED <<evVars, tpc, startVars, unposted, loopVars, registerVars>>

\* thread_->join() returns.
JoinEnds ==
    /\ opc = "joining" /\ Quit \notin posting
    /\ tpc = "exited"
    /\ opc' = "joined"
    /\ UNCHANGED <<evVars, tpc, startVars, joined, postVars, loopVars, registerVars>>

-----------------------------------------------------------------------------
(* The loop's thread in MessageLoopImpl::DoRun.                            *)

\* Run returns although nobody terminated the loop: epoll_wait timed out or
\* failed, or the wake-ups have used up the time of TimeDelta::Max(), which the
\* loop charges several times and passes on as an int.  DoRun then sets
\* terminated_ as if the loop had been terminated.
RunReturns ==
    /\ tpc = "loop" /\ ~terminated
    /\ terminated' = TRUE /\ expired' = TRUE
    /\ UNCHANGED <<evVars, opc, tpc, startVars, joined, postVars, batch, last_flush,
                   ran, registerVars>>

\* A wake-up for what is queued, or the flush after the loop was left.
Flush ==
    /\ tpc = "loop" /\ (queue # {} \/ terminated)
    /\ batch' = queue /\ queue' = {}
    /\ last_flush' = terminated
    /\ tpc' = "invoke"
    /\ UNCHANGED <<evVars, opc, startVars, joined, postVars, terminated, expired, ran,
                   registered, before>>

Invoke(t) ==
    /\ tpc = "invoke" /\ t \in batch
    /\ batch' = batch \ {t}
    /\ ran' = ran \cup {t}
    /\ terminated' = (terminated \/ t \in Quitters \cup {Quit})
    /\ UNCHANGED <<evVars, opc, tpc, startVars, joined, postVars, last_flush, expired,
                   registerVars>>

\* Mutant: the flush that terminated the loop ends without its other closures.
EndFlushEarly ==
    /\ tpc = "invoke" /\ (batch = {} \/ terminated)
    /\ tpc' = IF last_flush THEN "dispose" ELSE "loop"
    /\ UNCHANGED <<evVars, opc, startVars, joined, postVars, loopVars, registerVars>>

EndFlush ==
    /\ tpc = "invoke" /\ batch = {}
    /\ tpc' = IF last_flush THEN "dispose" ELSE "loop"
    /\ UNCHANGED <<evVars, opc, startVars, joined, postVars, loopVars, registerVars>>

\* DisposeTasks; the thread function returns.
Exit ==
    /\ tpc = "dispose"
    /\ queue' = {}
    /\ tpc' = "exited"
    /\ UNCHANGED <<evVars, opc, startVars, joined, postVars, loopVars, registered,
                   before>>

-----------------------------------------------------------------------------
Init ==
    /\ Event!Init
    /\ opc = "new" /\ tpc = "none"
    /\ local_runner = FALSE /\ task_runner = FALSE /\ joined = FALSE
    /\ unposted = Tasks /\ posting = {}
    /\ queue = {} /\ batch = {} /\ last_flush = FALSE
    /\ terminated = FALSE /\ expired = FALSE
    /\ registered = {} /\ before = {} /\ ran = {}

LoopThread == \/ InitLoop \/ SignalReady \/ Flush \/ EndFlush \/ Exit
              \/ \E t \in batch : Invoke(t)

\* What a thread that is inside a call does next.
Calls == WaitReady \/ JoinEnds \/ \E t \in posting : Register(t)

Next ==
    \/ Spawn \/ Join \/ Spurious \/ RunReturns
    \/ \E t \in Tasks : Post(t)
    \/ Calls \/ LoopThread

Spec == Init /\ [][Next]_vars

\* Threads that can go on are scheduled.  Nobody is obliged to start the
\* thread, to post or to join, and Run need not return by itself.
FairSpec == Spec /\ WF_vars(LoopThread) /\ WF_vars(WaitReady) /\ WF_vars(JoinEnds)
                 /\ \A t \in All : WF_vars(Register(t))

-----------------------------------------------------------------------------
(* Properties.                                                             *)

\* Start returns with the task runner (thread_test.cpp: ASSERT_TRUE of
\* GetTaskRunner()): what the thread wrote is there when the owner copies it.
StartHandsOverRunner == opc \in {"started", "joining", "joined"} => task_runner

\* The thread touches Start's event and variable only while Start is there.
StackOutlivesThread == tpc \in {"init", "signal"} => opc = "start"

\* When Join returns and its closure has run, so has whatever was queued before
\* it (thread_test.cpp HasARunningMessageLoop), also when the loop was left for
\* another reason while the closure was queued; and the closure has run unless
\* there was such a reason: a task terminated the loop, or Run returned by itself.
EarlierTasksRan ==
    opc = "joined" =>
        /\ Quit \in ran => before \subseteq ran
        /\ Quit \in ran \/ ran \cap Quitters # {} \/ expired

\* Nothing runs once Join has returned, and nothing more can be queued for good:
\* the loop refuses it or it stays where nobody looks.
NothingRunsAfterJoin == [][opc = "joined" => UNCHANGED <<ran, tpc>>]_vars

\* Start returns.
StartReturns == (opc = "start") ~> (opc = "started")

\* Join returns, although other threads go on posting and tasks terminate the
\* loop on their own.
JoinReturns == (opc = "joining") ~> (opc = "joined")
=============================================================================
