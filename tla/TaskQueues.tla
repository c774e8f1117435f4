----------------------------- MODULE TaskQueues -----------------------------
(***************************************************************************)
(* MessageLoopTaskQueues as the registry of all loops' queues, with the    *)
(* locks around it, the loops and task runners that share it and the task  *)
(* observers that FlushTasks notifies                                      *)
(* (source/base/messageloop/message_loop_task_queues.cpp, message_loop.cpp, *)
(* message_loop_impl.cpp, task_runner.cpp, source/base/thread/mutex.cpp).  *)
(*                                                                         *)
(* Every call on a queue reads queue_locks_ under the shared meta mutex,   *)
(* leaves that, takes the queue's own mutex and looks the queue up in      *)
(* queue_entries_.  That std::map is written by CreateTaskQueue under the  *)
(* meta mutex and by Dispose under the mutex of one queue, so accesses of  *)
(* different queues can meet in it: a data race whose outcome is a choice. *)
(*                                                                         *)
(* A loop is named by the id of its queue.  Times and the wake-up itself   *)
(* are the subject of MessageLoop; here every queued closure is due.       *)
(***************************************************************************)
EXTENDS Naturals, FiniteSets, FiniteSetsExt

CONSTANTS
    Threads,
    MaxQueues,      \* bound: queues created in a behaviour
    MaxPosts,       \* bound: closures posted in a behaviour
    MaxEdits,       \* bound: observers added and removed in a behaviour
    Keys,           \* keys of observers, compared as intptr_t
    NoThread,
    NoQueue

Queues == 0 .. MaxQueues - 1

ASSUME QueuesAssumption ==
    /\ MaxQueues \in Nat /\ MaxPosts \in Nat /\ MaxEdits \in Nat /\ Keys \subseteq Nat
    /\ NoThread \notin Threads /\ NoQueue \notin Queues

VARIABLES
    tls,            \* the loop of each thread's MessageLoop
    runners,        \* loops each thread holds a TaskRunner of
    counter,        \* task_queue_id_counter_
    locks,          \* keys of queue_locks_
    entries,        \* keys of queue_entries_
    entry,          \* the TaskQueueEntry of each key
    meta_writer,    \* who holds queue_meta_mutex_ exclusively
    owner,          \* who holds the mutex of each queue
    pc, call,       \* where each thread is in its call of the registry
    stage,          \* where each thread is in FlushTasks
    batch,          \* closures taken and not yet returned from
    snap,           \* observers copied and not yet called
    posts, edits,   \* closures posted, observers added and removed
    aborted,        \* a failed check, an exception or a bad access
    creator,        \* history: the thread that made each loop
    strays,         \* history: closures run by a thread that did not make the loop
    steady, removed,\* history: observers there since the closure was invoked
                    \* and not yet called, observers removed since
    raced           \* history: two accesses met in queue_entries_

holders == <<tls, runners>>
maps == <<counter, locks, entries, entry>>
mutexes == <<meta_writer, owner>>
flush == <<stage, batch, snap, steady, removed>>
bounds == <<posts, edits>>
vars == <<holders, maps, mutexes, pc, call, flush, bounds, aborted, creator, strays,
          raced>>

Ops == {"wakeable", "register", "take", "add", "remove", "observers", "query",
        "drop", "dispose"}
NoCall == [op |-> "query", queue |-> NoQueue, key |-> 0]
Blank == [wakeable |-> FALSE, tasks |-> 0, observers |-> {}]

\* Every variable has its type; the one who creates a queue holds the meta mutex.
TypeOK ==
    /\ tls \in [Threads -> Queues \cup {NoQueue}]
    /\ runners \in [Threads -> SUBSET Queues]
    /\ counter \in 0 .. MaxQueues
    /\ locks \subseteq Queues /\ entries \subseteq Queues
    /\ entry \in [Queues -> [wakeable : BOOLEAN, tasks : Nat,
                             observers : SUBSET Keys]]
    /\ meta_writer \in Threads \cup {NoThread}
    /\ owner \in [Queues -> Threads \cup {NoThread}]
    /\ pc \in [Threads -> {"idle", "create", "getmutex", "locking", "entry"}]
    /\ \A t \in Threads : pc[t] = "create" <=> meta_writer = t
    /\ call \in [Threads -> [op : Ops, queue : Queues \cup {NoQueue},
                             key : Keys \cup {0}]]
    /\ stage \in [Threads -> {"out", "task", "observers", "exited"}]
    /\ batch \in [Threads -> Nat] /\ snap \in [Threads -> SUBSET Keys]
    /\ posts \in 0 .. MaxPosts /\ edits \in 0 .. MaxEdits
    /\ aborted \in BOOLEAN /\ raced \in BOOLEAN
    /\ creator \in [Queues -> Threads \cup {NoThread}]
    /\ strays \subseteq Queues \X Threads
    /\ steady \in [Threads -> SUBSET Keys] /\ removed \in [Threads -> SUBSET Keys]

-----------------------------------------------------------------------------
(* The locks: SharedMutex with SharedLock and UniqueLock, ScopedMutex.  A    *)
(* SharedLock is held for the lookup of GetMutex only, which is one step, so *)
(* no state shows a reader.                                                 *)

LockShared == meta_writer = NoThread /\ UNCHANGED meta_writer
Lock(t) == meta_writer = NoThread /\ meta_writer' = t
\* Mutant: the exclusive lock is not released.
UnlockForgotten == UNCHANGED meta_writer

Unlock == meta_writer' = NoThread

Goto(t, location) == pc' = [pc EXCEPT ![t] = location]

\* A thread outside the registry: in its own code or in a callback.
Free(t) == pc[t] = "idle" /\ stage[t] # "exited" /\ ~aborted

Call(t, op, q, k) ==
    /\ Goto(t, "getmutex")
    /\ call' = [call EXCEPT ![t] = [op |-> op, queue |-> q, key |-> k]]

\* GetMutex returns a reference to the mutex, or at() throws.
GetMutex(t) ==
    /\ pc[t] = "getmutex" /\ ~aborted
    /\ LockShared
    /\ Goto(t, "locking")
    /\ aborted' = (call[t].queue \notin locks)
    /\ UNCHANGED <<holders, maps, owner, call, flush, bounds, creator, strays, raced>>

\* ScopedMutex on the reference; locking a mutex that is gone is a bad access.
ScopedMutex(t) ==
    /\ pc[t] = "locking" /\ ~aborted
    /\ owner[call[t].queue] = NoThread
    /\ owner' = [owner EXCEPT ![call[t].queue] = t]
    /\ Goto(t, "entry")
    /\ aborted' = (call[t].queue \notin locks)
    /\ UNCHANGED <<holders, maps, meta_writer, call, flush, bounds,
                   creator, strays, raced>>

-----------------------------------------------------------------------------
(* queue_entries_ and the data race on it.                                 *)

Inside(t) == pc[t] \in {"create", "entry"}
Modifies(t) == pc[t] = "create" \/ (pc[t] = "entry" /\ call[t].op = "dispose")

\* Two threads are in the map at once and one of them changes it.
Meets(t) == \E u \in Threads \ {t} :
              Inside(t) /\ Inside(u) /\ (Modifies(t) \/ Modifies(u))
RaceSeen(t) == raced' = (raced \/ Meets(t))

\* A call under the queue's mutex, and its return.
In(t, op) == pc[t] = "entry" /\ call[t].op = op /\ ~aborted
Found(t) == call[t].queue \in entries
Return(t) ==
    /\ owner' = [owner EXCEPT ![call[t].queue] = NoThread]
    /\ Goto(t, "idle")
    /\ call' = [call EXCEPT ![t] = NoCall]
    /\ RaceSeen(t)
    /\ UNCHANGED meta_writer

\* The key is not there, or the race hides it: at() throws, or operator[] makes
\* a null entry that is dereferenced.
Missing(t) ==
    /\ pc[t] = "entry" /\ call[t].op # "dispose" /\ ~aborted
    /\ ~Found(t) \/ Meets(t)
    /\ aborted' = TRUE
    /\ RaceSeen(t)
    /\ UNCHANGED <<holders, maps, mutexes, pc, call, flush, bounds, creator, strays>>

-----------------------------------------------------------------------------
(* Loops and task runners.                                                 *)

\* EnsureInitializedForCurrentThread: the first call makes a MessageLoop,
\* whose constructor takes the meta mutex in CreateTaskQueue ...
EnsureInitialized(t) ==
    /\ Free(t) /\ stage[t] = "out"
    /\ tls[t] = NoQueue /\ counter < MaxQueues
    /\ Lock(t)
    /\ Goto(t, "create")
    /\ UNCHANGED <<holders, maps, owner, call, flush, bounds, aborted, creator, strays,
                   raced>>

\* ... inserts the mutex and the entry and goes on with SetWakeable.  An
\* insertion that meets another access may be lost.
CreateTaskQueue(t) ==
    /\ pc[t] = "create" /\ ~aborted
    /\ LET q == counter
       IN  /\ counter' = counter + 1
           /\ locks' = locks \cup {q}
           /\ entry' = [entry EXCEPT ![q] = Blank]
           /\ \/ entries' = entries \cup {q}
              \/ Meets(t) /\ UNCHANGED entries
           /\ creator' = [creator EXCEPT ![q] = t]
           /\ Call(t, "wakeable", q, 0)
    /\ RaceSeen(t)
    /\ Unlock
    /\ UNCHANGED <<holders, owner, flush, bounds, aborted, strays>>

\* SetWakeable ends the constructor: FF_CHECK that there is none yet.
SetWakeable(t) ==
    /\ In(t, "wakeable") /\ Found(t)
    /\ LET q == call[t].queue
       IN  /\ aborted' = entry[q].wakeable
           /\ entry' = [entry EXCEPT ![q].wakeable = TRUE]
           /\ tls' = [tls EXCEPT ![t] = q]
    /\ Return(t)
    /\ UNCHANGED <<runners, counter, locks, entries, flush, bounds, creator, strays>>

\* The task runner of another thread's loop, copied from one who has it.
GetTaskRunner(t, q) ==
    /\ Free(t) /\ q \notin runners[t] /\ tls[t] # q
    /\ \E u \in Threads : tls[u] = q \/ q \in runners[u]
    /\ runners' = [runners EXCEPT ![t] = @ \cup {q}]
    /\ UNCHANGED <<tls, maps, mutexes, pc, call, flush, bounds, aborted, creator,
                   strays, raced>>

\* Mutant: the loop dies with its thread, whoever has a task runner.
ReleasesWithThread(t, q) ==
    IF \E u \in Threads : tls'[u] = q
    THEN UNCHANGED <<pc, call>>
    ELSE Call(t, "dispose", q, 0)

\* Whoever lets go of the last shared_ptr of a loop runs ~MessageLoopImpl.
Releases(t, q) ==
    IF \E u \in Threads : tls'[u] = q \/ q \in runners'[u]
    THEN UNCHANGED <<pc, call>>
    ELSE Call(t, "dispose", q, 0)

DropTaskRunner(t, q) ==
    /\ Free(t) /\ q \in runners[t]
    /\ runners' = [runners EXCEPT ![t] = @ \ {q}]
    /\ UNCHANGED tls
    /\ Releases(t, q)
    /\ UNCHANGED <<maps, mutexes, flush, bounds, aborted, creator, strays, raced>>

\* The thread ends: the key's destructor deletes its MessageLoop.
ThreadExit(t) ==
    /\ Free(t) /\ stage[t] = "out" /\ tls[t] # NoQueue /\ runners[t] = {}
    /\ tls' = [tls EXCEPT ![t] = NoQueue]
    /\ stage' = [stage EXCEPT ![t] = "exited"]
    /\ UNCHANGED runners
    /\ Releases(t, tls[t])
    /\ UNCHANGED <<maps, mutexes, batch, snap, steady, removed, bounds, aborted,
                   creator, strays, raced>>

\* Dispose: the entry goes, with the closures in it; the mutex stays.
Dispose(t) ==
    /\ In(t, "dispose")
    /\ \/ entries' = entries \ {call[t].queue}
       \/ Meets(t) /\ UNCHANGED entries
    /\ entry' = [entry EXCEPT ![call[t].queue] = Blank]
    /\ Return(t)
    /\ UNCHANGED <<holders, counter, locks, flush, bounds, aborted, creator, strays>>

-----------------------------------------------------------------------------
(* Posting.                                                                *)

Stray(t, q) == IF creator[q] = t THEN {} ELSE {<<q, t>>}

CanPost(t, q) == Free(t) /\ posts < MaxPosts /\ (q \in runners[t] \/ tls[t] = q)

\* TaskRunner::PostTask, and RunNowOrPostTask away from the loop's thread.
PostTask(t, q) ==
    /\ CanPost(t, q)
    /\ posts' = posts + 1 /\ UNCHANGED edits
    /\ Call(t, "register", q, 0)
    /\ UNCHANGED <<holders, maps, mutexes, flush, aborted, creator, strays, raced>>

\* Mutant: any thread with a loop will do.
RunTasksOnAnyLoop(t, q) == tls[t] # NoQueue

\* RunTasksOnCurrentThread: the ids of the two loops are equal.
RunTasksOnCurrentThread(t, q) == tls[t] # NoQueue /\ tls[t] = q

\* RunNowOrPostTask on the loop's thread runs the closure at once.
RunNow(t, q) ==
    /\ CanPost(t, q) /\ RunTasksOnCurrentThread(t, q)
    /\ posts' = posts + 1 /\ UNCHANGED edits
    /\ strays' = strays \cup Stray(t, q)
    /\ UNCHANGED <<holders, maps, mutexes, pc, call, flush, aborted, creator, raced>>

\* RegisterTask; it wakes the loop through the pointer SetWakeable stored.
RegisterTask(t) ==
    /\ In(t, "register") /\ Found(t)
    /\ entry' = [entry EXCEPT ![call[t].queue].tasks = @ + 1]
    /\ Return(t)
    /\ UNCHANGED <<holders, counter, locks, entries, flush, bounds, aborted, creator,
                   strays>>

\* HasPendingTask and GetNumPendingTasks look and change nothing.
HasPendingTask(t) ==
    /\ In(t, "query") /\ Found(t)
    /\ Return(t)
    /\ UNCHANGED <<holders, maps, flush, bounds, aborted, creator, strays>>

-----------------------------------------------------------------------------
(* FlushTasks and the observers, on the loop's own thread.                  *)

OnLoop(t) == Free(t) /\ tls[t] # NoQueue

\* FlushTasks, DisposeTasks when the loop was left, and the queries.
LoopCalls(t, op) ==
    /\ OnLoop(t) /\ stage[t] = "out"
    /\ Call(t, op, tls[t], 0)
    /\ UNCHANGED <<holders, maps, mutexes, flush, bounds, aborted, creator, strays, raced>>

DisposeTasks(t) ==
    /\ In(t, "drop") /\ Found(t)
    /\ entry' = [entry EXCEPT ![call[t].queue].tasks = 0]
    /\ Return(t)
    /\ UNCHANGED <<holders, counter, locks, entries, flush, bounds, aborted, creator,
                   strays>>

\* The next closure is invoked; its callback may call the registry again.
Invoke(t, left) ==
    /\ batch' = [batch EXCEPT ![t] = left]
    /\ stage' = [stage EXCEPT ![t] = IF left = 0 THEN "out" ELSE "task"]
    /\ strays' = strays \cup (IF left = 0 THEN {} ELSE Stray(t, tls[t]))
    /\ steady' = [steady EXCEPT ![t] = IF left = 0 THEN {} ELSE entry[tls[t]].observers]
    /\ removed' = [removed EXCEPT ![t] = {}]

GetTasksToRunNow(t) ==
    /\ In(t, "take") /\ Found(t)
    /\ Invoke(t, entry[call[t].queue].tasks)
    /\ entry' = [entry EXCEPT ![call[t].queue].tasks = 0]
    /\ Return(t)
    /\ UNCHANGED <<holders, counter, locks, entries, snap, bounds, aborted, creator>>

\* The closure returns: copy the observers under the queue's mutex ...
TaskReturns(t) ==
    /\ OnLoop(t) /\ stage[t] = "task"
    /\ Call(t, "observers", tls[t], 0)
    /\ UNCHANGED <<holders, maps, mutexes, flush, bounds, aborted, creator, strays, raced>>

GetObserversToNotify(t) ==
    /\ In(t, "observers") /\ Found(t)
    /\ snap' = [snap EXCEPT ![t] = entry[call[t].queue].observers]
    /\ stage' = [stage EXCEPT ![t] = "observers"]
    /\ Return(t)
    /\ UNCHANGED <<holders, maps, batch, steady, removed, bounds, aborted, creator, strays>>

\* ... and call the copies, in the order of their keys, without it.
Observe(t) ==
    /\ OnLoop(t) /\ stage[t] = "observers" /\ snap[t] # {}
    /\ LET k == Min(snap[t])
       IN  /\ snap' = [snap EXCEPT ![t] = @ \ {k}]
           /\ steady' = [steady EXCEPT ![t] = @ \ {k}]
    /\ UNCHANGED <<holders, maps, mutexes, pc, call, stage, batch, removed, bounds,
                   aborted, creator, strays, raced>>

EndTask(t) ==
    /\ OnLoop(t) /\ stage[t] = "observers" /\ snap[t] = {}
    /\ Invoke(t, batch[t] - 1)
    /\ UNCHANGED <<holders, maps, mutexes, pc, call, snap, bounds, aborted, creator,
                   raced>>

\* AddTaskObserver and RemoveTaskObserver, checked to be on the loop's thread,
\* from its own code, from a closure or from an observer.
CallObserver(t, op, k) ==
    /\ OnLoop(t) /\ edits < MaxEdits
    /\ edits' = edits + 1
    /\ Call(t, op, tls[t], k)
    /\ UNCHANGED <<holders, maps, mutexes, flush, posts, aborted, creator, strays, raced>>

\* Mutant: a new observer replaces the others.
AddTaskObserverAlone(t) ==
    /\ In(t, "add") /\ Found(t)
    /\ entry' = [entry EXCEPT ![call[t].queue].observers = {call[t].key}]
    /\ Return(t)
    /\ UNCHANGED <<holders, counter, locks, entries, flush, bounds, aborted, creator,
                   strays>>

AddTaskObserver(t) ==
    /\ In(t, "add") /\ Found(t)
    /\ entry' = [entry EXCEPT ![call[t].queue].observers = @ \cup {call[t].key}]
    /\ Return(t)
    /\ UNCHANGED <<holders, counter, locks, entries, flush, bounds, aborted, creator,
                   strays>>

RemoveTaskObserver(t) ==
    /\ In(t, "remove") /\ Found(t)
    /\ entry' = [entry EXCEPT ![call[t].queue].observers = @ \ {call[t].key}]
    /\ steady' = [steady EXCEPT ![t] = @ \ {call[t].key}]
    /\ removed' = [removed EXCEPT ![t] = IF stage[t] = "out" THEN @ ELSE @ \cup {call[t].key}]
    /\ Return(t)
    /\ UNCHANGED <<holders, counter, locks, entries, stage, batch, snap, bounds,
                   aborted, creator, strays>>

\* Nobody is in a call: the only place where the system may rest.
Rest ==
    /\ aborted \/ \A t \in Threads : pc[t] = "idle"
    /\ UNCHANGED vars

-----------------------------------------------------------------------------
Init ==
    /\ tls = [t \in Threads |-> NoQueue] /\ runners = [t \in Threads |-> {}]
    /\ counter = 0 /\ locks = {} /\ entries = {}
    /\ entry = [q \in Queues |-> Blank]
    /\ meta_writer = NoThread
    /\ owner = [q \in Queues |-> NoThread]
    /\ pc = [t \in Threads |-> "idle"] /\ call = [t \in Threads |-> NoCall]
    /\ stage = [t \in Threads |-> "out"] /\ batch = [t \in Threads |-> 0]
    /\ snap = [t \in Threads |-> {}]
    /\ posts = 0 /\ edits = 0 /\ aborted = FALSE
    /\ creator = [q \in Queues |-> NoThread] /\ strays = {}
    /\ steady = [t \in Threads |-> {}] /\ removed = [t \in Threads |-> {}]
    /\ raced = FALSE

Locking(t) == GetMutex(t) \/ ScopedMutex(t) \/ Missing(t)

Lifecycle(t) ==
    \/ EnsureInitialized(t) \/ CreateTaskQueue(t) \/ SetWakeable(t)
    \/ ThreadExit(t) \/ Dispose(t)
    \/ \E q \in Queues : GetTaskRunner(t, q) \/ DropTaskRunner(t, q)

Posting(t) ==
    \/ RegisterTask(t) \/ HasPendingTask(t)
    \/ \E q \in Queues : PostTask(t, q) \/ RunNow(t, q)

Flushing(t) ==
    \/ \E op \in {"take", "query", "drop"} : LoopCalls(t, op)
    \/ GetTasksToRunNow(t) \/ DisposeTasks(t)
    \/ TaskReturns(t) \/ GetObserversToNotify(t) \/ Observe(t) \/ EndTask(t)
    \/ \E k \in Keys, op \in {"add", "remove"} : CallObserver(t, op, k)
    \/ AddTaskObserver(t) \/ RemoveTaskObserver(t)

Next ==
    \/ \E t \in Threads : Locking(t) \/ Lifecycle(t) \/ Posting(t) \/ Flushing(t)
    \/ Rest

Spec == Init /\ [][Next]_vars

-----------------------------------------------------------------------------
(* Properties                                                              *)

\* No check of the registry fails, no lookup misses and no mutex is used after
\* it is gone, whatever threads create, share, drop and outlive loops, unless
\* accesses of two queues met in queue_entries_ (message_loop_task_queues.cpp,
\* GetMutex, at, operator[], SetWakeable; message_loop_impl.cpp:34).
AbortsOnlyByRace == aborted => raced

\* A closure of a loop runs on the thread that made the loop, whether FlushTasks
\* or RunNowOrPostTask runs it (task_runner.cpp:31-49).
RunsOnLoopThread == strays = {}

\* In the round of observers after a closure, one that was registered when the
\* closure was invoked and has not been removed is still to be called, and what
\* is called although it is not registered was removed by this very closure or
\* round (message_loop_impl.cpp:108-115).
ObserverRound ==
    \A t \in Threads : stage[t] = "observers" =>
        /\ steady[t] \subseteq snap[t]
        /\ snap[t] \subseteq entry[tls[t]].observers \cup removed[t]
=============================================================================
