-------------------------- MODULE TaskQueues_proofs --------------------------
(***************************************************************************)
(* Proofs about TaskQueues, for any threads, queues, closures and observers. *)
(***************************************************************************)
EXTENDS TaskQueues, TLAPS

Holds(t, q) == tls[t] = q \/ q \in runners[t]
Calling(t) == pc[t] \in {"getmutex", "locking", "entry"}
Named(t) == call[t].queue

\* Nobody but t can reach queue q.
OnlyCaller(t, q) ==
    \A u \in Threads : ~Holds(u, q) /\ (u # t /\ Calling(u) => Named(u) # q)

Registered(q) == q \in locks /\ (raced \/ q \in entries)

\* Ids are given out once, and the one who is in CreateTaskQueue has room.
LockInv ==
    /\ locks = {q \in Queues : q < counter}
    /\ \A t \in Threads : pc[t] = "create" => counter < MaxQueues

\* Whoever holds a loop finds its queue, unless the map was raced, and a thread's
\* loop is its own.
HoldInv ==
    /\ \A t \in Threads, q \in Queues : Holds(t, q) => Registered(q)
    /\ \A t \in Threads : tls[t] # NoQueue => creator[tls[t]] = t

LoopOps == {"take", "query", "drop", "observers", "add", "remove"}

\* Who is in a call holds the loop, except in the constructor and the destructor,
\* which are alone with it.
CallOK(t) ==
    LET q == Named(t)
        op == call[t].op
    IN  /\ q \in locks
        /\ op = "wakeable" => /\ Registered(q) /\ ~entry[q].wakeable
                              /\ creator[q] = t /\ OnlyCaller(t, q)
                              /\ stage[t] = "out"
        /\ op = "dispose" => OnlyCaller(t, q)
        /\ op = "register" => Holds(t, q)
        /\ op \in LoopOps => tls[t] = q
        /\ op = "take" => stage[t] = "out"
        /\ op = "observers" => stage[t] = "task"
        /\ op \in {"add", "remove"} => call[t].key \in Keys

CallInv == \A t \in Threads : Calling(t) => CallOK(t)

\* Inside FlushTasks: the loop is there, a closure is in hand, and the observers
\* that were there when it was invoked are registered or in the snapshot.
FlushInv ==
    \A t \in Threads :
        /\ stage[t] \in {"task", "observers"} => tls[t] # NoQueue /\ batch[t] > 0
        /\ stage[t] = "task" => steady[t] \subseteq entry[tls[t]].observers
        /\ pc[t] = "create" => stage[t] = "out"

RegistryInv ==
    /\ TypeOK /\ LockInv /\ HoldInv /\ CallInv /\ FlushInv
    /\ AbortsOnlyByRace /\ RunsOnLoopThread /\ ObserverRound

-----------------------------------------------------------------------------
(* Types.                                                                  *)

\* The part of TypeOK about locks and calls.
CallType ==
    /\ meta_writer \in Threads \cup {NoThread}
    /\ owner \in [Queues -> Threads \cup {NoThread}]
    /\ pc \in [Threads -> {"idle", "create", "getmutex", "locking", "entry"}]
    /\ \A t \in Threads : pc[t] = "create" <=> meta_writer = t
    /\ call \in [Threads -> [op : Ops, queue : Queues \cup {NoQueue},
                             key : Keys \cup {0}]]

\* The part about who holds loops, about queue_locks_ and queue_entries_.
MapType ==
    /\ tls \in [Threads -> Queues \cup {NoQueue}]
    /\ runners \in [Threads -> SUBSET Queues]
    /\ counter \in 0 .. MaxQueues
    /\ locks \subseteq Queues /\ entries \subseteq Queues
    /\ entry \in [Queues -> [wakeable : BOOLEAN, tasks : Nat, observers : SUBSET Keys]]
    /\ creator \in [Queues -> Threads \cup {NoThread}]

\* The part about FlushTasks.
FlushType ==
    /\ stage \in [Threads -> {"out", "task", "observers", "exited"}]
    /\ batch \in [Threads -> Nat] /\ snap \in [Threads -> SUBSET Keys]
    /\ steady \in [Threads -> SUBSET Keys] /\ removed \in [Threads -> SUBSET Keys]
    /\ strays \subseteq Queues \X Threads

CountType ==
    /\ posts \in 0 .. MaxPosts /\ edits \in 0 .. MaxEdits
    /\ aborted \in BOOLEAN /\ raced \in BOOLEAN

LEMMA TypeParts ==
  /\ TypeOK <=> CallType /\ MapType /\ FlushType /\ CountType
  /\ TypeOK' <=> CallType' /\ MapType' /\ FlushType' /\ CountType'
  BY DEF TypeOK, CallType, MapType, FlushType, CountType

\* A call begins: GetMutex is next.
LEMMA CallKeepsType ==
  ASSUME CallType, NEW t \in Threads, pc[t] = "idle", NEW op \in Ops,
         NEW q \in Queues, NEW k \in Keys \cup {0},
         Call(t, op, q, k), UNCHANGED mutexes
  PROVE  CallType'
  BY DEF CallType, Call, Goto, mutexes

\* A call returns.
LEMMA ReturnKeepsType ==
  ASSUME CallType, NEW t \in Threads, pc[t] = "entry", Return(t)
  PROVE  CallType'
<1>1. NoCall \in [op : Ops, queue : Queues \cup {NoQueue}, key : Keys \cup {0}]
  BY DEF NoCall, Ops
<1>2. /\ owner' = [owner EXCEPT ![call[t].queue] = NoThread]
      /\ pc' = [pc EXCEPT ![t] = "idle"]
      /\ call' = [call EXCEPT ![t] = NoCall]
      /\ meta_writer' = meta_writer
  BY DEF Return, Goto
<1> QED
  BY <1>1, <1>2 DEF CallType

\* The step of a thread inside a call to the next point of the same call.
LEMMA GotoKeepsType ==
  ASSUME CallType, NEW t \in Threads, pc[t] \in {"getmutex", "locking"},
         NEW location \in {"locking", "entry"}, Goto(t, location),
         owner' \in [Queues -> Threads \cup {NoThread}], UNCHANGED <<meta_writer, call>>
  PROVE  CallType'
  BY DEF CallType, Goto

\* What a call does to the entry of its queue.
LEMMA EntryKeepsType ==
  ASSUME MapType, NEW q, UNCHANGED <<holders, counter, locks, entries, creator>>,
         \/ entry' = [entry EXCEPT ![q].tasks = @ + 1]
         \/ entry' = [entry EXCEPT ![q].tasks = 0]
         \/ \E k \in Keys : entry' = [entry EXCEPT ![q].observers = @ \cup {k}]
         \/ \E k \in Keys : entry' = [entry EXCEPT ![q].observers = @ \ {k}]
         \/ UNCHANGED entry
  PROVE  MapType'
<1> DEFINE E == [wakeable : BOOLEAN, tasks : Nat, observers : SUBSET Keys]
<1>1. entry' \in [Queues -> E]
  <2>1. CASE q \notin Queues
    BY <2>1 DEF MapType
  <2>2. CASE q \in Queues
    <3>1. entry[q] \in E
      BY <2>2 DEF MapType
    <3>2. CASE entry' = [entry EXCEPT ![q].tasks = @ + 1]
      BY <2>2, <3>1, <3>2 DEF MapType
    <3>3. CASE entry' = [entry EXCEPT ![q].tasks = 0]
      BY <2>2, <3>1, <3>3 DEF MapType
    <3>4. ASSUME NEW k \in Keys,
                 \/ entry' = [entry EXCEPT ![q].observers = @ \cup {k}]
                 \/ entry' = [entry EXCEPT ![q].observers = @ \ {k}]
          PROVE  entry' \in [Queues -> E]
      BY <2>2, <3>1, <3>4 DEF MapType
    <3> QED
      BY <3>2, <3>3, <3>4 DEF MapType
  <2> QED
    BY <2>1, <2>2
<1> QED
  BY <1>1 DEF MapType, holders

LEMMA RegistryTypeInit == Init => TypeOK
<1> SUFFICES ASSUME Init PROVE TypeOK
  OBVIOUS
<1> USE QueuesAssumption
<1>1. CallType
  <2>1. NoCall \in [op : Ops, queue : Queues \cup {NoQueue}, key : Keys \cup {0}]
    BY DEF NoCall, Ops
  <2> QED
    BY <2>1 DEF Init, CallType
<1>2. MapType
  <2>1. Blank \in [wakeable : BOOLEAN, tasks : Nat, observers : SUBSET Keys]
    BY DEF Blank
  <2> QED
    BY <2>1 DEF Init, MapType
<1>3. FlushType
  BY DEF Init, FlushType
<1>4. CountType
  <2>1. aborted \in BOOLEAN /\ raced \in BOOLEAN
    BY Zenon DEF Init
  <2> QED
    BY <2>1 DEF Init, CountType
<1> QED
  BY <1>1, <1>2, <1>3, <1>4, TypeParts

LEMMA RaceSeenType ==
  ASSUME CountType, NEW t \in Threads, RaceSeen(t), UNCHANGED <<bounds, aborted>>
  PROVE  CountType'
<1>1. raced' \in BOOLEAN
  BY Zenon DEF RaceSeen
<1> QED
  BY <1>1 DEF CountType, bounds

\* A closure is invoked by its loop's thread.
LEMMA InvokeKeepsType ==
  ASSUME FlushType, MapType, NEW t \in Threads, tls[t] \in Queues, NEW left \in Nat,
         Invoke(t, left), UNCHANGED snap
  PROVE  FlushType'
<1>1. entry[tls[t]].observers \subseteq Keys
  BY DEF MapType
<1>2. Stray(t, tls[t]) \subseteq Queues \X Threads
  BY DEF Stray
<1>3. /\ batch' \in [Threads -> Nat]
      /\ stage' \in [Threads -> {"out", "task", "observers", "exited"}]
      /\ removed' \in [Threads -> SUBSET Keys]
  BY DEF Invoke, FlushType
<1>4. steady' \in [Threads -> SUBSET Keys]
  BY <1>1 DEF Invoke, FlushType
<1>5. strays' \subseteq Queues \X Threads
  BY <1>2 DEF Invoke, FlushType
<1> QED
  BY <1>3, <1>4, <1>5 DEF FlushType

LEMMA LockingType ==
  ASSUME TypeOK, NEW t \in Threads, Locking(t)
  PROVE  TypeOK'
<1> USE TypeParts
<1>1. CASE GetMutex(t)
  <2>1. aborted' \in BOOLEAN
    BY <1>1, Zenon DEF GetMutex
  <2>2. CountType'
    BY <1>1, <2>1 DEF GetMutex, CountType, bounds
  <2>3. CallType'
    BY <1>1, GotoKeepsType DEF GetMutex, LockShared, CallType
  <2>4. MapType' /\ FlushType'
    BY <1>1 DEF GetMutex, MapType, FlushType, holders, maps, flush
  <2> QED
    BY <2>2, <2>3, <2>4
<1>2. CASE ScopedMutex(t)
  <2>1. aborted' \in BOOLEAN
    BY <1>2, Zenon DEF ScopedMutex
  <2>2. CountType'
    BY <1>2, <2>1 DEF ScopedMutex, CountType, bounds
  <2>3. CallType'
    <3>1. owner' \in [Queues -> Threads \cup {NoThread}]
      BY <1>2 DEF ScopedMutex, CallType
    <3> QED
      BY <1>2, <3>1, GotoKeepsType DEF ScopedMutex
  <2>4. MapType' /\ FlushType'
    BY <1>2 DEF ScopedMutex, MapType, FlushType, holders, maps, flush
  <2> QED
    BY <2>2, <2>3, <2>4
<1>3. CASE Missing(t)
  <2>1. aborted' \in BOOLEAN /\ raced' \in BOOLEAN
    BY <1>3, Zenon DEF Missing, RaceSeen
  <2>2. CountType'
    BY <1>3, <2>1 DEF Missing, CountType, bounds
  <2>3. CallType' /\ MapType' /\ FlushType'
    BY <1>3 DEF Missing, CallType, MapType, FlushType, holders, maps, mutexes, flush
  <2> QED
    BY <2>2, <2>3
<1> QED
  BY <1>1, <1>2, <1>3 DEF Locking

\* Letting go of a reference of a loop may begin a call of Dispose.
LEMMA ReleasesKeepsType ==
  ASSUME CallType, NEW t \in Threads, pc[t] = "idle", NEW q \in Queues,
         Releases(t, q), UNCHANGED mutexes
  PROVE  CallType'
<1>1. CASE UNCHANGED <<pc, call>>
  BY <1>1 DEF CallType, mutexes
<1>2. CASE Call(t, "dispose", q, 0)
  BY <1>2, CallKeepsType DEF Ops
<1> QED
  BY <1>1, <1>2 DEF Releases

LEMMA LifecycleType ==
  ASSUME TypeOK, LockInv, NEW t \in Threads, Lifecycle(t)
  PROVE  TypeOK'
<1> USE TypeParts, QueuesAssumption
<1>1. CASE EnsureInitialized(t)
  <2>1. CallType'
    BY <1>1 DEF EnsureInitialized, CallType, Lock, Goto, Free
  <2> QED
    BY <1>1, <2>1 DEF EnsureInitialized, MapType, FlushType, CountType, holders, maps,
                      flush, bounds
<1>2. CASE CreateTaskQueue(t)
  <2>1. counter \in Queues /\ counter < MaxQueues /\ counter \in Nat
    BY <1>2 DEF CreateTaskQueue, LockInv, MapType, Queues
  <2>2. CallType'
    BY <1>2, <2>1 DEF CreateTaskQueue, CallType, Call, Goto, Unlock, Ops
  <2>3. MapType'
    <3>1. Blank \in [wakeable : BOOLEAN, tasks : Nat, observers : SUBSET Keys]
      BY DEF Blank
    <3>2. /\ entry' \in [Queues -> [wakeable : BOOLEAN, tasks : Nat,
                                    observers : SUBSET Keys]]
          /\ creator' \in [Queues -> Threads \cup {NoThread}]
      BY <1>2, <2>1, <3>1 DEF CreateTaskQueue, MapType
    <3>3. counter' \in 0 .. MaxQueues
      BY <1>2, <2>1 DEF CreateTaskQueue
    <3>4. locks' \subseteq Queues /\ entries' \subseteq Queues
      BY <1>2, <2>1 DEF CreateTaskQueue, MapType
    <3> QED
      BY <1>2, <3>2, <3>3, <3>4 DEF CreateTaskQueue, MapType, holders
  <2>4. CountType'
    BY <1>2, RaceSeenType DEF CreateTaskQueue
  <2>5. FlushType'
    BY <1>2 DEF CreateTaskQueue, FlushType, flush
  <2> QED
    BY <2>2, <2>3, <2>4, <2>5
<1>3. CASE SetWakeable(t)
  <2>1. Named(t) \in Queues
    BY <1>3 DEF SetWakeable, Found, Named, MapType
  <2>2. CallType'
    BY <1>3, ReturnKeepsType DEF SetWakeable, In
  <2>3. entry[Named(t)] \in [wakeable : BOOLEAN, tasks : Nat, observers : SUBSET Keys]
    BY <2>1 DEF MapType
  <2>4. MapType'
    <3>1. entry' \in [Queues -> [wakeable : BOOLEAN, tasks : Nat,
                                 observers : SUBSET Keys]]
      BY <1>3, <2>1, <2>3 DEF SetWakeable, MapType, Named
    <3> QED
      BY <1>3, <2>1, <3>1 DEF SetWakeable, MapType, Named
  <2>5. aborted' \in BOOLEAN
    BY <1>3, <2>3, Zenon DEF SetWakeable, Named
  <2>6. raced' \in BOOLEAN
    BY <1>3, Zenon DEF SetWakeable, Return, RaceSeen
  <2>7. CountType' /\ FlushType'
    BY <1>3, <2>5, <2>6 DEF SetWakeable, CountType, FlushType, bounds, flush
  <2> QED
    BY <2>2, <2>4, <2>7
<1>4. CASE ThreadExit(t)
  <2>1. CallType'
    BY <1>4, ReleasesKeepsType DEF ThreadExit, Free, MapType
  <2>2. MapType' /\ FlushType' /\ CountType'
    BY <1>4 DEF ThreadExit, MapType, FlushType, CountType, maps, bounds
  <2> QED
    BY <2>1, <2>2
<1>5. CASE Dispose(t)
  <2>1. CallType'
    BY <1>5, ReturnKeepsType DEF Dispose, In
  <2>2. Blank \in [wakeable : BOOLEAN, tasks : Nat, observers : SUBSET Keys]
    BY DEF Blank
  <2>3. MapType'
    BY <1>5, <2>2 DEF Dispose, MapType, holders
  <2>4. CountType'
    BY <1>5, RaceSeenType DEF Dispose, Return
  <2>5. FlushType'
    BY <1>5 DEF Dispose, FlushType, flush
  <2> QED
    BY <2>1, <2>3, <2>4, <2>5
<1>6. ASSUME NEW q \in Queues, GetTaskRunner(t, q) PROVE TypeOK'
  BY <1>6 DEF GetTaskRunner, CallType, MapType, FlushType, CountType, maps, mutexes,
              flush, bounds
<1>7. ASSUME NEW q \in Queues, DropTaskRunner(t, q) PROVE TypeOK'
  <2>1. CallType'
    BY <1>7, ReleasesKeepsType DEF DropTaskRunner, Free
  <2>2. MapType' /\ FlushType' /\ CountType'
    BY <1>7 DEF DropTaskRunner, MapType, FlushType, CountType, maps, flush, bounds
  <2> QED
    BY <2>1, <2>2
<1> QED
  BY <1>1, <1>2, <1>3, <1>4, <1>5, <1>6, <1>7 DEF Lifecycle

LEMMA PostingType ==
  ASSUME TypeOK, NEW t \in Threads, Posting(t)
  PROVE  TypeOK'
<1> USE TypeParts, QueuesAssumption
<1>1. CASE RegisterTask(t)
  <2>1. CallType'
    BY <1>1, ReturnKeepsType DEF RegisterTask, In
  <2>2. MapType'
    BY <1>1, EntryKeepsType DEF RegisterTask
  <2>3. CountType' /\ FlushType'
    BY <1>1, RaceSeenType DEF RegisterTask, Return, FlushType, flush
  <2> QED
    BY <2>1, <2>2, <2>3
<1>2. CASE HasPendingTask(t)
  <2>1. CallType'
    BY <1>2, ReturnKeepsType DEF HasPendingTask, In
  <2>2. CountType' /\ FlushType' /\ MapType'
    BY <1>2, RaceSeenType DEF HasPendingTask, Return, FlushType, MapType, flush, maps,
                              holders
  <2> QED
    BY <2>1, <2>2
<1>3. ASSUME NEW q \in Queues, PostTask(t, q) PROVE TypeOK'
  <2>1. CallType'
    BY <1>3, CallKeepsType DEF PostTask, CanPost, Free, Ops
  <2>2. CountType'
    BY <1>3 DEF PostTask, CanPost, CountType
  <2>3. FlushType' /\ MapType'
    BY <1>3 DEF PostTask, FlushType, MapType, flush, maps, holders
  <2> QED
    BY <2>1, <2>2, <2>3
<1>4. ASSUME NEW q \in Queues, RunNow(t, q) PROVE TypeOK'
  <2>1. strays' \subseteq Queues \X Threads
    BY <1>4 DEF RunNow, Stray, FlushType
  <2>2. CountType'
    BY <1>4 DEF RunNow, CanPost, CountType
  <2>3. CallType' /\ FlushType' /\ MapType'
    BY <1>4, <2>1 DEF RunNow, CallType, FlushType, MapType, flush, maps, mutexes, holders
  <2> QED
    BY <2>2, <2>3
<1> QED
  BY <1>1, <1>2, <1>3, <1>4 DEF Posting

LEMMA FlushingType ==
  ASSUME TypeOK, CallInv, FlushInv, NEW t \in Threads, Flushing(t)
  PROVE  TypeOK'
<1> USE TypeParts, QueuesAssumption
<1>1. ASSUME NEW op \in {"take", "query", "drop"}, LoopCalls(t, op) PROVE TypeOK'
  <2>1. CallType'
    BY <1>1, CallKeepsType DEF LoopCalls, OnLoop, Free, Ops, MapType
  <2>2. CountType' /\ FlushType' /\ MapType'
    BY <1>1 DEF LoopCalls, CountType, FlushType, MapType, flush, maps, holders, bounds
  <2> QED
    BY <2>1, <2>2
<1>2. CASE GetTasksToRunNow(t)
  <2>1. Named(t) \in Queues /\ tls[t] = Named(t)
    BY <1>2 DEF GetTasksToRunNow, Found, Named, In, CallInv, CallOK, Calling, LoopOps,
                MapType
  <2>2. entry[Named(t)].tasks \in Nat
    BY <2>1 DEF MapType
  <2>3. FlushType'
    BY <1>2, <2>1, <2>2, InvokeKeepsType DEF GetTasksToRunNow, Named
  <2>4. CallType'
    BY <1>2, ReturnKeepsType DEF GetTasksToRunNow, In
  <2>5. MapType'
    BY <1>2, EntryKeepsType DEF GetTasksToRunNow
  <2>6. CountType'
    BY <1>2, RaceSeenType DEF GetTasksToRunNow, Return
  <2> QED
    BY <2>3, <2>4, <2>5, <2>6
<1>3. CASE DisposeTasks(t)
  <2>1. CallType'
    BY <1>3, ReturnKeepsType DEF DisposeTasks, In
  <2>2. MapType'
    BY <1>3, EntryKeepsType DEF DisposeTasks
  <2>3. CountType' /\ FlushType'
    BY <1>3, RaceSeenType DEF DisposeTasks, Return, FlushType, flush
  <2> QED
    BY <2>1, <2>2, <2>3
<1>4. CASE TaskReturns(t)
  <2>1. CallType'
    BY <1>4, CallKeepsType DEF TaskReturns, OnLoop, Free, Ops, MapType
  <2>2. CountType' /\ FlushType' /\ MapType'
    BY <1>4 DEF TaskReturns, CountType, FlushType, MapType, flush, maps, holders, bounds
  <2> QED
    BY <2>1, <2>2
<1>5. CASE GetObserversToNotify(t)
  <2>1. Named(t) \in Queues
    BY <1>5 DEF GetObserversToNotify, Found, Named, MapType
  <2>2. entry[Named(t)].observers \subseteq Keys
    BY <2>1 DEF MapType
  <2>3. FlushType'
    BY <1>5, <2>2 DEF GetObserversToNotify, FlushType, Named
  <2>4. CallType'
    BY <1>5, ReturnKeepsType DEF GetObserversToNotify, In
  <2>5. MapType' /\ CountType'
    BY <1>5, RaceSeenType DEF GetObserversToNotify, Return, MapType, holders, maps
  <2> QED
    BY <2>3, <2>4, <2>5
<1>6. CASE Observe(t)
  BY <1>6 DEF Observe, CallType, MapType, FlushType, CountType, holders, maps, mutexes,
              bounds
<1>7. CASE EndTask(t)
  <2>1. tls[t] \in Queues /\ batch[t] - 1 \in Nat
    BY <1>7 DEF EndTask, OnLoop, FlushInv, MapType, FlushType
  <2>2. FlushType'
    BY <1>7, <2>1, InvokeKeepsType DEF EndTask
  <2>3. CallType' /\ MapType' /\ CountType'
    BY <1>7 DEF EndTask, CallType, MapType, CountType, holders, maps, mutexes, bounds
  <2> QED
    BY <2>2, <2>3
<1>8. ASSUME NEW k \in Keys, NEW op \in {"add", "remove"}, CallObserver(t, op, k)
      PROVE  TypeOK'
  <2>1. CallType'
    BY <1>8, CallKeepsType DEF CallObserver, OnLoop, Free, Ops, MapType
  <2>2. CountType'
    BY <1>8 DEF CallObserver, CountType
  <2>3. FlushType' /\ MapType'
    BY <1>8 DEF CallObserver, FlushType, MapType, flush, maps, holders
  <2> QED
    BY <2>1, <2>2, <2>3
<1>9. CASE AddTaskObserver(t)
  <2>1. call[t].key \in Keys
    BY <1>9 DEF AddTaskObserver, In, CallInv, CallOK, Calling
  <2>2. CallType'
    BY <1>9, ReturnKeepsType DEF AddTaskObserver, In
  <2>3. MapType'
    BY <1>9, <2>1, EntryKeepsType DEF AddTaskObserver
  <2>4. CountType' /\ FlushType'
    BY <1>9, RaceSeenType DEF AddTaskObserver, Return, FlushType, flush
  <2> QED
    BY <2>2, <2>3, <2>4
<1>10. CASE RemoveTaskObserver(t)
  <2>1. call[t].key \in Keys
    BY <1>10 DEF RemoveTaskObserver, In, CallInv, CallOK, Calling
  <2>2. CallType'
    BY <1>10, ReturnKeepsType DEF RemoveTaskObserver, In
  <2>3. MapType'
    BY <1>10, <2>1, EntryKeepsType DEF RemoveTaskObserver
  <2>4. CountType'
    BY <1>10, RaceSeenType DEF RemoveTaskObserver, Return
  <2>5. FlushType'
    BY <1>10, <2>1 DEF RemoveTaskObserver, FlushType
  <2> QED
    BY <2>2, <2>3, <2>4, <2>5
<1> QED
  BY <1>1, <1>2, <1>3, <1>4, <1>5, <1>6, <1>7, <1>8, <1>9, <1>10 DEF Flushing

-----------------------------------------------------------------------------
(* Who holds, calls and reaches a queue.                                   *)

OwnInv == LockInv /\ HoldInv /\ CallInv

\* Steps that begin no call, give nobody a loop and take nobody's away.
LEMMA QuietOwn ==
  ASSUME TypeOK, OwnInv,
         UNCHANGED <<tls, runners, counter, locks, entries, creator>>,
         raced => raced',
         \A u \in Threads : pc'[u] = "create" => pc[u] = "create" \/ counter < MaxQueues,
         \A u \in Threads : Calling(u)' =>
             Calling(u) /\ call'[u] = call[u] /\ stage'[u] = stage[u],
         \A q \in Queues : entry'[q].wakeable = entry[q].wakeable
  PROVE  OwnInv'
<1>1. LockInv'
  BY DEF OwnInv, LockInv
<1>2. \A q \in Queues : Registered(q) => Registered(q)'
  BY DEF Registered
<1>3. \A u \in Threads, q \in Queues : Holds(u, q)' <=> Holds(u, q)
  BY DEF Holds
<1>4. HoldInv'
  BY <1>2, <1>3 DEF OwnInv, HoldInv
<1>5. \A u \in Threads, q \in Queues : OnlyCaller(u, q) => OnlyCaller(u, q)'
  BY <1>3 DEF OnlyCaller, Named
<1>6. ASSUME NEW u \in Threads, Calling(u)' PROVE CallOK(u)'
  <2>1. Calling(u) /\ CallOK(u) /\ Named(u)' = Named(u) /\ Named(u) \in Queues
    BY <1>6 DEF OwnInv, CallInv, CallOK, Named, TypeOK
  <2> QED
    BY <1>2, <1>3, <1>5, <1>6, <2>1 DEF CallOK, Named
<1> QED
  BY <1>1, <1>4, <1>6 DEF OwnInv, CallInv

\* A thread calls the registry about a loop that it holds.
LEMMA CallOwn ==
  ASSUME TypeOK, OwnInv, NEW t \in Threads, NEW q \in Queues, NEW k,
         NEW op \in LoopOps \cup {"register"}, pc[t] = "idle",
         Call(t, op, q, k), Holds(t, q),
         op \in LoopOps => tls[t] = q,
         op = "take" => stage[t] = "out",
         op = "observers" => stage[t] = "task",
         op \in {"add", "remove"} => k \in Keys,
         UNCHANGED <<tls, runners, counter, locks, entries, entry, creator, raced, stage>>
  PROVE  OwnInv'
<1>1. /\ pc' = [pc EXCEPT ![t] = "getmutex"]
      /\ call' = [call EXCEPT ![t] = [op |-> op, queue |-> q, key |-> k]]
  BY DEF Call, Goto
<1>2. /\ pc'[t] = "getmutex" /\ call'[t] = [op |-> op, queue |-> q, key |-> k]
      /\ \A u \in Threads : u # t => pc'[u] = pc[u] /\ call'[u] = call[u]
  BY <1>1 DEF TypeOK
<1>3. LockInv' /\ HoldInv'
  BY <1>2 DEF OwnInv, LockInv, HoldInv, Holds, Registered
<1>4. CallOK(t)'
  <2>1. q \in locks
    BY DEF OwnInv, HoldInv, Registered
  <2>2. /\ Named(t)' = q /\ call'[t].op = op /\ call'[t].key = k
        /\ op # "wakeable" /\ op # "dispose"
    BY <1>2 DEF Named, LoopOps
  <2> QED
    BY <2>1, <2>2 DEF CallOK, Holds
<1>5. ASSUME NEW u \in Threads, u # t, Calling(u)' PROVE CallOK(u)'
  <2>1. Calling(u) /\ CallOK(u) /\ Named(u)' = Named(u) /\ Named(u) \in Queues
    BY <1>2, <1>5 DEF OwnInv, CallInv, CallOK, Named, Calling, TypeOK
  <2>2. OnlyCaller(u, Named(u)) => q # Named(u)
    BY DEF OnlyCaller
  <2>3. OnlyCaller(u, Named(u)) => OnlyCaller(u, Named(u))'
    BY <1>2, <2>1, <2>2 DEF OnlyCaller, Holds, Named, Calling
  <2> QED
    BY <1>2, <1>5, <2>1, <2>3 DEF CallOK, Named, Holds, Registered
<1> QED
  BY <1>3, <1>4, <1>5 DEF OwnInv, CallInv

\* Whoever is in a call other than Dispose finds the queue, unless it was raced.
LEMMA FoundUnlessRaced ==
  ASSUME TypeOK, OwnInv, NEW t \in Threads, Calling(t), call[t].op # "dispose"
  PROVE  raced \/ Found(t)
<1>1. CallOK(t) /\ call[t].op \in Ops /\ Named(t) \in Queues
  BY DEF OwnInv, CallInv, TypeOK, CallOK
<1>2. call[t].op = "wakeable" \/ Holds(t, Named(t))
  BY <1>1 DEF CallOK, Ops, LoopOps, Holds
<1>3. Registered(Named(t))
  BY <1>1, <1>2 DEF CallOK, OwnInv, HoldInv
<1> QED
  BY <1>3 DEF Registered, Found, Named

\* EnsureInitialized and CreateTaskQueue: the new id is nobody's.
LEMMA CreateOwn ==
  ASSUME TypeOK, OwnInv, FlushInv, NEW t \in Threads, CreateTaskQueue(t)
  PROVE  OwnInv'
<1>0. PICK q : q = counter
  OBVIOUS
<1>1. q \in Queues /\ q \notin locks /\ q \in Nat
  BY <1>0, QueuesAssumption DEF CreateTaskQueue, OwnInv, LockInv, TypeOK, Queues
<1>2. /\ counter' = q + 1 /\ locks' = locks \cup {q}
      /\ entry' = [entry EXCEPT ![q] = Blank]
      /\ creator' = [creator EXCEPT ![q] = t]
      /\ pc' = [pc EXCEPT ![t] = "getmutex"]
      /\ call' = [call EXCEPT ![t] = [op |-> "wakeable", queue |-> q, key |-> 0]]
      /\ entries \subseteq entries' /\ (q \in entries' \/ raced')
      /\ raced => raced'
      /\ pc[t] = "create"
      /\ UNCHANGED <<tls, runners, stage>>
  BY <1>0 DEF CreateTaskQueue, Call, Goto, RaceSeen, holders, flush
<1>3. /\ pc'[t] = "getmutex"
      /\ call'[t] = [op |-> "wakeable", queue |-> q, key |-> 0]
      /\ \A u \in Threads : u # t => pc'[u] = pc[u] /\ call'[u] = call[u]
  BY <1>2 DEF TypeOK
<1>4. \A u \in Threads : ~Holds(u, q)
  BY <1>1 DEF OwnInv, HoldInv, Registered
<1>5. \A u \in Threads : Calling(u) => Named(u) # q /\ Named(u) \in Queues
  <2>1. \A u \in Threads : Calling(u) => Named(u) \in locks
    BY DEF OwnInv, CallInv, CallOK
  <2> QED
    BY <1>1, <2>1 DEF TypeOK
<1>6. /\ ~entry'[q].wakeable /\ creator'[q] = t
      /\ \A p \in Queues : p # q => entry'[p] = entry[p] /\ creator'[p] = creator[p]
  <2>1. /\ entry'[q] = Blank /\ creator'[q] = t
        /\ \A p \in Queues : p # q => entry'[p] = entry[p] /\ creator'[p] = creator[p]
    BY <1>1, <1>2 DEF TypeOK
  <2>2. ~Blank.wakeable
    BY DEF Blank
  <2> QED
    BY <2>1, <2>2
<1>7. LockInv'
  <2>1. locks' = {p \in Queues : p < counter'}
    BY <1>0, <1>1, <1>2 DEF OwnInv, LockInv, Queues
  <2>2. \A u \in Threads : pc'[u] # "create"
    BY <1>2, <1>3 DEF TypeOK
  <2> QED
    BY <2>1, <2>2 DEF LockInv
<1>8. \A p \in Queues : Registered(p) => Registered(p)'
  BY <1>2 DEF Registered
<1>9. HoldInv'
  <2>1. \A u \in Threads, p \in Queues : Holds(u, p)' => Registered(p)'
    BY <1>2, <1>8 DEF OwnInv, HoldInv, Holds
  <2>2. ASSUME NEW u \in Threads, tls'[u] # NoQueue PROVE creator'[tls'[u]] = u
    <3>1. tls[u] \in Queues /\ tls[u] # q
      BY <1>2, <1>4, <2>2 DEF TypeOK, Holds
    <3> QED
      BY <1>2, <1>6, <2>2, <3>1 DEF OwnInv, HoldInv
  <2> QED
    BY <2>1, <2>2 DEF HoldInv
<1>10. CallOK(t)'
  <2>1. OnlyCaller(t, q)'
    BY <1>1, <1>2, <1>3, <1>4, <1>5 DEF OnlyCaller, Holds, Calling, Named
  <2>2. Named(t)' = q /\ call'[t].op = "wakeable" /\ Registered(q)' /\ stage'[t] = "out"
    BY <1>2, <1>3 DEF Named, Registered, FlushInv
  <2> QED
    BY <1>2, <1>6, <2>1, <2>2 DEF CallOK, LoopOps
<1>11. ASSUME NEW u \in Threads, u # t, Calling(u)' PROVE CallOK(u)'
  <2>1. /\ Calling(u) /\ CallOK(u) /\ Named(u)' = Named(u)
        /\ Named(u) \in Queues /\ Named(u) # q
    BY <1>3, <1>5, <1>11 DEF OwnInv, CallInv, Named, Calling
  <2>2. OnlyCaller(u, Named(u)) => OnlyCaller(u, Named(u))'
    BY <1>2, <1>3, <2>1 DEF OnlyCaller, Holds, Named, Calling
  <2> QED
    BY <1>2, <1>3, <1>6, <1>8, <1>11, <2>1, <2>2 DEF CallOK, Named, Holds
<1> QED
  BY <1>7, <1>9, <1>10, <1>11 DEF OwnInv, CallInv

\* SetWakeable ends the constructor: the loop becomes the thread's own.
LEMMA SetWakeableOwn ==
  ASSUME TypeOK, OwnInv, NEW t \in Threads, SetWakeable(t)
  PROVE  OwnInv' /\ ~aborted'
<1>0. PICK q : q = Named(t)
  OBVIOUS
<1>1. Calling(t) /\ CallOK(t) /\ call[t].op = "wakeable" /\ q \in Queues /\ q # NoQueue
  BY <1>0, QueuesAssumption
     DEF SetWakeable, In, OwnInv, CallInv, Calling, Found, Named, TypeOK
<1>2. /\ Registered(q) /\ ~entry[q].wakeable /\ creator[q] = t /\ OnlyCaller(t, q)
  BY <1>0, <1>1 DEF CallOK
<1>3. /\ tls' = [tls EXCEPT ![t] = q]
      /\ entry' = [entry EXCEPT ![q].wakeable = TRUE]
      /\ pc' = [pc EXCEPT ![t] = "idle"]
      /\ call' = [call EXCEPT ![t] = NoCall]
      /\ raced => raced'
      /\ UNCHANGED <<runners, counter, locks, entries, creator, stage>>
  BY <1>0 DEF SetWakeable, Return, Goto, RaceSeen, Named, flush
<1>4. /\ tls'[t] = q /\ pc'[t] = "idle"
      /\ \A u \in Threads :
            u # t => tls'[u] = tls[u] /\ pc'[u] = pc[u] /\ call'[u] = call[u]
  BY <1>3 DEF TypeOK
<1>5. \A p \in Queues : p # q => entry'[p] = entry[p]
  BY <1>1, <1>3 DEF TypeOK
<1>6. ~aborted'
  BY <1>0, <1>2 DEF SetWakeable, Named
<1>7. LockInv'
  BY <1>3, <1>4 DEF OwnInv, LockInv
<1>8. \A p \in Queues : Registered(p) => Registered(p)'
  BY <1>3 DEF Registered
<1>9. \A u \in Threads, p \in Queues : Holds(u, p)' => Holds(u, p) \/ (u = t /\ p = q)
  BY <1>3, <1>4 DEF Holds
<1>10. HoldInv'
  BY <1>1, <1>2, <1>3, <1>4, <1>8, <1>9 DEF OwnInv, HoldInv
<1>11. ASSUME NEW u \in Threads, Calling(u)' PROVE CallOK(u)'
  <2>1. u # t
    BY <1>4, <1>11 DEF Calling
  <2>2. /\ Calling(u) /\ CallOK(u) /\ Named(u)' = Named(u) /\ Named(u) # q
    BY <1>2, <1>4, <1>11, <2>1 DEF OwnInv, CallInv, Calling, Named, OnlyCaller
  <2>3. Named(u) \in Queues
    BY <2>2 DEF CallOK, TypeOK
  <2>4. OnlyCaller(u, Named(u)) => OnlyCaller(u, Named(u))'
    BY <1>4, <1>9, <2>2, <2>3 DEF OnlyCaller, Named, Calling
  <2>5. Holds(u, Named(u)) => Holds(u, Named(u))'
    BY <1>3, <1>4, <2>1, <2>2 DEF Holds
  <2> QED
    BY <1>3, <1>4, <1>5, <1>8, <2>1, <2>2, <2>3, <2>4, <2>5 DEF CallOK, Named
<1> QED
  BY <1>6, <1>7, <1>10, <1>11 DEF OwnInv, CallInv

\* Dispose: the queue that goes is nobody's.
LEMMA DisposeOwn ==
  ASSUME TypeOK, OwnInv, NEW t \in Threads, Dispose(t)
  PROVE  OwnInv' /\ \A u \in Threads : tls[u] # Named(t)
<1>0. PICK q : q = Named(t)
  OBVIOUS
<1>1. CallOK(t) /\ call[t].op = "dispose" /\ q \in locks /\ OnlyCaller(t, q)
  BY <1>0 DEF Dispose, In, OwnInv, CallInv, Calling, CallOK
<1>2. /\ entry' = [entry EXCEPT ![q] = Blank]
      /\ pc' = [pc EXCEPT ![t] = "idle"]
      /\ call' = [call EXCEPT ![t] = NoCall]
      /\ raced => raced'
      /\ \A p \in entries : p # q => p \in entries'
      /\ UNCHANGED <<tls, runners, counter, locks, creator, stage>>
  BY <1>0 DEF Dispose, Return, Goto, RaceSeen, Named, holders, flush
<1>3. /\ pc'[t] = "idle"
      /\ \A u \in Threads : u # t => pc'[u] = pc[u] /\ call'[u] = call[u]
      /\ \A p \in Queues : p # q => entry'[p] = entry[p]
  BY <1>2 DEF TypeOK
<1>4. \A p \in Queues : p # q /\ Registered(p) => Registered(p)'
  BY <1>2 DEF Registered
<1>5. \A u \in Threads, p \in Queues : Holds(u, p)' <=> Holds(u, p)
  BY <1>2 DEF Holds
<1>6. LockInv' /\ HoldInv'
  BY <1>1, <1>2, <1>3, <1>4, <1>5 DEF OwnInv, LockInv, HoldInv, OnlyCaller
<1>7. ASSUME NEW u \in Threads, Calling(u)' PROVE CallOK(u)'
  <2>1. /\ u # t /\ Calling(u) /\ CallOK(u) /\ Named(u)' = Named(u) /\ Named(u) # q
    BY <1>1, <1>3, <1>7 DEF OwnInv, CallInv, Calling, Named, OnlyCaller
  <2>2. Named(u) \in Queues
    BY <2>1 DEF CallOK, TypeOK
  <2>3. OnlyCaller(u, Named(u)) => OnlyCaller(u, Named(u))'
    BY <1>3, <1>5, <2>1, <2>2 DEF OnlyCaller, Named, Calling
  <2> QED
    BY <1>2, <1>3, <1>4, <1>5, <2>1, <2>2, <2>3 DEF CallOK, Named
<1>8. \A u \in Threads : tls[u] # q
  BY <1>1 DEF OnlyCaller, Holds
<1> QED
  BY <1>0, <1>6, <1>7, <1>8 DEF OwnInv, CallInv

\* A thread lets go of loop q, in DropTaskRunner or as it ends.
LEMMA ReleaseOwn ==
  ASSUME TypeOK, OwnInv, NEW t \in Threads, NEW q \in Queues,
         pc[t] = "idle", Holds(t, q), Releases(t, q),
         \A u \in Threads : tls'[u] = tls[u] \/ (u = t /\ tls'[u] = NoQueue /\ tls[t] = q),
         \A u \in Threads : u # t => tls'[u] = tls[u] /\ runners'[u] = runners[u],
         runners'[t] = runners[t] \/ runners'[t] = runners[t] \ {q},
         \A u \in Threads : u # t => stage'[u] = stage[u],
         UNCHANGED <<maps, creator, raced>>
  PROVE  OwnInv'
<1> USE DEF maps
<1>1. \A u \in Threads, p \in Queues : Holds(u, p)' => Holds(u, p)
  BY QueuesAssumption DEF Holds
<1>2. \A u \in Threads : u # t => \A p \in Queues : Holds(u, p)' <=> Holds(u, p)
  BY DEF Holds
<1>3. HoldInv'
  <2>1. \A u \in Threads, p \in Queues : Holds(u, p)' => Registered(p)'
    BY <1>1 DEF OwnInv, HoldInv, Registered
  <2>2. \A u \in Threads : tls'[u] # NoQueue => creator'[tls'[u]] = u
    BY DEF OwnInv, HoldInv
  <2> QED
    BY <2>1, <2>2 DEF HoldInv
<1>4. /\ \A u \in Threads : u # t => pc'[u] = pc[u] /\ call'[u] = call[u]
      /\ \/ pc'[t] = "idle"
         \/ /\ pc'[t] = "getmutex"
            /\ call'[t] = [op |-> "dispose", queue |-> q, key |-> 0]
            /\ \A u \in Threads : ~Holds(u, q)'
  BY DEF Releases, Call, Goto, Holds, TypeOK
<1>5. LockInv'
  BY <1>4 DEF OwnInv, LockInv
<1>6. \A u \in Threads : Calling(u) /\ OnlyCaller(u, Named(u)) => u # t /\ Named(u) # q
  BY DEF OnlyCaller, Calling
<1>7. ASSUME NEW u \in Threads, u # t, Calling(u)' PROVE CallOK(u)'
  <2>1. /\ Calling(u) /\ CallOK(u) /\ Named(u)' = Named(u)
    BY <1>4, <1>7 DEF OwnInv, CallInv, Calling, Named
  <2>2. Named(u) \in Queues
    BY <2>1 DEF CallOK, TypeOK
  <2>3. OnlyCaller(u, Named(u)) => OnlyCaller(u, Named(u))'
    <3> HAVE OnlyCaller(u, Named(u))
    <3>1. Named(u) # q
      BY <1>6, <2>1
    <3>2. \A v \in Threads : ~Holds(v, Named(u))'
      BY <1>1, <2>1, <2>2 DEF OnlyCaller
    <3>3. ASSUME NEW v \in Threads, v # u, Calling(v)' PROVE Named(v)' # Named(u)
      <4>1. CASE v = t
        BY <1>4, <3>1, <3>3, <4>1 DEF Calling, Named
      <4>2. CASE v # t
        BY <1>4, <3>3, <4>2 DEF OnlyCaller, Calling, Named
      <4> QED
        BY <4>1, <4>2
    <3> QED
      BY <2>1, <3>2, <3>3 DEF OnlyCaller
  <2> QED
    BY <1>2, <1>4, <1>7, <2>1, <2>2, <2>3 DEF CallOK, Named, Registered
<1>8. ASSUME Calling(t)' PROVE CallOK(t)'
  <2>1. /\ call'[t] = [op |-> "dispose", queue |-> q, key |-> 0]
        /\ \A u \in Threads : ~Holds(u, q)'
    BY <1>4, <1>8 DEF Calling
  <2>2. q \in locks'
    BY DEF OwnInv, HoldInv, Registered
  <2>3. ASSUME NEW u \in Threads, u # t, Calling(u)' PROVE Named(u)' # q
    <3>1. Calling(u) /\ CallOK(u) /\ Named(u)' = Named(u) /\ call[u].op \in Ops
      BY <1>4, <2>3 DEF OwnInv, CallInv, Calling, Named, TypeOK
    <3>2. OnlyCaller(u, Named(u)) \/ Holds(u, Named(u))
      BY <3>1 DEF CallOK, Ops, LoopOps, Holds
    <3>3. ~Holds(u, q)
      BY <1>2, <2>1, <2>3
    <3> QED
      BY <1>6, <3>1, <3>2, <3>3
  <2>4. OnlyCaller(t, q)'
    BY <2>1, <2>3 DEF OnlyCaller
  <2> QED
    BY <2>1, <2>2, <2>4 DEF CallOK, Named, LoopOps
<1> QED
  BY <1>3, <1>5, <1>7, <1>8 DEF OwnInv, CallInv

\* A task runner is copied from somebody who has the loop.
LEMMA GetTaskRunnerOwn ==
  ASSUME TypeOK, OwnInv, NEW t \in Threads, NEW q \in Queues, GetTaskRunner(t, q)
  PROVE  OwnInv'
<1>1. /\ runners' = [runners EXCEPT ![t] = @ \cup {q}]
      /\ UNCHANGED <<tls, counter, locks, entries, entry, pc, call, stage, creator, raced>>
      /\ \E u \in Threads : Holds(u, q)
  BY DEF GetTaskRunner, maps, flush, Holds
<1>2. \A u \in Threads, p \in Queues :
         /\ Holds(u, p) => Holds(u, p)'
         /\ Holds(u, p)' => Holds(u, p) \/ p = q
  BY <1>1 DEF Holds, TypeOK
<1>3. Registered(q)
  BY <1>1 DEF OwnInv, HoldInv
<1>4. LockInv' /\ HoldInv'
  BY <1>1, <1>2, <1>3 DEF OwnInv, LockInv, HoldInv, Registered
<1>5. ASSUME NEW u \in Threads, Calling(u)' PROVE CallOK(u)'
  <2>1. Calling(u) /\ CallOK(u) /\ Named(u)' = Named(u)
    BY <1>1, <1>5 DEF OwnInv, CallInv, Calling, Named
  <2>2. Named(u) \in Queues
    BY <2>1 DEF CallOK, TypeOK
  <2>3. OnlyCaller(u, Named(u)) => OnlyCaller(u, Named(u))'
    BY <1>1, <1>2, <2>2 DEF OnlyCaller, Named, Calling
  <2> QED
    BY <1>1, <1>2, <2>1, <2>2, <2>3 DEF CallOK, Named, Registered
<1> QED
  BY <1>4, <1>5 DEF OwnInv, CallInv

-----------------------------------------------------------------------------
(* The observers.                                                          *)

RoundInv == FlushInv /\ ObserverRound

\* Steps that leave every flush under way, and its observers, as they are.
LEMMA QuietFlush ==
  ASSUME RoundInv,
         \A u \in Threads : stage'[u] \in {"task", "observers"} =>
             /\ stage'[u] = stage[u] /\ tls'[u] = tls[u] /\ batch'[u] = batch[u]
             /\ snap'[u] = snap[u] /\ steady'[u] = steady[u] /\ removed'[u] = removed[u]
             /\ entry[tls[u]].observers \subseteq entry'[tls[u]].observers,
         \A u \in Threads : pc'[u] = "create" => stage'[u] = "out"
  PROVE  RoundInv'
  BY DEF RoundInv, FlushInv, ObserverRound

\* The same for steps that change neither FlushTasks nor the entries.
LEMMA FrameFlush ==
  ASSUME RoundInv, UNCHANGED <<flush, tls, entry>>,
         \A u \in Threads : pc'[u] = "create" => pc[u] = "create" \/ stage[u] = "out"
  PROVE  RoundInv'
  BY DEF RoundInv, FlushInv, ObserverRound, flush

\* A closure is invoked, or the batch is done.
LEMMA InvokeFlush ==
  ASSUME TypeOK, RoundInv, NEW t \in Threads, tls[t] # NoQueue, NEW left \in Nat,
         Invoke(t, left), pc'[t] # "create",
         \A u \in Threads : u # t => pc'[u] = pc[u] /\ snap'[u] = snap[u],
         \A q \in Queues : entry'[q].observers = entry[q].observers,
         UNCHANGED tls
  PROVE  RoundInv'
<1>1. /\ stage'[t] = IF left = 0 THEN "out" ELSE "task"
      /\ batch'[t] = left
      /\ steady'[t] = IF left = 0 THEN {} ELSE entry[tls[t]].observers
      /\ \A u \in Threads : u # t =>
            /\ stage'[u] = stage[u] /\ batch'[u] = batch[u]
            /\ steady'[u] = steady[u] /\ removed'[u] = removed[u]
  BY DEF Invoke, TypeOK
<1>2. \A u \in Threads :
         tls[u] # NoQueue => entry'[tls[u]].observers = entry[tls[u]].observers
  BY DEF TypeOK
<1>3. FlushInv'
  BY <1>1, <1>2 DEF RoundInv, FlushInv
<1>4. ObserverRound'
  BY <1>1, <1>2 DEF RoundInv, FlushInv, ObserverRound
<1> QED
  BY <1>3, <1>4 DEF RoundInv

\* The observers are copied after the closure has returned ...
LEMMA SnapshotFlush ==
  ASSUME TypeOK, OwnInv, RoundInv, NEW t \in Threads, GetObserversToNotify(t)
  PROVE  RoundInv'
<1>1. stage[t] = "task" /\ tls[t] = call[t].queue
  BY DEF GetObserversToNotify, In, OwnInv, CallInv, CallOK, Calling, LoopOps, Named
<1>2. /\ snap'[t] = entry[tls[t]].observers /\ stage'[t] = "observers"
      /\ \A u \in Threads : u # t => snap'[u] = snap[u] /\ stage'[u] = stage[u]
      /\ UNCHANGED <<tls, entry, batch, steady, removed>>
      /\ \A u \in Threads : pc'[u] = "create" => pc[u] = "create"
  BY <1>1 DEF GetObserversToNotify, Return, Goto, holders, maps, TypeOK
<1>3. FlushInv'
  BY <1>1, <1>2 DEF RoundInv, FlushInv, GetObserversToNotify, Return, Goto, In, TypeOK
<1>4. ObserverRound'
  BY <1>1, <1>2 DEF RoundInv, FlushInv, ObserverRound
<1> QED
  BY <1>3, <1>4 DEF RoundInv

\* ... and called one after the other ...
LEMMA ObserveFlush ==
  ASSUME TypeOK, RoundInv, NEW t \in Threads, Observe(t)
  PROVE  RoundInv'
<1>1. PICK k : /\ snap' = [snap EXCEPT ![t] = @ \ {k}]
               /\ steady' = [steady EXCEPT ![t] = @ \ {k}]
  BY DEF Observe
<1>2. UNCHANGED <<tls, entry, pc, stage, batch, removed>>
  BY DEF Observe, holders, maps
<1>3. \A u \in Threads : /\ snap'[u] = IF u = t THEN snap[u] \ {k} ELSE snap[u]
                         /\ steady'[u] = IF u = t THEN steady[u] \ {k} ELSE steady[u]
  BY <1>1 DEF TypeOK
<1> QED
  BY <1>2, <1>3 DEF RoundInv, FlushInv, ObserverRound

\* ... while one of them, or the closure, may remove another.
LEMMA RemoveFlush ==
  ASSUME TypeOK, OwnInv, RoundInv, NEW t \in Threads, RemoveTaskObserver(t)
  PROVE  RoundInv'
<1>0. PICK k : k = call[t].key
  OBVIOUS
<1>1. tls[t] = call[t].queue /\ tls[t] \in Queues
  BY DEF RemoveTaskObserver, In, Found, OwnInv, CallInv, CallOK, Calling, LoopOps, Named,
         TypeOK
<1>2. /\ entry' = [entry EXCEPT ![tls[t]].observers = @ \ {k}]
      /\ steady' = [steady EXCEPT ![t] = @ \ {k}]
      /\ removed' = [removed EXCEPT ![t] = IF stage[t] = "out" THEN @ ELSE @ \cup {k}]
      /\ pc' = [pc EXCEPT ![t] = "idle"]
      /\ UNCHANGED <<tls, stage, batch, snap>>
  BY <1>0, <1>1 DEF RemoveTaskObserver, Return, Goto, holders
<1>3. /\ entry'[tls[t]].observers = entry[tls[t]].observers \ {k}
      /\ \A q \in Queues : q # tls[t] => entry'[q] = entry[q]
  BY <1>1, <1>2 DEF TypeOK
<1>4. \A u \in Threads : u # t /\ tls[u] # NoQueue => tls[u] # tls[t] /\ tls[u] \in Queues
  BY QueuesAssumption DEF OwnInv, HoldInv, TypeOK
<1>5. /\ steady'[t] = steady[t] \ {k} /\ pc'[t] = "idle"
      /\ stage[t] # "out" => removed'[t] = removed[t] \cup {k}
      /\ \A u \in Threads : u # t =>
            steady'[u] = steady[u] /\ removed'[u] = removed[u] /\ pc'[u] = pc[u]
  BY <1>2 DEF TypeOK
<1>6. FlushInv'
  BY <1>2, <1>3, <1>4, <1>5 DEF RoundInv, FlushInv
<1>7. ObserverRound'
  BY <1>2, <1>3, <1>4, <1>5 DEF RoundInv, FlushInv, ObserverRound
<1> QED
  BY <1>6, <1>7 DEF RoundInv

-----------------------------------------------------------------------------
(* The inductive invariant, group of actions by group of actions.          *)

StepInv == OwnInv /\ RoundInv /\ AbortsOnlyByRace /\ RunsOnLoopThread

LEMMA InvParts ==
  /\ RegistryInv <=> TypeOK /\ StepInv
  /\ RegistryInv' <=> TypeOK' /\ StepInv'
  BY DEF RegistryInv, StepInv, OwnInv, RoundInv

\* A call returns that has changed at most the closures and observers of its queue.
LEMMA ReturnOwn ==
  ASSUME TypeOK, OwnInv, NEW t \in Threads, pc[t] = "entry", Return(t),
         UNCHANGED <<tls, runners, counter, locks, entries, creator>>,
         \A u \in Threads : u # t => stage'[u] = stage[u],
         \A q \in Queues : entry'[q].wakeable = entry[q].wakeable
  PROVE  /\ OwnInv' /\ (raced => raced')
         /\ \A u \in Threads : pc'[u] = IF u = t THEN "idle" ELSE pc[u]
<1>1. /\ raced => raced'
      /\ \A u \in Threads : pc'[u] = IF u = t THEN "idle" ELSE pc[u]
      /\ \A u \in Threads : u # t => call'[u] = call[u]
  BY DEF Return, Goto, RaceSeen, TypeOK
<1>2. \A u \in Threads : Calling(u)' =>
         Calling(u) /\ call'[u] = call[u] /\ stage'[u] = stage[u]
  BY <1>1 DEF Calling
<1>3. \A u \in Threads : pc'[u] = "create" => pc[u] = "create" \/ counter < MaxQueues
  BY <1>1
<1>4. OwnInv'
  BY <1>1, <1>2, <1>3, QuietOwn
<1> QED
  BY <1>1, <1>4

\* What the entries keep when closures or observers of one change.
LEMMA EntryFields ==
  ASSUME TypeOK, NEW q \in Queues
  PROVE  /\ entry' = [entry EXCEPT ![q].tasks = @ + 1] =>
              \A p \in Queues : /\ entry'[p].wakeable = entry[p].wakeable
                                /\ entry'[p].observers = entry[p].observers
         /\ entry' = [entry EXCEPT ![q].tasks = 0] =>
              \A p \in Queues : /\ entry'[p].wakeable = entry[p].wakeable
                                /\ entry'[p].observers = entry[p].observers
         /\ \A k : entry' = [entry EXCEPT ![q].observers = @ \cup {k}] =>
              \A p \in Queues : /\ entry'[p].wakeable = entry[p].wakeable
                                /\ entry[p].observers \subseteq entry'[p].observers
         /\ \A k : entry' = [entry EXCEPT ![q].observers = @ \ {k}] =>
              \A p \in Queues : entry'[p].wakeable = entry[p].wakeable
<1>1. \A p \in Queues :
         entry[p] \in [wakeable : BOOLEAN, tasks : Nat, observers : SUBSET Keys]
  BY DEF TypeOK
<1>2. ASSUME entry' = [entry EXCEPT ![q].tasks = @ + 1], NEW p \in Queues
      PROVE  /\ entry'[p].wakeable = entry[p].wakeable
             /\ entry'[p].observers = entry[p].observers
  BY <1>1, <1>2 DEF TypeOK
<1>3. ASSUME entry' = [entry EXCEPT ![q].tasks = 0], NEW p \in Queues
      PROVE  /\ entry'[p].wakeable = entry[p].wakeable
             /\ entry'[p].observers = entry[p].observers
  BY <1>1, <1>3 DEF TypeOK
<1>4. ASSUME NEW k, entry' = [entry EXCEPT ![q].observers = @ \cup {k}], NEW p \in Queues
      PROVE  /\ entry'[p].wakeable = entry[p].wakeable
             /\ entry[p].observers \subseteq entry'[p].observers
  BY <1>1, <1>4 DEF TypeOK
<1>5. ASSUME NEW k, entry' = [entry EXCEPT ![q].observers = @ \ {k}], NEW p \in Queues
      PROVE  entry'[p].wakeable = entry[p].wakeable
  BY <1>1, <1>5 DEF TypeOK
<1> QED
  BY <1>2, <1>3, <1>4, <1>5

\* When no observer is lost from an entry, no round is disturbed.
LEMMA GrowingFlush ==
  ASSUME TypeOK, RoundInv, UNCHANGED <<flush, tls>>,
         \A q \in Queues : entry[q].observers \subseteq entry'[q].observers,
         \A u \in Threads : pc'[u] = "create" => pc[u] = "create"
  PROVE  RoundInv'
<1>1. \A u \in Threads : stage[u] \in {"task", "observers"} => tls[u] \in Queues
  BY DEF RoundInv, FlushInv, TypeOK
<1>2. \A u \in Threads : pc'[u] = "create" => stage'[u] = "out"
  BY DEF RoundInv, FlushInv, flush
<1> QED
  BY <1>1, <1>2, QuietFlush DEF flush

LEMMA LockingStep ==
  ASSUME TypeOK, StepInv, NEW t \in Threads, Locking(t)
  PROVE  StepInv'
<1> USE DEF StepInv, AbortsOnlyByRace, RunsOnLoopThread, holders, maps
<1>1. CASE GetMutex(t) \/ ScopedMutex(t)
  <2>1. Calling(t) /\ call[t].queue \in locks
    BY <1>1 DEF GetMutex, ScopedMutex, OwnInv, CallInv, CallOK, Calling, Named
  <2>2. /\ UNCHANGED <<tls, runners, counter, locks, entries, entry, creator, raced,
                       call, flush, strays>>
        /\ ~aborted'
        /\ \A u \in Threads : pc'[u] = pc[u] \/ (u = t /\ pc'[u] \in {"locking", "entry"})
    BY <1>1, <2>1 DEF GetMutex, ScopedMutex, Goto, TypeOK
  <2>3. \A u \in Threads : Calling(u)' =>
           Calling(u) /\ call'[u] = call[u] /\ stage'[u] = stage[u]
    BY <2>1, <2>2 DEF Calling, flush
  <2>4. OwnInv'
    BY <2>2, <2>3, QuietOwn
  <2>5. RoundInv'
    BY <2>2, FrameFlush
  <2> QED
    BY <2>2, <2>4, <2>5
<1>2. CASE Missing(t)
  <2>1. raced'
    BY <1>2, FoundUnlessRaced DEF Missing, RaceSeen, Calling
  <2>2. UNCHANGED <<tls, runners, counter, locks, entries, entry, creator, pc, call,
                    flush, strays>>
    BY <1>2 DEF Missing
  <2>3. OwnInv'
    BY <2>1, <2>2, QuietOwn DEF Calling, flush
  <2>4. RoundInv'
    BY <2>2, FrameFlush
  <2> QED
    BY <2>1, <2>2, <2>3, <2>4
<1> QED
  BY <1>1, <1>2 DEF Locking

LEMMA PostingStep ==
  ASSUME TypeOK, StepInv, NEW t \in Threads, Posting(t)
  PROVE  StepInv'
<1> USE DEF StepInv, AbortsOnlyByRace, RunsOnLoopThread, holders, maps
<1>1. CASE RegisterTask(t) \/ HasPendingTask(t)
  <2>1. /\ pc[t] = "entry" /\ call[t].queue \in Queues /\ Return(t)
        /\ UNCHANGED <<tls, runners, counter, locks, entries, creator, flush, aborted,
                       strays>>
        /\ \/ entry' = [entry EXCEPT ![call[t].queue].tasks = @ + 1]
           \/ UNCHANGED entry
    BY <1>1 DEF RegisterTask, HasPendingTask, In, Found, TypeOK
  <2>2. \A p \in Queues : /\ entry'[p].wakeable = entry[p].wakeable
                          /\ entry'[p].observers = entry[p].observers
    BY <2>1, EntryFields
  <2>3. /\ OwnInv' /\ (raced => raced')
        /\ \A u \in Threads : pc'[u] = IF u = t THEN "idle" ELSE pc[u]
    BY <2>1, <2>2, ReturnOwn DEF flush
  <2>4. RoundInv'
    BY <2>1, <2>2, <2>3, GrowingFlush
  <2> QED
    BY <2>1, <2>3, <2>4
<1>2. ASSUME NEW q \in Queues, PostTask(t, q) PROVE StepInv'
  <2>1. OwnInv'
    BY <1>2, CallOwn DEF PostTask, CanPost, Free, Holds, flush, LoopOps
  <2>2. RoundInv'
    BY <1>2, FrameFlush DEF PostTask, Call, Goto, TypeOK
  <2> QED
    BY <1>2, <2>1, <2>2 DEF PostTask
<1>3. ASSUME NEW q \in Queues, RunNow(t, q) PROVE StepInv'
  <2>1. creator[q] = t
    BY <1>3 DEF RunNow, RunTasksOnCurrentThread, OwnInv, HoldInv
  <2>2. OwnInv'
    BY <1>3, QuietOwn DEF RunNow, Calling, flush
  <2>3. RoundInv'
    BY <1>3, FrameFlush DEF RunNow
  <2> QED
    BY <1>3, <2>1, <2>2, <2>3 DEF RunNow, Stray
<1> QED
  BY <1>1, <1>2, <1>3 DEF Posting

LEMMA LifecycleStep ==
  ASSUME TypeOK, StepInv, NEW t \in Threads, Lifecycle(t)
  PROVE  StepInv'
<1> USE DEF StepInv, AbortsOnlyByRace, RunsOnLoopThread, holders, maps
<1>1. CASE EnsureInitialized(t)
  <2>1. /\ UNCHANGED <<tls, runners, counter, locks, entries, entry, creator, raced,
                       call, flush, strays, aborted>>
        /\ counter < MaxQueues /\ stage[t] = "out"
        /\ \A u \in Threads : pc'[u] = IF u = t THEN "create" ELSE pc[u]
    BY <1>1 DEF EnsureInitialized, Goto, TypeOK
  <2>2. OwnInv'
    BY <2>1, QuietOwn DEF Calling, flush
  <2>3. RoundInv'
    BY <2>1, FrameFlush
  <2> QED
    BY <2>1, <2>2, <2>3
<1>2. CASE CreateTaskQueue(t)
  <2>1. OwnInv'
    BY <1>2, CreateOwn DEF RoundInv
  <2>2. /\ UNCHANGED <<tls, flush, strays, aborted>> /\ (raced => raced')
        /\ \A u \in Threads : pc'[u] = IF u = t THEN "getmutex" ELSE pc[u]
        /\ entry' = [entry EXCEPT ![counter] = Blank]
    BY <1>2 DEF CreateTaskQueue, Call, Goto, RaceSeen, TypeOK
  <2>3. \A u \in Threads : tls[u] \in Queues => tls[u] \in locks /\ tls[u] < counter
    BY DEF OwnInv, LockInv, HoldInv, Holds, Registered
  <2>4. \A u \in Threads : tls[u] \in Queues => entry'[tls[u]] = entry[tls[u]]
    BY <2>2, <2>3 DEF TypeOK, Queues
  <2>5. \A u \in Threads : stage[u] \in {"task", "observers"} => tls[u] \in Queues
    BY DEF RoundInv, FlushInv, TypeOK
  <2>6. \A u \in Threads : pc'[u] = "create" => stage'[u] = "out"
    BY <2>2 DEF RoundInv, FlushInv, flush
  <2>7. RoundInv'
    BY <2>2, <2>4, <2>5, <2>6, QuietFlush DEF flush
  <2> QED
    BY <2>1, <2>2, <2>7
<1>3. CASE SetWakeable(t)
  <2>1. OwnInv' /\ ~aborted'
    BY <1>3, SetWakeableOwn
  <2>2. /\ UNCHANGED <<flush, strays>>
        /\ \A u \in Threads : pc'[u] = IF u = t THEN "idle" ELSE pc[u]
        /\ \A u \in Threads : u # t => tls'[u] = tls[u]
        /\ call[t].queue \in Queues
        /\ entry' = [entry EXCEPT ![call[t].queue].wakeable = TRUE]
    BY <1>3 DEF SetWakeable, Return, Goto, Found, TypeOK
  <2>3. stage[t] = "out"
    BY <1>3 DEF SetWakeable, In, OwnInv, CallInv, CallOK, Calling
  <2>4. \A q \in Queues : entry'[q].observers = entry[q].observers
    BY <2>2 DEF TypeOK
  <2>5. \A u \in Threads : stage[u] \in {"task", "observers"} => tls[u] \in Queues
    BY DEF RoundInv, FlushInv, TypeOK
  <2>6. \A u \in Threads : pc'[u] = "create" => stage'[u] = "out"
    BY <2>2 DEF RoundInv, FlushInv, flush
  <2>7. RoundInv'
    BY <2>2, <2>3, <2>4, <2>5, <2>6, QuietFlush DEF flush
  <2> QED
    BY <2>1, <2>2, <2>7
<1>4. CASE ThreadExit(t)
  <2>1. /\ pc[t] = "idle" /\ tls[t] \in Queues /\ stage[t] = "out"
        /\ Releases(t, tls[t])
        /\ \A u \in Threads : tls'[u] = IF u = t THEN NoQueue ELSE tls[u]
        /\ \A u \in Threads : stage'[u] = IF u = t THEN "exited" ELSE stage[u]
        /\ UNCHANGED <<runners, counter, locks, entries, entry, batch, snap, steady,
                       removed, aborted, creator, strays, raced>>
    BY <1>4 DEF ThreadExit, Free, TypeOK
  <2>2. OwnInv'
    BY <2>1, ReleaseOwn DEF Holds
  <2>3. \A u \in Threads : pc'[u] = "create" => u # t /\ pc[u] = "create"
    BY <2>1 DEF Releases, Call, Goto, TypeOK
  <2>4. RoundInv'
    <3>1. \A u \in Threads : pc'[u] = "create" => stage'[u] = "out"
      BY <2>1, <2>3 DEF RoundInv, FlushInv
    <3> QED
      BY <2>1, <3>1, QuietFlush
  <2> QED
    BY <2>1, <2>2, <2>4
<1>5. CASE Dispose(t)
  <2>1. OwnInv' /\ \A u \in Threads : tls[u] # call[t].queue
    BY <1>5, DisposeOwn DEF Named
  <2>2. /\ UNCHANGED <<tls, flush, strays, aborted>> /\ (raced => raced')
        /\ \A u \in Threads : pc'[u] = IF u = t THEN "idle" ELSE pc[u]
        /\ entry' = [entry EXCEPT ![call[t].queue] = Blank]
    BY <1>5 DEF Dispose, Return, Goto, RaceSeen, TypeOK
  <2>3. \A u \in Threads : tls[u] \in Queues => entry'[tls[u]] = entry[tls[u]]
    BY <2>1, <2>2 DEF TypeOK
  <2>4. \A u \in Threads : stage[u] \in {"task", "observers"} => tls[u] \in Queues
    BY DEF RoundInv, FlushInv, TypeOK
  <2>5. \A u \in Threads : pc'[u] = "create" => stage'[u] = "out"
    BY <2>2 DEF RoundInv, FlushInv, flush
  <2>6. RoundInv'
    BY <2>2, <2>3, <2>4, <2>5, QuietFlush DEF flush
  <2> QED
    BY <2>1, <2>2, <2>6
<1>6. ASSUME NEW q \in Queues, GetTaskRunner(t, q) PROVE StepInv'
  <2>1. OwnInv'
    BY <1>6, GetTaskRunnerOwn
  <2>2. RoundInv'
    BY <1>6, FrameFlush DEF GetTaskRunner
  <2> QED
    BY <1>6, <2>1, <2>2 DEF GetTaskRunner
<1>7. ASSUME NEW q \in Queues, DropTaskRunner(t, q) PROVE StepInv'
  <2>1. /\ pc[t] = "idle" /\ q \in runners[t] /\ Releases(t, q)
        /\ \A u \in Threads :
              runners'[u] = IF u = t THEN runners[u] \ {q} ELSE runners[u]
        /\ UNCHANGED <<tls, counter, locks, entries, entry, flush, aborted, creator,
                       strays, raced>>
    BY <1>7 DEF DropTaskRunner, Free, TypeOK
  <2>2. OwnInv'
    BY <2>1, ReleaseOwn DEF Holds, flush
  <2>3. \A u \in Threads : pc'[u] = "create" => pc[u] = "create"
    BY <2>1 DEF Releases, Call, Goto, TypeOK
  <2>4. RoundInv'
    BY <2>1, <2>3, FrameFlush
  <2> QED
    BY <2>1, <2>2, <2>4
<1> QED
  BY <1>1, <1>2, <1>3, <1>4, <1>5, <1>6, <1>7 DEF Lifecycle

LEMMA FlushingStep ==
  ASSUME TypeOK, StepInv, NEW t \in Threads, Flushing(t)
  PROVE  StepInv'
<1> USE DEF StepInv, AbortsOnlyByRace, RunsOnLoopThread, holders, maps
<1>1. ASSUME NEW op \in {"take", "query", "drop"}, LoopCalls(t, op) PROVE StepInv'
  <2>1. OwnInv'
    BY <1>1, CallOwn DEF LoopCalls, OnLoop, Free, Holds, flush, LoopOps, TypeOK
  <2>2. RoundInv'
    BY <1>1, FrameFlush DEF LoopCalls, Call, Goto, TypeOK
  <2> QED
    BY <1>1, <2>1, <2>2 DEF LoopCalls
<1>2. CASE GetTasksToRunNow(t)
  <2>1. /\ pc[t] = "entry" /\ call[t].queue \in Queues /\ tls[t] = call[t].queue
        /\ tls[t] # NoQueue
    BY <1>2, QueuesAssumption
       DEF GetTasksToRunNow, In, Found, OwnInv, CallInv, CallOK, Calling, LoopOps, Named,
           TypeOK
  <2>2. PICK left \in Nat : Invoke(t, left)
    BY <1>2, <2>1 DEF GetTasksToRunNow, TypeOK
  <2>3. \A p \in Queues : /\ entry'[p].wakeable = entry[p].wakeable
                          /\ entry'[p].observers = entry[p].observers
    BY <1>2, <2>1, EntryFields DEF GetTasksToRunNow
  <2>4. \A u \in Threads : u # t => stage'[u] = stage[u]
    BY <2>2 DEF Invoke, TypeOK
  <2>5. /\ OwnInv' /\ (raced => raced')
        /\ \A u \in Threads : pc'[u] = IF u = t THEN "idle" ELSE pc[u]
    BY <1>2, <2>1, <2>3, <2>4, ReturnOwn DEF GetTasksToRunNow
  <2>6. RoundInv'
    BY <1>2, <2>1, <2>2, <2>3, <2>5, InvokeFlush DEF GetTasksToRunNow
  <2>7. strays' = strays
    BY <2>1, <2>2 DEF Invoke, Stray, OwnInv, HoldInv
  <2> QED
    BY <1>2, <2>5, <2>6, <2>7 DEF GetTasksToRunNow
<1>3. CASE DisposeTasks(t) \/ AddTaskObserver(t)
  <2>1. /\ pc[t] = "entry" /\ call[t].queue \in Queues /\ Return(t)
        /\ UNCHANGED <<tls, runners, counter, locks, entries, creator, flush, aborted,
                       strays>>
        /\ \/ entry' = [entry EXCEPT ![call[t].queue].tasks = 0]
           \/ entry' = [entry EXCEPT ![call[t].queue].observers = @ \cup {call[t].key}]
    BY <1>3 DEF DisposeTasks, AddTaskObserver, In, Found, TypeOK
  <2>2. \A p \in Queues : /\ entry'[p].wakeable = entry[p].wakeable
                          /\ entry[p].observers \subseteq entry'[p].observers
    BY <2>1, EntryFields
  <2>3. /\ OwnInv' /\ (raced => raced')
        /\ \A u \in Threads : pc'[u] = IF u = t THEN "idle" ELSE pc[u]
    BY <2>1, <2>2, ReturnOwn DEF flush
  <2>4. RoundInv'
    BY <2>1, <2>2, <2>3, GrowingFlush
  <2> QED
    BY <2>1, <2>3, <2>4
<1>4. CASE TaskReturns(t)
  <2>1. OwnInv'
    BY <1>4, CallOwn DEF TaskReturns, OnLoop, Free, Holds, flush, LoopOps, TypeOK
  <2>2. RoundInv'
    BY <1>4, FrameFlush DEF TaskReturns, Call, Goto, TypeOK
  <2> QED
    BY <1>4, <2>1, <2>2 DEF TaskReturns
<1>5. CASE GetObserversToNotify(t)
  <2>1. \A u \in Threads : u # t => stage'[u] = stage[u]
    BY <1>5 DEF GetObserversToNotify, TypeOK
  <2>2. OwnInv' /\ (raced => raced')
    BY <1>5, <2>1, ReturnOwn DEF GetObserversToNotify, In
  <2>3. RoundInv'
    BY <1>5, SnapshotFlush
  <2> QED
    BY <1>5, <2>2, <2>3 DEF GetObserversToNotify
<1>6. CASE Observe(t)
  <2>1. OwnInv'
    BY <1>6, QuietOwn DEF Observe, Calling
  <2> QED
    BY <1>6, <2>1, ObserveFlush DEF Observe
<1>7. CASE EndTask(t)
  <2>1. /\ tls[t] # NoQueue /\ pc[t] = "idle" /\ batch[t] - 1 \in Nat
        /\ Invoke(t, batch[t] - 1)
        /\ UNCHANGED <<tls, runners, counter, locks, entries, entry, pc, call, snap,
                       aborted, creator, raced>>
    BY <1>7 DEF EndTask, OnLoop, Free, RoundInv, FlushInv, TypeOK
  <2>2. \A u \in Threads : u # t => stage'[u] = stage[u]
    BY <2>1 DEF Invoke, TypeOK
  <2>3. OwnInv'
    BY <2>1, <2>2, QuietOwn DEF Calling
  <2>4. RoundInv'
    BY <2>1, InvokeFlush
  <2>5. strays' = strays
    BY <2>1 DEF Invoke, Stray, OwnInv, HoldInv
  <2> QED
    BY <2>1, <2>3, <2>4, <2>5
<1>8. ASSUME NEW k \in Keys, NEW op \in {"add", "remove"}, CallObserver(t, op, k)
      PROVE  StepInv'
  <2>1. OwnInv'
    BY <1>8, CallOwn DEF CallObserver, OnLoop, Free, Holds, flush, LoopOps, TypeOK
  <2>2. RoundInv'
    BY <1>8, FrameFlush DEF CallObserver, Call, Goto, TypeOK
  <2> QED
    BY <1>8, <2>1, <2>2 DEF CallObserver
<1>9. CASE RemoveTaskObserver(t)
  <2>1. \A p \in Queues : entry'[p].wakeable = entry[p].wakeable
    BY <1>9, EntryFields DEF RemoveTaskObserver, Found, TypeOK
  <2>2. OwnInv' /\ (raced => raced')
    BY <1>9, <2>1, ReturnOwn DEF RemoveTaskObserver, In
  <2>3. RoundInv'
    BY <1>9, RemoveFlush
  <2> QED
    BY <1>9, <2>2, <2>3 DEF RemoveTaskObserver
<1> QED
  BY <1>1, <1>2, <1>3, <1>4, <1>5, <1>6, <1>7, <1>8, <1>9 DEF Flushing

LEMMA RegistryInvAlways == Spec => []RegistryInv
<1>1. Init => RegistryInv
  <2> SUFFICES ASSUME Init PROVE RegistryInv
    OBVIOUS
  <2>1. TypeOK
    BY RegistryTypeInit
  <2>2. LockInv /\ HoldInv /\ CallInv /\ FlushInv
    BY QueuesAssumption
       DEF Init, LockInv, HoldInv, CallInv, FlushInv, Holds, Calling, Queues
  <2>3. AbortsOnlyByRace /\ RunsOnLoopThread /\ ObserverRound
    BY DEF Init, AbortsOnlyByRace, RunsOnLoopThread, ObserverRound
  <2> QED
    BY <2>1, <2>2, <2>3 DEF RegistryInv
<1>2. RegistryInv /\ [Next]_vars => RegistryInv'
  <2> SUFFICES ASSUME RegistryInv, [Next]_vars PROVE RegistryInv'
    OBVIOUS
  <2>1. TypeOK /\ StepInv /\ LockInv /\ CallInv /\ FlushInv
    BY InvParts DEF RegistryInv
  <2>2. ASSUME NEW t \in Threads, Locking(t) PROVE RegistryInv'
    BY <2>1, <2>2, LockingType, LockingStep, InvParts
  <2>3. ASSUME NEW t \in Threads, Lifecycle(t) PROVE RegistryInv'
    BY <2>1, <2>3, LifecycleType, LifecycleStep, InvParts
  <2>4. ASSUME NEW t \in Threads, Posting(t) PROVE RegistryInv'
    BY <2>1, <2>4, PostingType, PostingStep, InvParts
  <2>5. ASSUME NEW t \in Threads, Flushing(t) PROVE RegistryInv'
    BY <2>1, <2>5, FlushingType, FlushingStep, InvParts
  <2>6. CASE UNCHANGED vars
    <3>1. TypeOK'
      BY <2>1, <2>6 DEF TypeOK, vars, holders, maps, mutexes, flush, bounds
    <3>2. OwnInv'
      BY <2>1, <2>6, QuietOwn DEF StepInv, vars, holders, maps, flush, Calling
    <3>3. RoundInv'
      BY <2>1, <2>6, FrameFlush DEF StepInv, vars, holders, maps
    <3>4. AbortsOnlyByRace' /\ RunsOnLoopThread'
      BY <2>1, <2>6 DEF StepInv, AbortsOnlyByRace, RunsOnLoopThread, vars
    <3> QED
      BY <3>1, <3>2, <3>3, <3>4, InvParts DEF StepInv
  <2> QED
    BY <2>2, <2>3, <2>4, <2>5, <2>6 DEF Next, Rest
<1> QED
  BY <1>1, <1>2, PTL DEF Spec

\* The registry's maps, locks and calls are well typed, and CreateTaskQueue runs
\* exactly while the meta mutex is held exclusively.
THEOREM RegistryTypeCorrect == Spec => []TypeOK
<1>1. RegistryInv => TypeOK
  BY DEF RegistryInv
<1> QED
  BY <1>1, RegistryInvAlways, PTL

\* Whatever loops are created, shared, dropped and outlived by their task runners,
\* the registry fails only through the race on queue_entries_.
THEOREM FailsOnlyByRace == Spec => []AbortsOnlyByRace
<1>1. RegistryInv => AbortsOnlyByRace
  BY DEF RegistryInv
<1> QED
  BY <1>1, RegistryInvAlways, PTL

\* Closures run on the thread that made their loop.
THEOREM ClosuresStayHome == Spec => []RunsOnLoopThread
<1>1. RegistryInv => RunsOnLoopThread
  BY DEF RegistryInv
<1> QED
  BY <1>1, RegistryInvAlways, PTL

\* Observers are notified after each closure as they were registered, except for
\* those that the closure or the round itself removes.
THEOREM ObserversNotified == Spec => []ObserverRound
<1>1. RegistryInv => ObserverRound
  BY DEF RegistryInv
<1> QED
  BY <1>1, RegistryInvAlways, PTL
=============================================================================
