# ffnetwork in TLA+

Models, model-checking runs and machine-checked proofs for ffnetwork: a message
loop library (`source/base`) and, on top of it, an HTTP client around libcurl's
multi interface (`source/net`). Paths below are relative to the repository's root.

## The system

| part | source | state | operations | what makes it correct |
|---|---|---|---|---|
| message loop | `source/base/messageloop/message_loop_impl*.cpp`, `platform/linux/timerfd.cpp` | `terminated_`, `running_`, the timerfd, the remaining time | Run, RunForTime, RunExpiredTasksNow, Terminate, the epoll loop, FlushTasks | tasks run once, in order, not early; the loop wakes when a task is due; Terminate makes Run return |
| task queue | `message_loop_task_queues.cpp`, `delayed_task.cpp` | a priority queue per loop, `order_` | RegisterTask, GetTasksToRunNow, DisposeTasks | no task lost, duplicated or reordered |
| registry of queues | `message_loop_task_queues.cpp`, `message_loop.cpp`, `thread/mutex.cpp`, `thread/thread_local.cpp` | `queue_entries_`, `queue_locks_`, `queue_meta_mutex_`, a mutex, a wakeable and observers per queue, each thread's MessageLoop | CreateTaskQueue, SetWakeable, Dispose, AddTaskObserver, RemoveTaskObserver, GetObserversToNotify, EnsureInitializedForCurrentThread | an entry is there for as long as somebody can name it; the locks exclude what touches the same data; observers are notified as registered |
| task runner | `task_runner.cpp` | a shared reference to the loop it posts to | PostTask, PostDelayTask, PostTaskForTime, RunNowOrPostTask, RunTasksOnCurrentThread | posts reach the loop's queue; a closure runs on the loop's thread |
| waitable event | `thread/waitable_event.cpp` | `signaled_`, mutex, condition variable | Signal, Wait, WaitWithTimeout | one wait per signal, no lost wake-up |
| thread | `thread/thread.cpp` | `joined_`, the thread, its task runner | Start, Join | Start returns with a task runner; Join ends the thread, once |
| curl client | `source/net/curl_client.cpp`, `request_task_impl.cpp` | `request_task_map_`, the multi handle, `is_terminated_`, the request thread | PerformRequest, TaskWithRequest, Resume, Cancel, Run, HandleCurlMsg, StartRequest, CancelRequest, the destructor | each request answered once, to its own callback; the destructor returns and leaves nothing running |
| process-wide libcurl state | `source/net/curl_client.cpp` | `curl_clients_active` | ConfigCurlGlobalState | libcurl is initialised exactly while a client lives |
| request, task, response | `source/net/request_impl.cpp`, `request_task_impl.cpp`, `response_impl.cpp` | url, method, headers, data; identifier, handle, response, metrics | setters, hash, the construction of the handle, header_callback, DidFinished, DidCancelled | the three hashes of one request agree; the body outlives the transfer; an answer does not change once given |
| synchronous call | `source/net/client.cpp` | a mutex, a condition variable and the answer on the caller's stack | PerformRequestSync | it returns the answer, and nothing it leaves behind is used |
| message buffer | `messageloop/message.cpp` | buffer, capacity, length, read position | Encode, Decode | what is decoded is what was encoded |
| SHA-256 | `utils/sha256.cpp` | block, lengths, state | init, update, final | the padded message is compressed, however it is cut |
| values | `time/*.h`, `unique_object.h`, `utils/time_utils.cpp` | none shared | arithmetic, ownership of one value | overflow |

Threads interact through the task queues: an application thread calls
`RequestTask::Resume` or `Cancel`, which posts a closure to the request thread's
loop; the request thread alternates `curl_multi_perform`, the delivery of finished
transfers, and `RunForTime(10 ms)` of that loop, and calls completion callbacks.
`Thread::Join` posts a closure that terminates the loop. The hard behaviours are the
interleavings of posts with a loop that wakes, flushes, ends and disposes of its
queue; the timerfd that two threads rearm; wake-ups that are lost; the map the
request thread reads without the lock its writers take; the other map, of queues, that
two kinds of mutex protect and neither protects alone; requests that are equal under
their hash, or change while their task is made; a callback that uses its caller's stack;
and the destructors. `PROJECT.json` lists them at their lines under
"hazards", with the properties that would catch them.

## Modules

| module | models | kind |
|---|---|---|
| `DelayedTask` | the order of the priority queue, its top, which tasks are due | operators |
| `TaskExecutor` | what a loop promises to its posters | abstract specification |
| `MessageLoop` | the Linux loop, its queue, its timerfd, the posters | detailed specification, refines `TaskExecutor` |
| `WaitableEvent` | AutoResetWaitableEvent over an explicit condition variable | specification |
| `TaskQueues` | the registry of queues, its locks, the loops and task runners that share it, the observers | specification |
| `CurlClient` | application threads, request thread, libcurl, destructor, for several requests | specification |
| `Request` | hash, handle options, header parsing, result conversion | operators |
| `CurlGlobal` | ConfigCurlGlobalState of several clients | actions, used by `RequestTask` |
| `RequestTask` | one request from its creation to its answer, and PerformRequestSync | specification, composes `Request` and `CurlGlobal` |
| `Sha256` | the cutting and padding of a message into blocks | specification, checked against the standard's padding |
| `Thread` | Start and Join of a thread with a loop | specification, instantiates `WaitableEvent` |
| `Message` | the encode and decode buffer and its growth | specification |
| `MCMessageLoop`, `MCCurlClient`, `MCMessage`, `MCTaskQueues`, `MCRequestTask` | small instances | model checking |
| `MessageLoop_proofs`, `WaitableEvent_proofs`, `CurlClient_proofs`, `Thread_proofs`, `TaskQueues_proofs`, `RequestTask_proofs`, `Message_proofs`, `Sha256_proofs` | theorems | proofs |

Operators named in comments as *mutants* are plausible mistakes. They are used by no
specification; substituted for the definition that follows them, they show that the
properties can fail.

### MessageLoop

One step of the loop's thread is everything between two points where another thread
can change what it sees: a queue mutex, a system call on the timerfd, the invocation
of a closure. `pc` follows the code: `idle`, `while` (the test of `running_`), `epoll`
(blocked in `epoll_wait`), `drain` (between `epoll_wait` and `TimerDrain`), `flush`
(before `GetTasksToRunNow`), `invoke` (FlushTasks' loop), `elapsed` (before the
remaining time is recomputed) and `dispose` (before `DisposeTasks`). A post has two
steps, because `PostTask` reads `terminated_` without the mutex that `RegisterTask`
takes. The queue is a set with the order of `DelayedTask::operator>`; taking out "the
top while it is due" is taking every due task, and the rearming that each pop does is
that of the last pop. The timerfd is its period and its next expiry, with
`timerfd_settime`'s rule that zero disarms. Time is counted in ticks; `TicksPerMs` is
what `ToMilliseconds` divides by, and `AsInt` is the conversion of the 64-bit
remaining time to `epoll_wait`'s `int`: `DeltaMax = 20`, `IntMod = 16` make
`TimeDelta::Max()` a positive timeout that is too short, as 2^63 - 1 ns and 32 bits do.

A timeout of `epoll_wait` does not set `errno`, so both outcomes of the test of
`errno` are possible there. `EPOLLERR` and `EPOLLHUP` are not raised by a timerfd and
are left out.

### TaskQueues

`MessageLoop` looks at one queue and its timer; this module looks at all of them and at
the locks. Each call on a queue has the steps of the code: `getmutex` (the shared meta
mutex, `queue_locks_.at`), `locking` (the queue's own mutex, through a reference that
has outlived the shared lock), `entry` (the work in `queue_entries_`, under that mutex).
`CreateTaskQueue` is in the map at `create`, under the meta mutex alone, and `Dispose`
changes the map under one queue's mutex alone, so `Meets` is a data race: the lookup may
miss and end the process, an insertion may be lost, an erasure may be lost. `raced`
remembers that it happened.

A loop is held by its thread's MessageLoop (`tls`) and by task runners; whoever lets go
of the last of these references runs `~MessageLoopImpl`, on whichever thread that is.
Closures and observers may call the registry again; `stage` tells where FlushTasks is
while they do. Every queued closure is due here. The lookup that `operator[]` does for a
missing key makes a null entry that the next line dereferences: one step, `Missing`,
together with the exception of `at`. `Rest` is the step of a system in which nobody is
in a call, so that the deadlock check means what it says: no order of the mutexes blocks
a call.

### WaitableEvent

Every critical section is one step. A thread in the condition variable is `blocked` or
`woken` (notified, timed out or woken spuriously, and about to take the mutex).
`wait_for` reports a timeout whenever its deadline has passed when it returns,
notified or not.

### CurlClient

A task is named by its request; `Hash` is a constant, because the code identifies
requests by their hash, which does not tell two requests of one URL apart: it leaves out
the method, and the same request made again has the same hash. Two members of `Requests`
with one hash are such requests. `EndTaskWithRequest` writes over the entry that has the
key; `clashed` remembers the keys that were given to a task while another had them. A
retry from inside a callback is one of these cases, because the clean-up comes after the
callback; a request made again after the clean-up is not, and late closures and
transfers of the first task then meet the second. The queue of the
request thread's loop holds start, cancel and terminate closures; of the loop itself
the model keeps what `MessageLoop` shows of it here: flushes while it runs, one flush
after it is left, then the disposal of what was posted in between. `TaskWithRequest`
is split around its write of the map, which holds `client_mutex_` while the request
thread holds nothing: with `MapRaces`, an access of the request thread in between may
find nothing, may end the process, or may make the insertion lost. Callbacks are split
from the clean-up that follows them, and what a callback does with the client is a step
of the application in between. libcurl is external: a set of handles it works
on, any of which may finish in a `curl_multi_perform`, and messages that go with the
handle when it is removed.

Assumed: the caller keeps the task it was given, each task is resumed and cancelled at
most once, and the destructor does not run while another thread is inside the client
(that thread holds a reference). The destructor runs on an application thread.

### RequestTask, Request and CurlGlobal

`CurlClient` follows several requests through map, queue and libcurl and takes each as
one constant hash. `RequestTask` follows one and opens it up. `Request` holds what the
code computes from a request: `Hash` (the method is no part of it, nor are headers that
Vary lists), the handle's options, of which `CURLOPT_POSTFIELDS` keeps the address of
the data and not the data, and what `OnReceiveHeader` makes of a line. A hash is the
tuple of the fields that it depends on; the bytes are the subject of `Sha256`.

The code computes `hash()` three times while a task is made (key of the map, identifier,
handle), and the application still shares the request, so the three are steps and the
setters may come between them. Buffers are numbered: `freed` are those that `setData`
and `~RequestImpl` gave back. The callback of `PerformRequestSync` stores the answer
under the caller's mutex and notifies without it; `touched` records which of the
caller's locals it used after the caller had returned. The condition variable is such a
local: the model reaches the state in which it is notified too late, and
`SyncReturnsAnswer` shows that it is the only one. `given` and `output` are the response
that the callback was given and the one the caller stored, as sets that are empty
before. Of the request thread's queue the module keeps this task's closures, and that
they may be disposed of.

`CurlGlobal` splits `ConfigCurlGlobalState` into the load of the count, the store and
the call of libcurl: the mutex it locks is a local that it has just created.

Assumed: the application does not change the request during another call on it, and
destroys the client when no thread is in a call of it.

### Sha256

The code never looks at the bytes of the message, so a byte is its position; the
compressed blocks take the place of the state. The numbers keep their width: the
length field overflows in the run, and `HashesPaddedMessage` is about lengths that fit.
A byte has `ByteValues` values and an unsigned int four bytes: `Place` is what each byte
of a number counts, and numbers wrap around at `Modulus`, the place of the fifth.

### Thread

The event on Start's stack is an instance of `WaitableEvent` with the owner as its only
waiter, and the signal and the wait are its actions; the task runner is a variable of
Start that the new thread writes before it signals. Of the loop the module keeps what
`MessageLoop` shows of `Run()`: flushes of what is queued, another flush after the loop
was left, then the disposal. The loop is left when a closure terminates it, or when
`Run()` returns by itself (`RunReturns`): `TimeDelta::Max()` is a finite timeout of
`epoll_wait`, every wake-up charges it with the whole time since the start, and an error
of `epoll_wait` ends the loop too. `DoRun` sets `terminated_` then as well. A post is
two steps, as in `MessageLoop`, so a closure may be accepted by a loop that is gone by
the time it is queued. Once the loop is left, PostTask refuses Join's closure; `expired`
remembers that `Run()` returned by itself. Assumed: the owner calls Start once and then
Join, directly or from the destructor, and nobody else does. A thread with a function of
its own in place of the loop is what `CurlClient` models.

### Message

A value is written as its bytes, each of which knows where it comes from, so a buffer
that was moved, grown or overwritten wrongly shows. `NextOfTwoSize` is the code's
sequence of shifts on numbers of `Width` bits, with the cut of its `size_t` argument and
of its result; the shifts reach 32 bits, and so does `Width`. `Resize` checks that the
buffer grows, in every build (`FF_DCHECK` is `FF_CHECK` because the build files never
define `DEBUG`); when it does not, the process ends (`aborted`). An allocation that
fails changes nothing.

## Runs

| run | instance | shows |
|---|---|---|
| `loop` | two tasks and a terminating one, delays 0 and 1, an absolute target that comes to lie in the past, Run, RunForTime(1) and RunForTime(2), one interruption, two moments | the eight properties of the loop, the refinement included, in 0.45 million states |
| `loop_early_return` (violation) | two tasks, RunForTime(3) | `RunsFullDuration` fails |
| `event` | two plain and two timed waits, three signals, a spurious wake-up | the four properties of the event, deadlock included |
| `event_timeout` (violation) | a plain and a timed wait, one signal | `NoLostWakeup` fails |
| `thread` | three tasks, one of which terminates the loop, a spurious wake-up, a Run that may return by itself | the four properties of the thread |
| `message` | up to five values of one and three bytes, numbers of 5 bits | all properties of the buffer |
| `curl` | any two of three requests, of which two have one hash, all race outcomes | the seven properties of the client |
| `curl_same_key` (violation) | two requests with one hash, no race | `AnswerGoesToOwner` fails |
| `curl_lost_start` (violation) | one request, no race | `EveryRequestAnswered` fails |
| `queues` | two threads, two queues, two closures, two observer keys, two additions or removals | the four properties of the registry, deadlock included, in 1.2 million states |
| `request` | one request, one of two, with or without data, changed once; two clients; synchronous and not | the seven properties of the request, in 0.6 million states |
| `sha256` | blocks of 12 bytes, bytes of 2 bits and numbers of 8, messages up to 42 bytes in chunks of thirteen lengths | no write outside the blocks; the padded message for the lengths whose bits fit (under 32 bytes) |

Properties of the loop: `TasksConserved` (each accepted task is in exactly one of queue,
batch, executed, disposed, under an order of its own), `OrderedExecution` (no waiting
task precedes an executed one, across batches), `WokenAtRequiredTime` (the timer is
armed for the first pending task whenever the loop may sleep),
`DueTasksAreRunNotDisposed` (what was registered and due when the loop was left is run
by the last flush), `ImplementsExecutor` (refinement), `TaskSettled` and
`TerminationReturns` (liveness). Of the event: `OneWaitPerSignal`,
`WakeupLostOnlyToTimeout`, `SignalSettled`, `TimedWaitReturns`. Of the thread:
`StackOutlivesThread`, `EarlierTasksRan` (when Join returns, its closure has run unless
a task terminated the loop or Run returned by itself, and if it has run so has
everything queued before it), `StartReturns`, `JoinReturns`. Of the buffer: `TypeOK`
(what was encoded lies inside the buffer), `AbortsOnlyAtWidth` (the check in Resize
fails only when the size no longer fits), `DecodesWhatWasEncoded`,
`NextOfTwoSizeIsLeast` (against the definition its name gives). Of the client:
`AnsweredAtMostOnce`, `OwnerUnlessClash` (a transfer is reported to its own task, or to
another of its key that was made while an earlier task had the key),
`TransfersHaveTasks`, `ErasedWhenAnswered` (an action property: no task leaves the map
unanswered, a request made again after the clean-up included), `CrashNeedsRaceOrClash`,
`DestructorReturns`, `TransferAnswered`. Of the registry: `AbortsOnlyByRace` (no check
fails, no lookup misses and no mutex is used after it is gone, unless two accesses met
in `queue_entries_`), `RunsOnLoopThread`, `ObserverRound` (who is called after a
closure, when closures and observers change the observers). Of the request: `KeysAgree`,
`BodyOutlivesTransfer`, `SyncReturnsAnswer`, `InitialisedWhileUsed`, `AnswerFrozen` (an
action property), `SyncReturns` (liveness). Of the hash: `TypeOK` (no write outside the
two blocks), `HashesPaddedMessage`.

**Bounds.** `MaxTime`, `MaxInterrupts`, `MaxSignals`, `MaxSpurious`, `MaxTasks` and
`MaxValues` only stop the clock and count environment events. With 5 bits the buffer's
capacity wraps after five encodes, as it does with 32 bits after about thirty-two; the
shifts by 8 and 16 then have no effect, and those by 1, 2 and 4 do. Three closures are
enough for a batch of two with a third posted while it runs, before or after the
terminating one; two moments for a target in the past, present and future, for a budget
that runs out and for one of 2 that two wake-ups overcharge (longer clocks are left to
the theorems, which cover every safety property of the loop); two waits of each kind for
a signal to choose the wrong one; two tasks for one to meet the other's insertion,
entry, closures or transfer, and three requests to choose them from (`MaxTasks` is 2) so
that they have one hash in some behaviours and two in others; two threads with a loop
each for a loop that dies by another thread's hand and for a queue created while another
is used; two observers for one to remove the other before it is called; one change of a
request for each of its setters to fall between the hashes or into the transfer; two
clients for constructors and destructors to overlap; messages of three and a half
blocks, so that the length field overflows; under 32 bytes it fits, and there the padded
message is compared, with chunks that hold none, one and two whole blocks and end around
a block's end and around its last nine bytes. The runs of the loop, the thread, the
buffer, the request and the client switch the deadlock check off: an owner that does
nothing more with an idle loop, a clock at its bound, a joined thread, a buffer at its
last value, a destroyed client or a crashed process is a legitimate end. The others keep
it.

**Fairness.** `MessageLoop`: the clock advances, a poster that has passed the test of
`terminated_` registers, a loop thread that can go on goes on; nobody is obliged to post
or to run the loop, and signals are not owed. `WaitableEvent`: a woken thread gets the
mutex in the end and deadlines pass; nobody is obliged to signal or wait. `Thread`: the
new thread, a thread inside Start, Join or PostTask, and a thread whose join can return
are scheduled; nobody is obliged to start, post or join, and Run need not return by
itself. `CurlClient`: the request thread and a thread inside the client are scheduled,
and libcurl ends each transfer it is given time for again and again (strong fairness,
justified by `CURLOPT_TIMEOUT` in `request_task_impl.cpp`); nobody is obliged to resume,
cancel or destroy. `RequestTask`: the caller's thread and a request thread that is
answering are scheduled, and the mutex that the caller releases again and again is given
to the callback in the end (strong fairness of `StoreResponse`); nobody is obliged to
start, finish or cancel a transfer. The registry and the hash state no fairness.

## What the violations show

- *RunForTime returns early.* `left_milliseconds` is reduced at every wake-up by the
  time since the loop was entered, so earlier time is charged again.
- *A timed wait can swallow a wake-up.* `WaitWithTimeout` returns on a timeout without
  looking at the flag, also when it was the thread that `Signal()` notified.
- *A request can be lost.* `RunForTime` ends with a flush and then empties the queue; a
  `StartRequest` posted between the two never runs, and `PerformRequestSync` hangs.
- *Requests of one hash share an entry.* The second `TaskWithRequest` replaces the first's
  task under a running transfer and is given its answer; when both were started, the
  second message finds a null task, without any data race.

Other behaviours of the code appear as the conditions under which a property holds. No
document of the repository speaks of them, so no run is expected to fail on them:

- *A target of zero* disarms the timerfd, and a default `TimePoint` blocks the queue
  behind it (`SaneTimes` in `MessageLoop_proofs`).
- *A callback that issues its own request again* has the new task erased by the clean-up
  (`clashed`), and the late cancel of a task cancels the same request made again.
- *`Run()` may return by itself*, after some 24 days or enough wake-ups, and its loop then
  refuses tasks for good (`expired`).
- *Queues created or disposed of while others are used* race on `queue_entries_`
  (`raced`), and *clients created or destroyed at once* on the count (`overlapped`).
- *A request changed while its task is made* gets hashes that differ (`edited`); one
  whose data is set again during the transfer sends freed memory (`rebodied`).
- *The buffer doubles at every encode*, because `PrepareEncode` asks for the capacity
  plus the value instead of the data plus the value; after some thirty encodes
  `NextOfTwoSize` wraps and the check in Resize ends the process.

## Proofs

All theorems hold for every value of the constants that satisfies the named
assumptions (`TasksAssumption`, `TimesAssumption`, `EventAssumption`,
`CurlAssumption`, `ThreadAssumption`, `QueuesAssumption`, `RequestAssumption`: types and
disjointness only; `MessageAssumption`: at most 32 bits, and no type larger than the
largest power of two in them; `Sha256Assumption`: a block has room for the nine bytes of
the padding).

`MessageLoop_proofs`. `TypeCorrect` needs that a timer that will expire has a period
(`TimerOK`). `Conservation` is inductive with it. `ExecutionOrder` is not: a batch under
way must be known to hold only due tasks and to come before everything still queued, and
what has run before both (`BatchInv`); tasks that are registered later have a greater
order, and tasks left in the queue were not due when the batch was taken. `WakeUp`
(`WakeInv`) says that the timer's next expiry is the target of the first task unless the
loop is about to flush a task that is due, and assumes `SaneTimes`: no target is zero or
negative. `DueTasksRun` (`DisposeInv`) remembers the clock and `order_` at the moment
the loop was left and follows them through the last flush. `LoopImplementsExecutor` maps
the queue and the batch together to the executor's pending tasks: taking a batch is then
invisible, and each invocation is an `Execute` that `BatchInv` enables.

`WaitableEvent_proofs`. `OneWait` and `LostOnlyToTimeout` come from one invariant;
`WaitLosesNoWakeup` is the unconditional `NoLostWakeup` of an event nobody waits on
with a timeout.

`CurlClient_proofs`. No theorem assumes anything of the hash. They rest on `Standing`: an
entry of the map is a task of its own key that has not been answered, unless a callback of
that key has just run; a task that is not created has neither entry nor answer; and as long
as a key has not clashed, libcurl works only for its entry and the callback that has just
run was that of the entry, answered. So whoever is answered is taken from the map, has not
been answered before and is gone from it when the callback and its clean-up are over. The
race may lose an entry but never misplaces one, so the theorems include its outcomes.
`QuietOnceDestroyed` needs only that the destructor returns after the request thread.

`Thread_proofs`. One invariant carries all five theorems: the event is signaled only by
a thread that has written the task runner, and Start returns only then (`HandshakeInv`);
Join's closure is posted once (`QuitInv`); the loop is left only after a closure that
terminated it has run or Run has returned by itself (`expired`), holds everything
registered until it disposes, and once Join's closure has left the queue so has
everything registered before it (`LoopInv`).

`TaskQueues_proofs`. The four properties of the registry are inductive only together
with `RegistryInv`: an id is given out once (`LockInv`); whoever holds a loop finds its
queue unless a race lost it, and a thread's loop is its own (`HoldInv`); a thread in a
call on a queue holds its loop, except in the constructor and the destructor, which are
alone with it (`CallInv`); a thread inside FlushTasks has its loop and a closure in
hand, and the observers that stay through the closure are still registered (`FlushInv`).
That no thread deadlocks on the mutexes is left to the run.

`RequestTask_proofs`. `TaskInv` carries five of the theorems. `KeysAgree` speaks of a task
that is made; `KeyInv` says what the three hashes are while it is being made.
`BodyOutlivesTransfer` needs to know who keeps the request alive (`BodyInv`) and that
libcurl works only for a task of the map, which an answered task leaves at its clean-up
(`MapInv`). `SyncInv` ties the caller's flag to the answer: the callback stores once, before
the caller can return. `InitialisedOnce` counts: as long as no two calls overlapped, at most
one client is between the load and libcurl, the number it loaded is that of the living
clients before its call, and otherwise count and clients agree (`GlobalInv`, with the
cardinality theorems).

`Message_proofs`. The prover cannot use the library's induction theorems, which take an
operator; that every non-empty set of naturals has a least element is induction without
one (`LeastElement`, from the well-foundedness of the naturals). With it: what `Pow2` is,
that every number has a length in bits, and from these what the five shifts do to the bits
(`SmearedFills`: with at most 32 bits, every bit below the leading one is set) and what
number that is (`ValueOfOnes`). `NextOfTwoSizeValue` sums it up, and `NextOfTwoIsLeast` and
`AbortsAtWidth` follow, the buffer's length being a power of two (`GrownInv`). For
`RoundTrip` the invariant gives the ends of the encoded values and of the reads as two
functions (`EncodedEnds`, `DecodedEnds`) that agree as long as the types match (`Aligned`);
it needs `BeyondInv` because a value may be encoded after a reader went beyond the data:
what such a reader got was not all written.

`Sha256_proofs`. `ShaTypeCorrect` is inductive with the domains of the copies.
`HashesMessage` needs `Progress`: until `final`, and while the length in bits fits, the
blocks given to `transform` are the message up to `m_tot_len`, and the first `m_len` bytes
of `m_block` are what follows. Nothing wraps around then. `FinalHashes` compares what
`final` writes with the standard's padding byte by byte; the four upper bytes of the length
are zero because the length fits (`ByteOfType`).

Only model-checked: the liveness properties (`TaskSettled`, `TerminationReturns`,
`SignalSettled`, `TimedWaitReturns`, `StartReturns`, `JoinReturns`, `DestructorReturns`,
`TransferAnswered`, `SyncReturns`), because liveness under fairness and ENABLED are outside
what the prover handles, and the absence of deadlocks. Proved and not run: the type
invariants of the event, the thread and the client, `StartHandsOverRunner`,
`NothingRunsAfterJoin` and `QuietAfterDestroy`. No module uses a RECURSIVE operator.

## Not modelled

The single-task flush (no caller), `Terminate` called from another thread, a flush
started from inside a closure, clients dropped inside a callback, `MessageSerializable`
(nothing implements it), Join from two threads, the wrap of `order_`, the 64-bit
overflow of times, the Darwin loop. WaitMulti and WaitFD, which `Run` calls between two
rounds, only pause. The rounds of SHA-256's `transform` are table-driven arithmetic on
32-bit words that a test vector settles and a model checker does not reach. The numbers
in the metrics are copied from libcurl. `UniqueObject` and `UniqueFD` own one value on
one thread. Logging, formatting, wall-clock readings, the example program and vendored
code have no state worth a property.

## Plan

Done: the loop with its queue and timer, the event, the thread, the message buffer, the
client, the registry, the request with its task and the synchronous call, the global state
of libcurl, the blocks of SHA-256, all with the proofs of their safety properties. Next:

1. Proofs: the order of the registry's mutexes, from which no call can deadlock.
2. Clients dropped inside a callback, whose destructor joins its own thread.
3. `Thread` with several threads in Join and in the destructor.
4. The wrap of `order_` as a width of `DelayedTask`.
5. The Darwin loop as a second implementation of `TaskExecutor`.
