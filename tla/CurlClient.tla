----------------------------- MODULE CurlClient -----------------------------
(***************************************************************************)
(* CurlClient and RequestTaskImpl (source/net/curl_client.cpp and          *)
(* request_task_impl.cpp): application threads create, resume and cancel   *)
(* request tasks; the request thread alternates curl_multi_perform, the    *)
(* delivery of finished transfers and a message loop that runs the         *)
(* StartRequest and CancelRequest closures; a destructor ends it all.      *)
(*                                                                         *)
(* A task is named by its request.  request_task_map_ is keyed by the hash *)
(* of the request, which does not tell two requests for one URL apart; the *)
(* same Request given to the client again is another member of Requests    *)
(* with the same hash.  TaskWithRequest writes the map under client_mutex_ *)
(* and the request thread reads and writes it without: the write is two    *)
(* steps here, and an access of the request thread between them is a data  *)
(* race whose outcome is a choice.                                         *)
(*                                                                         *)
(* A callback may call the client as any other thread may: what it does is *)
(* an application's step between the answer and the clean-up after it.     *)
(* The caller is assumed to keep the shared_ptr of a task it created.      *)
(***************************************************************************)
EXTENDS Naturals, Sequences, FiniteSets

CONSTANTS
    Requests,       \* the requests, and the task made for each
    Hashes,
    Hash,           \* Request::hash()
    NoTask,
    MaxTasks,       \* bound: how many of the requests are made
    MapRaces        \* whether the outcomes of the data race are explored

ASSUME CurlAssumption ==
    /\ Hash \in [Requests -> Hashes]
    /\ NoTask \notin Requests
    /\ MaxTasks \in Nat
    /\ MapRaces \in BOOLEAN

VARIABLES
    phase,          \* what the application has done with each task
    cancels,        \* tasks RequestTask::Cancel was called on
    inserting,      \* the task TaskWithRequest is putting into the map
    map,            \* request_task_map_
    queue,          \* the closures in the request thread's message loop
    terminating,    \* is_terminated_
    destroyed,      \* the destructor has returned
    loop_terminated,\* the loop's terminated_
    pc,             \* where the request thread is
    counted,        \* HandleCurlMsg's msg_count > 0
    current,        \* the task whose callback runs or has just run
    batch,          \* closures FlushTasks has taken and not invoked
    last_flush,     \* it is the flush after the loop was left
    multi,          \* handles added to curl_multi_handle_
    msgs,           \* handles with an unread CURLMSG_DONE
    answered,       \* history: how often each completion callback was called
    delivered,      \* history: which transfer was reported to which task
    clashed,        \* history: keys given to a task while another had them
    raced           \* history: the map was accessed during an insertion

appVars == <<phase, cancels, inserting>>
endVars == <<terminating, destroyed>>
curlVars == <<multi, msgs>>
historyVars == <<answered, delivered, clashed>>
vars == <<appVars, map, queue, endVars, loop_terminated, pc, counted, current,
          batch, last_flush, curlVars, historyVars, raced>>

Closures == [op : {"start", "cancel"}, hash : Hashes] \cup {[op |-> "terminate"]}

Locations == {"while", "msgs", "cleanup", "loop", "invoke", "cancelled",
              "dispose", "exited", "crashed"}

\* Every variable has its type; a message is of a handle libcurl holds, and the
\* loop has closures in hand only while it invokes them.
TypeOK ==
    /\ phase \in [Requests -> {"new", "inserting", "created", "resumed"}]
    /\ cancels \subseteq Requests
    /\ inserting \in Requests \cup {NoTask}
    /\ map \in [Hashes -> Requests \cup {NoTask}]
    /\ queue \in Seq(Closures) /\ batch \in Seq(Closures)
    /\ terminating \in BOOLEAN /\ destroyed \in BOOLEAN
    /\ loop_terminated \in BOOLEAN /\ counted \in BOOLEAN
    /\ last_flush \in BOOLEAN /\ raced \in BOOLEAN
    /\ pc \in Locations
    /\ current \in Requests \cup {NoTask}
    /\ multi \subseteq Requests /\ msgs \subseteq multi
    /\ answered \in [Requests -> Nat]
    /\ delivered \subseteq Requests \X Requests
    /\ clashed \subseteq Hashes
    /\ pc \notin {"invoke", "cancelled", "crashed"} => batch = <<>>

-----------------------------------------------------------------------------
(* The application's threads.                                              *)

Alive == ~terminating /\ pc # "crashed"

\* TaskWithRequest takes client_mutex_ and starts to write the map ...
BeginTaskWithRequest(r) ==
    /\ Alive /\ inserting = NoTask
    /\ phase[r] = "new"
    /\ Cardinality({s \in Requests : phase[s] # "new"}) < MaxTasks
    /\ phase' = [phase EXCEPT ![r] = "inserting"]
    /\ inserting' = r
    /\ UNCHANGED <<cancels, map, queue, endVars, loop_terminated, pc, counted,
                   current, batch, last_flush, curlVars, historyVars, raced>>

\* ... and has written it, over the task that has the same hash if there is
\* one.  An insertion that was raced may be lost.
EndTaskWithRequest(r) ==
    /\ Alive /\ inserting = r
    /\ inserting' = NoTask
    /\ phase' = [phase EXCEPT ![r] = "created"]
    /\ \/ /\ map' = [map EXCEPT ![Hash[r]] = r]
          /\ clashed' = IF map[Hash[r]] = NoTask THEN clashed
                        ELSE clashed \cup {Hash[r]}
       \/ raced /\ UNCHANGED <<map, clashed>>
    /\ UNCHANGED <<cancels, queue, endVars, loop_terminated, pc, counted, current,
                   batch, last_flush, curlVars, answered, delivered, raced>>

Posted(op, r) == Append(queue, [op |-> op, hash |-> Hash[r]])

\* RequestTaskImpl::Resume and RequestTaskStart.  The delegate is held while
\* the closure is posted, so the destructor does not start in between.
Resume(r) ==
    /\ Alive /\ phase[r] = "created"
    /\ phase' = [phase EXCEPT ![r] = "resumed"]
    /\ queue' = Posted("start", r)
    /\ UNCHANGED <<cancels, inserting, map, endVars, loop_terminated, pc,
                   counted, current, batch, last_flush, curlVars, historyVars,
                   raced>>

\* RequestTaskImpl::Cancel and RequestTaskCancel.
Cancel(r) ==
    /\ Alive /\ phase[r] \in {"created", "resumed"} /\ r \notin cancels
    /\ cancels' = cancels \cup {r}
    /\ queue' = Posted("cancel", r)
    /\ UNCHANGED <<phase, inserting, map, endVars, loop_terminated, pc, counted,
                   current, batch, last_flush, curlVars, historyVars, raced>>

\* ~CurlClient up to Thread::Join, which posts the closure that terminates the
\* loop.  Whoever is in TaskWithRequest holds the client, so nobody is.
BeginDestroy ==
    /\ Alive /\ inserting = NoTask
    /\ terminating' = TRUE
    /\ queue' = Append(queue, [op |-> "terminate"])
    /\ UNCHANGED <<appVars, map, destroyed, loop_terminated, pc, counted,
                   current, batch, last_flush, curlVars, historyVars, raced>>

\* Join has returned: remove what is left, without an answer.
EndDestroy ==
    /\ terminating /\ ~destroyed
    /\ pc = "exited"
    /\ destroyed' = TRUE
    /\ map' = [h \in Hashes |-> NoTask]
    /\ multi' = {} /\ msgs' = {}
    /\ UNCHANGED <<appVars, queue, terminating, loop_terminated, pc, counted,
                   current, batch, last_flush, historyVars, raced>>

-----------------------------------------------------------------------------
(* The request thread: CurlClient::Run.                                    *)

\* An access of the map that meets an insertion.
Race == MapRaces /\ inserting # NoTask

\* What a lookup may return: the entry, or nothing when it is raced.
Lookup(h) == {map[h]} \cup (IF Race THEN {NoTask} ELSE {})

RaceSeen == raced' = (raced \/ Race)

AccessesMap ==
    \/ pc \in {"cleanup", "cancelled"}
    \/ pc = "msgs" /\ msgs # {}
    \/ pc = "invoke" /\ batch # <<>> /\ Head(batch).op # "terminate"

\* The other outcome of a race: the process dies in the map.
MapCrash ==
    /\ Race /\ AccessesMap
    /\ pc' = "crashed"
    /\ raced' = TRUE
    /\ UNCHANGED <<appVars, map, queue, endVars, loop_terminated, counted,
                   current, batch, last_flush, curlVars, historyVars>>

\* while (!is_terminated_) curl_multi_perform: any transfers may finish.
Perform(finished) ==
    /\ pc = "while" /\ ~terminating
    /\ finished \subseteq multi \ msgs
    /\ msgs' = msgs \cup finished
    /\ counted' = FALSE
    /\ pc' = "msgs"
    /\ UNCHANGED <<appVars, map, queue, endVars, loop_terminated, current,
                   batch, last_flush, multi, historyVars, raced>>

\* Mutant: the thread ends only when no transfer is under way.
ExitWhenIdle ==
    /\ pc = "while" /\ terminating /\ multi = {}
    /\ pc' = "exited"
    /\ UNCHANGED <<appVars, map, queue, endVars, loop_terminated, counted,
                   current, batch, last_flush, curlVars, historyVars, raced>>

Exit ==
    /\ pc = "while" /\ terminating
    /\ pc' = "exited"
    /\ UNCHANGED <<appVars, map, queue, endVars, loop_terminated, counted,
                   current, batch, last_flush, curlVars, historyVars, raced>>

Answer(t) == answered' = [answered EXCEPT ![t] = @ + 1]

\* Mutant: a transfer that failed is cleaned up without an answer.
ReadMsgDropsErrors(r) ==
    /\ pc = "msgs" /\ r \in msgs
    /\ msgs' = msgs \ {r}
    /\ counted' = TRUE
    /\ current' = r
    /\ pc' = "cleanup"
    /\ Answer(r) \/ UNCHANGED answered
    /\ UNCHANGED <<appVars, map, queue, endVars, loop_terminated, batch,
                   last_flush, multi, delivered, clashed, raced>>

\* HandleCurlMsg reads a message, looks the task up by the hash of the handle
\* and calls its DidFinished.  operator[] of a missing key yields a null task,
\* through which DidFinished is then called.
ReadMsg(r) ==
    /\ pc = "msgs" /\ r \in msgs
    /\ msgs' = msgs \ {r}
    /\ counted' = TRUE
    /\ current' = r
    /\ RaceSeen
    /\ \E t \in Lookup(Hash[r]) :
         \/ t = NoTask /\ pc' = "crashed" /\ UNCHANGED historyVars
         \/ /\ t # NoTask
            /\ pc' = "cleanup"
            /\ Answer(t)
            /\ delivered' = delivered \cup {<<r, t>>}
            /\ UNCHANGED clashed
    /\ UNCHANGED <<appVars, map, queue, endVars, loop_terminated, batch,
                   last_flush, multi>>

\* Mutant: the entry stays in the map.
FinishMsgKeepsEntry ==
    /\ pc = "cleanup"
    /\ multi' = multi \ {current} /\ msgs' = msgs \ {current}
    /\ RaceSeen
    /\ pc' = "msgs"
    /\ current' = NoTask
    /\ UNCHANGED <<appVars, map, queue, endVars, loop_terminated, counted, batch,
                   last_flush, historyVars>>

\* After the callback: curl_multi_remove_handle and CleanupRequest.
FinishMsg ==
    /\ pc = "cleanup"
    /\ multi' = multi \ {current} /\ msgs' = msgs \ {current}
    /\ map' = [map EXCEPT ![Hash[current]] = NoTask]
    /\ RaceSeen
    /\ pc' = "msgs"
    /\ current' = NoTask
    /\ UNCHANGED <<appVars, queue, endVars, loop_terminated, counted, batch,
                   last_flush, historyVars>>

\* No message is left: continue when there were some, otherwise RunForTime,
\* which returns at once when the loop is terminated.
MsgsDone ==
    /\ pc = "msgs" /\ msgs = {}
    /\ pc' = IF counted \/ loop_terminated THEN "while" ELSE "loop"
    /\ UNCHANGED <<appVars, map, queue, endVars, loop_terminated, counted,
                   current, batch, last_flush, curlVars, historyVars, raced>>

\* The loop takes the closures that are queued: while it runs, or once more
\* after its 10 ms are over or it was terminated.
Flush(last) ==
    /\ pc = "loop"
    /\ ~last => queue # <<>> /\ ~loop_terminated
    /\ batch' = queue /\ queue' = <<>>
    /\ last_flush' = last
    /\ pc' = "invoke"
    /\ UNCHANGED <<appVars, map, endVars, loop_terminated, counted, current,
                   curlVars, historyVars, raced>>

NextClosure(op) ==
    /\ pc = "invoke" /\ batch # <<>>
    /\ Head(batch).op = op
    /\ batch' = Tail(batch)

\* StartRequest: curl_multi_add_handle for the task the map holds, and
\* nothing when it holds none.
StartRequest ==
    /\ NextClosure("start")
    /\ RaceSeen
    /\ \E t \in Lookup(Head(batch).hash) :
         multi' = multi \cup ({t} \ {NoTask})
    /\ UNCHANGED <<appVars, map, queue, endVars, loop_terminated, pc, counted,
                   current, last_flush, msgs, historyVars>>

\* Mutant: a task that libcurl has not been given is dropped without an answer.
CancelRequestSilent ==
    /\ NextClosure("cancel")
    /\ RaceSeen
    /\ \E t \in Lookup(Head(batch).hash) :
         \/ t = NoTask /\ UNCHANGED <<map, pc, current, answered>>
         \/ /\ t # NoTask /\ t \notin multi
            /\ map' = [map EXCEPT ![Head(batch).hash] = NoTask]
            /\ UNCHANGED <<pc, current, answered>>
         \/ /\ t # NoTask /\ t \in multi
            /\ pc' = "cancelled" /\ current' = t
            /\ Answer(t)
            /\ UNCHANGED map
    /\ UNCHANGED <<appVars, queue, endVars, loop_terminated, counted, last_flush,
                   curlVars, delivered, clashed>>

\* CancelRequest up to the callback that DidCancelled calls.
CancelRequest ==
    /\ NextClosure("cancel")
    /\ RaceSeen
    /\ \E t \in Lookup(Head(batch).hash) :
         \/ t = NoTask /\ UNCHANGED <<pc, current, answered>>
         \/ /\ t # NoTask
            /\ pc' = "cancelled"
            /\ current' = t
            /\ Answer(t)
    /\ UNCHANGED <<appVars, map, queue, endVars, loop_terminated, counted,
                   last_flush, curlVars, delivered, clashed>>

\* Mutant: the transfer of a cancelled task goes on.
FinishCancelKeepsHandle ==
    /\ pc = "cancelled"
    /\ map' = [map EXCEPT ![Hash[current]] = NoTask]
    /\ RaceSeen
    /\ pc' = "invoke"
    /\ current' = NoTask
    /\ UNCHANGED <<appVars, queue, endVars, loop_terminated, counted, batch,
                   last_flush, curlVars, historyVars>>

\* ... and after it.  request_task is a reference into the map: what is
\* removed from libcurl is the handle of whatever the entry then holds.
FinishCancel ==
    /\ pc = "cancelled"
    /\ LET t == map[Hash[current]]
       IN  multi' = multi \ {t} /\ msgs' = msgs \ {t}
    /\ map' = [map EXCEPT ![Hash[current]] = NoTask]
    /\ RaceSeen
    /\ pc' = "invoke"
    /\ current' = NoTask
    /\ UNCHANGED <<appVars, queue, endVars, loop_terminated, counted, batch,
                   last_flush, historyVars>>

\* The closure Join posts.
Terminate ==
    /\ NextClosure("terminate")
    /\ loop_terminated' = TRUE
    /\ UNCHANGED <<appVars, map, queue, endVars, pc, counted, current,
                   last_flush, curlVars, historyVars, raced>>

BatchDone ==
    /\ pc = "invoke" /\ batch = <<>>
    /\ pc' = IF last_flush THEN "dispose" ELSE "loop"
    /\ UNCHANGED <<appVars, map, queue, endVars, loop_terminated, counted,
                   current, batch, last_flush, curlVars, historyVars, raced>>

\* DisposeTasks at the end of RunForTime; WaitMulti / WaitFD pause for a while.
DisposeTasks ==
    /\ pc = "dispose"
    /\ queue' = <<>>
    /\ pc' = "while"
    /\ UNCHANGED <<appVars, map, endVars, loop_terminated, counted, current,
                   batch, last_flush, curlVars, historyVars, raced>>

-----------------------------------------------------------------------------
Init ==
    /\ phase = [r \in Requests |-> "new"] /\ cancels = {} /\ inserting = NoTask
    /\ map = [h \in Hashes |-> NoTask]
    /\ queue = <<>> /\ batch = <<>>
    /\ terminating = FALSE /\ destroyed = FALSE /\ loop_terminated = FALSE
    /\ pc = "while" /\ counted = FALSE /\ last_flush = FALSE
    /\ current = NoTask
    /\ multi = {} /\ msgs = {}
    /\ answered = [r \in Requests |-> 0] /\ delivered = {} /\ clashed = {}
    /\ raced = FALSE

Application ==
    \/ \E r \in Requests : BeginTaskWithRequest(r) \/ Resume(r) \/ Cancel(r)
    \/ BeginDestroy

CompleteCall == (\E r \in Requests : EndTaskWithRequest(r)) \/ EndDestroy

RequestThread ==
    \/ \E finished \in SUBSET multi : Perform(finished)
    \/ Exit
    \/ \E r \in msgs : ReadMsg(r)
    \/ FinishMsg \/ MsgsDone
    \/ \E last \in BOOLEAN : Flush(last)
    \/ StartRequest \/ CancelRequest \/ FinishCancel \/ Terminate
    \/ BatchDone \/ DisposeTasks

Next == Application \/ CompleteCall \/ RequestThread \/ MapCrash

Spec == Init /\ [][Next]_vars

\* libcurl reports the transfer of r.
Transfer(r) == \E finished \in SUBSET multi : r \in finished /\ Perform(finished)

\* The request thread and a caller inside the client are scheduled, and
\* libcurl ends every transfer it is given time for.  Nobody is obliged to make
\* a request, to resume or cancel it, or to destroy the client.
FairSpec ==
    /\ Spec
    /\ WF_vars(RequestThread) /\ WF_vars(CompleteCall)
    /\ \A r \in Requests : SF_vars(Transfer(r))

-----------------------------------------------------------------------------
(* Properties.                                                             *)

\* A completion callback is called at most once, whether the transfer ends,
\* the task is cancelled before, during or after it, or both, and whoever shares
\* its key with it.
AnsweredAtMostOnce == \A r \in Requests : answered[r] <= 1

\* "Look up response data and original request" (curl_client.cpp:187): what
\* HandleCurlMsg looks up for a finished transfer is the task it belongs to.
AnswerGoesToOwner == \A d \in delivered : d[1] = d[2]

\* What becomes of it when requests share keys: a transfer is reported to a task
\* of its own key, and to another than its own only if that task was made while
\* an earlier one still had the key.  In particular nothing of a task that is
\* done, its transfer or a late closure, answers for the same request made again.
OwnerUnlessClash ==
    \A d \in delivered :
        Hash[d[1]] = Hash[d[2]] /\ (d[1] = d[2] \/ Hash[d[1]] \in clashed)

\* libcurl works for no task that the map does not hold: none is cleaned up
\* under a transfer, and HandleCurlMsg and CancelRequest can find every one,
\* unless another task was made over it.
TransfersHaveTasks ==
    \A r \in multi : map[Hash[r]] = r \/ Hash[r] \in clashed

\* A task leaves the map when it has been answered or the client is destroyed.
\* The erasures after a callback (curl_client.cpp:192, 281) go by the key: a task
\* made under it during the callback would vanish unanswered, one made after the
\* clean-up does not.
ErasedWhenAnswered ==
    [][\A h \in Hashes \ clashed' :
          map[h] # NoTask /\ map'[h] # map[h] => answered[map[h]] > 0 \/ destroyed']_vars

\* HandleCurlMsg calls DidFinished through a null task only as the outcome of
\* a data race on the map, or after two tasks had one key.
CrashNeedsRaceOrClash == pc = "crashed" => raced \/ clashed # {}

\* Once the destructor has returned, the request thread does nothing more.
QuietAfterDestroy == [][destroyed => UNCHANGED <<map, curlVars, answered, pc>>]_vars

\* ~CurlClient returns: the request thread leaves whatever it is doing.
DestructorReturns == terminating ~> (destroyed \/ pc = "crashed")

\* A transfer handed to libcurl leads to an answer, unless the client goes or
\* another task is made under its key.
TransferAnswered ==
    \A r \in Requests :
        (r \in multi) ~> (answered[r] > 0 \/ Hash[r] \in clashed \/ terminating
                             \/ pc = "crashed")

\* A resumed request leads to an answer, unless the client goes: what
\* PerformRequestSync waits for.
EveryRequestAnswered ==
    \A r \in Requests :
        (phase[r] = "resumed") ~> (answered[r] > 0 \/ terminating \/ pc = "crashed")
=============================================================================
