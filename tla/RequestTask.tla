---------------------------- MODULE RequestTask -----------------------------
(***************************************************************************)
(* One request from TaskWithRequest to its answer: RequestTaskImpl and the *)
(* objects it is made of (source/net/request_task_impl.cpp), the request   *)
(* that the application goes on sharing (request_impl.cpp), the response   *)
(* (response_impl.cpp), and Client::PerformRequestSync, whose callback     *)
(* runs on the request thread with references into the caller's stack      *)
(* (client.cpp).  The client itself is one of the Clients of CurlGlobal.   *)
(*                                                                         *)
(* The application may change the request at any time through its          *)
(* shared_ptr, from another thread too, but not during a call of it.  The  *)
(* request thread's queue and map are the subject of CurlClient; of them   *)
(* the module keeps the closures of this task, which may be disposed of,   *)
(* and whether the map holds the task under key.                           *)
(***************************************************************************)
EXTENDS Request, CurlGlobal, FiniteSets

CONSTANTS
    Requests,       \* requests the application may start from
    Urls, Methods,  \* what it may change them to
    MaxEdits,       \* bound: changes of the request in a behaviour
    MaxClosures,    \* bound: closures of the task queued at once
    Codes, Statuses,\* results and HTTP status codes of transfers
    Lines,          \* lines of response headers
    Main,           \* the client of the request
    None

IsRequest(r) ==
    /\ r = [url |-> r.url, method |-> r.method, headers |-> r.headers, body |-> r.body]
    /\ r.url \in Urls /\ r.method \in Methods
    /\ r.headers \in [DOMAIN r.headers -> Values] /\ DOMAIN r.headers \subseteq Names

ASSUME RequestAssumption ==
    /\ Main \in Clients /\ MaxEdits \in Nat /\ MaxClosures \in Nat
    /\ Tokens \in [Values -> SUBSET Names]
    /\ \A r \in Requests : IsRequest(r) /\ r.body \in {NoBody, 1}

VARIABLES
    req,            \* the RequestImpl
    freed,          \* buffers that were freed
    buffers,        \* how many were allocated
    app_req,        \* the application holds the request
    edits,
    sync,           \* the caller is PerformRequestSync
    cpc,            \* where the caller is
    key, ident, handle,  \* the three uses of hash(), and handle_
    cancelled,      \* cancelled_
    in_map,         \* request_task_map_ holds the task under key
    closures,       \* closures of this task in the request thread's loop, in order
    multi,          \* the handle is in curl_multi_handle_
    response,       \* response_
    metrics,        \* metrics_: started, finished
    rpc,            \* where the request thread is in answering
    given,          \* the response the callback was given, if any, as a set
    mutex, ready, output,   \* locals of PerformRequestSync
    edited,         \* history: changed while the task was being made
    rebodied,       \* history: setData after the handle was made
    touched         \* history: locals used after PerformRequestSync returned

requestVars == <<req, freed, buffers, app_req, edits, rebodied>>
makeVars == <<key, ident, handle, edited>>
answerVars == <<response, metrics, given, cancelled>>
syncVars == <<mutex, ready, output, touched>>
taskVars == <<in_map, closures, multi>>
vars == <<globalVars, requestVars, sync, cpc, makeVars, taskVars, answerVars, rpc,
          syncVars>>

ResponseCodes == {"OK", "Timeout", "UserCancel", "ConnectToServerFailed",
                  "UnknownError"}

\* ResponseImpl(): its codes are uninitialised until Construct sets them.
NoResponse == [headers |-> <<>>, status |-> "unset", code |-> "unset",
               cancelled |-> FALSE]

\* Of Metrics the module keeps which of its ends have been written.
MetricsEnds == {"started", "finished"}

Making == {"keyed", "identified"}
Made == cpc \notin {"start"} \cup Making

\* Every variable has its type, and no callback is given an uninitialised code;
\* who checks response_ready holds the mutex, and a task is in the map once it is
\* made.
TypeOK ==
    /\ GlobalTypeOK
    /\ IsRequest(req) /\ req.body \in 0 .. buffers
    /\ freed \subseteq 1 .. buffers /\ buffers \in 0 .. MaxEdits + 1
    /\ app_req \in BOOLEAN /\ sync \in BOOLEAN /\ in_map \in BOOLEAN
    /\ multi \in BOOLEAN /\ ready \in BOOLEAN /\ cancelled \in BOOLEAN
    /\ edited \in BOOLEAN /\ rebodied \in BOOLEAN /\ edits \in 0 .. MaxEdits
    /\ cpc \in {"start", "made", "locking", "checking", "deciding", "blocked",
                "returned"} \cup Making
    /\ cpc \in {"checking", "deciding"} <=> mutex = "caller"
    /\ closures \in Seq({"start", "cancel"}) /\ Len(closures) <= MaxClosures
    /\ in_map => Made
    /\ metrics \subseteq MetricsEnds
    /\ \A r \in given : r.code \in ResponseCodes
    /\ rpc \in {"idle", "callback", "notify", "cleanup", "crashed"}
    /\ touched \subseteq {"cv", "output"}

-----------------------------------------------------------------------------
(* The request, shared by the application, the task and the response.      *)

\* Mutant: the task keeps no reference.
RequestHeldByApp == app_req'

RequestHeld == app_req' \/ in_map' \/ given' # {}

\* ~RequestImpl frees the data when the last reference goes.
Released == IF RequestHeld \/ req.body = NoBody THEN freed ELSE freed \cup {req.body}

Edit ==
    /\ app_req /\ edits < MaxEdits
    /\ edits' = edits + 1
    /\ edited' = (edited \/ cpc \in Making)
    /\ UNCHANGED <<globalVars, app_req, sync, cpc, key, ident, handle, taskVars,
                   answerVars, rpc, syncVars>>

SetField(new) ==
    /\ Edit
    /\ req' = new
    /\ UNCHANGED <<freed, buffers, rebodied>>

SetUrl(u) == SetField([req EXCEPT !.url = u])
SetMethod(m) == SetField([req EXCEPT !.method = m])
SetHeader(n, v) == SetField([req EXCEPT !.headers = With(@, n, v)])

\* setData frees the old buffer and fills a new one, or none when there is no data.
SetData(empty) ==
    /\ Edit
    /\ freed' = freed \cup ({req.body} \ {NoBody})
    /\ buffers' = IF empty THEN buffers ELSE buffers + 1
    /\ req' = [req EXCEPT !.body = IF empty THEN NoBody ELSE buffers + 1]
    /\ rebodied' = (rebodied \/ Made)

\* The application lets go of the request; whoever makes a task still holds it.
DropRequest ==
    /\ app_req /\ Made
    /\ app_req' = FALSE
    /\ UNCHANGED <<taskVars, answerVars>>
    /\ freed' = Released
    /\ UNCHANGED <<globalVars, req, buffers, edits, rebodied, sync, cpc, makeVars,
                   rpc, syncVars>>

-----------------------------------------------------------------------------
(* TaskWithRequest and the constructor of RequestTaskImpl.                 *)

Making1(from, to) ==
    /\ cpc = from /\ cpc' = to
    /\ UNCHANGED <<globalVars, requestVars, sync, edited, answerVars, rpc, syncVars>>

TaskWithRequest ==
    /\ app_req /\ life[Main] = "alive"
    /\ key' = Hash(req)
    /\ Making1("start", "keyed")
    /\ UNCHANGED <<ident, handle, taskVars>>

SetIdentifier ==
    /\ ident' = Hash(req)
    /\ Making1("keyed", "identified")
    /\ UNCHANGED <<key, handle, taskVars>>

\* HandleInfo; then TaskWithRequest puts the task into the map.
MakeHandle ==
    /\ handle' = Handle(req)
    /\ in_map' = TRUE
    /\ Making1("identified", "made")
    /\ UNCHANGED <<key, ident, closures, multi>>

\* A closure with the identifier, unless the weak_ptr of the client has expired.
Posted(op) == IF life[Main] = "alive" THEN Append(closures, op) ELSE closures

\* Resume: the start of the metrics, and StartRequest.
Resume ==
    /\ cpc = "made"
    /\ cpc' = IF sync THEN "locking" ELSE "returned"
    /\ metrics' = metrics \cup {"started"}
    /\ Len(closures) < MaxClosures
    /\ closures' = Posted("start")
    /\ UNCHANGED <<globalVars, requestVars, sync, makeVars, in_map, multi, response,
                   given, cancelled, rpc, syncVars>>

\* Cancel, which a caller of PerformRequestSync has no task to call on.
Cancel ==
    /\ ~sync /\ cpc \in {"made", "returned"}
    /\ Len(closures) < MaxClosures
    /\ closures' = Posted("cancel")
    /\ UNCHANGED <<globalVars, requestVars, sync, cpc, makeVars, in_map, multi,
                   answerVars, rpc, syncVars>>

-----------------------------------------------------------------------------
(* The request thread.                                                     *)

\* Mutant: the task is identified by the request as it is now.
IdentifiedNow == Hash(req)

taskIdentifier == ident

\* A closure finds the task when its identifier is the key of the map.
Finds == in_map /\ taskIdentifier = key

Runs(op) ==
    /\ rpc = "idle" /\ closures # <<>> /\ Head(closures) = op
    /\ closures' = Tail(closures)

StartRequest ==
    /\ Runs("start")
    /\ multi' = (multi \/ Finds)
    /\ UNCHANGED <<globalVars, requestVars, sync, cpc, makeVars, in_map, answerVars,
                   rpc, syncVars>>

\* RunForTime ends with DisposeTasks.
DisposeTasks ==
    /\ rpc = "idle" /\ closures # <<>>
    /\ closures' = <<>>
    /\ UNCHANGED <<globalVars, requestVars, sync, cpc, makeVars, in_map, multi,
                   answerVars, rpc, syncVars>>

\* The callbacks of libcurl write into response_; data is counted and dropped.
HeaderCallback(line) ==
    /\ rpc = "idle" /\ multi
    /\ response' = [response EXCEPT !.headers = OnReceiveHeader(@, line)]
    /\ UNCHANGED <<globalVars, requestVars, sync, cpc, makeVars, taskVars, metrics,
                   given, cancelled, rpc, syncVars>>

\* The task of a finished transfer is looked up by the hash in the handle;
\* operator[] of another key yields a null task.
NullTask ==
    /\ rpc = "idle" /\ multi /\ handle.request_hash # key
    /\ rpc' = "crashed"
    /\ UNCHANGED <<globalVars, requestVars, sync, cpc, makeVars, taskVars, answerVars,
                   syncVars>>

FillMetrics == metrics \cup {"finished"}
Construct(status, code) == [response EXCEPT !.status = status, !.code = code]

\* DidFinished: FillMetrics, Construct and the callback.
DidFinished(code, status) ==
    /\ rpc = "idle" /\ multi /\ handle.request_hash = key
    /\ metrics' = FillMetrics
    /\ response' = Construct(status, ConvertCurlCode(code))
    /\ given' = {response'}
    /\ rpc' = IF sync THEN "callback" ELSE "cleanup"
    /\ UNCHANGED <<globalVars, requestVars, sync, cpc, makeVars, taskVars, cancelled,
                   syncVars>>

\* DidCancelled: a response of its own, and the callback.
DidCancelled ==
    /\ Runs("cancel")
    /\ \/ ~Finds /\ UNCHANGED <<given, cancelled, rpc>>
       \/ /\ Finds
          /\ cancelled' = TRUE
          /\ given' = {[headers |-> <<>>, status |-> "StatusCodeInvalid",
                        code |-> "UserCancel", cancelled |-> TRUE]}
          /\ rpc' = "cleanup"
    /\ UNCHANGED <<globalVars, requestVars, sync, cpc, makeVars, in_map, multi,
                   response, metrics, syncVars>>

Uses(local) == touched' = IF cpc = "returned" THEN touched \cup {local} ELSE touched

\* Mutant: response_ready is set without the mutex.
StoreUnlocked ==
    /\ rpc = "callback"
    /\ output' = given /\ ready' = TRUE
    /\ Uses("output")
    /\ rpc' = "notify"
    /\ UNCHANGED <<globalVars, requestVars, sync, cpc, makeVars, taskVars, answerVars,
                   mutex>>

\* The callback of PerformRequestSync: store under the mutex ...
StoreResponse ==
    /\ rpc = "callback" /\ mutex = "free"
    /\ output' = given /\ ready' = TRUE
    /\ Uses("output")
    /\ rpc' = "notify"
    /\ UNCHANGED <<globalVars, requestVars, sync, cpc, makeVars, taskVars, answerVars,
                   mutex>>

\* ... and notify without it.
NotifyOne ==
    /\ rpc = "notify"
    /\ cpc' = IF cpc = "blocked" THEN "locking" ELSE cpc
    /\ Uses("cv")
    /\ rpc' = "cleanup"
    /\ UNCHANGED <<globalVars, requestVars, sync, makeVars, taskVars, answerVars, mutex,
                   ready, output>>

\* Mutant: a transfer that ended stays in libcurl.
CleanupKeepsHandle ==
    /\ rpc = "cleanup"
    /\ in_map' = FALSE
    /\ rpc' = "idle"
    /\ UNCHANGED <<globalVars, requestVars, sync, cpc, makeVars, closures, multi,
                   answerVars, syncVars>>

\* curl_multi_remove_handle and CleanupRequest.
CleanupRequest ==
    /\ rpc = "cleanup"
    /\ in_map' = FALSE /\ multi' = FALSE
    /\ rpc' = "idle"
    /\ UNCHANGED <<globalVars, requestVars, sync, cpc, makeVars, closures, answerVars,
                   syncVars>>

-----------------------------------------------------------------------------
(* PerformRequestSync after PerformRequest.                                *)

CallerStep(from, to, holds) ==
    /\ cpc = from /\ cpc' = to
    /\ mutex' = holds
    /\ UNCHANGED <<globalVars, requestVars, sync, makeVars, taskVars, answerVars, rpc,
                   ready, output, touched>>

LockMutex == mutex = "free" /\ CallerStep("locking", "checking", "caller")
SeesReady == ready /\ CallerStep("checking", "returned", "free")
SeesNotReady == ~ready /\ CallerStep("checking", "deciding", "caller")

\* Mutant: the wait does not release the mutex.
WaitKeepsMutex == CallerStep("deciding", "blocked", "caller")

WaitForCv == CallerStep("deciding", "blocked", "free")

\* Mutant: the caller does not look again.
SpuriousReturn == CallerStep("blocked", "returned", mutex)

SpuriousWakeup == CallerStep("blocked", "locking", mutex)

-----------------------------------------------------------------------------
\* The constructors of the clients, and the destructors of the other ones.
ClientStep(c) ==
    /\ c = Main => life[c] # "alive"
    /\ ConfigLoad(c) \/ ConfigStore(c) \/ ConfigApply(c)
    /\ UNCHANGED <<requestVars, sync, cpc, makeVars, taskVars, answerVars, rpc,
                   syncVars>>

\* ~CurlClient, when nobody is in a call of the client: the request thread is
\* joined, the handle is removed and the map is cleared.
DestroyClient ==
    /\ life[Main] = "alive" /\ rpc = "idle"
    /\ cpc \in IF sync THEN {"start", "returned"} ELSE {"start", "made", "returned"}
    /\ ConfigLoad(Main)
    /\ in_map' = FALSE /\ multi' = FALSE /\ closures' = <<>>
    /\ UNCHANGED <<answerVars, app_req>>
    /\ freed' = Released
    /\ UNCHANGED <<req, buffers, edits, rebodied, sync, cpc, makeVars, rpc, syncVars>>

Init ==
    /\ GlobalInit
    /\ req \in Requests
    /\ freed = {} /\ buffers = 1 /\ app_req = TRUE /\ edits = 0 /\ rebodied = FALSE
    /\ sync \in BOOLEAN /\ cpc = "start"
    /\ key = None /\ ident = None /\ handle = None /\ edited = FALSE
    /\ in_map = FALSE /\ closures = <<>> /\ multi = FALSE
    /\ response = NoResponse /\ metrics = {} /\ given = {} /\ cancelled = FALSE
    /\ rpc = "idle"
    /\ mutex = "free" /\ ready = FALSE /\ output = {} /\ touched = {}

Application ==
    \/ \E u \in Urls : SetUrl(u)
    \/ \E m \in Methods : SetMethod(m)
    \/ \E n \in Names, v \in Values : SetHeader(n, v)
    \/ \E empty \in BOOLEAN : SetData(empty)
    \/ DropRequest \/ Cancel

Caller ==
    \/ TaskWithRequest \/ SetIdentifier \/ MakeHandle \/ Resume
    \/ LockMutex \/ SeesReady \/ SeesNotReady \/ WaitForCv

Answering == StoreResponse \/ NotifyOne \/ CleanupRequest

RequestThread ==
    \/ StartRequest \/ DisposeTasks \/ DidCancelled \/ NullTask \/ Answering
    \/ \E line \in Lines : HeaderCallback(line)
    \/ \E code \in Codes, status \in Statuses : DidFinished(code, status)

Next ==
    \/ Application \/ Caller \/ SpuriousWakeup \/ RequestThread
    \/ DestroyClient \/ \E c \in Clients : ClientStep(c)

Spec == Init /\ [][Next]_vars

\* The caller's thread and a request thread that is answering are scheduled.
FairSpec == Spec /\ WF_vars(Caller) /\ WF_vars(Answering) /\ SF_vars(StoreResponse)

-----------------------------------------------------------------------------
(* Properties                                                              *)

\* The key of the map, the identifier that start and cancel use, the hash
\* stashed in the handle and the hash of what the handle sends are the same,
\* whatever the application does with the request, unless it does it while the
\* task is being made (curl_client.cpp:98, request_task_impl.cpp:14, 50, 86, 116).
KeysAgree ==
    Made /\ ~edited =>
        /\ Finds \/ ~in_map
        /\ key = handle.request_hash /\ key = SentHash(handle)

\* What CURLOPT_POSTFIELDS points to is there as long as libcurl may read it,
\* even when the application drops the request, unless it calls setData on a
\* request that has a task (request_task_impl.cpp:107, request_impl.cpp:59).
BodyOutlivesTransfer == multi /\ ~rebodied => handle.body \notin freed

\* PerformRequestSync returns the response that its callback was given, and of
\* its locals the callback uses only cv after it has returned (client.cpp:14-26).
SyncReturnsAnswer ==
    /\ sync /\ cpc = "returned" => output # {} /\ output = given
    /\ "output" \notin touched

\* The response that a callback was given changes no more: no header of a
\* transfer is written into it afterwards (request_task_impl.cpp:163-196).
AnswerFrozen == [][given # {} => given' = given /\ response' = response]_vars

\* Once the callback was called PerformRequestSync returns (client.cpp:20-24).
SyncReturns == (sync /\ given # {}) ~> (cpc = "returned")
=============================================================================
