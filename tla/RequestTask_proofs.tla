------------------------- MODULE RequestTask_proofs -------------------------
(***************************************************************************)
(* Proofs about RequestTask and CurlGlobal: for any requests, any changes  *)
(* of them, any number of clients and any results of the transfers.        *)
(***************************************************************************)
EXTENDS RequestTask, FiniteSetTheorems, TLAPS

-----------------------------------------------------------------------------
(* The inductive invariants.                                               *)

Alive == {c \in Clients : life[c] = "alive"}

Configures(c) == life[c] \in Configuring

\* What libcurl's count is when n clients use it.
Initialised(n) == IF n = 0 THEN 0 ELSE 1

\* What a client that is alone in ConfigCurlGlobalState has read and written.
Counted(c, n) ==
    /\ life[c] = "load"    => /\ previous[c] = n     /\ active = n
                              /\ inits = Initialised(n)
    /\ life[c] = "store"   => /\ previous[c] = n     /\ active = n + 1
                              /\ inits = Initialised(n)
    /\ life[c] = "unload"  => previous[c] = n + 1 /\ active = n + 1 /\ inits = 1
    /\ life[c] = "unstore" => previous[c] = n + 1 /\ active = n     /\ inits = 1

\* Until two clients overlap, one at a time is in the function, and the count is
\* the number of clients alive but for the one that is being counted.
GlobalInv ==
    /\ IsFiniteSet(Alive)
    /\ overlapped \/ /\ \A c, d \in Clients : Configures(c) /\ Configures(d) => c = d
                     /\ \A c \in Clients : Counted(c, Cardinality(Alive))
                     /\ \/ \E c \in Clients : Configures(c)
                        \/ /\ active = Cardinality(Alive)
                           /\ inits = Initialised(Cardinality(Alive))

\* What TypeOK leaves open.
ShapeInv ==
    /\ response = [headers |-> response.headers, status |-> response.status,
                   code |-> response.code, cancelled |-> response.cancelled]
    /\ buffers <= edits + 1
    /\ mutex \in {"free", "caller"}

\* libcurl works for a task of the map; a task that was answered is in the map
\* only until its clean-up; the maker of a task holds the request.
MapInv ==
    /\ multi => in_map
    /\ ~Made => app_req /\ given = {}
    /\ rpc = "idle" /\ given # {} => ~in_map
    /\ rpc \in {"callback", "notify", "cleanup"} => given # {}

\* The hashes taken so far are those of the request as it is while the task is
\* made, and of what the handle sends from then on.
KeyInv ==
    /\ cpc \in Making /\ ~edited => key = Hash(req)
    /\ cpc = "identified" /\ ~edited => ident = Hash(req)
    /\ Made /\ ~edited => /\ ident = key /\ key = handle.request_hash
                          /\ key = SentHash(handle)

\* The data of a request that anybody holds is not freed, and is what the handle
\* points to unless it was set again.
BodyInv ==
    /\ app_req \/ in_map \/ given # {} => req.body \notin freed
    /\ Made /\ ~rebodied => handle.body = req.body

\* ready tells that the output is the answer, and the caller returns after it.
SyncInv ==
    /\ cpc \in {"locking", "checking", "deciding", "blocked"} => sync
    /\ rpc = "callback" => sync /\ ~ready
    /\ ready => output = given /\ given # {}
    /\ sync /\ cpc = "returned" => ready
    /\ "output" \notin touched

TaskInv == TypeOK /\ ShapeInv /\ MapInv /\ KeyInv /\ BodyInv /\ SyncInv
-----------------------------------------------------------------------------
(* CurlGlobal: the clients of the process.                                 *)

GlobalStep ==
    \E c \in Clients : ConfigLoad(c) \/ ConfigStore(c) \/ ConfigApply(c)

LEMMA GlobalTypeStep ==
  ASSUME GlobalTypeOK, GlobalStep
  PROVE  GlobalTypeOK'
<1> USE DEF GlobalTypeOK, Configuring
<1> PICK c \in Clients : ConfigLoad(c) \/ ConfigStore(c) \/ ConfigApply(c)
  BY DEF GlobalStep
<1>1. CASE ConfigLoad(c)
  <2>1. overlapped' \in BOOLEAN
    BY <1>1, Zenon DEF ConfigLoad
  <2> QED
    BY <1>1, <2>1 DEF ConfigLoad
<1>2. CASE ConfigStore(c)
  <2>1. Count(c) \in Nat
    BY DEF Count
  <2> QED
    BY <1>2, <2>1 DEF ConfigStore
<1>3. CASE ConfigApply(c)
  <2>1. inits' \in Nat
    BY <1>3 DEF ConfigApply
  <2> QED
    BY <1>3, <2>1 DEF ConfigApply
<1> QED
  BY <1>1, <1>2, <1>3

\* Clients that come alive or cease to be are counted by the cardinality.
LEMMA AliveCardinality ==
  ASSUME IsFiniteSet(Alive), NEW c \in Clients
  PROVE  /\ Cardinality(Alive) \in Nat
         /\ c \notin Alive => /\ IsFiniteSet(Alive \cup {c})
                              /\ Cardinality(Alive \cup {c}) = Cardinality(Alive) + 1
         /\ c \in Alive => /\ IsFiniteSet(Alive \ {c})
                           /\ Cardinality(Alive) = Cardinality(Alive \ {c}) + 1
                           /\ Cardinality(Alive \ {c}) \in Nat
<1>1. Cardinality(Alive) \in Nat
  BY FS_CardinalityType
<1>2. /\ IsFiniteSet(Alive \cup {c})
      /\ c \notin Alive => Cardinality(Alive \cup {c}) = Cardinality(Alive) + 1
  BY FS_AddElement
<1>3. /\ IsFiniteSet(Alive \ {c})
      /\ c \in Alive => Cardinality(Alive \ {c}) = Cardinality(Alive) - 1
  BY FS_RemoveElement
<1>4. Cardinality(Alive \ {c}) \in Nat
  BY <1>3, FS_CardinalityType
<1> QED
  BY <1>1, <1>2, <1>3, <1>4

LEMMA GlobalInvStep ==
  ASSUME GlobalTypeOK, GlobalInv, GlobalStep
  PROVE  GlobalInv'
<1> PICK c \in Clients : ConfigLoad(c) \/ ConfigStore(c) \/ ConfigApply(c)
  BY DEF GlobalStep
<1> DEFINE n == Cardinality(Alive)
<1>0. n \in Nat
  BY FS_CardinalityType DEF GlobalInv
<1>1. CASE ConfigLoad(c) /\ life[c] = "none"
  <2>1. Alive' = Alive
    BY <1>1 DEF ConfigLoad, Alive, GlobalTypeOK
  <2>2. CASE overlapped'
    BY <2>1, <2>2 DEF GlobalInv
  <2>3. CASE ~overlapped'
    <3>1. ~overlapped /\ \A d \in Clients : ~Configures(d)
      BY <1>1, <2>3 DEF ConfigLoad, Configures
    <3>2. active = n /\ inits = Initialised(n)
      BY <3>1 DEF GlobalInv
    <3>3. /\ life'[c] = "load" /\ previous'[c] = n
          /\ \A d \in Clients : d # c => ~Configures(d)'
          /\ active' = n /\ inits' = Initialised(n)
      BY <1>1, <3>1, <3>2 DEF ConfigLoad, Configures, GlobalTypeOK
    <3>4. \A d \in Clients : Counted(d, n)'
      BY <2>1, <3>3 DEF Counted, Configures, Configuring
    <3>5. Configures(c)'
      BY <3>3 DEF Configures, Configuring
    <3> QED
      BY <2>1, <3>3, <3>4, <3>5 DEF GlobalInv
  <2> QED
    BY <2>2, <2>3
<1>2. CASE ConfigLoad(c) /\ life[c] = "alive"
  <2> DEFINE m == Cardinality(Alive \ {c})
  <2>1. Alive' = Alive \ {c} /\ c \in Alive
    BY <1>2 DEF ConfigLoad, Alive, GlobalTypeOK
  <2>2. IsFiniteSet(Alive') /\ n = m + 1 /\ m \in Nat
    BY <2>1, AliveCardinality DEF GlobalInv
  <2>3. CASE overlapped'
    BY <2>2, <2>3 DEF GlobalInv
  <2>4. CASE ~overlapped'
    <3>1. ~overlapped /\ \A d \in Clients : ~Configures(d)
      BY <1>2, <2>4 DEF ConfigLoad, Configures
    <3>2. active = n /\ inits = Initialised(n)
      BY <3>1 DEF GlobalInv
    <3>3. /\ life'[c] = "unload" /\ previous'[c] = m + 1
          /\ \A d \in Clients : d # c => ~Configures(d)'
          /\ active' = m + 1 /\ inits' = 1
      BY <1>2, <2>2, <3>1, <3>2
         DEF ConfigLoad, Configures, GlobalTypeOK, Initialised
    <3>4. \A d \in Clients : Counted(d, Cardinality(Alive))'
      BY <2>1, <3>3 DEF Counted, Configures, Configuring
    <3>5. Configures(c)'
      BY <3>3 DEF Configures, Configuring
    <3> QED
      BY <2>2, <3>3, <3>4, <3>5 DEF GlobalInv
  <2> QED
    BY <2>3, <2>4
<1>3. CASE ConfigStore(c)
  <2>1. Alive' = Alive
    BY <1>3 DEF ConfigStore, Alive, GlobalTypeOK
  <2>2. CASE overlapped
    BY <1>3, <2>1, <2>2 DEF GlobalInv, ConfigStore
  <2>3. CASE ~overlapped
    <3>1. Configures(c) /\ Counted(c, n)
          /\ \A d \in Clients : d # c => ~Configures(d)
      BY <1>3, <2>3 DEF GlobalInv, ConfigStore, Configures, Configuring
    <3>2. /\ \/ life[c] = "load" /\ life'[c] = "store"
             \/ life[c] = "unload" /\ life'[c] = "unstore"
          /\ \A d \in Clients : d # c => ~Configures(d)'
          /\ active' = Count(c) /\ previous' = previous /\ inits' = inits
      BY <1>3, <3>1 DEF ConfigStore, Configures, GlobalTypeOK, Added
    <3>3. Counted(c, n)'
      BY <1>0, <2>1, <3>1, <3>2 DEF Counted, Count, Added
    <3>4. \A d \in Clients : d # c => Counted(d, n)'
      BY <3>2 DEF Counted, Configures, Configuring
    <3>5. Configures(c)'
      BY <3>2 DEF Configures, Configuring
    <3> QED
      BY <2>1, <3>2, <3>3, <3>4, <3>5 DEF GlobalInv
  <2> QED
    BY <2>2, <2>3
<1>4. CASE ConfigApply(c) /\ life[c] = "store"
  <2> DEFINE m == Cardinality(Alive \cup {c})
  <2>1. Alive' = Alive \cup {c} /\ c \notin Alive
    BY <1>4 DEF ConfigApply, Alive, GlobalTypeOK, Added
  <2>2. IsFiniteSet(Alive') /\ m = n + 1
    BY <2>1, AliveCardinality DEF GlobalInv
  <2>3. CASE overlapped
    BY <1>4, <2>2, <2>3 DEF GlobalInv, ConfigApply
  <2>4. CASE ~overlapped
    <3>1. /\ previous[c] = n /\ active = n + 1 /\ inits = Initialised(n)
          /\ \A d \in Clients : d # c => ~Configures(d)
      BY <1>4, <2>4 DEF GlobalInv, Configures, Configuring, Counted
    <3>2. Count(c) = n + 1
      BY <1>4, <3>1 DEF Count, Added
    <3>3. inits' = 1 /\ active' = m
      BY <1>0, <1>4, <2>2, <3>1, <3>2 DEF ConfigApply, Initialised
    <3>4. \A d \in Clients : ~Configures(d)'
      BY <1>4, <3>1 DEF ConfigApply, Configures, Configuring, GlobalTypeOK, Added
    <3>5. \A d \in Clients : Counted(d, Cardinality(Alive))'
      BY <3>4 DEF Counted, Configures, Configuring
    <3>6. inits' = Initialised(m)
      BY <1>0, <2>2, <3>3 DEF Initialised
    <3> QED
      BY <2>1, <2>2, <3>3, <3>4, <3>5, <3>6 DEF GlobalInv
  <2> QED
    BY <2>3, <2>4
<1>5. CASE ConfigApply(c) /\ life[c] = "unstore"
  <2>1. Alive' = Alive
    BY <1>5 DEF ConfigApply, Alive, GlobalTypeOK, Added
  <2>2. CASE overlapped
    BY <1>5, <2>1, <2>2 DEF GlobalInv, ConfigApply
  <2>3. CASE ~overlapped
    <3>1. /\ previous[c] = n + 1 /\ active = n /\ inits = 1
          /\ \A d \in Clients : d # c => ~Configures(d)
      BY <1>5, <2>3 DEF GlobalInv, Configures, Configuring, Counted
    <3>2. Count(c) = n
      BY <1>0, <1>5, <3>1 DEF Count, Added
    <3>3. inits' = Initialised(n) /\ active' = n
      BY <1>0, <1>5, <3>1, <3>2 DEF ConfigApply, Initialised
    <3>4. \A d \in Clients : ~Configures(d)'
      BY <1>5, <3>1 DEF ConfigApply, Configures, Configuring, GlobalTypeOK, Added
    <3>5. \A d \in Clients : Counted(d, n)'
      BY <3>4 DEF Counted, Configures, Configuring
    <3> QED
      BY <2>1, <3>3, <3>4, <3>5 DEF GlobalInv
  <2> QED
    BY <2>2, <2>3
<1> QED
  BY <1>1, <1>2, <1>3, <1>4, <1>5 DEF ConfigLoad, ConfigStore, ConfigApply
-----------------------------------------------------------------------------
(* One request.                                                            *)

\* The request is changed, dropped or made into a task; every other step leaves
\* those alone, and may free the data, move the caller on once the task is made
\* and take the task out of the map.
EditStep ==
    \/ \E u \in Urls : SetUrl(u)
    \/ \E m \in Methods : SetMethod(m)
    \/ \E n \in Names, v \in Values : SetHeader(n, v)
    \/ \E empty \in BOOLEAN : SetData(empty)

MakeStep == TaskWithRequest \/ SetIdentifier \/ MakeHandle

RestStep ==
    /\ UNCHANGED <<req, buffers, app_req, edits, rebodied, sync, makeVars>>
    /\ cpc' = cpc \/ (Made /\ Made')
    /\ in_map' => in_map
    /\ multi' => in_map'

LEMMA StepKinds ==
  ASSUME [Next]_vars, multi => in_map
  PROVE  EditStep \/ DropRequest \/ MakeStep \/ RestStep
<1> USE DEF vars, requestVars, makeVars, taskVars, answerVars, syncVars, globalVars,
            RestStep
<1>1. CASE Application
  BY <1>1 DEF Application, EditStep, Cancel
<1>2. CASE Caller
  BY <1>2 DEF Caller, MakeStep, Resume, LockMutex, SeesReady, SeesNotReady,
              WaitForCv, CallerStep, Made, Making
<1>3. CASE SpuriousWakeup
  BY <1>3 DEF SpuriousWakeup, CallerStep, Made, Making
<1>4. CASE RequestThread
  <2>0. CASE StartRequest
    <3>1. multi' => in_map'
      BY <2>0, Zenon DEF StartRequest, Finds
    <3> QED
      BY <2>0, <3>1 DEF StartRequest
  <2>1. CASE DisposeTasks \/ DidCancelled \/ NullTask
    BY <2>1 DEF DisposeTasks, DidCancelled, NullTask
  <2>2. CASE Answering
    BY <2>2 DEF Answering, StoreResponse, NotifyOne, CleanupRequest, Made, Making
  <2>3. ASSUME NEW line \in Lines, HeaderCallback(line) PROVE RestStep
    BY <2>3 DEF HeaderCallback
  <2>4. ASSUME NEW code \in Codes, NEW status \in Statuses, DidFinished(code, status)
        PROVE  RestStep
    BY <2>4 DEF DidFinished
  <2> QED
    BY <1>4, <2>0, <2>1, <2>2, <2>3, <2>4 DEF RequestThread
<1>5. CASE DestroyClient
  BY <1>5 DEF DestroyClient
<1>6. ASSUME NEW c \in Clients, ClientStep(c) PROVE RestStep
  BY <1>6 DEF ClientStep
<1>7. CASE UNCHANGED vars
  BY <1>7
<1> QED
  BY <1>1, <1>2, <1>3, <1>4, <1>5, <1>6, <1>7 DEF Next

-----------------------------------------------------------------------------
\* The handle sends what its request said, the Range header being an option.
LEMMA HandleSendsRequest ==
  ASSUME NEW r, IsRequest(r)
  PROVE  SentHash(Handle(r)) = Hash(r)
<1> DEFINE list == [n \in DOMAIN r.headers \ {"Range"} |-> r.headers[n]]
           range == [n \in DOMAIN r.headers \cap {"Range"} |-> r.headers[n]]
           both == [n \in DOMAIN list \cup DOMAIN range |->
                       IF n \in DOMAIN list THEN list[n] ELSE range[n]]
<1>1. both = r.headers
  BY DEF IsRequest
<1>2. SentHash(Handle(r)) = Hash([url |-> r.url, body |-> r.body, headers |-> both])
  BY DEF SentHash, Handle, ConstructHeaders
<1> QED
  BY <1>1, <1>2 DEF Hash, Excluded

LEMMA KeyInvStep ==
  ASSUME IsRequest(req), MapInv, KeyInv, [Next]_vars
  PROVE  KeyInv'
<1>1. CASE EditStep
  <2>1. Edit
    BY <1>1 DEF EditStep, SetUrl, SetMethod, SetHeader, SetField, SetData
  <2>2. edited' = (edited \/ cpc \in Making) /\ UNCHANGED <<cpc, key, ident, handle>>
    BY <2>1 DEF Edit
  <2> QED
    BY <2>2 DEF KeyInv, Made, Making
<1>2. CASE DropRequest
  BY <1>2 DEF DropRequest, KeyInv, makeVars, Made
<1>3. CASE TaskWithRequest
  BY <1>3 DEF TaskWithRequest, Making1, KeyInv, requestVars, Made, Making
<1>4. CASE SetIdentifier
  BY <1>4 DEF SetIdentifier, Making1, KeyInv, requestVars, Made, Making
<1>5. CASE MakeHandle
  <2>1. handle' = Handle(req) /\ cpc = "identified" /\ cpc' = "made"
        /\ UNCHANGED <<req, edited, key, ident>>
    BY <1>5 DEF MakeHandle, Making1, requestVars
  <2>2. handle'.request_hash = Hash(req)
    BY <2>1 DEF Handle
  <2>3. SentHash(handle') = Hash(req)
    BY <2>1, HandleSendsRequest
  <2> QED
    BY <2>1, <2>2, <2>3 DEF KeyInv, Making
<1>6. CASE RestStep
  BY <1>6 DEF RestStep, KeyInv, makeVars, Made, Making
<1> QED
  BY <1>1, <1>2, <1>3, <1>4, <1>5, <1>6, StepKinds DEF MakeStep, MapInv
-----------------------------------------------------------------------------
LEMMA MapInvStep ==
  ASSUME in_map => Made, MapInv, [Next]_vars
  PROVE  MapInv'
<1> USE DEF vars, requestVars, makeVars, taskVars, answerVars, syncVars, globalVars
<1>1. multi' => in_map'
  <2>1. CASE EditStep
    BY <2>1 DEF EditStep, SetUrl, SetMethod, SetHeader, SetField, SetData, Edit, MapInv
  <2>2. CASE DropRequest
    BY <2>2 DEF DropRequest, MapInv
  <2>3. CASE MakeStep
    BY <2>3 DEF MakeStep, TaskWithRequest, SetIdentifier, MakeHandle, Making1, MapInv
  <2> QED
    BY <2>1, <2>2, <2>3, StepKinds DEF RestStep, MapInv
<1>2. ASSUME EditStep PROVE MapInv'
  BY <1>1, <1>2 DEF EditStep, SetUrl, SetMethod, SetHeader, SetField, SetData, Edit,
                    MapInv, Made
<1>3. CASE DropRequest
  BY <1>1, <1>3 DEF DropRequest, MapInv, Made
<1>4. CASE Cancel
  BY <1>1, <1>4 DEF Cancel, MapInv, Made
<1>5. CASE TaskWithRequest \/ SetIdentifier \/ MakeHandle
  BY <1>1, <1>5 DEF TaskWithRequest, SetIdentifier, MakeHandle, Making1, MapInv, Made,
                    Making
<1>6. CASE Resume \/ LockMutex \/ SeesReady \/ SeesNotReady \/ WaitForCv
           \/ SpuriousWakeup
  BY <1>1, <1>6 DEF Resume, LockMutex, SeesReady, SeesNotReady, WaitForCv,
                    SpuriousWakeup, CallerStep, MapInv, Made, Making
<1>7. CASE StartRequest \/ DisposeTasks \/ NullTask
  BY <1>1, <1>7 DEF StartRequest, DisposeTasks, NullTask, MapInv, Made
<1>8. CASE DidCancelled
  BY <1>1, <1>8 DEF DidCancelled, Runs, Finds, MapInv, Made
<1>9. CASE Answering
  BY <1>1, <1>9 DEF Answering, StoreResponse, NotifyOne, CleanupRequest, MapInv, Made,
                    Making
<1>10. ASSUME NEW line \in Lines, HeaderCallback(line) PROVE MapInv'
  BY <1>1, <1>10 DEF HeaderCallback, MapInv, Made
<1>11. ASSUME NEW code \in Codes, NEW status \in Statuses, DidFinished(code, status)
       PROVE  MapInv'
  BY <1>1, <1>11 DEF DidFinished, MapInv, Made
<1>12. CASE DestroyClient
  BY <1>1, <1>12 DEF DestroyClient, MapInv, Made
<1>13. ASSUME NEW c \in Clients, ClientStep(c) PROVE MapInv'
  BY <1>1, <1>13 DEF ClientStep, MapInv, Made
<1>14. CASE UNCHANGED vars
  BY <1>14 DEF MapInv, Made
<1> QED
  BY <1>2, <1>3, <1>4, <1>5, <1>6, <1>7, <1>8, <1>9, <1>10, <1>11, <1>12, <1>13, <1>14
     DEF Next, Application, EditStep, Caller, RequestThread

\* Only the request thread, at a task that is in the map, writes response_ or
\* calls the callback.
AnswerKept == UNCHANGED <<given, response>>
AnswerWritten == rpc = "idle" /\ in_map /\ in_map'

LEMMA AnswerStep ==
  ASSUME MapInv, [Next]_vars
  PROVE  AnswerKept \/ AnswerWritten
<1> USE DEF vars, requestVars, makeVars, taskVars, answerVars, syncVars, globalVars,
            AnswerKept, AnswerWritten
<1>2. CASE Application \/ Caller \/ SpuriousWakeup
  BY <1>2 DEF Application, SetUrl, SetMethod, SetHeader, SetField, SetData, Edit,
              DropRequest, Cancel, Caller, TaskWithRequest, SetIdentifier, MakeHandle,
              Making1, Resume, LockMutex, SeesReady, SeesNotReady, WaitForCv,
              SpuriousWakeup, CallerStep
<1>3. CASE StartRequest \/ DisposeTasks \/ NullTask \/ Answering
  BY <1>3 DEF StartRequest, DisposeTasks, NullTask, Answering, StoreResponse, NotifyOne,
              CleanupRequest
<1>4. CASE DidCancelled
  BY <1>4 DEF DidCancelled, Runs, Finds
<1>5. ASSUME NEW line \in Lines, HeaderCallback(line) PROVE AnswerWritten
  BY <1>5 DEF HeaderCallback, MapInv
<1>6. ASSUME NEW code \in Codes, NEW status \in Statuses, DidFinished(code, status)
      PROVE  AnswerWritten
  BY <1>6 DEF DidFinished, MapInv
<1>7. CASE DestroyClient
  BY <1>7 DEF DestroyClient
<1>8. ASSUME NEW c \in Clients, ClientStep(c)
      PROVE  AnswerKept
  BY <1>8 DEF ClientStep
<1>9. CASE UNCHANGED vars
  BY <1>9
<1> QED
  BY <1>2, <1>3, <1>4, <1>5, <1>6, <1>7, <1>8, <1>9 DEF Next, RequestThread
-----------------------------------------------------------------------------
\* What frees the data: setData, and the last reference that goes.
LEMMA FreedStep ==
  ASSUME [Next]_vars
  PROVE  EditStep \/ DropRequest \/ DestroyClient \/ UNCHANGED freed
<1> USE DEF vars, requestVars, makeVars, taskVars, answerVars, syncVars, globalVars
<1>1. CASE Application
  BY <1>1 DEF Application, EditStep, Cancel
<1>2. CASE Caller \/ SpuriousWakeup
  BY <1>2 DEF Caller, TaskWithRequest, SetIdentifier, MakeHandle, Making1, Resume,
              LockMutex, SeesReady, SeesNotReady, WaitForCv, SpuriousWakeup, CallerStep
<1>3. CASE RequestThread
  BY <1>3 DEF RequestThread, StartRequest, DisposeTasks, DidCancelled, NullTask,
              Answering, StoreResponse, NotifyOne, CleanupRequest, HeaderCallback,
              DidFinished
<1>4. ASSUME NEW c \in Clients, ClientStep(c) PROVE UNCHANGED freed
  BY <1>4 DEF ClientStep
<1> QED
  BY <1>1, <1>2, <1>3, <1>4 DEF Next

LEMMA BodyInvStep ==
  ASSUME TypeOK, MapInv, MapInv', BodyInv, [Next]_vars
  PROVE  BodyInv'
<1> USE DEF requestVars, makeVars, taskVars, answerVars
<1>2. ASSUME NEW empty \in BOOLEAN, SetData(empty) PROVE BodyInv'
  <2>1. req'.body = IF empty THEN NoBody ELSE buffers + 1
    BY <1>2 DEF SetData, TypeOK, IsRequest
  <2>2. req.body \in 0 .. buffers /\ buffers \in Nat /\ freed \subseteq 1 .. buffers
    BY DEF TypeOK
  <2>3. freed' = freed \cup ({req.body} \ {NoBody})
    BY <1>2 DEF SetData
  <2>4. req'.body \notin freed'
    BY <2>1, <2>2, <2>3 DEF NoBody
  <2>5. ~rebodied' => ~Made'
    BY <1>2, Zenon DEF SetData, Edit, Made
  <2> QED
    BY <2>4, <2>5 DEF BodyInv
<1>3. ASSUME SetField(req'), req'.body = req.body PROVE BodyInv'
  BY <1>3 DEF SetField, Edit, BodyInv, Made
<1>4. CASE EditStep
  <2>1. ASSUME NEW u \in Urls, SetUrl(u) PROVE BodyInv'
    BY <1>3, <2>1 DEF SetUrl, SetField, TypeOK, IsRequest
  <2>2. ASSUME NEW m \in Methods, SetMethod(m) PROVE BodyInv'
    BY <1>3, <2>2 DEF SetMethod, SetField, TypeOK, IsRequest
  <2>3. ASSUME NEW n \in Names, NEW v \in Values, SetHeader(n, v) PROVE BodyInv'
    BY <1>3, <2>3 DEF SetHeader, SetField, TypeOK, IsRequest
  <2> QED
    BY <1>2, <1>4, <2>1, <2>2, <2>3 DEF EditStep
<1>5. ASSUME freed' = Released, ~Made => app_req' \/ in_map',
             UNCHANGED <<req, rebodied, handle, cpc, given>>,
             app_req' => app_req, in_map' => in_map
      PROVE  BodyInv'
  BY <1>5 DEF Released, RequestHeld, BodyInv, Made
<1>6. CASE DropRequest
  BY <1>5, <1>6 DEF DropRequest
<1>7. CASE DestroyClient
  BY <1>5, <1>7 DEF DestroyClient, MapInv
<1>8. CASE MakeStep /\ UNCHANGED freed
  <2>1. app_req /\ app_req' /\ UNCHANGED <<req, rebodied>>
    BY <1>8 DEF MakeStep, TaskWithRequest, SetIdentifier, MakeHandle, Making1, MapInv,
                Made, Making
  <2>2. Made' => handle'.body = req.body
    BY <1>8 DEF MakeStep, TaskWithRequest, SetIdentifier, MakeHandle, Making1, Made,
                Making, Handle
  <2> QED
    BY <1>8, <2>1, <2>2 DEF BodyInv
<1>9. CASE RestStep /\ UNCHANGED freed
  <2>1. app_req' \/ in_map' \/ given' # {} => app_req \/ in_map \/ given # {}
    BY <1>9, AnswerStep DEF RestStep, AnswerKept, AnswerWritten
  <2> QED
    BY <1>9, <2>1 DEF RestStep, BodyInv, makeVars, Made
<1> QED
  BY <1>4, <1>6, <1>7, <1>8, <1>9, StepKinds, FreedStep DEF MapInv
-----------------------------------------------------------------------------
\* A step that leaves the callback's progress and the locals alone.
LEMMA SyncFrame ==
  ASSUME SyncInv, UNCHANGED <<cpc, sync, rpc, ready, output, given, touched>>
  PROVE  SyncInv'
  BY DEF SyncInv

LEMMA SyncInvStep ==
  ASSUME MapInv, SyncInv, [Next]_vars
  PROVE  SyncInv'
<1> USE DEF vars, requestVars, makeVars, taskVars, answerVars, syncVars, globalVars
<1>1. CASE Application
  BY <1>1, SyncFrame DEF Application, SetUrl, SetMethod, SetHeader, SetField, SetData,
                         Edit, DropRequest, Cancel
<1>2. CASE TaskWithRequest \/ SetIdentifier \/ MakeHandle \/ Resume
  BY <1>2 DEF TaskWithRequest, SetIdentifier, MakeHandle, Making1, Resume, SyncInv
<1>3. CASE LockMutex \/ SeesReady \/ SeesNotReady \/ WaitForCv \/ SpuriousWakeup
  BY <1>3 DEF LockMutex, SeesReady, SeesNotReady, WaitForCv, SpuriousWakeup, CallerStep,
              SyncInv
<1>4. CASE StartRequest \/ DisposeTasks
  BY <1>4, SyncFrame DEF StartRequest, DisposeTasks
<1>5. CASE NullTask \/ CleanupRequest
  BY <1>5 DEF NullTask, CleanupRequest, SyncInv
<1>6. CASE DidCancelled
  <2>1. ~Finds => SyncInv'
    BY <1>6, SyncFrame DEF DidCancelled
  <2>2. Finds => ~ready
    BY <1>6 DEF DidCancelled, Runs, Finds, MapInv, SyncInv
  <2> QED
    BY <1>6, <2>1, <2>2 DEF DidCancelled, SyncInv
<1>7. CASE StoreResponse
  <2>1. cpc # "returned"
    BY <1>7 DEF StoreResponse, SyncInv
  <2> QED
    BY <1>7, <2>1 DEF StoreResponse, Uses, MapInv, SyncInv
<1>8. CASE NotifyOne
  BY <1>8 DEF NotifyOne, Uses, SyncInv
<1>9. ASSUME NEW line \in Lines, HeaderCallback(line) PROVE SyncInv'
  BY <1>9, SyncFrame DEF HeaderCallback
<1>10. ASSUME NEW code \in Codes, NEW status \in Statuses, DidFinished(code, status)
       PROVE  SyncInv'
  <2>1. ~ready
    BY <1>10 DEF DidFinished, MapInv, SyncInv
  <2> QED
    BY <1>10, <2>1 DEF DidFinished, SyncInv
<1>11. CASE DestroyClient
  BY <1>11, SyncFrame DEF DestroyClient
<1>12. ASSUME NEW c \in Clients, ClientStep(c) PROVE SyncInv'
  BY <1>12, SyncFrame DEF ClientStep
<1>13. CASE UNCHANGED vars
  BY <1>13, SyncFrame
<1> QED
  BY <1>1, <1>2, <1>3, <1>4, <1>5, <1>6, <1>7, <1>8, <1>9, <1>10, <1>11, <1>12, <1>13
     DEF Next, Caller, RequestThread, Answering

-----------------------------------------------------------------------------
(* Types.                                                                  *)

\* Every step that reaches ConfigCurlGlobalState takes one of its steps.
LEMMA GlobalSteps ==
  ASSUME [Next]_vars
  PROVE  GlobalStep \/ UNCHANGED globalVars
<1> USE DEF vars, requestVars, makeVars, taskVars, answerVars, syncVars, globalVars
<1>1. CASE Application \/ Caller \/ SpuriousWakeup
  BY <1>1 DEF Application, SetUrl, SetMethod, SetHeader, SetField, SetData, Edit,
              DropRequest, Cancel, Caller, TaskWithRequest, SetIdentifier, MakeHandle,
              Making1, Resume, LockMutex, SeesReady, SeesNotReady, WaitForCv,
              SpuriousWakeup, CallerStep
<1>2. CASE RequestThread
  BY <1>2 DEF RequestThread, StartRequest, DisposeTasks, DidCancelled, NullTask,
              Answering, StoreResponse, NotifyOne, CleanupRequest, HeaderCallback,
              DidFinished
<1>3. CASE DestroyClient
  BY <1>3, RequestAssumption DEF DestroyClient, GlobalStep
<1>4. ASSUME NEW c \in Clients, ClientStep(c) PROVE GlobalStep
  BY <1>4 DEF ClientStep, GlobalStep
<1> QED
  BY <1>1, <1>2, <1>3, <1>4 DEF Next

LEMMA RequestsKeepType ==
  ASSUME NEW r, IsRequest(r)
  PROVE  /\ \A u \in Urls : LET new == [r EXCEPT !.url = u]
                            IN  IsRequest(new) /\ new.body = r.body
         /\ \A m \in Methods : LET new == [r EXCEPT !.method = m]
                               IN  IsRequest(new) /\ new.body = r.body
         /\ \A n \in Names, v \in Values :
                LET new == [r EXCEPT !.headers = With(@, n, v)]
                IN  IsRequest(new) /\ new.body = r.body
<1>1. ASSUME NEW n \in Names, NEW v \in Values
      PROVE  /\ With(r.headers, n, v) \in [DOMAIN With(r.headers, n, v) -> Values]
             /\ DOMAIN With(r.headers, n, v) \subseteq Names
  BY DEF With, IsRequest
<1>2. ASSUME NEW n \in Names, NEW v \in Values
      PROVE  LET new == [r EXCEPT !.headers = With(@, n, v)]
             IN  IsRequest(new) /\ new.body = r.body
  BY <1>1 DEF IsRequest
<1>3. ASSUME NEW u \in Urls
      PROVE  LET new == [r EXCEPT !.url = u] IN IsRequest(new) /\ new.body = r.body
  BY DEF IsRequest
<1>4. ASSUME NEW m \in Methods
      PROVE  LET new == [r EXCEPT !.method = m] IN IsRequest(new) /\ new.body = r.body
  BY DEF IsRequest
<1> QED
  BY <1>2, <1>3, <1>4

\* TypeOK and ShapeInv in parts: the request and its buffers, ...
RequestType ==
    /\ IsRequest(req) /\ req.body \in 0 .. buffers
    /\ freed \subseteq 1 .. buffers /\ buffers \in 0 .. MaxEdits + 1
    /\ edits \in 0 .. MaxEdits /\ buffers <= edits + 1

\* ... the flags, ...
FlagType ==
    /\ app_req \in BOOLEAN /\ sync \in BOOLEAN /\ in_map \in BOOLEAN
    /\ multi \in BOOLEAN /\ ready \in BOOLEAN /\ cancelled \in BOOLEAN
    /\ edited \in BOOLEAN /\ rebodied \in BOOLEAN

\* ... the caller with its mutex, and the closures, ...
CallerType ==
    /\ cpc \in {"start", "made", "locking", "checking", "deciding", "blocked",
                "returned"} \cup Making
    /\ cpc \in {"checking", "deciding"} <=> mutex = "caller"
    /\ mutex \in {"free", "caller"}
    /\ in_map => Made

ClosuresType == closures \in Seq({"start", "cancel"}) /\ Len(closures) <= MaxClosures

\* ... and the answer.
AnswerType ==
    /\ metrics \subseteq MetricsEnds
    /\ \A r \in given : r.code \in ResponseCodes
    /\ response = [headers |-> response.headers, status |-> response.status,
                   code |-> response.code, cancelled |-> response.cancelled]
    /\ rpc \in {"idle", "callback", "notify", "cleanup", "crashed"}
    /\ touched \subseteq {"cv", "output"}

LEMMA TypeParts ==
  TypeOK /\ ShapeInv <=>
      GlobalTypeOK /\ RequestType /\ FlagType /\ CallerType /\ ClosuresType /\ AnswerType
  BY DEF TypeOK, ShapeInv, RequestType, FlagType, CallerType, ClosuresType, AnswerType

LEMMA RequestTypeStep ==
  ASSUME RequestType, multi => in_map, [Next]_vars
  PROVE  RequestType'
<1>0. freed \cup ({req.body} \ {NoBody}) \subseteq 1 .. buffers
  <2>1. req.body # NoBody => req.body \in 1 .. buffers
    BY DEF RequestType, NoBody
  <2>2. freed \subseteq 1 .. buffers
    BY DEF RequestType
  <2> QED
    BY <2>1, <2>2, Zenon
<1> USE RequestAssumption DEF requestVars, makeVars, RequestType, NoBody
<1>1. ASSUME NEW new, SetField(new), IsRequest(new), new.body = req.body
      PROVE  RequestType'
  BY <1>1 DEF SetField, Edit
<1>2. CASE EditStep
  <2>1. ASSUME NEW u \in Urls, SetUrl(u) PROVE RequestType'
    BY <1>1, <2>1, RequestsKeepType DEF SetUrl
  <2>2. ASSUME NEW m \in Methods, SetMethod(m) PROVE RequestType'
    BY <1>1, <2>2, RequestsKeepType DEF SetMethod
  <2>3. ASSUME NEW n \in Names, NEW v \in Values, SetHeader(n, v) PROVE RequestType'
    BY <1>1, <2>3, RequestsKeepType DEF SetHeader
  <2>4. ASSUME NEW empty \in BOOLEAN, SetData(empty) PROVE RequestType'
    <3>1. IsRequest(req') /\ req'.body = IF empty THEN NoBody ELSE buffers + 1
      BY <2>4 DEF SetData, IsRequest
    <3>2. /\ edits' = edits + 1 /\ edits < MaxEdits
          /\ buffers' = IF empty THEN buffers ELSE buffers + 1
          /\ freed' = freed \cup ({req.body} \ {NoBody})
      BY <2>4 DEF SetData, Edit
    <3>3. buffers' \in 0 .. MaxEdits + 1 /\ buffers' <= edits' + 1
          /\ edits' \in 0 .. MaxEdits
      BY <3>2
    <3>4. freed' \subseteq 1 .. buffers'
      <4>1. buffers \in Nat /\ buffers' \in Nat /\ buffers <= buffers'
        BY <3>2
      <4> QED
        BY <1>0, <3>2, <4>1
    <3>5. req'.body \in 0 .. buffers'
      BY <3>1, <3>2
    <3> QED
      BY <3>1, <3>3, <3>4, <3>5
  <2> QED
    BY <1>2, <2>1, <2>2, <2>3, <2>4 DEF EditStep
<1>3. CASE UNCHANGED <<req, buffers, edits>> /\ freed' = Released
  <2>1. freed' \subseteq freed \cup ({req.body} \ {NoBody})
    BY <1>3, Zenon DEF Released
  <2>2. freed' \subseteq 1 .. buffers
    BY <1>0, <2>1
  <2> QED
    BY <1>3, <2>2
<1>4. CASE DropRequest \/ DestroyClient
  BY <1>3, <1>4 DEF DropRequest, DestroyClient
<1>5. CASE MakeStep
  BY <1>5 DEF MakeStep, TaskWithRequest, SetIdentifier, MakeHandle, Making1
<1>6. CASE RestStep /\ UNCHANGED freed
  BY <1>6 DEF RestStep
<1> QED
  BY <1>2, <1>4, <1>5, <1>6, StepKinds, FreedStep

LEMMA FlagTypeStep ==
  ASSUME FlagType, [Next]_vars
  PROVE  FlagType'
<1> USE DEF vars, requestVars, makeVars, taskVars, answerVars, syncVars, globalVars,
            FlagType
<1>1. CASE EditStep
  <2>1. edited' \in BOOLEAN /\ rebodied' \in BOOLEAN
    BY <1>1, Zenon DEF EditStep, SetUrl, SetMethod, SetHeader, SetField, SetData, Edit
  <2> QED
    BY <1>1, <2>1 DEF EditStep, SetUrl, SetMethod, SetHeader, SetField, SetData, Edit
<1>2. CASE StartRequest
  <2>1. multi' \in BOOLEAN
    BY <1>2, Zenon DEF StartRequest
  <2> QED
    BY <1>2, <2>1 DEF StartRequest
<1>3. CASE DropRequest \/ Cancel
  BY <1>3 DEF DropRequest, Cancel
<1>4. CASE Caller \/ SpuriousWakeup
  <2>1. CASE TaskWithRequest \/ SetIdentifier \/ MakeHandle \/ Resume
    BY <2>1 DEF TaskWithRequest, SetIdentifier, MakeHandle, Making1, Resume
  <2>2. CASE LockMutex \/ SeesReady \/ SeesNotReady \/ WaitForCv \/ SpuriousWakeup
    BY <2>2 DEF LockMutex, SeesReady, SeesNotReady, WaitForCv, SpuriousWakeup, CallerStep
  <2> QED
    BY <1>4, <2>1, <2>2, Zenon DEF Caller
<1>5. CASE DisposeTasks \/ DidCancelled \/ NullTask \/ Answering
  BY <1>5 DEF DisposeTasks, DidCancelled, NullTask, Answering, StoreResponse, NotifyOne,
              CleanupRequest
<1>6. ASSUME NEW line \in Lines, HeaderCallback(line) PROVE FlagType'
  BY <1>6 DEF HeaderCallback
<1>7. ASSUME NEW code \in Codes, NEW status \in Statuses, DidFinished(code, status)
      PROVE  FlagType'
  BY <1>7 DEF DidFinished
<1>8. CASE DestroyClient
  BY <1>8 DEF DestroyClient
<1>9. ASSUME NEW c \in Clients, ClientStep(c) PROVE FlagType'
  BY <1>9 DEF ClientStep
<1>10. CASE UNCHANGED vars
  BY <1>10
<1> QED
  BY <1>1, <1>2, <1>3, <1>4, <1>5, <1>6, <1>7, <1>8, <1>9, <1>10
     DEF Next, Application, EditStep, RequestThread

LEMMA CallerTypeStep ==
  ASSUME CallerType, multi => in_map, [Next]_vars
  PROVE  CallerType'
<1> USE DEF vars, requestVars, makeVars, taskVars, answerVars, syncVars, globalVars,
            CallerType, Making, Made
<1>1. CASE Application
  BY <1>1 DEF Application, SetUrl, SetMethod, SetHeader, SetField, SetData, Edit,
              DropRequest, Cancel
<1>2. CASE TaskWithRequest \/ SetIdentifier \/ MakeHandle \/ Resume
  BY <1>2 DEF TaskWithRequest, SetIdentifier, MakeHandle, Making1, Resume
<1>3. CASE LockMutex \/ SeesReady \/ SeesNotReady \/ WaitForCv \/ SpuriousWakeup
  BY <1>3 DEF LockMutex, SeesReady, SeesNotReady, WaitForCv, SpuriousWakeup, CallerStep
<1>4. CASE StartRequest \/ DisposeTasks \/ DidCancelled \/ NullTask \/ Answering
  BY <1>4 DEF StartRequest, DisposeTasks, DidCancelled, NullTask, Answering,
              StoreResponse, NotifyOne, CleanupRequest
<1>5. ASSUME NEW line \in Lines, HeaderCallback(line) PROVE CallerType'
  BY <1>5 DEF HeaderCallback
<1>6. ASSUME NEW code \in Codes, NEW status \in Statuses, DidFinished(code, status)
      PROVE  CallerType'
  BY <1>6 DEF DidFinished
<1>7. CASE DestroyClient
  BY <1>7 DEF DestroyClient
<1>8. ASSUME NEW c \in Clients, ClientStep(c) PROVE CallerType'
  BY <1>8 DEF ClientStep
<1>9. CASE UNCHANGED vars
  BY <1>9
<1> QED
  BY <1>1, <1>2, <1>3, <1>4, <1>5, <1>6, <1>7, <1>8, <1>9
     DEF Next, Caller, RequestThread

LEMMA ClosuresTypeStep ==
  ASSUME ClosuresType, [Next]_vars
  PROVE  ClosuresType'
<1> USE DEF vars, requestVars, makeVars, taskVars, answerVars, syncVars, globalVars,
            ClosuresType
<1>0. MaxClosures \in Nat
  BY RequestAssumption
<1>1. CASE Cancel \/ Resume
  BY <1>0, <1>1 DEF Cancel, Resume, Posted
<1>2. CASE StartRequest \/ DidCancelled
  <2>1. closures # <<>> /\ closures' = Tail(closures)
    BY <1>2 DEF StartRequest, DidCancelled, Runs
  <2>2. closures' \in Seq({"start", "cancel"})
    BY <2>1
  <2>3. Len(closures') = Len(closures) - 1
    BY <2>1
  <2> QED
    BY <1>0, <2>2, <2>3
<1>3. CASE DisposeTasks \/ DestroyClient
  <2>1. closures' = <<>>
    BY <1>3 DEF DisposeTasks, DestroyClient
  <2> QED
    BY <1>0, <2>1
<1>4. CASE UNCHANGED closures
  BY <1>4
<1>5. CASE EditStep \/ DropRequest
  BY <1>4, <1>5 DEF EditStep, SetUrl, SetMethod, SetHeader, SetField, SetData, Edit,
                    DropRequest
<1>6. CASE Caller \/ SpuriousWakeup
  BY <1>1, <1>4, <1>6 DEF Caller, TaskWithRequest, SetIdentifier, MakeHandle, LockMutex,
                          SeesReady, SeesNotReady, WaitForCv, SpuriousWakeup, CallerStep
<1>7. CASE NullTask \/ Answering
  BY <1>4, <1>7 DEF NullTask, Answering, StoreResponse, NotifyOne, CleanupRequest
<1>8. ASSUME NEW line \in Lines, HeaderCallback(line) PROVE UNCHANGED closures
  BY <1>8 DEF HeaderCallback
<1>9. ASSUME NEW code \in Codes, NEW status \in Statuses, DidFinished(code, status)
      PROVE  UNCHANGED closures
  BY <1>9 DEF DidFinished
<1>10. ASSUME NEW c \in Clients, ClientStep(c) PROVE UNCHANGED closures
  BY <1>10 DEF ClientStep
<1> QED
  BY <1>1, <1>2, <1>3, <1>4, <1>5, <1>6, <1>7, <1>8, <1>9, <1>10
     DEF Next, Application, EditStep, RequestThread

LEMMA AnswerTypeStep ==
  ASSUME AnswerType, [Next]_vars
  PROVE  AnswerType'
<1> USE DEF vars, requestVars, makeVars, taskVars, answerVars, syncVars, globalVars,
            AnswerType
<1>1. CASE Application \/ Caller \/ SpuriousWakeup
  BY <1>1 DEF Application, SetUrl, SetMethod, SetHeader, SetField, SetData, Edit,
              DropRequest, Cancel, Caller, TaskWithRequest, SetIdentifier, MakeHandle,
              Making1, Resume, LockMutex, SeesReady, SeesNotReady, WaitForCv,
              SpuriousWakeup, CallerStep, MetricsEnds
<1>2. CASE StartRequest \/ DisposeTasks \/ NullTask \/ CleanupRequest
  BY <1>2 DEF StartRequest, DisposeTasks, NullTask, CleanupRequest
<1>3. CASE DidCancelled
  BY <1>3 DEF DidCancelled, ResponseCodes
<1>4. CASE StoreResponse \/ NotifyOne
  BY <1>4 DEF StoreResponse, NotifyOne, Uses
<1>5. ASSUME NEW line \in Lines, HeaderCallback(line) PROVE AnswerType'
  BY <1>5 DEF HeaderCallback
<1>6. ASSUME NEW code \in Codes, NEW status \in Statuses, DidFinished(code, status)
      PROVE  AnswerType'
  <2>1. ConvertCurlCode(code) \in ResponseCodes
    BY DEF ConvertCurlCode, ResponseCodes
  <2>2. /\ response'.code = ConvertCurlCode(code)
        /\ response' = [headers |-> response'.headers, status |-> response'.status,
                        code |-> response'.code, cancelled |-> response'.cancelled]
    BY <1>6 DEF DidFinished, Construct
  <2>3. \A r \in given' : r.code \in ResponseCodes
    BY <1>6, <2>1, <2>2 DEF DidFinished
  <2> QED
    BY <1>6, <2>2, <2>3 DEF DidFinished, FillMetrics, MetricsEnds
<1>7. CASE DestroyClient
  BY <1>7 DEF DestroyClient
<1>8. ASSUME NEW c \in Clients, ClientStep(c) PROVE AnswerType'
  BY <1>8 DEF ClientStep
<1>9. CASE UNCHANGED vars
  BY <1>9
<1> QED
  BY <1>1, <1>2, <1>3, <1>4, <1>5, <1>6, <1>7, <1>8, <1>9
     DEF Next, RequestThread, Answering
-----------------------------------------------------------------------------
(* Theorems.                                                               *)

LEMMA TaskInvInit == Init => TaskInv /\ GlobalInv
<1> SUFFICES ASSUME Init PROVE TaskInv /\ GlobalInv
  OBVIOUS
<1>1. GlobalTypeOK /\ GlobalInv
  <2>1. Alive = {}
    BY DEF Init, GlobalInit, Alive
  <2>2. IsFiniteSet(Alive) /\ Cardinality(Alive) = 0
    BY <2>1, FS_EmptySet
  <2>3. overlapped \in BOOLEAN
    BY Zenon DEF Init, GlobalInit
  <2>4. \A c \in Clients : ~Configures(c) /\ Counted(c, Cardinality(Alive))
    BY DEF Init, GlobalInit, Configures, Configuring, Counted
  <2> QED
    BY <2>2, <2>3, <2>4
       DEF Init, GlobalInit, GlobalTypeOK, GlobalInv, Configures, Configuring,
           Initialised
<1>2. RequestType
  BY RequestAssumption DEF Init, RequestType, NoBody
<1>3. FlagType
  BY Zenon DEF Init, FlagType
<1>4. CallerType
  BY DEF Init, CallerType
<1>5. ClosuresType
  BY RequestAssumption DEF Init, ClosuresType
<1>6. AnswerType
  BY DEF Init, AnswerType, NoResponse
<1>7. MapInv /\ KeyInv /\ BodyInv /\ SyncInv
  BY DEF Init, MapInv, KeyInv, BodyInv, SyncInv, Made, Making
<1> QED
  BY <1>1, <1>2, <1>3, <1>4, <1>5, <1>6, <1>7, TypeParts DEF TaskInv

LEMMA TaskInvStep == TaskInv /\ GlobalInv /\ [Next]_vars => TaskInv' /\ GlobalInv'
<1> SUFFICES ASSUME TaskInv, GlobalInv, [Next]_vars PROVE TaskInv' /\ GlobalInv'
  OBVIOUS
<1>1. /\ GlobalTypeOK /\ RequestType /\ FlagType /\ CallerType /\ ClosuresType
      /\ AnswerType
  BY TypeParts DEF TaskInv
<1>2. /\ multi => in_map
      /\ in_map => Made
      /\ IsRequest(req)
  BY <1>1 DEF TaskInv, MapInv, CallerType, RequestType
<1>3. GlobalTypeOK' /\ GlobalInv'
  <2>1. CASE GlobalStep
    BY <1>1, <2>1, GlobalTypeStep, GlobalInvStep
  <2>2. CASE UNCHANGED globalVars
    BY <1>1, <2>2 DEF globalVars, GlobalTypeOK, GlobalInv, Alive, Configures, Counted
  <2> QED
    BY <2>1, <2>2, GlobalSteps
<1>4. RequestType' /\ FlagType' /\ CallerType' /\ ClosuresType' /\ AnswerType'
  BY <1>1, <1>2, RequestTypeStep, FlagTypeStep, CallerTypeStep, ClosuresTypeStep,
     AnswerTypeStep
<1>5. MapInv' /\ KeyInv' /\ SyncInv'
  BY <1>2, MapInvStep, KeyInvStep, SyncInvStep DEF TaskInv
<1>6. BodyInv'
  BY <1>5, BodyInvStep DEF TaskInv
<1>7. (TypeOK /\ ShapeInv)'
  BY <1>3, <1>4, TypeParts
     DEF TypeOK, ShapeInv, RequestType, FlagType, CallerType, ClosuresType, AnswerType
<1> QED
  BY <1>3, <1>5, <1>6, <1>7 DEF TaskInv

LEMMA TaskInvAlways == Spec => [](TaskInv /\ GlobalInv)
  BY TaskInvInit, TaskInvStep, PTL DEF Spec

\* Whatever the application, the caller, the request thread and libcurl do, the
\* task's state keeps its type and no callback is given an uninitialised code.
THEOREM TaskTypeCorrect == Spec => []TypeOK
<1>1. TaskInv /\ GlobalInv => TypeOK
  BY DEF TaskInv
<1> QED
  BY <1>1, TaskInvAlways, PTL

\* A request that is not changed while its task is made has one hash: as key of
\* the map, as identifier of the closures, in the handle and of what is sent.
THEOREM HashesAgree == Spec => []KeysAgree
<1>1. TaskInv /\ GlobalInv => KeysAgree
  BY DEF TaskInv, KeyInv, KeysAgree, Finds, taskIdentifier
<1> QED
  BY <1>1, TaskInvAlways, PTL

\* libcurl reads no freed data, whoever drops the request first.
THEOREM BodyStays == Spec => []BodyOutlivesTransfer
<1>1. TaskInv /\ GlobalInv => BodyOutlivesTransfer
  BY DEF TaskInv, TypeOK, MapInv, BodyInv, BodyOutlivesTransfer
<1> QED
  BY <1>1, TaskInvAlways, PTL

\* PerformRequestSync returns what its callback was given, under any interleaving
\* of the caller and the request thread and with any spurious wake-ups.
THEOREM SyncIsAnswer == Spec => []SyncReturnsAnswer
<1>1. TaskInv /\ GlobalInv => SyncReturnsAnswer
  BY DEF TaskInv, SyncInv, SyncReturnsAnswer
<1> QED
  BY <1>1, TaskInvAlways, PTL

\* No step changes the response that a callback was given.
THEOREM AnswerIsFinal == Spec => AnswerFrozen
<1>1. /\ TaskInv /\ GlobalInv
      /\ [Next]_vars
      => [given # {} => given' = given /\ response' = response]_vars
  <2> SUFFICES ASSUME TaskInv, [Next]_vars, given # {}
               PROVE  given' = given /\ response' = response
    OBVIOUS
  <2>1. ~AnswerWritten
    BY DEF TaskInv, MapInv, AnswerWritten
  <2> QED
    BY <2>1, AnswerStep DEF TaskInv, AnswerKept
<1> QED
  BY <1>1, TaskInvAlways, PTL DEF Spec, AnswerFrozen

\* libcurl is initialised once while any of any number of clients lives, and not
\* otherwise, as long as no two of them are created or destroyed at once.
THEOREM InitialisedOnce == Spec => []InitialisedWhileUsed
<1>1. TaskInv /\ GlobalInv => InitialisedWhileUsed
  <2> SUFFICES ASSUME GlobalInv, ~overlapped,
                      \A c \in Clients : life[c] \notin Configuring
               PROVE  inits = IF \E c \in Clients : life[c] = "alive" THEN 1 ELSE 0
    BY DEF InitialisedWhileUsed
  <2>1. inits = Initialised(Cardinality(Alive)) /\ IsFiniteSet(Alive)
    BY DEF GlobalInv, Configures
  <2>2. Cardinality(Alive) = 0 <=> Alive = {}
    BY <2>1, FS_EmptySet
  <2>3. Alive = {} <=> ~\E c \in Clients : life[c] = "alive"
    BY DEF Alive
  <2> QED
    BY <2>1, <2>2, <2>3 DEF Initialised
<1> QED
  BY <1>1, TaskInvAlways, PTL
=============================================================================
