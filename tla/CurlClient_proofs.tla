-------------------------- MODULE CurlClient_proofs --------------------------
(***************************************************************************)
(* Proofs about CurlClient, for any requests, hashes and races.            *)
(***************************************************************************)
EXTENDS CurlClient, TLAPS

LEMMA LookupType ==
  ASSUME TypeOK, NEW h \in Hashes, NEW t \in Lookup(h)
  PROVE  t \in Requests \cup {NoTask}
  BY DEF Lookup, TypeOK

LEMMA CurlTypeInit == Init => TypeOK
<1> SUFFICES ASSUME Init PROVE TypeOK
  OBVIOUS
<1>1. /\ terminating \in BOOLEAN /\ destroyed \in BOOLEAN
      /\ loop_terminated \in BOOLEAN /\ counted \in BOOLEAN
      /\ last_flush \in BOOLEAN /\ raced \in BOOLEAN
  BY Zenon DEF Init
<1>2. queue \in Seq(Closures) /\ batch \in Seq(Closures)
  BY DEF Init
<1>3. /\ phase \in [Requests -> {"new", "inserting", "created", "resumed"}]
      /\ map \in [Hashes -> Requests \cup {NoTask}]
      /\ answered \in [Requests -> Nat]
  BY DEF Init
<1> QED
  BY <1>1, <1>2, <1>3 DEF Init, TypeOK, Locations

LEMMA CurlTypeStep == TypeOK /\ [Next]_vars => TypeOK'
<1> SUFFICES ASSUME TypeOK, [Next]_vars PROVE TypeOK'
  OBVIOUS
<1> USE CurlAssumption
    DEF TypeOK, Locations, appVars, endVars, curlVars, historyVars
<1>1. ASSUME NEW r \in Requests, BeginTaskWithRequest(r) PROVE TypeOK'
  <2>1. /\ phase' \in [Requests -> {"new", "inserting", "created", "resumed"}]
        /\ inserting' \in Requests \cup {NoTask}
    BY <1>1 DEF BeginTaskWithRequest
  <2> QED
    BY <1>1, <2>1 DEF BeginTaskWithRequest
<1>2. ASSUME NEW r \in Requests, EndTaskWithRequest(r) PROVE TypeOK'
  <2>1. phase' \in [Requests -> {"new", "inserting", "created", "resumed"}]
    BY <1>2 DEF EndTaskWithRequest
  <2>2. map' \in [Hashes -> Requests \cup {NoTask}] /\ clashed' \subseteq Hashes
    BY <1>2 DEF EndTaskWithRequest
  <2>3. /\ inserting' \in Requests \cup {NoTask}
        /\ UNCHANGED <<cancels, queue, terminating, destroyed, loop_terminated, pc,
                       counted, current, batch, last_flush, multi, msgs, answered,
                       delivered, raced>>
    BY <1>2 DEF EndTaskWithRequest
  <2> QED
    BY <2>1, <2>2, <2>3
<1>3. ASSUME NEW r \in Requests, Resume(r) PROVE TypeOK'
  <2>1. queue' \in Seq(Closures)
    BY <1>3 DEF Resume, Posted, Closures
  <2> QED
    BY <1>3, <2>1 DEF Resume
<1>4. ASSUME NEW r \in Requests, Cancel(r) PROVE TypeOK'
  <2>1. queue' \in Seq(Closures)
    BY <1>4 DEF Cancel, Posted, Closures
  <2> QED
    BY <1>4, <2>1 DEF Cancel
<1>5. CASE BeginDestroy
  <2>1. queue' \in Seq(Closures)
    BY <1>5 DEF BeginDestroy, Closures
  <2>2. terminating' \in BOOLEAN
    BY <1>5, Zenon DEF BeginDestroy
  <2> QED
    BY <1>5, <2>1, <2>2 DEF BeginDestroy
<1>6. CASE EndDestroy
  <2>1. destroyed' \in BOOLEAN
    BY <1>6, Zenon DEF EndDestroy
  <2> QED
    BY <1>6, <2>1 DEF EndDestroy
<1>7. ASSUME NEW finished \in SUBSET multi, Perform(finished) PROVE TypeOK'
  <2>1. counted' \in BOOLEAN
    BY <1>7, Zenon DEF Perform
  <2> QED
    BY <1>7, <2>1 DEF Perform
<1>8. CASE Exit
  BY <1>8 DEF Exit
<1>9. ASSUME NEW r \in msgs, ReadMsg(r) PROVE TypeOK'
  <2>1. counted' \in BOOLEAN /\ raced' \in BOOLEAN
    BY <1>9, Zenon DEF ReadMsg, RaceSeen
  <2>2. r \in Requests /\ Hash[r] \in Hashes
    OBVIOUS
  <2>3. PICK t \in Lookup(Hash[r]) :
           \/ t = NoTask /\ pc' = "crashed" /\ UNCHANGED historyVars
           \/ /\ t # NoTask /\ pc' = "cleanup" /\ Answer(t)
              /\ delivered' = delivered \cup {<<r, t>>} /\ UNCHANGED clashed
    BY <1>9 DEF ReadMsg
  <2>4. t \in Requests \cup {NoTask}
    BY <2>2, LookupType
  <2>5. /\ answered' \in [Requests -> Nat] /\ delivered' \subseteq Requests \X Requests
        /\ UNCHANGED clashed
    <3>1. CASE t = NoTask
      BY <2>3, <3>1
    <3>2. CASE t # NoTask
      <4>1. answered' = [answered EXCEPT ![t] = @ + 1]
        BY <2>3, <3>2 DEF Answer
      <4>2. answered' \in [Requests -> Nat]
        BY <2>4, <3>2, <4>1
      <4> QED
        BY <2>2, <2>3, <2>4, <3>2, <4>2
    <3> QED
      BY <3>1, <3>2
  <2>6. /\ pc = "msgs" /\ pc' \in {"crashed", "cleanup"} /\ current' = r
        /\ msgs' = msgs \ {r}
        /\ UNCHANGED <<phase, cancels, inserting, map, queue, terminating, destroyed,
                       loop_terminated, batch, last_flush, multi>>
    BY <1>9, <2>3 DEF ReadMsg
  <2> QED
    BY <2>1, <2>2, <2>5, <2>6
<1>10. CASE FinishMsg
  <2>1. raced' \in BOOLEAN
    BY <1>10, Zenon DEF FinishMsg, RaceSeen
  <2> QED
    BY <1>10, <2>1 DEF FinishMsg
<1>11. CASE MsgsDone
  BY <1>11 DEF MsgsDone
<1>12. ASSUME NEW last \in BOOLEAN, Flush(last) PROVE TypeOK'
  <2>1. queue' \in Seq(Closures)
    BY <1>12 DEF Flush
  <2> QED
    BY <1>12, <2>1 DEF Flush
<1>13. CASE StartRequest
  <2>1. raced' \in BOOLEAN
    BY <1>13, Zenon DEF StartRequest, RaceSeen
  <2>2. batch' \in Seq(Closures)
    BY <1>13 DEF StartRequest, NextClosure
  <2>3. Head(batch).hash \in Hashes
    BY <1>13 DEF StartRequest, NextClosure, Closures
  <2>4. PICK t \in Lookup(Head(batch).hash) : multi' = multi \cup ({t} \ {NoTask})
    BY <1>13 DEF StartRequest
  <2>5. t \in Requests \cup {NoTask}
    BY <2>3, LookupType
  <2> QED
    BY <1>13, <2>1, <2>2, <2>4, <2>5 DEF StartRequest, NextClosure
<1>14. CASE CancelRequest
  <2>1. raced' \in BOOLEAN
    BY <1>14, Zenon DEF CancelRequest, RaceSeen
  <2>2. batch' \in Seq(Closures)
    BY <1>14 DEF CancelRequest, NextClosure
  <2>3. Head(batch).hash \in Hashes
    BY <1>14 DEF CancelRequest, NextClosure, Closures
  <2>4. PICK t \in Lookup(Head(batch).hash) :
           \/ t = NoTask /\ UNCHANGED <<pc, current, answered>>
           \/ t # NoTask /\ pc' = "cancelled" /\ current' = t /\ Answer(t)
    BY <1>14 DEF CancelRequest
  <2>5. t \in Requests \cup {NoTask}
    BY <2>3, LookupType
  <2>6. /\ answered' \in [Requests -> Nat] /\ current' \in Requests \cup {NoTask}
        /\ pc' \in {"invoke", "cancelled"}
    BY <1>14, <2>4, <2>5 DEF CancelRequest, NextClosure, Answer
  <2>7. UNCHANGED <<phase, cancels, inserting, map, queue, terminating, destroyed,
                    loop_terminated, counted, last_flush, multi, msgs, delivered, clashed>>
    BY <1>14 DEF CancelRequest
  <2> QED
    BY <2>1, <2>2, <2>6, <2>7
<1>15. CASE FinishCancel
  <2>1. raced' \in BOOLEAN
    BY <1>15, Zenon DEF FinishCancel, RaceSeen
  <2> QED
    BY <1>15, <2>1 DEF FinishCancel
<1>16. CASE Terminate
  <2>1. loop_terminated' \in BOOLEAN
    BY <1>16, Zenon DEF Terminate
  <2>2. batch' \in Seq(Closures)
    BY <1>16 DEF Terminate, NextClosure
  <2> QED
    BY <1>16, <2>1, <2>2 DEF Terminate, NextClosure
<1>17. CASE BatchDone
  BY <1>17 DEF BatchDone
<1>18. CASE DisposeTasks
  <2>1. queue' \in Seq(Closures)
    BY <1>18 DEF DisposeTasks
  <2> QED
    BY <1>18, <2>1 DEF DisposeTasks
<1>19. CASE MapCrash
  <2>1. raced' \in BOOLEAN
    BY <1>19, Zenon DEF MapCrash
  <2> QED
    BY <1>19, <2>1 DEF MapCrash
<1>20. CASE UNCHANGED vars
  BY <1>20 DEF vars
<1> QED
  BY <1>1, <1>2, <1>3, <1>4, <1>5, <1>6, <1>7, <1>8, <1>9, <1>10, <1>11,
     <1>12, <1>13, <1>14, <1>15, <1>16, <1>17, <1>18, <1>19, <1>20
     DEF Next, Application, CompleteCall, RequestThread

\* The closures, the map, libcurl's handles and the callbacks are well typed;
\* no message outlives its handle, and no closure the flush that took it.
THEOREM CurlTypeCorrect == Spec => []TypeOK
  BY CurlTypeInit, CurlTypeStep, PTL DEF Spec

-----------------------------------------------------------------------------
(* The map, the transfers and the callbacks.                               *)

InCallback == pc \in {"cleanup", "cancelled"}

\* Where a task stands: the map holds it under its own hash.  As long as no two
\* tasks had one key, libcurl works only for tasks in the map and a callback is
\* that of the task in the map.  An answered task is in the map only until the
\* clean-up under its key.
Standing ==
    /\ \A h \in Hashes : map[h] # NoTask => Hash[map[h]] = h
    /\ TransfersHaveTasks
    /\ \A r \in Requests :
         phase[r] \in {"new", "inserting"} => map[Hash[r]] # r /\ answered[r] = 0
    /\ inserting # NoTask => phase[inserting] = "inserting"
    /\ InCallback =>
         /\ current \in Requests
         /\ Hash[current] \in clashed \/ (map[Hash[current]] = current /\ answered[current] > 0)
    /\ \A r \in Requests :
         map[Hash[r]] = r => \/ answered[r] = 0
                             \/ InCallback /\ Hash[r] = Hash[current]
                             \/ pc = "crashed"

\* What the histories say.
Told == AnsweredAtMostOnce /\ OwnerUnlessClash /\ CrashNeedsRaceOrClash

CurlInv == TypeOK /\ Standing /\ Told

\* The steps that touch neither the map nor libcurl nor a callback, and leave
\* no callback either.
LEMMA StandingFrame ==
  ASSUME CurlInv, ~InCallback, ~InCallback', pc # "crashed", pc' # "crashed",
         UNCHANGED <<map, multi, answered, clashed, phase, inserting>>
  PROVE  Standing'
  BY DEF CurlInv, Standing, TransfersHaveTasks, InCallback

\* Clearing the entry of the key whose callback has run, and a handle: that of the
\* finished transfer, or of the entry.
LEMMA CleanupStanding ==
  ASSUME CurlInv, InCallback, pc' \in {"msgs", "invoke"},
         multi' = multi \ {current} \/ multi' = multi \ {map[Hash[current]]},
         map' = [map EXCEPT ![Hash[current]] = NoTask],
         UNCHANGED <<answered, clashed, phase, inserting>>
  PROVE  Standing'
<1>1. /\ current \in Requests /\ Hash[current] \in Hashes
      /\ Hash[current] \in clashed \/ map[Hash[current]] = current
  BY CurlAssumption DEF CurlInv, Standing
<1>2. \A h \in Hashes : map'[h] = IF h = Hash[current] THEN NoTask ELSE map[h]
  BY <1>1 DEF CurlInv, TypeOK
<1>3. \A r \in Requests : Hash[r] \in Hashes /\ r # NoTask
  BY CurlAssumption
<1>4. \A h \in Hashes : map'[h] # NoTask => Hash[map'[h]] = h
  BY <1>2 DEF CurlInv, Standing
<1>5. TransfersHaveTasks'
  <2> SUFFICES ASSUME NEW r \in multi', Hash[r] \notin clashed PROVE map'[Hash[r]] = r
    BY DEF TransfersHaveTasks
  <2>1. r \in multi /\ r \in Requests /\ map[Hash[r]] = r
    BY DEF CurlInv, TypeOK, Standing, TransfersHaveTasks
  <2>2. Hash[r] # Hash[current]
    BY <1>1, <2>1
  <2> QED
    BY <1>2, <1>3, <2>1, <2>2
<1>6. \A r \in Requests : map'[Hash[r]] = r => map[Hash[r]] = r /\ Hash[r] # Hash[current]
  BY <1>2, <1>3
<1>7. \A r \in Requests : map[Hash[r]] = r /\ Hash[r] # Hash[current] => answered[r] = 0
  BY DEF CurlInv, Standing, InCallback
<1>8. \A r \in Requests :
         phase'[r] \in {"new", "inserting"} => map'[Hash[r]] # r /\ answered'[r] = 0
  BY <1>6 DEF CurlInv, Standing
<1> QED
  BY <1>4, <1>5, <1>6, <1>7, <1>8 DEF CurlInv, Standing, InCallback

\* Calling the callback of the task that the map holds under the key of s.
LEMMA AnswerStanding ==
  ASSUME CurlInv, ~InCallback, pc # "crashed", InCallback',
         NEW s \in Requests, NEW t \in Requests, map[Hash[s]] = t,
         Hash[s] \in clashed \/ s = t,
         Answer(t), current' = s, UNCHANGED <<map, multi, clashed, phase, inserting>>
  PROVE  Standing' /\ AnsweredAtMostOnce'
<1>1. Hash[t] = Hash[s] /\ Hash[s] \in Hashes
  BY CurlAssumption DEF CurlInv, Standing
<1>2. /\ answered[t] = 0 /\ answered'[t] = 1
      /\ \A r \in Requests : r # t => answered'[r] = answered[r]
  BY <1>1 DEF CurlInv, TypeOK, Standing, Answer
<1>3. AnsweredAtMostOnce'
  BY <1>2 DEF CurlInv, Told, AnsweredAtMostOnce
<1>4. \A r \in Requests :
         phase'[r] \in {"new", "inserting"} => map'[Hash[r]] # r /\ answered'[r] = 0
  BY <1>1, <1>2 DEF CurlInv, Standing
<1>5. \A r \in Requests :
         map'[Hash[r]] = r => answered'[r] = 0 \/ (InCallback' /\ Hash[r] = Hash[current'])
  BY <1>1, <1>2 DEF CurlInv, Standing
<1>6. Hash[s] \in clashed' \/ (map'[Hash[s]] = s /\ answered'[s] > 0)
  BY <1>2
<1> QED
  BY <1>3, <1>4, <1>5, <1>6 DEF CurlInv, Standing, TransfersHaveTasks

LEMMA EndTaskStanding ==
  ASSUME CurlInv, NEW r \in Requests, EndTaskWithRequest(r)
  PROVE  Standing'
<1>1. /\ inserting = r /\ phase[r] = "inserting" /\ inserting' = NoTask
      /\ phase' = [phase EXCEPT ![r] = "created"]
      /\ UNCHANGED <<multi, answered, pc, current>>
  BY CurlAssumption
     DEF EndTaskWithRequest, CurlInv, Standing, curlVars
<1>2. map[Hash[r]] # r /\ answered[r] = 0 /\ Hash[r] \in Hashes
  BY <1>1, CurlAssumption DEF CurlInv, Standing
<1>3. \A s \in Requests : Hash[s] \in Hashes /\ s # NoTask
  BY CurlAssumption
<1>4. \A s \in Requests : s # r => phase'[s] = phase[s]
  BY <1>1 DEF CurlInv, TypeOK
<1>5. phase'[r] = "created"
  BY <1>1 DEF CurlInv, TypeOK
<1>6. CASE /\ map' = [map EXCEPT ![Hash[r]] = r]
           /\ clashed' = IF map[Hash[r]] = NoTask THEN clashed ELSE clashed \cup {Hash[r]}
  <2>1. \A h \in Hashes : map'[h] = IF h = Hash[r] THEN r ELSE map[h]
    BY <1>6 DEF CurlInv, TypeOK
  <2>2. \A h \in Hashes : h \notin clashed' =>
           h \notin clashed /\ (map[h] = NoTask \/ map'[h] = map[h])
    BY <1>6, <2>1
  <2>3. TransfersHaveTasks'
    BY <1>1, <1>3, <2>2 DEF CurlInv, TypeOK, Standing, TransfersHaveTasks
  <2>4. \A s \in Requests : s # r /\ map'[Hash[s]] = s => map[Hash[s]] = s
    BY <1>3, <2>1
  <2>5. \A h \in Hashes : map'[h] # NoTask => Hash[map'[h]] = h
    BY <2>1 DEF CurlInv, Standing
  <2>6. InCallback' => Hash[current'] \in clashed'
                         \/ (map'[Hash[current']] = current' /\ answered'[current'] > 0)
    BY <1>1, <1>3, <2>2 DEF CurlInv, Standing, InCallback
  <2>7. \A s \in Requests :
           phase'[s] \in {"new", "inserting"} => map'[Hash[s]] # s /\ answered'[s] = 0
    BY <1>1, <1>4, <1>5, <2>4 DEF CurlInv, Standing
  <2>8. \A s \in Requests :
           map'[Hash[s]] = s => \/ answered'[s] = 0
                                \/ InCallback' /\ Hash[s] = Hash[current']
                                \/ pc' = "crashed"
    BY <1>1, <1>2, <2>4 DEF CurlInv, Standing, InCallback
  <2> QED
    BY <1>1, <2>3, <2>5, <2>6, <2>7, <2>8 DEF CurlInv, Standing, InCallback
<1>7. CASE UNCHANGED <<map, clashed>>
  <2>1. \A s \in Requests :
           phase'[s] \in {"new", "inserting"} => map'[Hash[s]] # s /\ answered'[s] = 0
    BY <1>1, <1>4, <1>5, <1>7 DEF CurlInv, Standing
  <2> QED
    BY <1>1, <1>7, <2>1 DEF CurlInv, Standing, InCallback, TransfersHaveTasks
<1> QED
  BY <1>6, <1>7 DEF EndTaskWithRequest

LEMMA ReadMsgStanding ==
  ASSUME CurlInv, NEW r \in msgs, ReadMsg(r)
  PROVE  Standing' /\ Told'
<1>1. /\ r \in Requests /\ Hash[r] \in Hashes /\ r # NoTask
      /\ Hash[r] \in clashed \/ map[Hash[r]] = r
  BY CurlAssumption DEF CurlInv, TypeOK, Standing, TransfersHaveTasks
<1>2. /\ pc = "msgs" /\ current' = r /\ UNCHANGED <<map, multi, phase, inserting>>
      /\ raced => raced'
  BY DEF ReadMsg, RaceSeen, appVars
<1>3. PICK t \in Lookup(Hash[r]) :
         \/ t = NoTask /\ pc' = "crashed" /\ UNCHANGED historyVars
         \/ /\ t # NoTask /\ pc' = "cleanup" /\ Answer(t)
            /\ delivered' = delivered \cup {<<r, t>>} /\ UNCHANGED clashed
  BY DEF ReadMsg
<1>4. CASE t = NoTask /\ pc' = "crashed" /\ UNCHANGED historyVars
  <2>1. raced' \/ clashed' # {}
    BY <1>1, <1>4 DEF Lookup, ReadMsg, RaceSeen, historyVars
  <2>2. Standing'
    BY <1>2, <1>4 DEF historyVars, CurlInv, Standing, InCallback, TransfersHaveTasks
  <2> QED
    BY <1>4, <2>1, <2>2 DEF historyVars, CurlInv, Told, AnsweredAtMostOnce,
                            OwnerUnlessClash, CrashNeedsRaceOrClash
<1>5. CASE t # NoTask
  <2>1. t = map[Hash[r]] /\ t \in Requests
    BY <1>1, <1>5, LookupType DEF Lookup, CurlInv
  <2>2. Hash[t] = Hash[r]
    BY <1>1, <1>5, <2>1 DEF CurlInv, Standing
  <2>3. ~InCallback /\ pc # "crashed" /\ InCallback'
    BY <1>2, <1>3, <1>5 DEF InCallback
  <2>4. Standing' /\ AnsweredAtMostOnce'
    BY <1>1, <1>2, <1>3, <1>5, <2>1, <2>3, AnswerStanding
  <2>5. OwnerUnlessClash'
    BY <1>1, <1>3, <1>5, <2>1, <2>2 DEF CurlInv, Told, OwnerUnlessClash
  <2>6. CrashNeedsRaceOrClash'
    BY <1>3, <1>5 DEF CrashNeedsRaceOrClash
  <2> QED
    BY <2>4, <2>5, <2>6 DEF Told
<1> QED
  BY <1>3, <1>4, <1>5

LEMMA CancelRequestStanding ==
  ASSUME CurlInv, CancelRequest
  PROVE  Standing' /\ AnsweredAtMostOnce'
<1>1. pc = "invoke" /\ Head(batch).hash \in Hashes
  BY DEF CancelRequest, NextClosure, Closures, CurlInv, TypeOK
<1>2. UNCHANGED <<map, multi, phase, inserting, clashed>>
  BY DEF CancelRequest, appVars, curlVars
<1>3. PICK t \in Lookup(Head(batch).hash) :
         \/ t = NoTask /\ UNCHANGED <<pc, current, answered>>
         \/ t # NoTask /\ pc' = "cancelled" /\ current' = t /\ Answer(t)
  BY DEF CancelRequest
<1>4. CASE t = NoTask
  BY <1>1, <1>2, <1>3, <1>4
     DEF CurlInv, Standing, Told, InCallback, TransfersHaveTasks, AnsweredAtMostOnce
<1>5. CASE t # NoTask
  <2>1. t \in Requests /\ map[Hash[t]] = t
    BY <1>1, <1>5, LookupType DEF Lookup, CurlInv, Standing
  <2>2. ~InCallback /\ pc # "crashed" /\ InCallback'
    BY <1>1, <1>3, <1>5 DEF InCallback
  <2> QED
    BY <1>2, <1>3, <1>5, <2>1, <2>2, AnswerStanding
<1> QED
  BY <1>4, <1>5

LEMMA StartRequestStanding ==
  ASSUME CurlInv, StartRequest
  PROVE  Standing'
<1>1. pc = "invoke" /\ Head(batch).hash \in Hashes
  BY DEF StartRequest, NextClosure, Closures, CurlInv, TypeOK
<1>2. UNCHANGED <<map, pc, phase, inserting, answered, clashed, current>>
  BY DEF StartRequest, appVars, historyVars
<1>3. PICK t \in Lookup(Head(batch).hash) : multi' = multi \cup ({t} \ {NoTask})
  BY DEF StartRequest
<1>4. t # NoTask => t \in Requests /\ map[Hash[t]] = t
  BY <1>1, LookupType DEF Lookup, CurlInv, Standing
<1>5. TransfersHaveTasks'
  BY <1>2, <1>3, <1>4 DEF CurlInv, Standing, TransfersHaveTasks
<1> QED
  BY <1>1, <1>2, <1>5 DEF CurlInv, Standing, InCallback

LEMMA StandingStep ==
  ASSUME CurlInv, [Next]_vars
  PROVE  Standing'
<1> USE DEF appVars, endVars, curlVars, historyVars
<1>1. ASSUME NEW r \in Requests, BeginTaskWithRequest(r) PROVE Standing'
  <2>1. /\ phase[r] = "new" /\ phase' = [phase EXCEPT ![r] = "inserting"]
        /\ inserting' = r
        /\ UNCHANGED <<map, multi, answered, clashed, pc, current>>
    BY <1>1 DEF BeginTaskWithRequest
  <2>2. /\ \A s \in Requests : s # r => phase'[s] = phase[s]
        /\ phase'[r] = "inserting"
    BY <2>1 DEF CurlInv, TypeOK
  <2> QED
    BY <2>1, <2>2 DEF CurlInv, Standing, InCallback, TransfersHaveTasks
<1>2. ASSUME NEW r \in Requests, EndTaskWithRequest(r) PROVE Standing'
  BY <1>2, EndTaskStanding
<1>3. ASSUME NEW r \in Requests, Resume(r) PROVE Standing'
  <2>1. /\ phase[r] = "created" /\ phase' = [phase EXCEPT ![r] = "resumed"]
        /\ UNCHANGED <<inserting, map, multi, answered, clashed, pc, current>>
    BY <1>3 DEF Resume
  <2>2. /\ \A s \in Requests : s # r => phase'[s] = phase[s]
        /\ phase'[r] = "resumed"
    BY <2>1 DEF CurlInv, TypeOK
  <2> QED
    BY <2>1, <2>2, CurlAssumption
       DEF CurlInv, Standing, InCallback, TransfersHaveTasks, TypeOK
<1>4. CASE UNCHANGED <<map, multi, answered, clashed, phase, inserting, pc, current>>
  BY <1>4 DEF CurlInv, Standing, InCallback, TransfersHaveTasks
<1>5. CASE EndDestroy
  <2>1. /\ pc = "exited" /\ multi' = {} /\ \A h \in Hashes : map'[h] = NoTask
        /\ UNCHANGED <<answered, clashed, phase, inserting, pc, current>>
    BY <1>5 DEF EndDestroy
  <2> QED
    BY <2>1, CurlAssumption DEF CurlInv, Standing, InCallback, TransfersHaveTasks
<1>6. CASE Exit \/ MsgsDone \/ BatchDone \/ DisposeTasks
            \/ (\E finished \in SUBSET multi : Perform(finished))
            \/ (\E last \in BOOLEAN : Flush(last))
  <2>1. /\ ~InCallback /\ ~InCallback' /\ pc # "crashed" /\ pc' # "crashed"
        /\ UNCHANGED <<map, multi, answered, clashed, phase, inserting>>
    BY <1>6 DEF Exit, MsgsDone, BatchDone, DisposeTasks, Perform, Flush, InCallback
  <2> QED
    BY <2>1, StandingFrame
<1>7. ASSUME NEW r \in msgs, ReadMsg(r) PROVE Standing'
  BY <1>7, ReadMsgStanding
<1>8. CASE FinishMsg
  BY <1>8, CleanupStanding DEF FinishMsg, InCallback
<1>9. CASE StartRequest
  BY <1>9, StartRequestStanding
<1>10. CASE CancelRequest
  BY <1>10, CancelRequestStanding
<1>11. CASE FinishCancel
  BY <1>11, CleanupStanding DEF FinishCancel, InCallback
<1>12. CASE Terminate
  BY <1>4, <1>12 DEF Terminate
<1>13. CASE MapCrash
  <2>1. /\ pc' = "crashed"
        /\ UNCHANGED <<map, multi, answered, clashed, phase, inserting, current>>
    BY <1>13 DEF MapCrash
  <2> QED
    BY <2>1 DEF CurlInv, Standing, InCallback, TransfersHaveTasks
<1>14. CASE (\E r \in Requests : Cancel(r)) \/ BeginDestroy \/ UNCHANGED vars
  BY <1>4, <1>14 DEF Cancel, BeginDestroy, vars
<1> QED
  BY <1>1, <1>2, <1>3, <1>5, <1>6, <1>7, <1>8, <1>9, <1>10, <1>11, <1>12,
     <1>13, <1>14 DEF Next, Application, CompleteCall, RequestThread

\* Only a message and a cancel call a callback or meet a null task, and a clash
\* or a race that happened is not forgotten.
LEMMA ToldStep ==
  ASSUME CurlInv, [Next]_vars
  PROVE  Told'
<1> USE DEF appVars, endVars, curlVars, historyVars
<1>1. ASSUME NEW r \in msgs, ReadMsg(r) PROVE Told'
  BY <1>1, ReadMsgStanding
<1>2. CASE CancelRequest
  <2>1. /\ UNCHANGED <<delivered, clashed>> /\ pc' # "crashed"
    BY <1>2 DEF CancelRequest, NextClosure
  <2> QED
    BY <1>2, <2>1, CancelRequestStanding
       DEF CurlInv, Told, OwnerUnlessClash, CrashNeedsRaceOrClash
<1>3. ASSUME UNCHANGED <<answered, delivered>>, clashed \subseteq clashed',
             pc' = "crashed" => raced' \/ (pc = "crashed" /\ raced' = raced)
      PROVE  Told'
  BY <1>3 DEF CurlInv, Told, AnsweredAtMostOnce, OwnerUnlessClash, CrashNeedsRaceOrClash
<1>4. CASE Application
  BY <1>3, <1>4 DEF Application, BeginTaskWithRequest, Resume, Cancel, BeginDestroy
<1>5. CASE CompleteCall
  BY <1>3, <1>5 DEF CompleteCall, EndTaskWithRequest, EndDestroy
<1>6. CASE RequestThread /\ ~CancelRequest /\ ~\E r \in msgs : ReadMsg(r)
  BY <1>3, <1>6
     DEF RequestThread, Perform, Exit, FinishMsg, MsgsDone, Flush, StartRequest,
         FinishCancel, Terminate, NextClosure, BatchDone, DisposeTasks
<1>7. CASE MapCrash
  BY <1>3, <1>7 DEF MapCrash
<1>8. CASE UNCHANGED vars
  BY <1>3, <1>8 DEF vars
<1> QED
  BY <1>1, <1>2, <1>4, <1>5, <1>6, <1>7, <1>8 DEF Next

LEMMA CurlInvAlways == Spec => []CurlInv
<1>1. Init => CurlInv
  BY CurlTypeInit, CurlAssumption
     DEF Init, CurlInv, Standing, Told, InCallback, TransfersHaveTasks,
         AnsweredAtMostOnce, OwnerUnlessClash, CrashNeedsRaceOrClash
<1>2. CurlInv /\ [Next]_vars => CurlInv'
  BY CurlTypeStep, StandingStep, ToldStep DEF CurlInv
<1> QED
  BY <1>1, <1>2, PTL DEF Spec

\* Whatever is finished, cancelled or both, in whatever order the threads run and
\* whoever shares its key, a completion callback is called at most once.
THEOREM AnswersOnce == Spec => []AnsweredAtMostOnce
<1>1. CurlInv => AnsweredAtMostOnce
  BY DEF CurlInv, Told
<1> QED
  BY <1>1, CurlInvAlways, PTL

\* A transfer is reported to a task of its key, and to its own unless that task was
\* made while another had the key: the same request may be made again.
THEOREM AnswersOwner == Spec => []OwnerUnlessClash
<1>1. CurlInv => OwnerUnlessClash
  BY DEF CurlInv, Told
<1> QED
  BY <1>1, CurlInvAlways, PTL

\* Every transfer libcurl works on belongs to a task in the map, unless another
\* task was made over it.
THEOREM NoOrphanTransfer == Spec => []TransfersHaveTasks
<1>1. CurlInv => TransfersHaveTasks
  BY DEF CurlInv, Standing
<1> QED
  BY <1>1, CurlInvAlways, PTL

\* The null task of HandleCurlMsg's lookup needs a race or two tasks of one key.
THEOREM NullTaskExplained == Spec => []CrashNeedsRaceOrClash
<1>1. CurlInv => CrashNeedsRaceOrClash
  BY DEF CurlInv, Told
<1> QED
  BY <1>1, CurlInvAlways, PTL

\* No clean-up and no insertion takes an unanswered task out of the map, unless two
\* tasks had its key at one time.
THEOREM NoneErasedUnanswered == Spec => ErasedWhenAnswered
<1> DEFINE Kept == \A h \in Hashes \ clashed' :
              map[h] # NoTask /\ map'[h] # map[h] => answered[map[h]] > 0 \/ destroyed'
<1>1. CurlInv /\ [Next]_vars => [Kept]_vars
  <2> SUFFICES ASSUME CurlInv, [Next]_vars PROVE Kept
    OBVIOUS
  <2>1. CASE FinishMsg \/ FinishCancel
    <3>1. /\ current \in Requests /\ Hash[current] \in Hashes
          /\ Hash[current] \in clashed
               \/ (map[Hash[current]] = current /\ answered[current] > 0)
      BY <2>1, CurlAssumption
         DEF FinishMsg, FinishCancel, CurlInv, Standing, InCallback
    <3>2. map' = [map EXCEPT ![Hash[current]] = NoTask] /\ clashed' = clashed
      BY <2>1 DEF FinishMsg, FinishCancel, historyVars
    <3>3. \A h \in Hashes : h # Hash[current] => map'[h] = map[h]
      BY <3>2 DEF CurlInv, TypeOK
    <3> QED
      BY <3>1, <3>2, <3>3
  <2>2. ASSUME NEW r \in Requests, EndTaskWithRequest(r) PROVE Kept
    <3>1. Hash[r] \in Hashes
      BY CurlAssumption
    <3>2. \A h \in Hashes : map'[h] # map[h] => h = Hash[r]
      BY <2>2, <3>1 DEF EndTaskWithRequest, CurlInv, TypeOK
    <3>3. map' # map /\ map[Hash[r]] # NoTask => Hash[r] \in clashed'
      BY <2>2 DEF EndTaskWithRequest
    <3> QED
      BY <3>1, <3>2, <3>3
  <2>3. CASE EndDestroy
    BY <2>3 DEF EndDestroy
  <2>4. CASE map' = map
    BY <2>4
  <2>5. CASE Application \/ MapCrash \/ UNCHANGED vars
    BY <2>4, <2>5 DEF Application, BeginTaskWithRequest, Resume, Cancel, BeginDestroy,
                      MapCrash, appVars, vars
  <2>6. CASE RequestThread /\ ~FinishMsg /\ ~FinishCancel
    BY <2>4, <2>6
       DEF RequestThread, Perform, Exit, ReadMsg, MsgsDone, Flush, StartRequest,
           CancelRequest, Terminate, BatchDone, DisposeTasks
  <2> QED
    BY <2>1, <2>2, <2>3, <2>5, <2>6 DEF Next, CompleteCall
<1> QED
  BY CurlInvAlways, <1>1, PTL DEF Spec, ErasedWhenAnswered

\* The destructor ends only after the request thread.
Ended == destroyed => terminating /\ pc = "exited"

\* Initially nothing was destroyed, and afterwards no step of the application or
\* of the request thread is possible.
LEMMA EndedHolds == Spec => []Ended
<1>1. Init => Ended
  BY DEF Init, Ended
<1>2. Ended /\ [Next]_vars => Ended'
  <2> SUFFICES ASSUME Ended, [Next]_vars PROVE Ended'
    OBVIOUS
  <2> USE DEF Ended
  <2>1. CASE Application
    BY <2>1 DEF Application, BeginTaskWithRequest, Resume, Cancel, BeginDestroy, Alive,
                endVars
  <2>2. CASE CompleteCall
    BY <2>2 DEF CompleteCall, EndTaskWithRequest, EndDestroy, Alive, endVars
  <2>3. CASE RequestThread
    BY <2>3 DEF RequestThread, Perform, Exit, ReadMsg, FinishMsg, MsgsDone, Flush,
                StartRequest, CancelRequest, FinishCancel, Terminate, NextClosure,
                BatchDone, DisposeTasks, endVars
  <2>4. CASE MapCrash
    BY <2>4 DEF MapCrash, AccessesMap, endVars
  <2>5. CASE UNCHANGED vars
    BY <2>5 DEF vars, endVars
  <2> QED
    BY <2>1, <2>2, <2>3, <2>4, <2>5 DEF Next
<1> QED
  BY <1>1, <1>2, PTL DEF Spec

\* Once ~CurlClient has returned nothing touches the map, libcurl or a callback,
\* whatever the hashes and the races.
THEOREM QuietOnceDestroyed == Spec => QuietAfterDestroy
<1>1. Ended /\ [Next]_vars
        => [destroyed => UNCHANGED <<map, curlVars, answered, pc>>]_vars
  <2> SUFFICES ASSUME Ended, [Next]_vars, destroyed
               PROVE  UNCHANGED <<map, curlVars, answered, pc>>
    OBVIOUS
  <2>1. terminating /\ pc = "exited"
    BY DEF Ended
  <2>2. ~Application
    BY <2>1 DEF Application, BeginTaskWithRequest, Resume, Cancel, BeginDestroy, Alive
  <2>3. ~CompleteCall
    BY <2>1 DEF CompleteCall, EndTaskWithRequest, EndDestroy, Alive
  <2>4. ~RequestThread
    BY <2>1 DEF RequestThread, Perform, Exit, ReadMsg, FinishMsg, MsgsDone, Flush,
                StartRequest, CancelRequest, FinishCancel, Terminate, NextClosure,
                BatchDone, DisposeTasks
  <2>5. ~MapCrash
    BY <2>1 DEF MapCrash, AccessesMap
  <2>6. UNCHANGED vars
    BY <2>2, <2>3, <2>4, <2>5 DEF Next
  <2> QED
    BY <2>6 DEF vars, historyVars
<1> QED
  BY EndedHolds, <1>1, PTL DEF Spec, QuietAfterDestroy
=============================================================================
