--------------------------- MODULE Thread_proofs ---------------------------
(***************************************************************************)
(* Theorems about Thread, for any set of tasks and of tasks that terminate *)
(* the loop.                                                               *)
(***************************************************************************)
EXTENDS Thread, TLAPS

\* The handshake: the flag of Start's event is raised only by a thread that has
\* written the task runner, and Start returns only after it.
HandshakeInv ==
    /\ opc = "new" <=> tpc = "none"
    /\ ev_signaled => tpc \notin {"none", "init", "signal"}
    /\ tpc \notin {"none", "init"} => local_runner
    /\ opc \in {"started", "joining", "joined"} =>
         task_runner /\ tpc \notin {"none", "init", "signal"}

\* Join posts its closure once.
QuitInv ==
    /\ opc \notin {"joining", "joined"} => Quit \notin posting \cup registered
    /\ Quit \in posting => Quit \notin registered
    /\ opc = "joined" => tpc = "exited"

\* The loop is left only when a closure that ran terminated it or Run returned by
\* itself; until it disposes of its queue it has every closure that was registered;
\* and once Join's closure is out of the queue, so is everything registered before it.
LoopInv ==
    /\ terminated => expired \/ ran \cap (Quitters \cup {Quit}) # {}
    /\ last_flush => terminated
    /\ tpc \in {"dispose", "exited"} => last_flush
    /\ tpc \notin {"dispose", "exited"} => registered \subseteq queue \cup batch \cup ran
    /\ Quit \in queue /\ tpc \notin {"dispose", "exited"} =>
         before \subseteq queue \cup batch \cup ran
    /\ Quit \in batch \cup ran => before \subseteq batch \cup ran

Inv == TypeOK /\ HandshakeInv /\ QuitInv /\ LoopInv

\* Initially nothing was started and nothing was posted.
LEMMA InitInv == Init => Inv
<1> SUFFICES ASSUME Init PROVE Inv
  OBVIOUS
<1>1. Event!TypeOK
  <2>1. ev_signaled \in BOOLEAN /\ ev_stolen \in BOOLEAN
    BY Zenon DEF Init, Event!Init
  <2> QED
    BY <2>1 DEF Init, Event!Init, Event!TypeOK
<1>2. TypeOK
  <2>1. /\ local_runner \in BOOLEAN /\ task_runner \in BOOLEAN /\ joined \in BOOLEAN
        /\ terminated \in BOOLEAN /\ last_flush \in BOOLEAN /\ expired \in BOOLEAN
    BY Zenon DEF Init
  <2> QED
    BY <1>1, <2>1 DEF Init, TypeOK
<1>3. HandshakeInv
  BY DEF Init, HandshakeInv, Event!Init
<1>4. QuitInv /\ LoopInv
  BY DEF Init, QuitInv, LoopInv
<1> QED
  BY <1>2, <1>3, <1>4 DEF Inv

\* The steps that use the event keep its type.
LEMMA EventStep ==
    ASSUME Event!TypeOK,
           Event!Signal \/ Event!Wait(Owner) \/ Event!WaitResumes(Owner)
             \/ Event!SpuriousWakeup(Owner)
    PROVE  Event!TypeOK'
<1> USE DEF Event!TypeOK, Event!Threads
<1>1. CASE Event!Signal
  <2>1. ev_pc' \in [Event!Threads -> {"idle", "blocked", "woken"}]
    BY <1>1 DEF Event!Signal, Event!NotifyOne, Event!Blocked
  <2>2. ev_signaled' \in BOOLEAN /\ ev_stolen' \in BOOLEAN
    BY <1>1, Zenon DEF Event!Signal
  <2> QED
    BY <1>1, <2>1, <2>2 DEF Event!Signal
<1>2. ASSUME Event!Consume(Owner) \/ Event!Block(Owner), UNCHANGED <<ev_signals, ev_spurious>>
      PROVE  Event!TypeOK'
  <2>1. ev_signaled' \in BOOLEAN /\ ev_stolen' \in BOOLEAN
    BY <1>2, Zenon DEF Event!Consume, Event!Block
  <2>2. CASE Event!Consume(Owner)
    BY <1>2, <2>1, <2>2 DEF Event!Consume
  <2>3. CASE Event!Block(Owner)
    BY <1>2, <2>1, <2>3 DEF Event!Block
  <2> QED
    BY <1>2, <2>2, <2>3
<1>3. CASE Event!Wait(Owner)
  BY <1>2, <1>3 DEF Event!Wait
<1>4. CASE Event!WaitResumes(Owner)
  BY <1>2, <1>4 DEF Event!WaitResumes
<1>5. CASE Event!SpuriousWakeup(Owner)
  BY <1>5 DEF Event!SpuriousWakeup
<1> QED
  BY <1>1, <1>3, <1>4, <1>5

\* Every step keeps the types: a thread that is only now created holds no
\* closure.
LEMMA TypeStep == ASSUME TypeOK, HandshakeInv, [Next]_vars PROVE TypeOK'
<1> USE DEF TypeOK
<1>1. CASE Spawn
  BY <1>1 DEF Spawn, HandshakeInv, evVars, startVars, postVars, loopVars, registerVars,
              Event!TypeOK
<1>2. CASE Join
  BY <1>2 DEF Join, evVars, startVars, postVars, loopVars, registerVars, Event!TypeOK, All
<1>3. CASE Spurious
  BY <1>3, EventStep DEF Spurious, startVars, postVars, loopVars, registerVars
<1>4. ASSUME NEW t \in Tasks, Post(t) PROVE TypeOK'
  BY <1>4 DEF Post, evVars, startVars, loopVars, registerVars, Event!TypeOK, All
<1>5. CASE WaitReady
  BY <1>5, EventStep DEF WaitReady, postVars, loopVars, registerVars
<1>6. CASE JoinEnds
  BY <1>6 DEF JoinEnds, evVars, startVars, postVars, loopVars, registerVars, Event!TypeOK
<1>7. ASSUME NEW t \in posting, Register(t) PROVE TypeOK'
  BY <1>7 DEF Register, evVars, startVars, loopVars, Event!TypeOK
<1>8. CASE InitLoop
  BY <1>8 DEF InitLoop, evVars, postVars, loopVars, registerVars, Event!TypeOK
<1>9. CASE SignalReady
  BY <1>9, EventStep DEF SignalReady, startVars, postVars, loopVars, registerVars
<1>10. CASE Flush
  BY <1>10 DEF Flush, evVars, startVars, postVars, Event!TypeOK
<1>11. CASE EndFlush
  BY <1>11 DEF EndFlush, evVars, startVars, postVars, loopVars, registerVars, Event!TypeOK
<1>12. CASE Exit
  BY <1>12 DEF Exit, evVars, startVars, postVars, loopVars, Event!TypeOK
<1>13. ASSUME NEW t \in batch, Invoke(t) PROVE TypeOK'
  BY <1>13 DEF Invoke, evVars, startVars, postVars, registerVars, Event!TypeOK
<1>14. CASE UNCHANGED vars
  BY <1>14 DEF vars, evVars, startVars, postVars, loopVars, registerVars, Event!TypeOK
<1>15. CASE RunReturns
  <2>1. terminated' \in BOOLEAN /\ expired' \in BOOLEAN
    BY <1>15, Zenon DEF RunReturns
  <2> QED
    BY <1>15, <2>1 DEF RunReturns, evVars, startVars, postVars, registerVars, Event!TypeOK
<1> QED
  BY <1>1, <1>2, <1>3, <1>4, <1>5, <1>6, <1>7, <1>8, <1>9, <1>10, <1>11, <1>12,
     <1>13, <1>14, <1>15 DEF Next, Calls, LoopThread

\* Every step keeps the handshake.
LEMMA HandshakeStep ==
    ASSUME TypeOK, HandshakeInv, QuitInv, [Next]_vars PROVE HandshakeInv'
<1> USE DEF HandshakeInv
<1>1. CASE Spawn
  BY <1>1 DEF Spawn, evVars, startVars
<1>2. CASE Join
  BY <1>2 DEF Join, evVars, startVars
<1>3. CASE Spurious
  BY <1>3 DEF Spurious, startVars, Event!SpuriousWakeup
<1>4. ASSUME NEW t \in Tasks, Post(t) PROVE HandshakeInv'
  BY <1>4 DEF Post, evVars, startVars
<1>5. CASE WaitReady
  <2>1. CASE ev_signaled
    BY <1>5, <2>1 DEF WaitReady, Event!Wait, Event!WaitResumes, Event!Consume, Event!Block
  <2>2. CASE ~ev_signaled
    <3>1. UNCHANGED <<opc, task_runner, ev_signaled, tpc, local_runner>>
      BY <1>5, <2>2 DEF WaitReady, Event!Wait, Event!WaitResumes, Event!Consume,
                        Event!Block, TypeOK, Event!TypeOK
    <3> QED
      BY <3>1
  <2> QED
    BY <2>1, <2>2
<1>6. CASE JoinEnds
  BY <1>6 DEF JoinEnds, evVars, startVars
<1>7. ASSUME NEW t \in posting, Register(t) PROVE HandshakeInv'
  BY <1>7 DEF Register, evVars, startVars
<1>8. CASE InitLoop
  BY <1>8 DEF InitLoop, evVars
<1>9. CASE SignalReady
  BY <1>9 DEF SignalReady, startVars, Event!Signal
<1>10. CASE Flush
  BY <1>10 DEF Flush, evVars, startVars
<1>11. CASE EndFlush
  BY <1>11 DEF EndFlush, evVars, startVars
<1>12. CASE Exit
  BY <1>12 DEF Exit, evVars, startVars
<1>13. ASSUME NEW t \in batch, Invoke(t) PROVE HandshakeInv'
  BY <1>13 DEF Invoke, evVars, startVars
<1>14. CASE UNCHANGED vars
  BY <1>14 DEF vars, evVars, startVars
<1>15. CASE RunReturns
  BY <1>15 DEF RunReturns, evVars, startVars
<1> QED
  BY <1>1, <1>2, <1>3, <1>4, <1>5, <1>6, <1>7, <1>8, <1>9, <1>10, <1>11, <1>12,
     <1>13, <1>14, <1>15 DEF Next, Calls, LoopThread

\* Every step keeps what is known of Join's closure.
LEMMA QuitStep ==
    ASSUME TypeOK, HandshakeInv, QuitInv, [Next]_vars PROVE QuitInv'
<1> USE DEF QuitInv
<1>1. CASE Spawn
  BY <1>1 DEF Spawn, postVars, registerVars
<1>2. CASE Join
  BY <1>2 DEF Join, registerVars
<1>3. CASE Spurious
  BY <1>3 DEF Spurious, postVars, registerVars
<1>4. ASSUME NEW t \in Tasks, Post(t) PROVE QuitInv'
  BY <1>4, ThreadAssumption DEF Post, registerVars
<1>5. CASE WaitReady
  BY <1>5 DEF WaitReady, postVars, registerVars
<1>6. CASE JoinEnds
  BY <1>6 DEF JoinEnds, postVars, registerVars
<1>7. ASSUME NEW t \in posting, Register(t) PROVE QuitInv'
  BY <1>7 DEF Register
<1>8. CASE InitLoop
  BY <1>8 DEF InitLoop, postVars, registerVars
<1>9. CASE SignalReady
  BY <1>9 DEF SignalReady, postVars, registerVars
<1>10. CASE Flush
  BY <1>10 DEF Flush, postVars
<1>11. CASE EndFlush
  BY <1>11 DEF EndFlush, postVars, registerVars
<1>12. CASE Exit
  BY <1>12 DEF Exit, postVars
<1>13. ASSUME NEW t \in batch, Invoke(t) PROVE QuitInv'
  BY <1>13 DEF Invoke, postVars, registerVars
<1>14. CASE UNCHANGED vars
  BY <1>14 DEF vars, postVars, registerVars
<1>15. CASE RunReturns
  BY <1>15 DEF RunReturns, postVars, registerVars
<1> QED
  BY <1>1, <1>2, <1>3, <1>4, <1>5, <1>6, <1>7, <1>8, <1>9, <1>10, <1>11, <1>12,
     <1>13, <1>14, <1>15 DEF Next, Calls, LoopThread

\* Every step keeps the loop's account of the closures.
LEMMA LoopStep == ASSUME Inv, [Next]_vars PROVE LoopInv'
<1> USE DEF LoopInv, Inv
<1>1. CASE Spawn
  BY <1>1 DEF Spawn, HandshakeInv, loopVars, registerVars
<1>2. CASE Join
  BY <1>2 DEF Join, loopVars, registerVars
<1>3. CASE Spurious
  BY <1>3 DEF Spurious, loopVars, registerVars
<1>4. ASSUME NEW t \in Tasks, Post(t) PROVE LoopInv'
  BY <1>4 DEF Post, loopVars, registerVars
<1>5. CASE WaitReady
  BY <1>5 DEF WaitReady, loopVars, registerVars
<1>6. CASE JoinEnds
  BY <1>6 DEF JoinEnds, loopVars, registerVars
<1>7. ASSUME NEW t \in posting, Register(t) PROVE LoopInv'
  BY <1>7 DEF Register, loopVars, QuitInv, TypeOK
<1>8. CASE InitLoop
  BY <1>8 DEF InitLoop, loopVars, registerVars
<1>9. CASE SignalReady
  BY <1>9 DEF SignalReady, loopVars, registerVars
<1>10. CASE Flush
  BY <1>10 DEF Flush, TypeOK
<1>11. CASE EndFlush
  BY <1>11 DEF EndFlush, loopVars, registerVars
<1>12. CASE Exit
  BY <1>12 DEF Exit, loopVars
<1>13. ASSUME NEW t \in batch, Invoke(t) PROVE LoopInv'
  BY <1>13 DEF Invoke, registerVars
<1>14. CASE UNCHANGED vars
  BY <1>14 DEF vars, loopVars, registerVars
<1>15. CASE RunReturns
  BY <1>15 DEF RunReturns, registerVars
<1> QED
  BY <1>1, <1>2, <1>3, <1>4, <1>5, <1>6, <1>7, <1>8, <1>9, <1>10, <1>11, <1>12,
     <1>13, <1>14, <1>15 DEF Next, Calls, LoopThread

\* The invariant holds throughout.
THEOREM ThreadInvariant == Spec => []Inv
<1>1. Inv /\ [Next]_vars => Inv'
  BY TypeStep, HandshakeStep, QuitStep, LoopStep DEF Inv
<1> QED
  BY InitInv, <1>1, PTL DEF Spec

\* Thread: every variable keeps its type, for any tasks.
THEOREM ThreadTypeCorrect == Spec => []TypeOK
<1>1. Inv => TypeOK
  BY DEF Inv
<1> QED
  BY ThreadInvariant, <1>1, PTL

\* Thread::Start returns with the task runner of the new thread.
THEOREM HandsOverRunner == Spec => []StartHandsOverRunner
<1>1. Inv => StartHandsOverRunner
  BY DEF Inv, HandshakeInv, StartHandsOverRunner
<1> QED
  BY ThreadInvariant, <1>1, PTL

\* The new thread uses what is on Start's stack only while Start waits.
THEOREM StackIsThere == Spec => []StackOutlivesThread
<1>1. Inv => StackOutlivesThread
  BY DEF Inv, TypeOK, HandshakeInv, StackOutlivesThread
<1> QED
  BY ThreadInvariant, <1>1, PTL

\* When Thread::Join returns, its closure and with it everything queued before have
\* run, or something else than the closure ended the loop.
THEOREM EarlierRan == Spec => []EarlierTasksRan
<1>1. Inv => EarlierTasksRan
  <2> SUFFICES ASSUME Inv, opc = "joined"
               PROVE  /\ Quit \in ran => before \subseteq ran
                      /\ Quit \in ran \/ ran \cap Quitters # {} \/ expired
    BY DEF EarlierTasksRan
  <2>1. tpc = "exited" /\ terminated
    BY DEF Inv, QuitInv, LoopInv
  <2>2. batch = {}
    BY <2>1 DEF Inv, TypeOK
  <2> QED
    BY <2>1, <2>2 DEF Inv, LoopInv
<1> QED
  BY ThreadInvariant, <1>1, PTL

\* Once Thread::Join has returned, the thread takes no step and runs nothing.
THEOREM QuietAfterJoin == Spec => NothingRunsAfterJoin
<1>1. Inv /\ [Next]_vars => [opc = "joined" => UNCHANGED <<ran, tpc>>]_vars
  <2> SUFFICES ASSUME Inv, [Next]_vars, opc = "joined" PROVE UNCHANGED <<ran, tpc>>
    OBVIOUS
  <2>1. tpc = "exited"
    BY DEF Inv, QuitInv
  <2>2. CASE UNCHANGED vars
    BY <2>2 DEF vars, loopVars
  <2>3. CASE Next
    BY <2>1, <2>3
       DEF Next, Calls, LoopThread, Spawn, Join, Spurious, Post, WaitReady, JoinEnds,
           Register, InitLoop, SignalReady, RunReturns, Flush, EndFlush, Exit, Invoke,
           loopVars
  <2> QED
    BY <2>2, <2>3
<1> QED
  BY ThreadInvariant, <1>1, PTL DEF Spec, NothingRunsAfterJoin
=============================================================================
