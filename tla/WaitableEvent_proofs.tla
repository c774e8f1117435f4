------------------------ MODULE WaitableEvent_proofs ------------------------
(***************************************************************************)
(* Proofs about WaitableEvent, for any threads and any number of signals.  *)
(***************************************************************************)
EXTENDS WaitableEvent, TLAPS

Inv == TypeOK /\ OneWaitPerSignal /\ WakeupLostOnlyToTimeout

LEMMA InvInit == Init => Inv
<1> SUFFICES ASSUME Init PROVE Inv
  OBVIOUS
<1>1. signaled \in BOOLEAN /\ stolen \in BOOLEAN /\ ~signaled
  BY Zenon DEF Init
<1>2. expired \in [Threads -> BOOLEAN] /\ \A t \in Threads : ~expired[t]
  BY Zenon DEF Init
<1>3. pc \in [Threads -> {"idle", "blocked", "woken"}]
  BY DEF Init
<1>4. TypeOK
  BY <1>1, <1>2, <1>3 DEF Init, TypeOK
<1>5. OneWaitPerSignal
  BY <1>1 DEF Init, OneWaitPerSignal, Pending
<1> QED
  BY <1>1, <1>4, <1>5 DEF Inv, WakeupLostOnlyToTimeout, NoLostWakeup

\* The three ways a wait leaves its critical section.
LEMMA ConsumeInv ==
  ASSUME Inv, NEW t \in Threads, Consume(t), UNCHANGED <<signals, spurious>>
  PROVE  Inv'
<1>1. signaled /\ ~signaled' /\ signaled' \in BOOLEAN
  BY Zenon DEF Consume
<1>2. expired' \in [Threads -> BOOLEAN] /\ \A u \in Threads : expired'[u] => expired[u] /\ u # t
  BY Zenon DEF Consume, Inv, TypeOK
<1>3. /\ pc' \in [Threads -> {"idle", "blocked", "woken"}]
      /\ \A u \in Threads : u # t => pc'[u] = pc[u]
  BY DEF Consume, Inv, TypeOK
<1>4. TypeOK'
  BY <1>1, <1>2, <1>3 DEF Consume, Inv, TypeOK
<1>5. OneWaitPerSignal'
  BY <1>1 DEF Consume, Inv, TypeOK, OneWaitPerSignal, Pending
<1> QED
  BY <1>1, <1>4, <1>5 DEF Inv, WakeupLostOnlyToTimeout, NoLostWakeup

LEMMA BlockInv ==
  ASSUME Inv, NEW t \in Threads, ~expired[t], Block(t), UNCHANGED <<signals, spurious>>
  PROVE  Inv'
<1>1. /\ pc' \in [Threads -> {"idle", "blocked", "woken"}]
      /\ \A u \in Threads : u # t => pc'[u] = pc[u]
  BY DEF Block, Inv, TypeOK
<1>2. TypeOK'
  BY <1>1 DEF Block, Inv, TypeOK
<1>3. OneWaitPerSignal'
  BY DEF Block, Inv, OneWaitPerSignal, Pending
<1> QED
  BY <1>2, <1>3 DEF Block, Inv, WakeupLostOnlyToTimeout, NoLostWakeup

LEMMA TimesOutInv ==
  ASSUME Inv, NEW t \in Threads, TimesOut(t), UNCHANGED <<signals, spurious>>
  PROVE  Inv'
<1>1. expired' \in [Threads -> BOOLEAN] /\ \A u \in Threads : expired'[u] => expired[u] /\ u # t
  BY Zenon DEF TimesOut, Inv, TypeOK
<1>2. /\ pc' \in [Threads -> {"idle", "blocked", "woken"}]
      /\ \A u \in Threads : u # t => pc'[u] = pc[u]
  BY DEF TimesOut, Inv, TypeOK
<1>3. stolen' \in BOOLEAN /\ (signaled' => stolen')
  BY Zenon DEF TimesOut, Inv, TypeOK
<1>4. TypeOK'
  BY <1>1, <1>2, <1>3 DEF TimesOut, Inv, TypeOK
<1>5. OneWaitPerSignal'
  BY DEF TimesOut, Inv, OneWaitPerSignal, Pending
<1> QED
  BY <1>3, <1>4, <1>5 DEF Inv, WakeupLostOnlyToTimeout, NoLostWakeup

LEMMA SignalInv ==
  ASSUME Inv, Signal
  PROVE  Inv'
<1>1. signaled' /\ signaled' \in BOOLEAN /\ stolen' \in BOOLEAN
  BY Zenon DEF Signal
<1>2. /\ pc' \in [Threads -> {"idle", "blocked", "woken"}]
      /\ \A u \in Threads : expired[u] => pc'[u] = "woken"
  BY DEF Signal, NotifyOne, Blocked, Inv, TypeOK
<1>3. TypeOK'
  BY <1>1, <1>2 DEF Signal, Inv, TypeOK
<1>4. OneWaitPerSignal'
  BY <1>1 DEF Signal, Inv, TypeOK, OneWaitPerSignal, Pending
<1>5. NoLostWakeup'
  <2>1. CASE Blocked = {} /\ UNCHANGED pc
    BY <2>1 DEF NoLostWakeup, Blocked
  <2>2. ASSUME NEW t \in Blocked, pc' = [pc EXCEPT ![t] = "woken"]
        PROVE  NoLostWakeup'
    <3>1. t \in Threads /\ pc'[t] = "woken"
      BY <2>2 DEF Blocked, Inv, TypeOK
    <3> QED
      BY <3>1 DEF NoLostWakeup
  <2> QED
    BY <2>1, <2>2 DEF Signal, NotifyOne
<1> QED
  BY <1>3, <1>4, <1>5 DEF Inv, WakeupLostOnlyToTimeout

\* A blocked thread becomes woken for another reason than a notification.
LEMMA WokenInv ==
  ASSUME Inv, NEW t \in Threads, pc' = [pc EXCEPT ![t] = "woken"],
         expired' \in [Threads -> BOOLEAN],
         \A u \in Threads : expired'[u] => expired[u] \/ (u = t /\ t \in TimedWaiters),
         spurious' \in Nat,
         UNCHANGED <<signaled, signals, consumed, stolen>>
  PROVE  Inv'
<1>1. /\ pc' \in [Threads -> {"idle", "blocked", "woken"}] /\ pc'[t] = "woken"
      /\ \A u \in Threads : u # t => pc'[u] = pc[u]
  BY DEF Inv, TypeOK
<1>2. TypeOK'
  BY <1>1 DEF Inv, TypeOK
<1>3. OneWaitPerSignal'
  BY DEF Inv, OneWaitPerSignal, Pending
<1>4. NoLostWakeup'
  BY <1>1 DEF NoLostWakeup
<1> QED
  BY <1>2, <1>3, <1>4 DEF Inv, WakeupLostOnlyToTimeout

LEMMA InvStep == Inv /\ [Next]_vars => Inv'
<1> SUFFICES ASSUME Inv, [Next]_vars PROVE Inv'
  OBVIOUS
<1>1. CASE Signal
  BY <1>1, SignalInv
<1>2. ASSUME NEW t \in Threads, Wait(t) PROVE Inv'
  <2>1. ~expired[t]
    BY <1>2 DEF Wait, Inv, TypeOK
  <2> QED
    BY <1>2, <2>1, ConsumeInv, BlockInv DEF Wait
<1>3. ASSUME NEW t \in Threads, WaitResumes(t) PROVE Inv'
  <2>1. ~expired[t]
    BY <1>3, EventAssumption DEF WaitResumes, Inv, TypeOK
  <2> QED
    BY <1>3, <2>1, ConsumeInv, BlockInv DEF WaitResumes
<1>4. ASSUME NEW t \in Threads, TimedWaitResumes(t) PROVE Inv'
  BY <1>4, ConsumeInv, BlockInv, TimesOutInv DEF TimedWaitResumes
<1>5. ASSUME NEW t \in Threads, Elapse(t) PROVE Inv'
  <2>1. /\ expired' \in [Threads -> BOOLEAN]
        /\ \A u \in Threads : expired'[u] => expired[u] \/ (u = t /\ t \in TimedWaiters)
    BY <1>5, Zenon DEF Elapse, Inv, TypeOK
  <2>2. spurious' \in Nat
    BY <1>5 DEF Elapse, Inv, TypeOK
  <2> QED
    BY <1>5, <2>1, <2>2, WokenInv DEF Elapse
<1>6. ASSUME NEW t \in Threads, SpuriousWakeup(t) PROVE Inv'
  <2>1. expired' = expired /\ expired \in [Threads -> BOOLEAN] /\ spurious' \in Nat
    BY <1>6 DEF SpuriousWakeup, Inv, TypeOK
  <2>2. \A u \in Threads : expired'[u] => expired[u] \/ (u = t /\ t \in TimedWaiters)
    BY <2>1
  <2> QED
    BY <1>6, <2>1, <2>2, WokenInv DEF SpuriousWakeup
<1>7. CASE UNCHANGED vars
  BY <1>7 DEF vars, Inv, TypeOK, OneWaitPerSignal, Pending, NoLostWakeup,
              WakeupLostOnlyToTimeout, Blocked
<1> QED
  BY <1>1, <1>2, <1>3, <1>4, <1>5, <1>6, <1>7 DEF Next

LEMMA InvAlways == Spec => []Inv
  BY InvInit, InvStep, PTL DEF Spec

\* A deadline that has passed belongs to a WaitWithTimeout on its way out.
THEOREM EventTypeCorrect == Spec => []TypeOK
  BY InvAlways, PTL DEF Inv

\* However Signal(), Wait(), WaitWithTimeout() and spurious wake-ups
\* interleave, a signal lets at most one wait return.
THEOREM OneWait == Spec => []OneWaitPerSignal
  BY InvAlways, PTL DEF Inv

\* Signal()'s notification reaches a wait that will look at the flag, or was
\* taken by a WaitWithTimeout that reported a timeout.
THEOREM LostOnlyToTimeout == Spec => []WakeupLostOnlyToTimeout
  BY InvAlways, PTL DEF Inv

\* Nothing steals a signal where nobody waits with a timeout.
NothingStolen == Inv /\ ~stolen

\* An event that is only ever waited for with Wait(), as Thread::Start's is,
\* loses no wake-up.
THEOREM WaitLosesNoWakeup ==
  ASSUME TimedWaiters = {}
  PROVE  Spec => []NoLostWakeup
<1>1. Init => NothingStolen
  <2>1. Init => ~stolen
    BY Zenon DEF Init
  <2> QED
    BY <2>1, InvInit DEF NothingStolen
<1>2. NothingStolen /\ [Next]_vars => NothingStolen'
  <2> SUFFICES ASSUME NothingStolen, [Next]_vars PROVE ~stolen'
    BY InvStep DEF NothingStolen
  <2>1. CASE Signal
    BY <2>1, Zenon DEF Signal
  <2>2. ASSUME NEW t \in Threads,
               Wait(t) \/ WaitResumes(t) \/ Elapse(t) \/ SpuriousWakeup(t)
        PROVE  ~stolen'
    BY <2>2, Zenon DEF NothingStolen, Wait, WaitResumes, Elapse, SpuriousWakeup,
                       Consume, Block
  <2>3. ASSUME NEW t \in Threads, TimedWaitResumes(t) PROVE ~stolen'
    BY <2>3 DEF TimedWaitResumes
  <2>4. CASE UNCHANGED vars
    BY <2>4 DEF vars, NothingStolen
  <2> QED
    BY <2>1, <2>2, <2>3, <2>4 DEF Next
<1>3. NothingStolen => NoLostWakeup
  BY DEF NothingStolen, Inv, WakeupLostOnlyToTimeout
<1> QED
  BY <1>1, <1>2, <1>3, PTL DEF Spec
=============================================================================
