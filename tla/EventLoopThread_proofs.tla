------------------------ MODULE EventLoopThread_proofs ------------------------
(***************************************************************************)
(* Proofs about EventLoopThread, for any number of IO threads: the loops   *)
(* the pool hands out are being run, startLoop() does not miss the signal  *)
(* of its thread, no EventLoopThread is destroyed before its thread ends,  *)
(* and connections are dealt evenly.                                       *)
(***************************************************************************)
EXTENDS EventLoopThread, TLAPS

USE PoolConstants

\* Types are preserved.
LEMMA TypeStep == TypeOK /\ OwnerInv /\ [Next]_vars => TypeOK'
<1> SUFFICES ASSUME TypeOK, OwnerInv, [Next]_vars PROVE TypeOK'
  OBVIOUS
<1> USE DEF TypeOK, Threads, Starting, Stopping, ownerVars, threadVars, dealVars, At, Moves
<1>1. CASE Create
  BY <1>1 DEF Create
<1>2. CASE LatchOpens
  BY <1>2 DEF LatchOpens
<1>3. CASE StartLoop
  <2>1. cur <= NumThreads
    BY <1>3 DEF StartLoop, OwnerInv
  <2>2. CASE loopPtr[cur]
    BY <1>3, <2>1, <2>2 DEF StartLoop, TakeLoop
  <2>3. CASE ~loopPtr[cur]
    BY <1>3, <2>1, <2>3 DEF StartLoop
  <2> QED
    BY <2>2, <2>3
<1>4. CASE Wake
  BY <1>4 DEF Wake
<1>5. CASE StartAccepting
  BY <1>5 DEF StartAccepting
<1>6. CASE Deal
  <2>1. next' \in Threads
    BY <1>6 DEF Deal, NextLoop
  <2> QED
    BY <1>6, <2>1 DEF Deal
<1>7. CASE Stop
  BY <1>7 DEF Stop
<1>8. CASE TestLoop
  BY <1>8 DEF TestLoop, NextThread, OwnerInv
<1>9. CASE QuitStore
  BY <1>9 DEF QuitStore
<1>10. CASE QuitWakeup
  BY <1>10 DEF QuitWakeup
<1>11. CASE Join
  BY <1>11 DEF Join, NextThread, OwnerInv
<1>12. ASSUME NEW i \in Threads, ThreadStep(i) PROVE TypeOK'
  BY <1>12 DEF ThreadStep, CountDown, Construct, Publish, CheckQuit, Clear, DestroyLoop, End
<1>13. ASSUME NEW i \in Threads, Poll(i) PROVE TypeOK'
  BY <1>13 DEF Poll
<1>14. CASE UNCHANGED vars
  BY <1>14 DEF vars
<1> QED
  BY <1>1, <1>2, <1>3, <1>4, <1>5, <1>6, <1>7, <1>8, <1>9, <1>10, <1>11, <1>12, <1>13, <1>14
  DEF Next, StartStep, StopStep

\* The places of the main thread and of the IO threads stay in step.
LEMMA PlaceStep ==
    ASSUME IInv, [Next]_vars
    PROVE  OwnerInv' /\ ThreadInv' /\ LoopsServe' /\ StartNotMissed' /\ JoinedFirst'
<1> DEFINE Places == OwnerInv /\ ThreadInv /\ LoopsServe /\ StartNotMissed /\ JoinedFirst
<1> USE DEF IInv, TypeOK, OwnerInv, ThreadInv, LoopsServe, StartNotMissed, JoinedFirst, Handed,
           Threads, Starting, Stopping, ownerVars, threadVars, dealVars, At, Moves
<1>1. CASE Create
  BY <1>1 DEF Create
<1>2. CASE LatchOpens
  BY <1>2 DEF LatchOpens
<1>3. CASE StartLoop
  BY <1>3 DEF StartLoop, TakeLoop
<1>4. CASE Wake
  BY <1>4 DEF Wake
<1>5. CASE StartAccepting
  BY <1>5 DEF StartAccepting
<1>6. CASE Deal
  BY <1>6 DEF Deal
<1>7. CASE Stop
  BY <1>7 DEF Stop
<1>8. CASE TestLoop
  BY <1>8 DEF TestLoop, NextThread
<1>9. CASE QuitStore
  BY <1>9 DEF QuitStore
<1>10. CASE QuitWakeup
  BY <1>10 DEF QuitWakeup, Destroyed
<1>11. CASE Join
  BY <1>11 DEF Join, NextThread
<1>12. ASSUME NEW i \in Threads, ThreadStep(i) PROVE Places'
  <2>1. CASE CountDown(i)
    <3>1. OwnerInv'
      BY <2>1 DEF CountDown
    <3>2. ThreadInv'
      BY <2>1 DEF CountDown
    <3>3. LoopsServe' /\ JoinedFirst'
      BY <2>1 DEF CountDown
    <3>4. StartNotMissed'
      BY <2>1 DEF CountDown
    <3> QED
      BY <3>1, <3>2, <3>3, <3>4
  <2>2. CASE Construct(i)
    <3>1. OwnerInv'
      BY <2>2 DEF Construct
    <3>2. ThreadInv'
      BY <2>2 DEF Construct
    <3>3. LoopsServe' /\ JoinedFirst'
      BY <2>2 DEF Construct
    <3>4. StartNotMissed'
      BY <2>2 DEF Construct
    <3> QED
      BY <3>1, <3>2, <3>3, <3>4
  <2>3. CASE Publish(i)
    <3>1. OwnerInv'
      BY <2>3 DEF Publish
    <3>2. ThreadInv'
      BY <2>3 DEF Publish
    <3>3. LoopsServe' /\ JoinedFirst'
      BY <2>3 DEF Publish
    <3>4. ASSUME owner' = "wait", ~woken' PROVE ~loopPtr'[cur']
      <4>1. owner = "wait" /\ ~woken /\ cur # i /\ cur' = cur
        BY <2>3, <3>4 DEF Publish
      <4>2. loopPtr'[cur] = loopPtr[cur] /\ ~loopPtr[cur]
        BY <2>3, <4>1 DEF Publish
      <4> QED
        BY <4>1, <4>2
    <3> QED
      BY <3>1, <3>2, <3>3, <3>4
  <2>4. CASE CheckQuit(i)
    BY <2>4 DEF CheckQuit
  <2>5. CASE Clear(i)
    BY <2>5 DEF Clear
  <2>6. CASE DestroyLoop(i)
    BY <2>6 DEF DestroyLoop
  <2>7. CASE End(i)
    BY <2>7 DEF End
  <2> QED
    BY <1>12, <2>1, <2>2, <2>3, <2>4, <2>5, <2>6, <2>7 DEF ThreadStep
<1>13. ASSUME NEW i \in Threads, Poll(i) PROVE Places'
  BY <1>13 DEF Poll
<1>14. CASE UNCHANGED vars
  BY <1>14 DEF vars
<1> QED
  BY <1>1, <1>2, <1>3, <1>4, <1>5, <1>6, <1>7, <1>8, <1>9, <1>10, <1>11, <1>12, <1>13, <1>14
  DEF Next, StartStep, StopStep

\* Round robin keeps the loops before _next one connection ahead.
LEMMA DealStep == ASSUME IInv, [Next]_vars PROVE DealInv'
<1> USE DEF DealInv, Threads, Starting, Stopping, ownerVars, threadVars, dealVars, At, Moves
<1>1. CASE Deal
  <2>1. /\ dealt \in [Threads -> Nat] /\ next \in Threads
        /\ dealt' = [dealt EXCEPT ![next] = @ + 1]
        /\ next' = NextLoop(next)
        /\ \A i \in Threads : dealt[i] = IF i < next THEN dealt[next] + 1 ELSE dealt[next]
    BY <1>1 DEF Deal, IInv, TypeOK
  <2>2. \A i \in Threads : dealt'[i] = IF i < next' THEN dealt'[next'] + 1 ELSE dealt'[next']
    BY <2>1 DEF NextLoop
  <2> QED
    BY <1>1, <2>2 DEF Deal, IInv
<1>2. CASE StartAccepting
  BY <1>2 DEF StartAccepting, IInv
<1>3. CASE StartStep /\ ~StartAccepting
  BY <1>3 DEF StartStep, Create, LatchOpens, StartLoop, TakeLoop, Wake, IInv
<1>4. CASE StopStep \/ Stop \/ Wake
  BY <1>4 DEF StopStep, Stop, Wake, TestLoop, NextThread, QuitStore, QuitWakeup, Join, IInv
<1>5. ASSUME NEW i \in Threads, ThreadStep(i) \/ Poll(i) PROVE DealInv'
  BY <1>5 DEF ThreadStep, CountDown, Construct, Publish, CheckQuit, Clear, DestroyLoop, End, Poll, IInv
<1>6. CASE UNCHANGED vars
  BY <1>6 DEF vars, IInv
<1> QED
  BY <1>1, <1>2, <1>3, <1>4, <1>5, <1>6 DEF Next

LEMMA InitInv == Init => IInv
<1> SUFFICES ASSUME Init PROVE IInv
  OBVIOUS
<1> USE DEF Init, Threads, Starting, Stopping
<1>1. TypeOK
  <2>1. owner \in Starting /\ cur \in 1 .. NumThreads + 1 /\ next \in Threads
    OBVIOUS
  <2>2. /\ loopPtr \in [Threads -> BOOLEAN] /\ quit \in [Threads -> BOOLEAN]
        /\ eventfd \in [Threads -> BOOLEAN] /\ dealt \in [Threads -> Nat]
    OBVIOUS
  <2> QED
    BY <2>1, <2>2 DEF TypeOK
<1>2. OwnerInv
  BY DEF OwnerInv
<1>3. ThreadInv
  BY DEF ThreadInv
<1>4. DealInv
  BY DEF DealInv
<1>5. LoopsServe /\ StartNotMissed /\ JoinedFirst
  BY DEF LoopsServe, StartNotMissed, JoinedFirst, Handed
<1> QED
  BY <1>1, <1>2, <1>3, <1>4, <1>5 DEF IInv

\* The inductive invariant holds in every reachable state.
THEOREM InductiveInvariant == Spec => []IInv
<1>1. IInv /\ [Next]_vars => IInv'
  BY TypeStep, PlaceStep, DealStep DEF IInv
<1> QED
  BY InitInv, <1>1, PTL DEF Spec

\* A loop the pool has handed out is being run by its thread, until its own
\* EventLoopThread is destroyed.
THEOREM HandedLoopsServe == Spec => []LoopsServe
<1>1. IInv => LoopsServe
  BY DEF IInv
<1> QED
  BY <1>1, InductiveInvariant, PTL

\* The wait of startLoop() does not miss the signal of threadFunc.
THEOREM NoStartMissed == Spec => []StartNotMissed
<1>1. IInv => StartNotMissed
  BY DEF IInv
<1> QED
  BY <1>1, InductiveInvariant, PTL

\* No EventLoopThread is destroyed while its thread runs.
THEOREM ThreadsAreJoined == Spec => []JoinedFirst
<1>1. IInv => JoinedFirst
  BY DEF IInv
<1> QED
  BY <1>1, InductiveInvariant, PTL

\* Two loops differ by one connection at most.
THEOREM RoundRobin == Spec => []DealtEvenly
<1>1. IInv => DealtEvenly
  BY DEF IInv, TypeOK, DealInv, DealtEvenly, Threads
<1> QED
  BY <1>1, InductiveInvariant, PTL

\* Connections go to loops that have a map in connectionMap, once every
\* thread has been created.
THEOREM DealtAfterStart == Spec => []DealtToReady
<1>1. IInv => DealtToReady
  BY DEF IInv, TypeOK, OwnerInv, DealInv, DealtToReady, Threads, Starting, Stopping
<1> QED
  BY <1>1, InductiveInvariant, PTL
==============================================================================
