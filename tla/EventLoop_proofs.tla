--------------------------- MODULE EventLoop_proofs ---------------------------
(***************************************************************************)
(* TLAPS proofs about EventLoop, for any number of loops, worker threads   *)
(* and closures: the inductive invariant, the absence of lost wakeups, and *)
(* the safety part of the refinement of LoopTasks.                         *)
(***************************************************************************)
EXTENDS EventLoop, SequenceTheorems, TLAPS

\* Typing is inductive on its own (the state declared in Eventloop.h:34-44).
THEOREM TypeCorrect == Spec => []TypeOK
<1>1. Init => TypeOK
  BY DEF Init, TypeOK, Stages
<1>2. TypeOK /\ [Next]_vars => TypeOK'
  <2> SUFFICES ASSUME TypeOK, [Next]_vars PROVE TypeOK'
    OBVIOUS
  <2> USE DEF TypeOK, Stages, Threads
  <2>1. ASSUME NEW t \in Threads, NEW l \in Loops, NEW k \in Tasks, QueueInLoop(t, l, k)
        PROVE TypeOK'
    BY <2>1 DEF QueueInLoop
  <2>2. ASSUME NEW t \in Threads, NEW l \in Loops, Quit(t, l)
        PROVE TypeOK'
    BY <2>2 DEF Quit
  <2>3. ASSUME NEW t \in Threads, Wakeup(t)
        PROVE TypeOK'
    BY <2>3 DEF Wakeup
  <2>4. ASSUME NEW l \in Loops, NEW k \in Tasks, RunNow(l, k)
        PROVE TypeOK'
    BY <2>4 DEF RunNow
  <2>5. ASSUME NEW l \in Loops, Poll(l)
        PROVE TypeOK'
    BY <2>5 DEF Poll
  <2>6. ASSUME NEW l \in Loops, CheckQuit(l)
        PROVE TypeOK'
    BY <2>6 DEF CheckQuit
  <2>7. ASSUME NEW l \in Loops, HandleRead(l)
        PROVE TypeOK'
    BY <2>7 DEF HandleRead
  <2>8. ASSUME NEW l \in Loops, EventsDone(l)
        PROVE TypeOK'
    BY <2>8 DEF EventsDone
  <2>9. ASSUME NEW l \in Loops, SwapFunctors(l)
        PROVE TypeOK'
    BY <2>9 DEF SwapFunctors, TakeFunctors
  <2>10. ASSUME NEW l \in Loops, RunFunctor(l)
         PROVE TypeOK'
    <3>1. Head(functors[l]) \in Tasks /\ Tail(functors[l]) \in Seq(Tasks)
      BY <2>10, HeadTailProperties DEF RunFunctor
    <3>2. QED
      BY <2>10, <3>1 DEF RunFunctor
  <2>11. ASSUME NEW l \in Loops, FunctorsDone(l)
         PROVE TypeOK'
    BY <2>11 DEF FunctorsDone
  <2>12. ASSUME NEW l \in Loops, TimersDone(l)
         PROVE TypeOK'
    BY <2>12 DEF TimersDone
  <2>13. CASE UNCHANGED vars
    BY <2>13 DEF vars
  <2>14. QED
    BY <2>1, <2>2, <2>3, <2>4, <2>5, <2>6, <2>7, <2>8, <2>9, <2>10, <2>11,
       <2>12, <2>13 DEF Next, Calls, LoopStep
<1>3. QED
  BY <1>1, <1>2, PTL DEF Spec

------------------------------------------------------------------------------
(* No lost wakeup.                                                         *)

\* The part of IInv that speaks of one loop.
LoopInv(l) ==
    /\ calling[l] <=> pc[l] = "functors"
    /\ pc[l] # "functors" => functors[l] = <<>>
    /\ functorList[l] # <<>> => pc[l] \in {"events", "swap"} \/ WakeupComing(l)
    /\ quit[l] /\ pc[l] = "poll" => WakeupComing(l)

\* The closure pushed, or the flag raised, by t for l is covered by the
\* wakeup t now owes to l (Eventloop.cpp:137-140, 90-93).
LEMMA DebtIsWakeup ==
    ASSUME NEW t \in Threads, NEW l \in Loops, waking'[t] = l
    PROVE  WakeupComing(l)'
BY DEF WakeupComing

\* IInv is an invariant: calling tracks the stage, the vector is empty
\* outside it, and every pushed closure or quit flag is covered by a wakeup.
THEOREM InductiveInvariant == Spec => []IInv
<1>1. Init => IInv
  BY DEF Init, TypeOK, Stages, IInv
<1>2. TypeOK /\ TypeOK' /\ IInv /\ [Next]_vars => IInv'
  <2> SUFFICES ASSUME TypeOK, TypeOK', \A l \in Loops : LoopInv(l), [Next]_vars,
                      NEW m \in Loops
               PROVE  LoopInv(m)'
    BY DEF IInv, LoopInv
  <2>0. LoopInv(m) /\ m \in Threads
    BY DEF Threads
  <2> USE <2>0 DEF TypeOK, Threads
  <2>1. ASSUME NEW t \in Threads, NEW l \in Loops, NEW k \in Tasks,
               ~QueuedByOwnTimer(t, l), QueueInLoop(t, l, k)
        PROVE  LoopInv(m)'
    <3>1. WakeupComing(m) => WakeupComing(m)'
      <4>1. \A s \in Threads : waking[s] = m => waking'[s] = m
        BY <2>1, LoopsAndWorkers DEF QueueInLoop, InCallback
      <4>2. eventfd'[m] = eventfd[m] /\ eventfd[m] \in Nat
        BY <2>1 DEF QueueInLoop
      <4>3. QED
        BY <4>1, <4>2 DEF WakeupComing
    <3>2. l = m => pc[m] \in {"events", "swap"} \/ WakeupComing(m)'
      BY <2>1, DebtIsWakeup
         DEF QueueInLoop, InCallback, NeedsWakeup, QueuedByOwnTimer, LoopInv
    <3>3. l # m => functorList'[m] = functorList[m]
      BY <2>1 DEF QueueInLoop
    <3>4. QED
      BY <2>1, <3>1, <3>2, <3>3 DEF QueueInLoop, LoopInv
  <2>2. ASSUME NEW t \in Threads, NEW l \in Loops, Quit(t, l)
        PROVE  LoopInv(m)'
    <3>1. WakeupComing(m) => WakeupComing(m)'
      <4>1. \A s \in Threads : waking[s] = m => waking'[s] = m
        BY <2>2, LoopsAndWorkers DEF Quit, InCallback
      <4>2. eventfd'[m] = eventfd[m] /\ eventfd[m] \in Nat
        BY <2>2 DEF Quit
      <4>3. QED
        BY <4>1, <4>2 DEF WakeupComing
    <3>2. l = m /\ pc[m] = "poll" => WakeupComing(m)'
      BY <2>2, DebtIsWakeup DEF Quit, InCallback
    <3>3. l # m => quit'[m] = quit[m]
      BY <2>2 DEF Quit
    <3>4. QED
      BY <2>2, <3>1, <3>2, <3>3 DEF Quit, LoopInv
  <2>3. ASSUME NEW t \in Threads, Wakeup(t)
        PROVE  LoopInv(m)'
    <3>1. WakeupComing(m) => WakeupComing(m)'
      <4>1. CASE waking[t] = m
        BY <2>3, <4>1 DEF Wakeup, WakeupComing
      <4>2. CASE waking[t] # m
        <5>1. \A s \in Threads : waking[s] = m => waking'[s] = m
          BY <2>3, <4>2 DEF Wakeup
        <5>2. eventfd'[m] = eventfd[m]
          BY <2>3, <4>2 DEF Wakeup
        <5>3. QED
          BY <5>1, <5>2 DEF WakeupComing
      <4>3. QED
        BY <4>1, <4>2
    <3>2. QED
      BY <2>3, <3>1 DEF Wakeup, LoopInv
  <2>4. ASSUME NEW l \in Loops, NEW k \in Tasks, RunNow(l, k)
        PROVE  LoopInv(m)'
    BY <2>4 DEF RunNow, LoopInv, WakeupComing
  <2>5. ASSUME NEW l \in Loops, Poll(l)
        PROVE  LoopInv(m)'
    BY <2>5 DEF Poll, At, LoopInv, WakeupComing
  <2>6. ASSUME NEW l \in Loops, CheckQuit(l)
        PROVE  LoopInv(m)'
    BY <2>6 DEF CheckQuit, At, LoopInv, WakeupComing
  <2>7. ASSUME NEW l \in Loops, HandleRead(l)
        PROVE  LoopInv(m)'
    <3>1. CASE l = m
      BY <2>7, <3>1 DEF HandleRead, At, LoopInv
    <3>2. CASE l # m
      <4>1. WakeupComing(m) => WakeupComing(m)'
        BY <2>7, <3>2 DEF HandleRead, WakeupComing
      <4>2. QED
        BY <2>7, <4>1 DEF HandleRead, LoopInv
    <3>3. QED
      BY <3>1, <3>2
  <2>8. ASSUME NEW l \in Loops, EventsDone(l)
        PROVE  LoopInv(m)'
    BY <2>8 DEF EventsDone, At, LoopInv, WakeupComing
  <2>9. ASSUME NEW l \in Loops, SwapFunctors(l)
        PROVE  LoopInv(m)'
    BY <2>9 DEF SwapFunctors, TakeFunctors, At, LoopInv, WakeupComing
  <2>10. ASSUME NEW l \in Loops, RunFunctor(l)
         PROVE  LoopInv(m)'
    BY <2>10 DEF RunFunctor, At, LoopInv, WakeupComing
  <2>11. ASSUME NEW l \in Loops, FunctorsDone(l)
         PROVE  LoopInv(m)'
    BY <2>11 DEF FunctorsDone, At, LoopInv, WakeupComing
  <2>12. ASSUME NEW l \in Loops, TimersDone(l)
         PROVE  LoopInv(m)'
    BY <2>12 DEF TimersDone, At, LoopInv, WakeupComing
  <2>13. CASE UNCHANGED vars
    BY <2>13 DEF vars, LoopInv, WakeupComing
  <2>14. QED
    BY <2>1, <2>2, <2>3, <2>4, <2>5, <2>6, <2>7, <2>8, <2>9, <2>10, <2>11,
       <2>12, <2>13 DEF Next, Calls, LoopStep
<1>3. QED
  BY <1>1, <1>2, TypeCorrect, PTL DEF Spec

\* No lost wakeup (Eventloop.cpp:131-141, 87-94): a loop that sleeps in
\* poll() with work queued or quit() called has a wakeup on its way.
THEOREM NoLostWakeup == Spec => []SleeperIsWoken
<1>1. IInv => SleeperIsWoken
  BY DEF IInv, SleeperIsWoken
<1>2. QED
  BY <1>1, InductiveInvariant, PTL
------------------------------------------------------------------------------
(* The refinement of LoopTasks.                                            *)

\* The pending tasks of l under the refinement mapping.
Queue(l) == functors[l] \o functorList[l]

\* Appending to the shared list appends to the whole queue (queueInLoop,
\* Eventloop.cpp:133-136).
LEMMA AppendRight ==
    \A s, t \in Seq(Tasks), e \in Tasks : s \o Append(t, e) = Append(s \o t, e)
<1> SUFFICES ASSUME NEW s \in Seq(Tasks), NEW t \in Seq(Tasks), NEW e \in Tasks
             PROVE  s \o Append(t, e) = Append(s \o t, e)
  OBVIOUS
<1>1. Append(t, e) = t \o <<e>> /\ <<e>> \in Seq(Tasks)
  BY AppendIsConcat
<1>2. s \o t \in Seq(Tasks)
  BY ConcatProperties
<1>3. Append(s \o t, e) = (s \o t) \o <<e>>
  BY <1>2, AppendIsConcat
<1>4. QED
  BY <1>1, <1>3, ConcatAssociative

\* Taking the head of the vector takes the head of the whole queue
\* (Eventloop.cpp:113-116).
LEMMA TakeLeft ==
    ASSUME NEW S, NEW s \in Seq(S), NEW t \in Seq(S), s # <<>>
    PROVE  /\ s \o t # <<>>
           /\ Head(s \o t) = Head(s)
           /\ Tail(s \o t) = Tail(s) \o t
<1>1. /\ s \o t \in Seq(S)
      /\ Len(s \o t) = Len(s) + Len(t)
      /\ \A i \in 1 .. Len(s) + Len(t) : (s \o t)[i] = IF i <= Len(s) THEN s[i] ELSE t[i - Len(s)]
  BY ConcatProperties
<1>2. Len(s) \in Nat \ {0} /\ Len(t) \in Nat
  BY EmptySeq, LenProperties
<1>3. s \o t # <<>>
  BY <1>1, <1>2
<1>4. Head(s \o t) = Head(s)
  BY <1>1, <1>2
<1>5. /\ Tail(s) \in Seq(S)
      /\ Len(Tail(s)) = Len(s) - 1
      /\ \A i \in 1 .. Len(Tail(s)) : Tail(s)[i] = s[i + 1]
  BY HeadTailProperties
<1>6. /\ Tail(s \o t) \in Seq(S)
      /\ Len(Tail(s \o t)) = Len(s) + Len(t) - 1
      /\ \A i \in 1 .. Len(Tail(s \o t)) : Tail(s \o t)[i] = (s \o t)[i + 1]
  BY <1>1, <1>3, HeadTailProperties
<1>7. /\ Tail(s) \o t \in Seq(S)
      /\ Len(Tail(s) \o t) = Len(s) - 1 + Len(t)
      /\ \A i \in 1 .. Len(s) - 1 + Len(t) :
            (Tail(s) \o t)[i] = IF i <= Len(s) - 1 THEN Tail(s)[i] ELSE t[i - (Len(s) - 1)]
  BY <1>5, ConcatProperties
<1>8. ASSUME NEW i \in 1 .. Len(Tail(s \o t))
      PROVE  Tail(s \o t)[i] = (Tail(s) \o t)[i]
  <2>1. i \in 1 .. Len(s) + Len(t) - 1 /\ i + 1 \in 1 .. Len(s) + Len(t)
    BY <1>2, <1>6
  <2>2. Tail(s \o t)[i] = IF i + 1 <= Len(s) THEN s[i + 1] ELSE t[i + 1 - Len(s)]
    BY <1>1, <1>6, <2>1
  <2>3. (Tail(s) \o t)[i] = IF i <= Len(s) - 1 THEN s[i + 1] ELSE t[i - (Len(s) - 1)]
    BY <1>2, <1>5, <1>7, <2>1
  <2>4. i + 1 - Len(s) = i - (Len(s) - 1) /\ (i + 1 <= Len(s) <=> i <= Len(s) - 1)
    BY <1>2, <2>1
  <2>5. QED
    BY <2>2, <2>3, <2>4
<1>9. QED
  BY <1>2, <1>3, <1>4, <1>6, <1>7, <1>8, SeqEqual

\* Safety half of ImplementsLoopTasks: the mutex, the swapped vector, the
\* eventfd and the quit flag implement one FIFO per loop.
THEOREM RefinesLoopTasks == Spec => Abstract!TasksSafeSpec
<1>1. Init => Abstract!TasksInit
  <2> SUFFICES ASSUME Init PROVE Abstract!TasksInit
    OBVIOUS
  <2>1. \A l \in Loops : functors[l] \o functorList[l] = <<>>
    BY ConcatEmptySeq, EmptySeq DEF Init
  <2>2. QED
    BY <2>1 DEF Init, Abstract!TasksInit
<1>2. TypeOK /\ IInv /\ [Next]_vars => [Abstract!TasksNext]_Abstract!taskVars
  <2> SUFFICES ASSUME TypeOK, \A l \in Loops : LoopInv(l), [Next]_vars
               PROVE  [Abstract!TasksNext]_Abstract!taskVars
    BY DEF IInv, LoopInv
  <2>0. \A l \in Loops : functors[l] \in Seq(Tasks) /\ functorList[l] \in Seq(Tasks)
    BY DEF TypeOK
  <2>1. ASSUME NEW t \in Threads, NEW l \in Loops, NEW k \in Tasks, QueueInLoop(t, l, k)
        PROVE  Abstract!TasksNext
    <3>1. functors[l] \o Append(functorList[l], k) = Append(Queue(l), k)
      <4>1. functors[l] \in Seq(Tasks) /\ functorList[l] \in Seq(Tasks)
        BY <2>0
      <4>2. QED
        BY <4>1, AppendRight DEF Queue
    <3>2. Abstract!Submit(l, k)
      BY <2>1, <3>1 DEF QueueInLoop, TypeOK, Queue, Abstract!Submit
    <3>3. QED
      BY <3>2 DEF Abstract!TasksNext
  <2>2. ASSUME NEW l \in Loops, NEW k \in Tasks, RunNow(l, k)
        PROVE  Abstract!TasksNext
    <3>1. pc[l] # "exited"
      BY <2>2 DEF RunNow, InCallback, Threads
    <3>2. Abstract!ExecuteNow(l, k)
      BY <2>2, <3>1 DEF RunNow, Abstract!ExecuteNow
    <3>3. QED
      BY <3>2 DEF Abstract!TasksNext
  <2>3. ASSUME NEW l \in Loops, RunFunctor(l)
        PROVE  Abstract!TasksNext
    <3>1. /\ Queue(l) # <<>>
          /\ Head(Queue(l)) = Head(functors[l])
          /\ Tail(Queue(l)) = Tail(functors[l]) \o functorList[l]
      BY <2>0, <2>3, TakeLeft DEF RunFunctor, Queue
    <3>2. Abstract!Execute(l)
      BY <2>3, <3>1 DEF RunFunctor, At, TypeOK, Queue, Abstract!Execute
    <3>3. QED
      BY <3>2 DEF Abstract!TasksNext
  <2>4. ASSUME NEW l \in Loops, CheckQuit(l)
        PROVE  [Abstract!TasksNext]_Abstract!taskVars
    <3>1. CASE quit[l]
      <4>1. Abstract!Stop(l)
        BY <2>4, <3>1 DEF CheckQuit, At, TypeOK, Abstract!Stop
      <4>2. QED
        BY <4>1 DEF Abstract!TasksNext
    <3>2. CASE ~quit[l]
      BY <2>4, <3>2 DEF CheckQuit, At, TypeOK, Abstract!taskVars
    <3>3. QED
      BY <3>1, <3>2
  <2>5. ASSUME NEW l \in Loops, SwapFunctors(l)
        PROVE  UNCHANGED Abstract!taskVars
    <3>1. functors[l] = <<>>
      BY <2>5 DEF SwapFunctors, At, LoopInv
    <3>2. functors'[l] \o functorList'[l] = functors[l] \o functorList[l]
      BY <2>0, <2>5, <3>1, ConcatEmptySeq DEF SwapFunctors, TakeFunctors, TypeOK
    <3>3. \A m \in Loops : functors'[m] \o functorList'[m] = functors[m] \o functorList[m]
      BY <2>5, <3>2 DEF SwapFunctors, TakeFunctors, TypeOK
    <3>4. {m \in Loops : pc'[m] = "exited"} = {m \in Loops : pc[m] = "exited"}
      BY <2>5 DEF SwapFunctors, At, TypeOK
    <3>5. QED
      BY <2>5, <3>3, <3>4 DEF SwapFunctors, Abstract!taskVars
  <2>6. ASSUME NEW l \in Loops,
               Poll(l) \/ HandleRead(l) \/ EventsDone(l) \/ FunctorsDone(l) \/ TimersDone(l)
        PROVE  UNCHANGED Abstract!taskVars
    <3>1. {m \in Loops : pc'[m] = "exited"} = {m \in Loops : pc[m] = "exited"}
      BY <2>6 DEF Poll, HandleRead, EventsDone, FunctorsDone, TimersDone, At, TypeOK
    <3>2. UNCHANGED <<functors, functorList, executed>>
      BY <2>6 DEF Poll, HandleRead, EventsDone, FunctorsDone, TimersDone
    <3>3. QED
      BY <3>1, <3>2 DEF Abstract!taskVars
  <2>7. ASSUME NEW t \in Threads, Wakeup(t) \/ \E l \in Loops : Quit(t, l)
        PROVE  UNCHANGED Abstract!taskVars
    BY <2>7 DEF Wakeup, Quit, Abstract!taskVars
  <2>8. CASE UNCHANGED vars
    BY <2>8 DEF vars, Abstract!taskVars
  <2>9. QED
    BY <2>1, <2>2, <2>3, <2>4, <2>5, <2>6, <2>7, <2>8 DEF Next, Calls, LoopStep
<1>3. QED
  BY <1>1, <1>2, TypeCorrect, InductiveInvariant, PTL DEF Spec, Abstract!TasksSafeSpec
==============================================================================
