--------------------------- MODULE Threadpool_proofs ---------------------------
(***************************************************************************)
(* Proofs about Threadpool: the inductive invariant IInv, and from it that  *)
(* no task is overlooked, that nobody sleeps in a stopped pool, that start() *)
(* sees the id of every thread and that a stopped pool is quiet, for any     *)
(* number of threads and tasks.                                            *)
(***************************************************************************)
EXTENDS Threadpool, FiniteSetTheorems, TLAPS

USE ThreadpoolConstants

\* Woken is finite, so that its cardinality counts.
LEMMA WokenFinite == IsFiniteSet(Woken)
<1>1. IsFiniteSet(Workers)
  BY FS_Interval DEF Workers
<1> QED
  BY <1>1, FS_Subset DEF Woken

\* A worker that is woken adds one to Woken.
LEMMA WakeOne ==
    ASSUME TypeOK, NEW w \in Waiting, pc' = [pc EXCEPT ![w] = "woken"]
    PROVE  Cardinality(Woken') = Cardinality(Woken) + 1 /\ Waiting' \subseteq Waiting
<1>1. Woken' = Woken \cup {w} /\ w \notin Woken
  BY DEF TypeOK, Woken, Waiting
<1>2. Waiting' \subseteq Waiting
  BY DEF TypeOK, Waiting
<1> QED
  BY <1>1, <1>2, WokenFinite, FS_AddElement

\* Types are preserved.
LEMMA TypeStep == TypeOK /\ ThreadInv /\ [Next]_vars => TypeOK'
<1> SUFFICES ASSUME TypeOK, ThreadInv, [Next]_vars PROVE TypeOK'
  OBVIOUS
<1> USE DEF TypeOK, OwnerStages, Stages, ownerVars, taskVars
<1>1. CASE Start
  BY <1>1 DEF Start
<1>2. CASE CreateThread
  <2>1. created + 1 \in Workers /\ created + 1 \in 0 .. ThreadNums
    BY <1>2 DEF CreateThread, Workers
  <2> QED
    BY <1>2, <2>1 DEF CreateThread
<1>3. CASE LatchWait
  BY <1>3 DEF LatchWait
<1>4. CASE StartDone
  BY <1>4 DEF StartDone
<1>5. CASE Join
  BY <1>5 DEF Join
<1>6. CASE Stop
  <2>1. pc' \in [Workers -> Stages]
    BY <1>6 DEF Stop
  <2> QED
    BY <1>6, <2>1 DEF Stop
<1>7. ASSUME NEW w \in Workers, WorkerStep(w) PROVE TypeOK'
  <2>1. CASE StoreTid(w)
    BY <2>1 DEF StoreTid
  <2>2. CASE CountDown(w)
    BY <2>2 DEF CountDown
  <2>3. CASE CheckStarted(w)
    BY <2>3 DEF CheckStarted
  <2>4. CASE Take(w)
    BY <2>4 DEF Take
  <2>5. CASE Run(w)
    BY <2>5 DEF Run, ThreadInv
  <2> QED
    BY <1>7, <2>1, <2>2, <2>3, <2>4, <2>5 DEF WorkerStep
<1>8. CASE WakeForNothing
  BY <1>8 DEF WakeForNothing, Waiting
<1>9. CASE AddTask
  <2>1. added + 1 \in 0 .. MaxTasks /\ added + 1 \in Tasks
    BY <1>9 DEF AddTask, Tasks
  <2>2. pc' \in [Workers -> Stages]
    BY <1>9 DEF AddTask, Waiting
  <2> QED
    BY <1>9, <2>1, <2>2 DEF AddTask
<1>10. CASE UNCHANGED vars
  BY <1>10 DEF vars
<1> QED
  BY <1>1, <1>2, <1>3, <1>4, <1>5, <1>6, <1>7, <1>8, <1>9, <1>10 DEF Next, OwnerStep

\* Where each thread and its owner are.
LEMMA ThreadStep == TypeOK /\ ThreadInv /\ [Next]_vars => ThreadInv'
<1> SUFFICES ASSUME TypeOK, ThreadInv, [Next]_vars PROVE ThreadInv'
  OBVIOUS
<1> USE DEF TypeOK, ThreadInv, PastLatch, ownerVars, taskVars
<1>1. CASE Start
  BY <1>1 DEF Start
<1>2. CASE CreateThread
  <2>1. created + 1 \in Workers /\ created + 1 \notin running /\ pc[created + 1] = "none"
    BY <1>2 DEF CreateThread, Workers
  <2> QED
    BY <1>2, <2>1 DEF CreateThread, Workers
<1>3. CASE LatchWait
  BY <1>3 DEF LatchWait, Workers
<1>4. CASE StartDone
  BY <1>4 DEF StartDone
<1>5. CASE Join
  BY <1>5 DEF Join, Workers
<1>6. CASE Stop
  BY <1>6 DEF Stop, Workers
<1>7. ASSUME NEW w \in Workers, WorkerStep(w) PROVE ThreadInv'
  <2>1. CASE StoreTid(w)
    BY <2>1 DEF StoreTid, Workers
  <2>2. CASE CountDown(w)
    BY <2>2 DEF CountDown, Workers
  <2>3. CASE CheckStarted(w)
    BY <2>3 DEF CheckStarted, Workers
  <2>4. CASE Take(w)
    BY <2>4 DEF Take, Workers, Tasks, NoTask
  <2>5. CASE Run(w)
    BY <2>5 DEF Run, Workers
  <2> QED
    BY <1>7, <2>1, <2>2, <2>3, <2>4, <2>5 DEF WorkerStep
<1>8. CASE WakeForNothing
  BY <1>8 DEF WakeForNothing, Waiting
<1>9. CASE AddTask
  BY <1>9 DEF AddTask, Waiting
<1>10. CASE UNCHANGED vars
  BY <1>10 DEF vars
<1> QED
  BY <1>1, <1>2, <1>3, <1>4, <1>5, <1>6, <1>7, <1>8, <1>9, <1>10 DEF Next, OwnerStep

\* A worker that moves between stages other than these two changes neither set.
LEMMA Elsewhere ==
    ASSUME TypeOK, NEW w \in Workers, pc[w] \notin {"waiting", "woken"},
           NEW s, s \notin {"waiting", "woken"}, pc' = [pc EXCEPT ![w] = s]
    PROVE  Waiting' = Waiting /\ Woken' = Woken
BY DEF TypeOK, Waiting, Woken

\* Workers fall asleep only in a pool that has not been stopped.
LEMMA SleeperStep ==
    TypeOK /\ ThreadInv /\ NoSleeperOnceStopped /\ [Next]_vars => NoSleeperOnceStopped'
<1> SUFFICES ASSUME TypeOK, ThreadInv, NoSleeperOnceStopped, [Next]_vars
             PROVE  NoSleeperOnceStopped'
  OBVIOUS
<1> USE DEF NoSleeperOnceStopped, ownerVars, taskVars
<1>1. CASE Start
  BY <1>1 DEF Start
<1>2. CASE CreateThread
  BY <1>2 DEF CreateThread, ThreadInv
<1>3. CASE LatchWait \/ StartDone \/ Join
  BY <1>3 DEF LatchWait, StartDone, Join, Waiting
<1>4. CASE Stop
  BY <1>4 DEF Stop, Waiting
<1>5. ASSUME NEW w \in Workers, WorkerStep(w) PROVE NoSleeperOnceStopped'
  BY <1>5 DEF WorkerStep, StoreTid, CountDown, CheckStarted, Take, Run, Waiting, TypeOK
<1>6. CASE WakeForNothing
  BY <1>6 DEF WakeForNothing, Waiting, TypeOK
<1>7. CASE AddTask
  BY <1>7 DEF AddTask, Waiting, TypeOK
<1>8. CASE UNCHANGED vars
  BY <1>8 DEF vars, Waiting
<1> QED
  BY <1>1, <1>2, <1>3, <1>4, <1>5, <1>6, <1>7, <1>8 DEF Next, OwnerStep

\* One worker is woken per task while any sleeps, and takes at most one away.
LEMMA OverlookedStep ==
    TypeOK /\ ThreadInv /\ NoTaskOverlooked /\ [Next]_vars => NoTaskOverlooked'
<1> SUFFICES ASSUME TypeOK, ThreadInv, NoTaskOverlooked, [Next]_vars
             PROVE  NoTaskOverlooked'
  OBVIOUS
<1> USE DEF NoTaskOverlooked, ownerVars, taskVars
<1>0. Cardinality(Woken) \in Nat /\ Len(queue) \in Nat
  BY WokenFinite, FS_CardinalityType DEF TypeOK
<1>1. CASE Start
  BY <1>1 DEF Start, Waiting, Woken
<1>2. CASE CreateThread
  <2>1. created + 1 \in Workers /\ pc[created + 1] = "none" /\ UNCHANGED queue
    BY <1>2 DEF CreateThread, ThreadInv, TypeOK, Workers
  <2>2. CASE UNCHANGED pc
    BY <2>1, <2>2 DEF Waiting, Woken
  <2>3. CASE pc' = [pc EXCEPT ![created + 1] = "born"]
    BY <2>1, <2>3, Elsewhere
  <2> QED
    BY <1>2, <2>2, <2>3 DEF CreateThread
<1>3. CASE LatchWait \/ StartDone \/ Join
  BY <1>3 DEF LatchWait, StartDone, Join, Waiting, Woken
<1>4. CASE Stop
  BY <1>4 DEF Stop, Waiting
<1>5. ASSUME NEW w \in Workers, WorkerStep(w) PROVE NoTaskOverlooked'
  <2>1. CASE StoreTid(w) \/ CountDown(w) \/ Run(w)
    <3>1. pc[w] \notin {"waiting", "woken"} /\ UNCHANGED queue
      BY <2>1 DEF StoreTid, CountDown, Run
    <3>2. Waiting' = Waiting /\ Woken' = Woken
      BY <2>1, <3>1, Elsewhere DEF StoreTid, CountDown, Run
    <3> QED
      BY <3>1, <3>2
  <2>2. CASE CheckStarted(w)
    <3>1. Waiting' = Waiting /\ Woken' = Woken
      BY <2>2, Elsewhere DEF CheckStarted
    <3> QED
      BY <2>2, <3>1 DEF CheckStarted
  <2>3. CASE Take(w) /\ queue = <<>>
    <3>1. IsFiniteSet(Woken')
      <4>1. IsFiniteSet(Workers)
        BY FS_Interval DEF Workers
      <4>2. Woken' \subseteq Workers
        BY DEF Woken
      <4> QED
        BY <4>1, <4>2, FS_Subset
    <3>2. queue' = <<>> /\ Len(queue') = 0
      BY <2>3 DEF Take
    <3> QED
      BY <3>1, <3>2, FS_CardinalityType
  <2>4. CASE Take(w) /\ queue # <<>>
    <3>1. Len(queue') = Len(queue) - 1 /\ pc' = [pc EXCEPT ![w] = "run"]
      BY <2>4 DEF Take, TypeOK
    <3>2. CASE pc[w] = "take"
      <4>1. Waiting' = Waiting /\ Woken' = Woken
        BY <3>1, <3>2, Elsewhere
      <4> QED
        BY <3>1, <4>1, <1>0
    <3>3. CASE pc[w] = "woken"
      <4>1. w \in Woken /\ Woken' = Woken \ {w} /\ Waiting' = Waiting
        BY <3>1, <3>3 DEF TypeOK, Woken, Waiting
      <4>2. Cardinality(Woken') = Cardinality(Woken) - 1
        BY <4>1, WokenFinite, FS_RemoveElement
      <4> QED
        BY <3>1, <4>1, <4>2, <1>0
    <3> QED
      BY <2>4, <3>2, <3>3 DEF Take
  <2> QED
    BY <1>5, <2>1, <2>2, <2>3, <2>4 DEF WorkerStep
<1>6. CASE WakeForNothing
  <2>1. UNCHANGED queue
    BY <1>6 DEF WakeForNothing
  <2>2. CASE UNCHANGED pc
    BY <2>1, <2>2 DEF Waiting, Woken
  <2>3. CASE \E w \in Waiting : pc' = [pc EXCEPT ![w] = "woken"]
    <3>1. Cardinality(Woken') = Cardinality(Woken) + 1 /\ Waiting' \subseteq Waiting
      BY <2>3, WakeOne
    <3> QED
      BY <2>1, <3>1, <1>0
  <2> QED
    BY <1>6, <2>2, <2>3 DEF WakeForNothing
<1>7. CASE AddTask
  <2>1. CASE created = 0 /\ UNCHANGED <<queue, pc>>
    BY <2>1 DEF Waiting, Woken
  <2>2. CASE Waiting = {} /\ UNCHANGED pc
    BY <2>2 DEF Waiting
  <2>3. CASE queue' = Append(queue, added + 1) /\ \E w \in Waiting : pc' = [pc EXCEPT ![w] = "woken"]
    <3>1. Len(queue') = Len(queue) + 1
      BY <2>3, <1>7 DEF TypeOK, AddTask
    <3> QED
      <4>1. Cardinality(Woken') = Cardinality(Woken) + 1 /\ Waiting' \subseteq Waiting
        BY <2>3, WakeOne
      <4> QED
        BY <3>1, <4>1, <1>0
  <2> QED
    BY <1>7, <2>1, <2>2, <2>3 DEF AddTask
<1>8. CASE UNCHANGED vars
  BY <1>8 DEF vars, Waiting, Woken
<1> QED
  BY <1>1, <1>2, <1>3, <1>4, <1>5, <1>6, <1>7, <1>8 DEF Next, OwnerStep

------------------------------------------------------------------------------
LEMMA InitInv == Init => IInv
<1> SUFFICES ASSUME Init PROVE IInv
  OBVIOUS
<1>1. TypeOK
  <2>1. 0 \in 0 .. ThreadNums /\ 0 \in 0 .. MaxTasks
    OBVIOUS
  <2>2. /\ latch \in [Workers -> {0, 1}]
        /\ pc \in [Workers -> Stages]
        /\ task \in [Workers -> Tasks \cup {NoTask}]
    BY DEF Init, Stages
  <2>3. queue \in Seq(Tasks)
    BY DEF Init
  <2>4. started \in BOOLEAN /\ owner \in OwnerStages
    BY DEF Init, OwnerStages
  <2> QED
    BY <2>1, <2>2, <2>3, <2>4 DEF Init, TypeOK
<1>2. ThreadInv
  BY DEF Init, ThreadInv, PastLatch, Workers
<1>3. Waiting = {}
  BY DEF Init, Waiting
<1> QED
  BY <1>1, <1>2, <1>3 DEF IInv, NoTaskOverlooked, NoSleeperOnceStopped

\* The inductive invariant holds in every reachable state.
THEOREM InductiveInvariant == Spec => []IInv
<1>1. IInv /\ [Next]_vars => IInv'
  BY TypeStep, ThreadStep, SleeperStep, OverlookedStep DEF IInv
<1> QED
  BY InitInv, <1>1, PTL DEF Spec

\* A sleeping worker never has a task left for it: each queued task has a
\* woken worker of its own (the notify of addTask, one per task).
THEOREM EveryTaskHasAWorker == Spec => []NoTaskOverlooked
<1>1. IInv => NoTaskOverlooked
  BY DEF IInv
<1> QED
  BY <1>1, InductiveInvariant, PTL

\* stop() leaves nobody asleep in take().
THEOREM StopWakesAll == Spec => []NoSleeperOnceStopped
<1>1. IInv => NoSleeperOnceStopped
  BY DEF IInv
<1> QED
  BY <1>1, InductiveInvariant, PTL

\* The latch makes start() wait for the id of each thread.
THEOREM LatchPublishesTid == Spec => []TidStored
<1>1. IInv => TidStored
  BY DEF IInv, TypeOK, ThreadInv, TidStored, PastLatch
<1> QED
  BY <1>1, InductiveInvariant, PTL

\* No worker outlives stop().
THEOREM StoppedPoolIsQuiet == Spec => []QuietAfterStop
<1>1. IInv => QuietAfterStop
  BY DEF IInv, TypeOK, ThreadInv, QuietAfterStop, Workers
<1> QED
  BY <1>1, InductiveInvariant, PTL
==============================================================================
