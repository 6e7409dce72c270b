-------------------------- MODULE TimerQueue_proofs --------------------------
(***************************************************************************)
(* Proofs about TimerQueue, for any timers, delays, width of int and       *)
(* resolution of poll(): no timer runs early or twice, the runs of a       *)
(* repeating timer are a period apart, and poll() does not sleep past a    *)
(* deadline its timeout can express.                                       *)
(***************************************************************************)
EXTENDS TimerQueue, TLAPS

USE TimerConstants

\* What division leaves.
LEMMA Division ==
    ASSUME NEW a \in Nat, NEW m \in Nat \ {0}
    PROVE  /\ a \div m \in Nat
           /\ m * (a \div m) <= a
           /\ a < m * (a \div m) + m
OBVIOUS

\* The cast keeps what fits.
LEMMA CastKeeps == ASSUME NEW n \in 0 .. IntMax PROVE ToInt(n) = n
<1>1. n % (2 * (IntMax + 1)) = n
  <2> DEFINE w == 2 * (IntMax + 1)
  <2>1. w \in Nat \ {0} /\ n \in Nat /\ n < w
    OBVIOUS
  <2> HIDE DEF w
  <2>2. n % w = n
    BY <2>1
  <2> QED
    BY <2>2 DEF w
<1> QED
  BY <1>1 DEF ToInt

\* The successor of an expired timer is due after it, so what is popped is
\* the timer that was found expired.
LEMMA PopsExpired ==
    ASSUME IInv, Requeue
    PROVE  \E q \in current :
              /\ current = {q} /\ current' = {q}
              /\ q \in queue /\ q.due < now
              /\ queue' = (queue \ {q}) \cup Successor(q)
              /\ Successor(q) = {} \/ q.period # OneShot
              /\ ran' = [ran EXCEPT ![q.timer] = now]
<1>1. PICK q \in current : \E top \in queue \cup Successor(q) :
        /\ \A r \in queue \cup Successor(q) : top.due <= r.due
        /\ q.due = top.due => top = q
        /\ queue' = (queue \cup Successor(q)) \ {top}
        /\ current' = {top}
        /\ ran' = [ran EXCEPT ![top.timer] = now]
  BY DEF Requeue
<1>2. q \in TimerType /\ current = {q} /\ IsTop(q) /\ q.due < now
  BY DEF IInv, TypeOK, Requeue, Goes
<1>3. \A s \in Successor(q) : s.due \in Int /\ q.due < s.due
  BY <1>2 DEF Successor, TimerType, OneShot, IInv, TypeOK
<1>4. PICK top \in queue \cup Successor(q) :
        /\ \A r \in queue \cup Successor(q) : top.due <= r.due
        /\ q.due = top.due => top = q
        /\ queue' = (queue \cup Successor(q)) \ {top}
        /\ current' = {top}
        /\ ran' = [ran EXCEPT ![top.timer] = now]
  BY <1>1
<1>5. top \notin Successor(q)
  BY <1>2, <1>3, <1>4 DEF IsTop, TimerType
<1>6. top = q
  BY <1>2, <1>4, <1>5 DEF IsTop, IInv, TypeOK, TimerType
<1>7. q \notin Successor(q)
  BY <1>2, <1>3 DEF TimerType
<1> QED
  BY <1>2, <1>4, <1>6, <1>7 DEF IsTop, Successor

\* Types are preserved.
LEMMA TypeStep == IInv /\ [Next]_vars => TypeOK'
<1> SUFFICES ASSUME IInv, [Next]_vars PROVE TypeOK'
  OBVIOUS
<1> USE DEF IInv, TypeOK, Goes
<1>1. CASE Add
  <2>1. PICK t \in Timers, due \in Nat, p \in Delays \cup {OneShot} :
            Push(t, due, p) /\ added' = added \cup {t}
    BY <1>1 DEF Add, OneShot
  <2>2. [timer |-> t, due |-> due, period |-> p] \in TimerType
    BY DEF TimerType
  <2> QED
    BY <1>1, <2>1, <2>2 DEF Add, Push
<1>2. CASE HandleExpired
  BY <1>2 DEF HandleExpired
<1>3. CASE Expire
  BY <1>3 DEF Expire
<1>4. CASE Requeue
  <2>1. PICK q \in current : /\ current' = {q} /\ q \in queue
                             /\ queue' = (queue \ {q}) \cup Successor(q)
                             /\ ran' = [ran EXCEPT ![q.timer] = now]
    BY <1>4, PopsExpired
  <2>2. Successor(q) \subseteq TimerType
    BY DEF Successor, TimerType
  <2>3. q.timer \in Timers
    BY DEF TimerType
  <2> QED
    BY <1>4, <2>1, <2>2, <2>3 DEF Requeue
<1>5. CASE CallbackDone
  BY <1>5 DEF CallbackDone
<1>6. CASE NoneExpired
  BY <1>6 DEF NoneExpired
<1>7. CASE Sleep
  <2>1. wakeAt' \in Nat \cup {Forever}
    <3>1. CASE wakeAt' = Forever
      BY <3>1
    <3>2. ASSUME NEW q \in queue, ~(Timeout(q.due) < 0), wakeAt' = now + Milli * Timeout(q.due)
          PROVE  wakeAt' \in Nat
      <4>1. Timeout(q.due) \in Nat
        <5>1. q.due \in Nat
          BY DEF TimerType
        <5>2. CASE q.due <= now
          BY <5>2 DEF Timeout
        <5>3. CASE ~(q.due <= now)
          <6>1. (q.due - now) \div Milli \in Nat
            BY <5>1, <5>3, Division
          <6>2. ToInt((q.due - now) \div Milli) \in Int
            BY <6>1 DEF ToInt
          <6> QED
            BY <3>2, <5>3, <6>2 DEF Timeout
        <5> QED
          BY <5>2, <5>3
      <4> QED
        BY <3>2, <4>1
    <3> QED
      BY <1>7, <3>1, <3>2 DEF Sleep
  <2> QED
    BY <1>7, <2>1 DEF Sleep
<1>8. CASE PollTimeout
  BY <1>8 DEF PollTimeout
<1>9. CASE PollEvent
  BY <1>9 DEF PollEvent
<1>10. CASE Tick
  BY <1>10 DEF Tick
<1>11. CASE UNCHANGED vars
  BY <1>11 DEF vars
<1> QED
  BY <1>1, <1>2, <1>3, <1>4, <1>5, <1>6, <1>7, <1>8, <1>9, <1>10, <1>11 DEF Next, LoopStep

\* The rest of the invariant is preserved.
LEMMA QueueStep == IInv /\ [Next]_vars => IInv'
<1> SUFFICES ASSUME IInv, [Next]_vars PROVE IInv'
  OBVIOUS
<1>0. TypeOK'
  BY TypeStep
<1> USE DEF IInv, TypeOK, NotEarly, RunsOnce, Goes
<1>1. CASE Add
  <2>1. PICK t \in Timers \ added, due \in Nat, p \in Delays \cup {OneShot} :
            Push(t, due, p) /\ added' = added \cup {t}
    BY <1>1 DEF Add, OneShot
  <2> DEFINE new == [timer |-> t, due |-> due, period |-> p]
  <2>2. queue' = queue \cup {new} /\ new.timer = t /\ ran[t] = Never
    BY <2>1 DEF Push
  <2>3. \A q \in queue : q.timer # t
    BY <2>1
  <2> QED
    BY <1>0, <1>1, <2>1, <2>2, <2>3 DEF Add
<1>2. CASE HandleExpired
  BY <1>0, <1>2 DEF HandleExpired
<1>3. CASE Expire
  BY <1>0, <1>3 DEF Expire, IsValid, IsTop
<1>4. CASE Requeue
  <2>1. PICK q \in current :
              /\ current = {q} /\ current' = {q}
              /\ q \in queue /\ q.due < now
              /\ queue' = (queue \ {q}) \cup Successor(q)
              /\ Successor(q) = {} \/ q.period # OneShot
              /\ ran' = [ran EXCEPT ![q.timer] = now]
    BY <1>4, PopsExpired
  <2>2. q \in TimerType /\ q.timer \in Timers /\ ran'[q.timer] = now
    BY <2>1 DEF TimerType
  <2>3. \A r \in queue \ {q} : r.timer # q.timer /\ ran'[r.timer] = ran[r.timer]
    BY <2>1, <2>2 DEF TimerType
  <2>4. \A s \in Successor(q) :
            s.timer = q.timer /\ s.period = q.period /\ s.due = now + q.period /\ q.period # OneShot
    BY <2>1, <2>2 DEF Successor, TimerType
  <2>5. \A r, s \in Successor(q) : r = s
    BY DEF Successor
  <2>6. /\ \A r \in queue' : r.timer \in added'
        /\ \A t \in Timers : ran'[t] # Never => t \in added'
    BY <1>4, <2>1, <2>2, <2>4 DEF Requeue
  <2>7. \A r \in queue' : r.period # OneShot /\ ran'[r.timer] # Never
                            => r.due >= ran'[r.timer] + r.period
    BY <2>1, <2>2, <2>3, <2>4 DEF TimerType
  <2>8. RunsOnce'
    BY <2>1, <2>3, <2>4, <2>5
  <2> QED
    BY <1>0, <1>4, <2>1, <2>6, <2>7, <2>8 DEF Requeue
<1>5. CASE CallbackDone
  BY <1>0, <1>5 DEF CallbackDone
<1>6. CASE NoneExpired
  BY <1>0, <1>6 DEF NoneExpired
<1>7. CASE Sleep
  BY <1>0, <1>7 DEF Sleep
<1>8. CASE PollTimeout
  BY <1>0, <1>8 DEF PollTimeout
<1>9. CASE PollEvent
  BY <1>0, <1>9 DEF PollEvent
<1>10. CASE Tick
  <2>1. \A q \in current : q.due < now => q.due < now'
    BY <1>10 DEF Tick, TimerType
  <2> QED
    BY <1>0, <1>10, <2>1 DEF Tick, IsTop
<1>11. CASE UNCHANGED vars
  BY <1>0, <1>11 DEF vars, IsTop
<1> QED
  BY <1>1, <1>2, <1>3, <1>4, <1>5, <1>6, <1>7, <1>8, <1>9, <1>10, <1>11 DEF Next, LoopStep

LEMMA InitInv == Init => IInv
BY DEF Init, IInv, TypeOK, NotEarly, RunsOnce, Forever

\* The inductive invariant holds in every reachable state.
THEOREM InductiveInvariant == Spec => []IInv
BY InitInv, QueueStep, PTL DEF Spec

\* No callback runs before its deadline.
THEOREM NothingEarly == Spec => []NotEarly
<1>1. IInv => NotEarly
  BY DEF IInv
<1> QED
  BY <1>1, InductiveInvariant, PTL

\* No callback of a timer that does not repeat runs twice.
THEOREM NothingTwice == Spec => []RunsOnce
<1>1. IInv => RunsOnce
  BY DEF IInv
<1> QED
  BY <1>1, InductiveInvariant, PTL

\* A repeating timer keeps its period.
THEOREM RepeatsApart == Spec => PeriodKept
<1> DEFINE Apart == \A q \in queue :
        q.period # OneShot /\ ran[q.timer] # Never /\ ran'[q.timer] # ran[q.timer]
            => ran'[q.timer] - ran[q.timer] > q.period
<1>1. IInv /\ [Next]_vars => [Apart]_vars
  <2> SUFFICES ASSUME IInv, Next PROVE Apart
    BY DEF vars
  <2>1. CASE Requeue
    <3>1. PICK q \in current : /\ q \in queue /\ q.due < now
                               /\ ran' = [ran EXCEPT ![q.timer] = now]
      BY <2>1, PopsExpired
    <3>2. \A r \in queue : r \in TimerType /\ r.timer \in Timers
      BY DEF IInv, TypeOK, TimerType
    <3>3. SUFFICES ASSUME NEW r \in queue, r.period # OneShot, ran[r.timer] # Never,
                          ran'[r.timer] # ran[r.timer]
                   PROVE  ran'[r.timer] - ran[r.timer] > r.period
      OBVIOUS
    <3>4. r = q
      BY <3>1, <3>2, <3>3 DEF IInv, TypeOK, RunsOnce
    <3>5. ran'[q.timer] = now /\ q.due >= ran[q.timer] + q.period
      BY <3>1, <3>2, <3>3, <3>4 DEF IInv, TypeOK
    <3>6. q.due \in Int /\ now \in Int /\ ran[q.timer] \in Int /\ q.period \in Int
      <4>1. q \in TimerType /\ q.timer \in Timers
        BY <3>2, <3>4
      <4>2. q.period \in Delays \cup {OneShot} /\ q.due \in Nat
        BY <4>1 DEF TimerType
      <4>3. q.period \in Int
        <5>1. Delays \subseteq Int /\ OneShot \in Int
          BY DEF OneShot
        <5> QED
          BY <4>2, <5>1
      <4>4. now \in Int /\ ran[q.timer] \in Int
        BY <4>1 DEF IInv, TypeOK, Never
      <4> QED
        BY <4>2, <4>3, <4>4
    <3> QED
      BY <3>1, <3>4, <3>5, <3>6
  <2>2. CASE ~Requeue
    BY <2>2 DEF Next, LoopStep, Add, HandleExpired, Expire, CallbackDone, NoneExpired, Sleep,
               PollTimeout, PollEvent, Tick
  <2> QED
    BY <2>1, <2>2
<1> QED
  BY <1>1, InductiveInvariant, PTL DEF Spec, PeriodKept

\* poll() wakes for every deadline within the range of its timeout, less than
\* a millisecond before it.
THEOREM SleepsNoLonger == Spec => WakesInTime
<1> DEFINE InTime == \A q \in queue :
        Sleep /\ IsTop(q) /\ InRange(q) =>
            /\ wakeAt' # Forever
            /\ wakeAt' <= q.due \/ wakeAt' = now
            /\ q.due - wakeAt' < Milli
<1>1. IInv /\ [Next]_vars => [InTime]_vars
  <2> SUFFICES ASSUME IInv, NEW q \in queue, Sleep, IsTop(q), InRange(q)
               PROVE  /\ wakeAt' # Forever
                      /\ wakeAt' <= q.due \/ wakeAt' = now
                      /\ q.due - wakeAt' < Milli
    OBVIOUS
  <2>1. q.due \in Nat /\ now \in Nat
    BY DEF IInv, TypeOK, TimerType
  <2>2. PICK r \in queue :
            /\ IsTop(r)
            /\ wakeAt' = IF Timeout(r.due) < 0 THEN Forever ELSE now + Milli * Timeout(r.due)
    BY DEF Sleep
  <2>3. r.due = q.due
    BY <2>1, <2>2 DEF IsTop, IInv, TypeOK, TimerType
  <2>4. CASE q.due <= now
    <3>1. Timeout(r.due) = 0
      BY <2>3, <2>4 DEF Timeout
    <3>2. wakeAt' = now
      BY <2>1, <2>2, <3>1
    <3> QED
      BY <2>1, <2>4, <3>2 DEF Forever
  <2>5. CASE ~(q.due <= now)
    <3> DEFINE n == (q.due - now) \div Milli
    <3>0. q.due - now \in Nat
      BY <2>1, <2>5
    <3>1. n \in Nat /\ Milli * n <= q.due - now /\ q.due - now < Milli * n + Milli
      BY <3>0, Division
    <3>2. n \in 0 .. IntMax
      BY <3>1 DEF InRange
    <3>3. ToInt(n) = n
      BY <3>2, CastKeeps
    <3>4. Timeout(q.due) = n
      BY <2>5, <3>3 DEF Timeout
    <3> HIDE DEF n
    <3>5. wakeAt' = now + Milli * n
      BY <2>2, <2>3, <3>1, <3>4
    <3> QED
      BY <2>1, <3>1, <3>5 DEF Forever
  <2> QED
    BY <2>4, <2>5
<1> QED
  BY <1>1, InductiveInvariant, PTL DEF Spec, WakesInTime
==============================================================================
