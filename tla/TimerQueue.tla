------------------------------ MODULE TimerQueue ------------------------------
(***************************************************************************)
(* The timers of one loop: runAfter, runAt and runEvery put a Timer into a *)
(* heap; at the end of every round of loop() handleExpriedEvent takes the  *)
(* expired ones off its top, and a Timer runs its callback in its          *)
(* destructor; Poller::SetpollTimeout computes from the top how long the   *)
(* next poll() may sleep.                                                  *)
(*                                                                         *)
(* Everything happens on the loop's thread; what moves meanwhile is the    *)
(* clock, which the code reads once per test of a timer, once more for     *)
(* the next deadline of a repeating one, and once for the timeout.  The    *)
(* clock never goes back.  Units stand for microseconds.                   *)
(***************************************************************************)
EXTENDS Integers

CONSTANTS Timers,   \* timers user code adds, each once (the bound)
          Delays,   \* the delays and periods it gives
          Milli,    \* units in a millisecond (1000)
          IntMax,   \* the largest int: the longest timeout of poll()
          MaxTime   \* bound: the clock stops there

ASSUME TimerConstants ==
    /\ Delays \subseteq Nat \ {0}
    /\ Milli \in Nat \ {0}
    /\ IntMax \in Nat
    /\ MaxTime \in Nat

Forever == -1
OneShot == 0
Never == -1

VARIABLES
    now,      \* what gettimeofday says
    stage,    \* where the loop is
    queue,    \* _timerQueue: a set, as only its top is ever looked at
    current,  \* currentTimer of handleExpriedEvent, when it has expired
    wakeAt,   \* when the timeout of poll() ends
    added,    \* the timers added so far
    ran       \* ran[t]: when handleExpriedEvent last dealt with timer t

vars == <<now, stage, queue, current, wakeAt, added, ran>>

\* A Timer: whose it is, its _expiredTime, and its _repeatSecond if it repeats.
TimerType == [timer : Timers, due : Nat, period : Delays \cup {OneShot}]

TypeOK ==
    /\ now \in 0 .. MaxTime
    /\ stage \in {"work", "handle", "expired", "callback", "next", "poll"}
    /\ queue \in SUBSET TimerType
    /\ current \in SUBSET TimerType /\ \A q, r \in current : q = r
    /\ wakeAt \in Nat \cup {Forever}
    /\ added \in SUBSET Timers
    /\ ran \in [Timers -> Nat \cup {Never}]

Init ==
    /\ now = 0
    /\ stage = "work"
    /\ queue = {} /\ current = {}
    /\ wakeAt = Forever
    /\ added = {}
    /\ ran = [t \in Timers |-> Never]

\* q is the top of the heap.
IsTop(q) == q \in queue /\ \A r \in queue : q.due <= r.due

------------------------------------------------------------------------------
(* User code: the channel callbacks, the functors, the timer callbacks.    *)

Push(t, due, period) == queue' = queue \cup {[timer |-> t, due |-> due, period |-> period]}

\* runAfter, runAt (a deadline of any age) and runEvery, through
\* Poller::add_timer.
Add ==
    /\ stage \in {"work", "callback"}
    /\ \E t \in Timers \ added :
        /\ added' = added \cup {t}
        /\ \/ \E d \in Delays : Push(t, now + d, OneShot) \/ Push(t, now + d, d)
           \/ \E due \in 0 .. MaxTime : Push(t, due, OneShot)
    /\ UNCHANGED <<now, stage, current, wakeAt, ran>>

------------------------------------------------------------------------------
(* The loop                                                                *)

Goes(from, to) == stage = from /\ stage' = to

\* The callbacks and functors of this round are done.
HandleExpired ==
    /\ Goes("work", "handle")
    /\ UNCHANGED <<now, queue, current, wakeAt, added, ran>>

\* Mutant: the operands are the wrong way round.
IsValidSwapped(q) == ~(now < q.due)

\* isValid()
IsValid(q) == ~(q.due < now)

\* The top of the heap has expired.
Expire ==
    /\ Goes("handle", "expired")
    /\ \E q \in queue : IsTop(q) /\ ~IsValid(q) /\ current' = {q}
    /\ UNCHANGED <<now, queue, wakeAt, added, ran>>

\* Mutant: the deadline moves on from the old one, not from the present.
SuccessorFromDue(q) == IF q.period = OneShot THEN {} ELSE {[q EXCEPT !.due = @ + q.period]}

\* getNextExpiredTime: a period from now, which is read again.
Successor(q) == IF q.period = OneShot THEN {} ELSE {[q EXCEPT !.due = now + q.period]}

\* addTimer of the successor, then pop() of whatever is the top by now; the
\* timer popped runs its callback when its last shared_ptr goes.
Requeue ==
    /\ Goes("expired", "callback")
    /\ \E q \in current :
        LET all == queue \cup Successor(q) IN
        \E top \in all :
            /\ \A r \in all : top.due <= r.due
            /\ q.due = top.due => top = q
            /\ queue' = all \ {top}
            /\ current' = {top}
            /\ ran' = [ran EXCEPT ![top.timer] = now]
    /\ UNCHANGED <<now, wakeAt, added>>

\* ~Timer has run the callback; the while loop looks at the next top.
CallbackDone ==
    /\ Goes("callback", "handle")
    /\ current' = {}
    /\ UNCHANGED <<now, queue, wakeAt, added, ran>>

\* static_cast<int> of a 64-bit number of milliseconds.
ToInt(n) ==
    LET low == n % (2 * (IntMax + 1))
    IN  IF low > IntMax THEN low - 2 * (IntMax + 1) ELSE low

\* Mutant: a deadline that has passed is not told apart.
TimeoutSigned(due) == ToInt((due - now) \div Milli)

\* Mutant: rounded up to whole milliseconds.
TimeoutUp(due) == IF due <= now THEN 0 ELSE ToInt((due - now + Milli - 1) \div Milli)

\* SetpollTimeout, when there is a timer.
Timeout(due) == IF due <= now THEN 0 ELSE ToInt((due - now) \div Milli)

\* handleExpriedEvent finds no expired timer; the next round begins.
NoneExpired ==
    /\ Goes("handle", "next")
    /\ \A q \in queue : IsTop(q) => IsValid(q)
    /\ UNCHANGED <<now, queue, current, wakeAt, added, ran>>

\* Poller::poll: SetpollTimeout reads the clock again, and for poll() any
\* negative timeout is "for ever".
Sleep ==
    /\ Goes("next", "poll")
    /\ \/ queue = {} /\ wakeAt' = Forever
       \/ \E q \in queue :
            /\ IsTop(q)
            /\ wakeAt' = IF Timeout(q.due) < 0 THEN Forever ELSE now + Milli * Timeout(q.due)
    /\ UNCHANGED <<now, queue, current, added, ran>>

\* poll() returns at its timeout.
PollTimeout ==
    /\ Goes("poll", "work")
    /\ wakeAt # Forever /\ wakeAt <= now
    /\ UNCHANGED <<now, queue, current, wakeAt, added, ran>>

\* poll() returns for a channel.
PollEvent ==
    /\ Goes("poll", "work")
    /\ UNCHANGED <<now, queue, current, wakeAt, added, ran>>

Tick ==
    /\ now < MaxTime
    /\ now' = now + 1
    /\ UNCHANGED <<stage, queue, current, wakeAt, added, ran>>

------------------------------------------------------------------------------
LoopStep ==
    \/ HandleExpired
    \/ Expire \/ Requeue \/ CallbackDone
    \/ NoneExpired \/ Sleep \/ PollTimeout

Next == Add \/ LoopStep \/ PollEvent \/ Tick

Spec == Init /\ [][Next]_vars

\* The clock moves and the loop's thread runs; no channel owes an event, no
\* user code a timer.
FairSpec == Spec /\ WF_vars(Tick) /\ WF_vars(LoopStep)

------------------------------------------------------------------------------
(* Properties                                                              *)

\* A timer runs its callback after its deadline, and the timer that is popped
\* is the one that was found expired, although its successor has been pushed
\* in between (Timer.cpp:43-54).
NotEarly == stage = "callback" => \A q \in current : q.due < now

\* A timer is in the heap once, and one that does not repeat is never in it
\* again after it has run: no callback runs twice (Timer.cpp:48-54).
RunsOnce ==
    \A q \in queue :
        /\ \A r \in queue : r.timer = q.timer => r = q
        /\ q.period = OneShot => ran[q.timer] = Never

\* Two runs of a repeating timer are more than its period apart, however late
\* the loop comes to it (Timer.h:22, Timer.cpp:50-53).
PeriodKept ==
    [][\A q \in queue :
        q.period # OneShot /\ ran[q.timer] # Never /\ ran'[q.timer] # ran[q.timer]
            => ran'[q.timer] - ran[q.timer] > q.period]_vars

\* A timer poll() can wait for: its distance in milliseconds is an int.
InRange(q) == (q.due - now) \div Milli <= IntMax

\* poll() never sleeps past the next deadline, and at most a millisecond
\* short of it, so the rounds with timeout 0 before a deadline last less than
\* a millisecond (Poller.cpp:93-108).
WakesInTime ==
    [][\A q \in queue :
        Sleep /\ IsTop(q) /\ InRange(q) =>
            /\ wakeAt' # Forever
            /\ wakeAt' <= q.due \/ wakeAt' = now
            /\ q.due - wakeAt' < Milli]_vars

\* A timer whose distance has come into the range of int runs, whatever the
\* others do and although nothing but the timeout wakes the loop
\* (Eventloop.cpp:26-43, Timer.cpp:39-62).
TimerRuns ==
    \A t \in Timers :
        (stage # "poll" /\ \E q \in queue : q.timer = t /\ InRange(q) /\ q.due < MaxTime)
            ~> (stage = "callback" /\ \E q \in current : q.timer = t)

\* The inductive invariant behind the safety properties: the timer found
\* expired stays the top until it is popped, and the deadline of a repeating
\* timer is a period or more after its last run.
IInv ==
    /\ TypeOK
    /\ current # {} <=> stage \in {"expired", "callback"}
    /\ stage = "expired" => \A q \in current : IsTop(q) /\ q.due < now
    /\ \A q \in queue : q.timer \in added
    /\ \A t \in Timers : ran[t] # Never => t \in added
    /\ \A q \in queue :
            q.period # OneShot /\ ran[q.timer] # Never => q.due >= ran[q.timer] + q.period
    /\ NotEarly
    /\ RunsOnce
==============================================================================
