------------------------------ MODULE EventLoop ------------------------------
(***************************************************************************)
(* The reactor: several Eventloop objects, each run by a thread of its     *)
(* own, and the cross-thread protocol by which any thread hands a closure  *)
(* to a loop (queueInLoop, runInLoop), wakes its poll() through an eventfd *)
(* (wakeup, handleRead) and stops it (quit).                               *)
(*                                                                         *)
(* One action per step another thread can interleave with: the critical    *)
(* section on _mutex is one step, the eventfd write that follows it is     *)
(* another.  Channel callbacks, functors and timer callbacks run inside    *)
(* the stages "events", "functors" and "timers" of loop(); what they may   *)
(* do to a loop is call queueInLoop, runInLoop or quit.                    *)
(***************************************************************************)
EXTENDS Naturals, Sequences

CONSTANTS Loops,    \* the event loops; each is identified with its thread
          Workers,  \* threads that run no loop
          Tasks,    \* closures; each is handed over at most once (the bound)
          NoLoop    \* "no loop to wake"

ASSUME LoopsAndWorkers ==
    /\ Loops \cap Workers = {}
    /\ NoLoop \notin Loops

Threads == Loops \cup Workers

VARIABLES
    pc,           \* pc[l]: the stage of l's iteration of loop()
    functorList,  \* _functorList, guarded by _mutex
    functors,     \* the local vector of doPendingFunctors
    calling,      \* _callingPendingFunctors
    eventfd,      \* the counter behind wakeupFd
    active,       \* is wakeupChannel still to be handled in ActivityChannel?
    quit,         \* _quit
    waking,       \* waking[t]: the loop whose wakeup() thread t is about to call
    executed,     \* history: closures executed by each loop, in order
    issued        \* the closures handed over so far

vars == <<pc, functorList, functors, calling, eventfd, active, quit, waking,
          executed, issued>>

Stages == {"loop", "poll", "events", "swap", "functors", "timers", "exited"}

TypeOK ==
    /\ pc \in [Loops -> Stages]
    /\ functorList \in [Loops -> Seq(Tasks)]
    /\ functors \in [Loops -> Seq(Tasks)]
    /\ calling \in [Loops -> BOOLEAN]
    /\ eventfd \in [Loops -> Nat]
    /\ active \in [Loops -> BOOLEAN]
    /\ quit \in [Loops -> BOOLEAN]
    /\ waking \in [Threads -> Loops \cup {NoLoop}]
    /\ executed \in [Loops -> Seq(Tasks)]
    /\ issued \in SUBSET Tasks

Init ==
    /\ pc = [l \in Loops |-> "loop"]
    /\ functorList = [l \in Loops |-> <<>>]
    /\ functors = [l \in Loops |-> <<>>]
    /\ calling = [l \in Loops |-> FALSE]
    /\ eventfd = [l \in Loops |-> 0]
    /\ active = [l \in Loops |-> FALSE]
    /\ quit = [l \in Loops |-> FALSE]
    /\ waking = [t \in Threads |-> NoLoop]
    /\ executed = [l \in Loops |-> <<>>]
    /\ issued = {}

------------------------------------------------------------------------------
(* Operations any thread may call.                                         *)

\* User code runs in thread t: always in a worker, in a loop's thread only
\* inside a callback, and never in the middle of an unfinished call.
InCallback(t) ==
    /\ waking[t] = NoLoop
    /\ t \in Loops => pc[t] \in {"events", "functors", "timers"}

\* Mutant: the flag is left out of the condition.
NeedsWakeupForeignOnly(t, l) == t # l

\* !isLoopThread() || _callingPendingFunctors
NeedsWakeup(t, l) == t # l \/ calling[l]

\* queueInLoop: push under _mutex; the wakeup, when one is due, comes after.
QueueInLoop(t, l, k) ==
    /\ InCallback(t)
    /\ k \notin issued
    /\ issued' = issued \cup {k}
    /\ functorList' = [functorList EXCEPT ![l] = Append(@, k)]
    /\ waking' = IF NeedsWakeup(t, l) THEN [waking EXCEPT ![t] = l] ELSE waking
    /\ UNCHANGED <<pc, functors, calling, eventfd, active, quit, executed>>

\* runInLoop by the loop's own thread calls the closure on the spot; by any
\* other thread it is queueInLoop.
RunNow(l, k) ==
    /\ InCallback(l)
    /\ k \notin issued
    /\ issued' = issued \cup {k}
    /\ executed' = [executed EXCEPT ![l] = Append(@, k)]
    /\ UNCHANGED <<pc, functorList, functors, calling, eventfd, active, quit, waking>>

\* Mutant: quit() stores the flag and wakes nobody.
QuitSilently(t, l) ==
    /\ InCallback(t)
    /\ ~quit[l]
    /\ quit' = [quit EXCEPT ![l] = TRUE]
    /\ UNCHANGED <<pc, functorList, functors, calling, eventfd, active, waking, executed, issued>>

\* quit: the flag is stored with no lock, then a foreign thread wakes the loop.
Quit(t, l) ==
    /\ InCallback(t)
    /\ ~quit[l]
    /\ quit' = [quit EXCEPT ![l] = TRUE]
    /\ waking' = IF t # l THEN [waking EXCEPT ![t] = l] ELSE waking
    /\ UNCHANGED <<pc, functorList, functors, calling, eventfd, active, executed, issued>>

\* wakeup: write 1 to the eventfd of the loop.
Wakeup(t) ==
    /\ waking[t] # NoLoop
    /\ eventfd' = [eventfd EXCEPT ![waking[t]] = @ + 1]
    /\ waking' = [waking EXCEPT ![t] = NoLoop]
    /\ UNCHANGED <<pc, functorList, functors, calling, active, quit, executed, issued>>

------------------------------------------------------------------------------
(* The steps of loop(), taken by the loop's thread between calls.          *)

At(l, stage) == pc[l] = stage /\ waking[l] = NoLoop

\* while (!_quit)
CheckQuit(l) ==
    /\ At(l, "loop")
    /\ pc' = [pc EXCEPT ![l] = IF quit[l] THEN "exited" ELSE "poll"]
    /\ UNCHANGED <<functorList, functors, calling, eventfd, active, quit, waking, executed, issued>>

\* poll() returns: because of the eventfd, a socket, or the timer deadline.
Poll(l) ==
    /\ At(l, "poll")
    /\ pc' = [pc EXCEPT ![l] = "events"]
    /\ active' = [active EXCEPT ![l] = eventfd[l] > 0]
    /\ UNCHANGED <<functorList, functors, calling, eventfd, quit, waking, executed, issued>>

PollWakeup(l) == eventfd[l] > 0 /\ Poll(l)

\* handleRead of wakeupChannel drains the counter.
HandleRead(l) ==
    /\ At(l, "events")
    /\ active[l]
    /\ eventfd' = [eventfd EXCEPT ![l] = 0]
    /\ active' = [active EXCEPT ![l] = FALSE]
    /\ UNCHANGED <<pc, functorList, functors, calling, quit, waking, executed, issued>>

EventsDone(l) ==
    /\ At(l, "events")
    /\ ~active[l]
    /\ pc' = [pc EXCEPT ![l] = "swap"]
    /\ UNCHANGED <<functorList, functors, calling, eventfd, active, quit, waking, executed, issued>>

\* Mutant: the list is copied, not swapped out.
CopyFunctors(l) ==
    /\ functors' = [functors EXCEPT ![l] = functorList[l]]
    /\ UNCHANGED functorList

\* doPendingFunctors: raise the flag, then take the whole list under _mutex.
TakeFunctors(l) ==
    /\ functors' = [functors EXCEPT ![l] = functorList[l]]
    /\ functorList' = [functorList EXCEPT ![l] = functors[l]]

SwapFunctors(l) ==
    /\ At(l, "swap")
    /\ pc' = [pc EXCEPT ![l] = "functors"]
    /\ calling' = [calling EXCEPT ![l] = TRUE]
    /\ TakeFunctors(l)
    /\ UNCHANGED <<eventfd, active, quit, waking, executed, issued>>

RunFunctor(l) ==
    /\ At(l, "functors")
    /\ functors[l] # <<>>
    /\ executed' = [executed EXCEPT ![l] = Append(@, Head(functors[l]))]
    /\ functors' = [functors EXCEPT ![l] = Tail(@)]
    /\ UNCHANGED <<pc, functorList, calling, eventfd, active, quit, waking, issued>>

\* Mutant: _callingPendingFunctors is never lowered.
FunctorsDoneFlagUp(l) ==
    /\ At(l, "functors")
    /\ functors[l] = <<>>
    /\ pc' = [pc EXCEPT ![l] = "timers"]
    /\ UNCHANGED <<functorList, functors, calling, eventfd, active, quit, waking, executed, issued>>

FunctorsDone(l) ==
    /\ At(l, "functors")
    /\ functors[l] = <<>>
    /\ calling' = [calling EXCEPT ![l] = FALSE]
    /\ pc' = [pc EXCEPT ![l] = "timers"]
    /\ UNCHANGED <<functorList, functors, eventfd, active, quit, waking, executed, issued>>

\* _poller->handleExpired() returns and the while loop starts over.
TimersDone(l) ==
    /\ At(l, "timers")
    /\ pc' = [pc EXCEPT ![l] = "loop"]
    /\ UNCHANGED <<functorList, functors, calling, eventfd, active, quit, waking, executed, issued>>

------------------------------------------------------------------------------
LoopStep(l) ==
    \/ CheckQuit(l)
    \/ HandleRead(l)
    \/ EventsDone(l)
    \/ SwapFunctors(l)
    \/ RunFunctor(l)
    \/ FunctorsDone(l)
    \/ TimersDone(l)

\* A timer callback of l handing a closure to l itself through queueInLoop.
QueuedByOwnTimer(t, l) == t = l /\ pc[l] = "timers"

\* Calls made by user code.  The only timer callback of this repository,
\* httpServer::onTimer, hands closures to other loops or runs them on the
\* spot (Connection::handleClose calls runInLoop), never queueInLoop to itself.
Calls ==
    \E t \in Threads, l \in Loops :
        \/ \E k \in Tasks : ~QueuedByOwnTimer(t, l) /\ QueueInLoop(t, l, k)
        \/ Quit(t, l)

Next ==
    \/ Calls
    \/ \E t \in Threads : Wakeup(t)
    \/ \E l \in Loops :
        \/ \E k \in Tasks : RunNow(l, k)
        \/ Poll(l)
        \/ LoopStep(l)

\* The scheduler runs every thread that can run: loop threads between calls,
\* and a thread that is inside queueInLoop or quit.  User code owes no call,
\* sockets and timers owe no event: poll() must return only for the eventfd.
Fairness ==
    /\ \A l \in Loops : WF_vars(LoopStep(l)) /\ WF_vars(PollWakeup(l))
    /\ \A t \in Threads : WF_vars(Wakeup(t))

Spec == Init /\ [][Next]_vars

FairSpec == Spec /\ Fairness

------------------------------------------------------------------------------
(* Properties                                                              *)

WakeupComing(l) == eventfd[l] > 0 \/ \E t \in Threads : waking[t] = l

\* The inductive invariant behind the next property: the flag is up exactly
\* while the vector is being run, the vector is empty otherwise, and whatever
\* was pushed since the last swap is either about to be swapped in this
\* iteration or has a wakeup on its way (Eventloop.cpp:103-118, 131-141).
IInv ==
    /\ TypeOK
    /\ \A l \in Loops :
        /\ calling[l] <=> pc[l] = "functors"
        /\ pc[l] # "functors" => functors[l] = <<>>
        /\ functorList[l] # <<>> => pc[l] \in {"events", "swap"} \/ WakeupComing(l)
        /\ quit[l] /\ pc[l] = "poll" => WakeupComing(l)

\* No lost wakeup (Eventloop.cpp:131-141, 87-94): a loop blocked in poll()
\* while a closure waits in _functorList, or after quit(), has its eventfd
\* readable or a thread that is about to write it.
SleeperIsWoken ==
    \A l \in Loops :
        pc[l] = "poll" /\ (functorList[l] # <<>> \/ quit[l]) => WakeupComing(l)

\* quit() (Eventloop.cpp:87-94) makes the loop return, whichever thread
\* called it and whatever the loop was doing.
QuitStopsLoop == \A l \in Loops : quit[l] ~> pc[l] = "exited"

\* Refinement: the vector being run followed by the shared list is the FIFO
\* of LoopTasks; queueInLoop appends to it, doPendingFunctors consumes it.
Abstract == INSTANCE LoopTasks WITH
    pending <- [l \in Loops |-> functors[l] \o functorList[l]],
    stopped <- {l \in Loops : pc[l] = "exited"}

\* Every loop is the FIFO executor LoopTasks: closures are executed exactly
\* once, in the order they were queued, and none waits for ever
\* (Eventloop.cpp:26-43, 103-118, 131-160).
ImplementsLoopTasks == Abstract!TasksSpec
==============================================================================
