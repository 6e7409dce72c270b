--------------------------- MODULE EventLoopThread ---------------------------
(***************************************************************************)
(* The IO threads from start to end: TCPserver::start creates the          *)
(* EventLoopThreadpool, whose start() creates one EventLoopThread after    *)
(* the other and waits in startLoop() for the loop each publishes; new     *)
(* connections are dealt to the loops in turn; the destructors quit and    *)
(* join the threads one by one.                                            *)
(*                                                                         *)
(* One owner (the main thread) makes all the calls.  A critical section on *)
(* an EventLoopThread's _mutex is one step; ~EventLoopThread takes no      *)
(* mutex.  What a loop does between two polls is in EventLoop, the latch   *)
(* of Thread::start in Threadpool.                                         *)
(***************************************************************************)
EXTENDS Naturals

CONSTANTS NumThreads,  \* _ThreadNum of the pool
          MaxConns     \* bound: connections dealt in a behaviour

ASSUME PoolConstants ==
    /\ NumThreads \in Nat \ {0}
    /\ MaxConns \in Nat

Threads == 1 .. NumThreads

VARIABLES
    owner,    \* where the main thread is
    cur,      \* the EventLoopThread it starts or destroys
    woken,    \* has _cond been signalled since the main thread waits on it?
    failed,   \* has a pthread_create failed?
    pc,       \* pc[i]: where IO thread i is
    loopPtr,  \* loopPtr[i]: is _loop of EventLoopThread i set?
    quit,     \* _quit of loop i
    eventfd,  \* is wakeupFd of loop i readable?
    next,     \* _next of the pool (from 1)
    dealt,    \* dealt[i]: connections handed to loop i
    mapKeys,  \* the loops TCPserver::connectionMap has a map for
    crashed   \* has the use of a destroyed loop killed the process?

ownerVars == <<owner, cur, woken, failed>>
threadVars == <<pc, loopPtr, quit, eventfd>>
dealVars == <<next, dealt, mapKeys>>
vars == <<ownerVars, threadVars, dealVars, crashed>>

Starting == {"create", "latch", "lock", "wait"}
Stopping == {"test", "store", "wakeup", "join", "done"}

TypeOK ==
    /\ owner \in Starting \cup {"ready", "running"} \cup Stopping
    /\ cur \in 1 .. NumThreads + 1
    /\ woken \in BOOLEAN /\ failed \in BOOLEAN /\ crashed \in BOOLEAN
    /\ pc \in [Threads -> {"none", "born", "building", "built", "loop", "poll",
                           "left", "cleared", "destroyed", "ended"}]
    /\ loopPtr \in [Threads -> BOOLEAN]
    /\ quit \in [Threads -> BOOLEAN]
    /\ eventfd \in [Threads -> BOOLEAN]
    /\ next \in Threads
    /\ dealt \in [Threads -> Nat]
    /\ mapKeys \in SUBSET Threads

Init ==
    /\ owner = "create" /\ cur = 1
    /\ woken = FALSE /\ failed = FALSE /\ crashed = FALSE
    /\ pc = [i \in Threads |-> "none"]
    /\ loopPtr = [i \in Threads |-> FALSE]
    /\ quit = [i \in Threads |-> FALSE]
    /\ eventfd = [i \in Threads |-> FALSE]
    /\ next = 1
    /\ dealt = [i \in Threads |-> 0]
    /\ mapKeys = {}

At(stage) == ~crashed /\ owner = stage

------------------------------------------------------------------------------
(* The main thread: TCPserver::start                                       *)

\* new EventLoopThread, startLoop, Thread::start: pthread_create.  When it
\* fails, startLoop goes on to wait all the same.
Create ==
    /\ At("create")
    /\ \/ /\ pc' = [pc EXCEPT ![cur] = "born"]
          /\ owner' = "latch"
          /\ UNCHANGED failed
       \/ /\ owner' = "lock"
          /\ failed' = TRUE
          /\ UNCHANGED pc
    /\ UNCHANGED <<cur, woken, loopPtr, quit, eventfd, dealVars, crashed>>

\* Thread::start returns once the new thread has stored its id.
LatchOpens ==
    /\ At("latch")
    /\ pc[cur] # "born"
    /\ owner' = "lock"
    /\ UNCHANGED <<cur, woken, failed, threadVars, dealVars, crashed>>

\* The loop is pushed into _loops; start() goes on with the next thread.
TakeLoop ==
    /\ cur' = cur + 1
    /\ owner' = IF cur < NumThreads THEN "create" ELSE "ready"

\* startLoop: while (_loop == NULL) _cond.wait(), under _mutex.
StartLoop ==
    /\ At("lock")
    /\ \/ loopPtr[cur] /\ TakeLoop /\ UNCHANGED woken
       \/ ~loopPtr[cur] /\ owner' = "wait" /\ woken' = FALSE /\ UNCHANGED cur
    /\ UNCHANGED <<failed, threadVars, dealVars, crashed>>

\* Mutant: startLoop tests with "if": whatever ends the wait, it returns.
WakeAndReturn ==
    /\ At("wait")
    /\ TakeLoop
    /\ UNCHANGED <<woken, failed, threadVars, dealVars, crashed>>

\* The wait ends by a signal, or for nothing; _loop is tested again.
Wake ==
    /\ At("wait")
    /\ owner' = "lock"
    /\ UNCHANGED <<cur, woken, failed, threadVars, dealVars, crashed>>

\* The rest of TCPserver::start: a map of connections for every loop, then
\* the acceptor starts.
StartAccepting ==
    /\ At("ready")
    /\ mapKeys' = Threads
    /\ owner' = "running"
    /\ UNCHANGED <<cur, woken, failed, threadVars, next, dealt, crashed>>

\* getNextLoop: ++_next, back to the start at the end of _loops.
NextLoop(n) == IF n + 1 > NumThreads THEN 1 ELSE n + 1

\* newConnectioninLoop: the next loop is handed the connection and woken.
Deal ==
    /\ At("running")
    /\ dealt[next] < MaxConns
    /\ dealt' = [dealt EXCEPT ![next] = @ + 1]
    /\ eventfd' = [eventfd EXCEPT ![next] = TRUE]
    /\ next' = NextLoop(next)
    /\ UNCHANGED <<ownerVars, pc, loopPtr, quit, mapKeys, crashed>>

------------------------------------------------------------------------------
(* The main thread: ~EventLoopThreadpool, one ~EventLoopThread each        *)

Stop ==
    /\ At("running")
    /\ owner' = "test" /\ cur' = 1
    /\ UNCHANGED <<woken, failed, threadVars, dealVars, crashed>>

NextThread ==
    /\ cur' = cur + 1
    /\ owner' = IF cur < NumThreads THEN "test" ELSE "done"

\* if (_loop != NULL), with no lock.
TestLoop ==
    /\ At("test")
    /\ \/ loopPtr[cur] /\ owner' = "store" /\ UNCHANGED cur
       \/ ~loopPtr[cur] /\ NextThread
    /\ UNCHANGED <<woken, failed, threadVars, dealVars, crashed>>

\* quit(): _quit = true.
QuitStore ==
    /\ At("store")
    /\ quit' = [quit EXCEPT ![cur] = TRUE]
    /\ owner' = "wakeup"
    /\ UNCHANGED <<cur, woken, failed, pc, loopPtr, eventfd, dealVars, crashed>>

Destroyed(i) == pc[i] \in {"destroyed", "ended"}

\* Mutant: quit() wakes nobody.
QuitSilently ==
    /\ At("wakeup")
    /\ owner' = "join"
    /\ UNCHANGED <<cur, woken, failed, threadVars, dealVars, crashed>>

\* The rest of quit(), isLoopThread() and wakeup(): the thread may have seen
\* _quit, left and destroyed the loop meanwhile; its memory is then read and
\* its closed descriptor written, which is for nothing or kills the process.
QuitWakeup ==
    /\ At("wakeup")
    /\ owner' = "join"
    /\ \/ ~Destroyed(cur) /\ eventfd' = [eventfd EXCEPT ![cur] = TRUE] /\ UNCHANGED crashed
       \/ Destroyed(cur) /\ crashed' \in BOOLEAN /\ UNCHANGED eventfd
    /\ UNCHANGED <<cur, woken, failed, pc, loopPtr, quit, dealVars>>

\* _thread.join(): then the members of the EventLoopThread go.
Join ==
    /\ At("join")
    /\ pc[cur] = "ended"
    /\ NextThread
    /\ UNCHANGED <<woken, failed, threadVars, dealVars, crashed>>

------------------------------------------------------------------------------
(* An IO thread: runInThread and threadFunc                                *)

Moves(i, from, to) ==
    /\ ~crashed /\ pc[i] = from
    /\ pc' = [pc EXCEPT ![i] = to]

\* runInThread stores the id and opens the latch.
CountDown(i) ==
    /\ Moves(i, "born", "building")
    /\ UNCHANGED <<ownerVars, loopPtr, quit, eventfd, dealVars, crashed>>

\* Eventloop loop; _callback(&loop).
Construct(i) ==
    /\ Moves(i, "building", "built")
    /\ UNCHANGED <<ownerVars, loopPtr, quit, eventfd, dealVars, crashed>>

\* Mutant: _cond is not notified.
PublishSilently(i) ==
    /\ Moves(i, "built", "loop")
    /\ loopPtr' = [loopPtr EXCEPT ![i] = TRUE]
    /\ UNCHANGED <<ownerVars, quit, eventfd, dealVars, crashed>>

\* _loop = &loop; _cond.notify(), under _mutex.
Publish(i) ==
    /\ Moves(i, "built", "loop")
    /\ loopPtr' = [loopPtr EXCEPT ![i] = TRUE]
    /\ woken' = (woken \/ (owner = "wait" /\ cur = i))
    /\ UNCHANGED <<owner, cur, failed, quit, eventfd, dealVars, crashed>>

\* while (!_quit)
CheckQuit(i) ==
    /\ \/ quit[i] /\ Moves(i, "loop", "left")
       \/ ~quit[i] /\ Moves(i, "loop", "poll")
    /\ UNCHANGED <<ownerVars, loopPtr, quit, eventfd, dealVars, crashed>>

\* One round of loop(): poll() returns for the eventfd or for a socket, the
\* eventfd is drained, the functors run.
Poll(i) ==
    /\ Moves(i, "poll", "loop")
    /\ eventfd' = [eventfd EXCEPT ![i] = FALSE]
    /\ UNCHANGED <<ownerVars, loopPtr, quit, dealVars, crashed>>

PollWakeup(i) == eventfd[i] /\ Poll(i)

\* _loop = NULL, under _mutex.
Clear(i) ==
    /\ Moves(i, "left", "cleared")
    /\ loopPtr' = [loopPtr EXCEPT ![i] = FALSE]
    /\ UNCHANGED <<ownerVars, quit, eventfd, dealVars, crashed>>

\* ~Eventloop at the end of threadFunc, with its closures and its wakeupFd.
DestroyLoop(i) ==
    /\ Moves(i, "cleared", "destroyed")
    /\ UNCHANGED <<ownerVars, loopPtr, quit, eventfd, dealVars, crashed>>

End(i) ==
    /\ Moves(i, "destroyed", "ended")
    /\ UNCHANGED <<ownerVars, loopPtr, quit, eventfd, dealVars, crashed>>

------------------------------------------------------------------------------
StartStep == Create \/ LatchOpens \/ StartLoop \/ (woken /\ Wake) \/ StartAccepting

StopStep == TestLoop \/ QuitStore \/ QuitWakeup \/ Join

ThreadStep(i) ==
    \/ CountDown(i) \/ Construct(i) \/ Publish(i)
    \/ CheckQuit(i)
    \/ Clear(i) \/ DestroyLoop(i) \/ End(i)

Next ==
    \/ StartStep \/ Wake \/ Deal \/ Stop \/ StopStep
    \/ \E i \in Threads : ThreadStep(i) \/ Poll(i)

Spec == Init /\ [][Next]_vars

\* Threads are scheduled; poll() owes a return only for the eventfd, a wait
\* only for a signal.  Nobody owes a connection or the end of the server.
Fairness ==
    /\ WF_vars(StartStep)
    /\ WF_vars(StopStep)
    /\ \A i \in Threads : WF_vars(ThreadStep(i)) /\ WF_vars(PollWakeup(i))

FairSpec == Spec /\ Fairness

------------------------------------------------------------------------------
(* Properties                                                              *)

\* The threads whose loop the pool holds and has not begun to destroy.
Handed == {i \in Threads :
    \/ owner \in Starting /\ i < cur
    \/ owner \in {"ready", "running"}
    \/ owner \in {"test", "store"} /\ i >= cur
    \/ owner \in {"wakeup", "join"} /\ i > cur}

\* Every Eventloop* the pool has handed out is the loop of a thread that is
\* running it, through the start of its fellows and while the pool destroys
\* those before it (EventLoopThread.cpp:20-50, EventLoopThreadpool.cpp:19-26).
LoopsServe ==
    \A i \in Handed : pc[i] \in {"loop", "poll"} /\ loopPtr[i] /\ ~quit[i]

\* The signal of threadFunc is not missed (EventLoopThread.cpp:25-45): the
\* main thread never waits, unsignalled, for a loop that is there.
StartNotMissed == owner = "wait" /\ ~woken => ~loopPtr[cur]

\* The members of an EventLoopThread are destroyed after its thread has
\* ended (EventLoopThread.cpp:11-19), so threadFunc's lock at the end of the
\* loop finds its mutex.
JoinedFirst == owner \in Stopping => \A i \in Threads : i < cur => pc[i] = "ended"

\* Round robin (EventLoopThreadpool.cpp:32-48): the numbers of connections
\* any two loops have been dealt differ by one at most.
DealtEvenly == \A i, j \in Threads : dealt[i] <= dealt[j] + 1

\* A loop that has been dealt connections finds its own map in connectionMap
\* (TCPserver.cpp:109-123) and the thread that runs it has not been left out:
\* every thread was created.
DealtToReady == \A i \in Threads : dealt[i] > 0 => i \in mapKeys /\ ~failed

\* start() returns, unless a thread cannot be created.
StartReturns == owner = "create" ~> (owner = "running" \/ failed)

\* The destructors return: quit() ends every loop wherever it is
\* (EventLoopThread.cpp:11-19), unless the use of the destroyed loop is fatal.
StopReturns == owner = "test" ~> (owner = "done" \/ crashed)

\* Where the main thread is tells how far the threads can be.
OwnerInv ==
    /\ owner \in Starting \cup {"test", "store", "wakeup", "join"} => cur <= NumThreads
    /\ owner \in {"ready", "done"} => cur = NumThreads + 1
    /\ owner \in Starting => \A i \in Threads : i > cur => pc[i] = "none"
    /\ owner = "create" => pc[cur] = "none"
    /\ owner = "latch" => pc[cur] # "none"
    /\ owner \in {"wakeup", "join"} => quit[cur]
    /\ failed => owner \in {"lock", "wait"} /\ pc[cur] = "none"

\* _loop is set while the loop is there; a loop is left only after quit(),
\* which nobody but the destructor of its own EventLoopThread calls, and
\* never sleeps in poll() once the wakeup of quit() is through.
ThreadInv ==
    \A i \in Threads :
        /\ loopPtr[i] <=> pc[i] \in {"loop", "poll", "left"}
        /\ pc[i] \in {"left", "cleared", "destroyed", "ended"} => quit[i]
        /\ quit[i] => owner \in Stopping /\ i \notin Handed
        /\ quit[i] /\ pc[i] = "poll" => eventfd[i] \/ (owner = "wakeup" /\ cur = i)

\* The loops before _next are one connection ahead of the others.
DealInv ==
    /\ owner \in {"running"} \cup Stopping => mapKeys = Threads
    /\ owner \in Starting \cup {"ready"} => \A i \in Threads : dealt[i] = 0
    /\ \A i \in Threads : dealt[i] = IF i < next THEN dealt[next] + 1 ELSE dealt[next]

\* The inductive invariant behind the safety properties.
IInv ==
    /\ TypeOK
    /\ OwnerInv
    /\ ThreadInv
    /\ DealInv
    /\ LoopsServe
    /\ StartNotMissed
    /\ JoinedFirst
==============================================================================
