------------------------------ MODULE Threadpool ------------------------------
(***************************************************************************)
(* The task thread pool (base/Threadpool) with the threads it is made of    *)
(* (base/Thread) and the latch that start() waits on (base/CountLatch).     *)
(*                                                                         *)
(* One owner starts the pool and stops it (stop() or the destructor, which  *)
(* calls it); anyone may add tasks at any time, a running task included.    *)
(* A critical section is one step, a wait on a condition variable ends it   *)
(* and what follows the wait is another.  Worker w is the thread            *)
(* _threads[w - 1]; tasks are numbered in the order they are added.         *)
(***************************************************************************)
EXTENDS Naturals, Sequences, FiniteSets

CONSTANTS ThreadNums,  \* what start() is called with
          MaxTasks     \* bound: tasks added in a behaviour

ASSUME ThreadpoolConstants == ThreadNums \in Nat /\ MaxTasks \in Nat

Workers == 1 .. ThreadNums
Tasks == 1 .. MaxTasks
NoTask == 0

VARIABLES
    owner,      \* where the owner is
    created,    \* _threads.size()
    joined,     \* how many threads have been joined
    started,    \* Threadpool::_started
    running,    \* workers whose pthread_create succeeded: Thread::_started
    tid,        \* workers that have stored their _tid
    latch,      \* latch[w]: the count of w's CountLatch
    pc,         \* pc[w]: where worker w is
    task,       \* task[w]: the task w has taken
    queue,      \* _taskqueue
    added,      \* number of tasks added
    ran         \* the tasks that have been run

ownerVars == <<created, joined, started, running>>
taskVars == <<task, queue, added, ran>>
vars == <<owner, ownerVars, tid, latch, pc, taskVars>>

OwnerStages == {"idle", "start", "latch", "latchWait", "open", "join", "stopped", "aborted"}
Stages == {"none", "born", "named", "loop", "take", "waiting", "woken", "run", "done"}

TypeOK ==
    /\ owner \in OwnerStages
    /\ created \in 0 .. ThreadNums
    /\ joined \in 0 .. ThreadNums
    /\ started \in BOOLEAN
    /\ running \in SUBSET Workers
    /\ tid \in SUBSET Workers
    /\ latch \in [Workers -> {0, 1}]
    /\ pc \in [Workers -> Stages]
    /\ task \in [Workers -> Tasks \cup {NoTask}]
    /\ queue \in Seq(Tasks)
    /\ added \in 0 .. MaxTasks
    /\ ran \in SUBSET Tasks

Init ==
    /\ owner = "idle"
    /\ created = 0 /\ joined = 0
    /\ started = FALSE
    /\ running = {} /\ tid = {}
    /\ latch = [w \in Workers |-> 1]
    /\ pc = [w \in Workers |-> "none"]
    /\ task = [w \in Workers |-> NoTask]
    /\ queue = <<>>
    /\ added = 0
    /\ ran = {}

\* Workers blocked in notEmpty.wait(), and those that have left it and are yet
\* to take the mutex again.
Waiting == {w \in Workers : pc[w] = "waiting"}
Woken == {w \in Workers : pc[w] = "woken"}

\* The process has not died.
Up == owner # "aborted"

------------------------------------------------------------------------------
(* The owner                                                               *)

Start ==
    /\ owner = "idle"
    /\ started' = TRUE
    /\ owner' = "start"
    /\ UNCHANGED <<created, joined, running, tid, latch, pc, taskVars>>

\* The next thread is put into _threads and started: Thread::start goes on to
\* wait for its latch, or forgets the thread if pthread_create fails.
CreateThread ==
    LET w == created + 1 IN
    /\ owner = "start"
    /\ w \in Workers
    /\ created' = w
    /\ \/ /\ pc' = [pc EXCEPT ![w] = "born"]
          /\ running' = running \cup {w}
          /\ owner' = "latch"
       \/ UNCHANGED <<pc, running, owner>>
    /\ UNCHANGED <<joined, started, tid, latch, taskVars>>

\* CountLatch::wait, the test made with the mutex held.
LatchWait ==
    /\ owner = "latch"
    /\ owner' = IF latch[created] = 0 THEN "start" ELSE "latchWait"
    /\ UNCHANGED <<ownerVars, tid, latch, pc, taskVars>>

StartDone ==
    /\ owner = "start" /\ created = ThreadNums
    /\ owner' = "open"
    /\ UNCHANGED <<ownerVars, tid, latch, pc, taskVars>>

\* Mutant: one waiter is woken instead of all of them.
StopNotifyOne ==
    /\ owner = "open"
    /\ started' = FALSE
    /\ \/ Waiting = {} /\ UNCHANGED pc
       \/ \E w \in Waiting : pc' = [pc EXCEPT ![w] = "woken"]
    /\ owner' = "join"
    /\ UNCHANGED <<created, joined, running, tid, latch, taskVars>>

\* stop(): _started is cleared and everybody woken.
Stop ==
    /\ owner = "open"
    /\ started' = FALSE
    /\ pc' = [w \in Workers |-> IF pc[w] = "waiting" THEN "woken" ELSE pc[w]]
    /\ owner' = "join"
    /\ UNCHANGED <<created, joined, running, tid, latch, taskVars>>

\* stop(): the threads are joined in turn.  Thread::join of one that was never
\* started fails its assertion.
Join ==
    LET w == joined + 1 IN
    /\ owner = "join"
    /\ \/ w > created /\ owner' = "stopped" /\ UNCHANGED joined
       \/ w <= created /\ w \in running /\ pc[w] = "done" /\ joined' = w /\ UNCHANGED owner
       \/ w <= created /\ w \notin running /\ owner' = "aborted" /\ UNCHANGED joined
    /\ UNCHANGED <<created, started, running, tid, latch, pc, taskVars>>

------------------------------------------------------------------------------
(* A worker                                                                *)

\* runInThread: the id is stored for the owner ...
StoreTid(w) ==
    /\ Up /\ pc[w] = "born"
    /\ tid' = tid \cup {w}
    /\ pc' = [pc EXCEPT ![w] = "named"]
    /\ UNCHANGED <<owner, ownerVars, latch, taskVars>>

\* Mutant: the latch opens before the id is stored.
CountDownEarly(w) ==
    /\ Up /\ pc[w] \in {"born", "named"} /\ latch[w] = 1
    /\ latch' = [latch EXCEPT ![w] = 0]
    /\ owner' = IF owner = "latchWait" /\ created = w THEN "latch" ELSE owner
    /\ pc' = [pc EXCEPT ![w] = IF @ = "named" THEN "loop" ELSE @]
    /\ UNCHANGED <<ownerVars, tid, taskVars>>

\* ... and the latch counted down, which wakes the owner if it waits.
CountDown(w) ==
    /\ Up /\ pc[w] = "named"
    /\ latch' = [latch EXCEPT ![w] = 0]
    /\ owner' = IF owner = "latchWait" /\ created = w THEN "latch" ELSE owner
    /\ pc' = [pc EXCEPT ![w] = "loop"]
    /\ UNCHANGED <<ownerVars, tid, taskVars>>

\* doTask tests _started, without the mutex.
CheckStarted(w) ==
    /\ Up /\ pc[w] = "loop"
    /\ pc' = [pc EXCEPT ![w] = IF started THEN "take" ELSE "done"]
    /\ UNCHANGED <<owner, ownerVars, tid, latch, taskVars>>

\* take(), from the mutex to the wait or to the end: a task, or an empty one
\* that is not called when the pool has been stopped.
Take(w) ==
    /\ Up /\ pc[w] \in {"take", "woken"}
    /\ \/ /\ queue # <<>>
          /\ task' = [task EXCEPT ![w] = Head(queue)]
          /\ queue' = Tail(queue)
          /\ pc' = [pc EXCEPT ![w] = "run"]
       \/ /\ queue = <<>>
          /\ pc' = [pc EXCEPT ![w] = IF started THEN "waiting" ELSE "loop"]
          /\ UNCHANGED <<task, queue>>
    /\ UNCHANGED <<owner, ownerVars, tid, latch, added, ran>>

Run(w) ==
    /\ Up /\ pc[w] = "run"
    /\ ran' = ran \cup {task[w]}
    /\ task' = [task EXCEPT ![w] = NoTask]
    /\ pc' = [pc EXCEPT ![w] = "loop"]
    /\ UNCHANGED <<owner, ownerVars, tid, latch, queue, added>>

\* pthread_cond_wait may return with nobody having called.
WakeForNothing ==
    /\ \/ /\ owner = "latchWait" /\ owner' = "latch" /\ UNCHANGED pc
       \/ /\ Up /\ UNCHANGED owner
          /\ \E w \in Waiting : pc' = [pc EXCEPT ![w] = "woken"]
    /\ UNCHANGED <<ownerVars, tid, latch, taskVars>>

------------------------------------------------------------------------------
(* Anyone                                                                  *)

\* Mutant: nobody is notified unless the queue was empty.
AddTaskNotifyIfEmpty ==
    LET t == added + 1 IN
    /\ Up
    /\ t \in Tasks
    /\ added' = t
    /\ \/ created = 0 /\ ran' = ran \cup {t} /\ UNCHANGED <<queue, pc>>
       \/ /\ created > 0
          /\ queue' = Append(queue, t)
          /\ \/ (Waiting = {} \/ queue # <<>>) /\ UNCHANGED pc
             \/ queue = <<>> /\ \E w \in Waiting : pc' = [pc EXCEPT ![w] = "woken"]
          /\ UNCHANGED ran
    /\ UNCHANGED <<owner, ownerVars, tid, latch, task>>

\* Mutant: nobody is notified.
AddTaskSilently ==
    LET t == added + 1 IN
    /\ Up
    /\ t \in Tasks
    /\ added' = t
    /\ \/ created = 0 /\ ran' = ran \cup {t} /\ UNCHANGED queue
       \/ created > 0 /\ queue' = Append(queue, t) /\ UNCHANGED ran
    /\ UNCHANGED <<owner, ownerVars, tid, latch, pc, task>>

\* addTask: run by the caller if there are no threads, else queued and one
\* waiter woken.
AddTask ==
    LET t == added + 1 IN
    /\ Up
    /\ t \in Tasks
    /\ added' = t
    /\ \/ created = 0 /\ ran' = ran \cup {t} /\ UNCHANGED <<queue, pc>>
       \/ /\ created > 0
          /\ queue' = Append(queue, t)
          /\ \/ Waiting = {} /\ UNCHANGED pc
             \/ \E w \in Waiting : pc' = [pc EXCEPT ![w] = "woken"]
          /\ UNCHANGED ran
    /\ UNCHANGED <<owner, ownerVars, tid, latch, task>>

------------------------------------------------------------------------------
OwnerStep == CreateThread \/ LatchWait \/ StartDone \/ Join

WorkerStep(w) == StoreTid(w) \/ CountDown(w) \/ CheckStarted(w) \/ Take(w) \/ Run(w)

Next ==
    \/ Start
    \/ OwnerStep
    \/ Stop
    \/ \E w \in Workers : WorkerStep(w)
    \/ WakeForNothing
    \/ AddTask

Spec == Init /\ [][Next]_vars

\* Threads are scheduled, and tasks end.  Nobody owes a start, a stop or a task.
FairSpec == Spec /\ WF_vars(OwnerStep) /\ \A w \in Workers : WF_vars(WorkerStep(w))

------------------------------------------------------------------------------
(* Properties                                                              *)

\* While a worker sleeps in take(), every queued task has a worker of its own
\* that has been woken and will find it (Threadpool.cpp:35-46, 57-68).
NoTaskOverlooked == Waiting # {} => Len(queue) <= Cardinality(Woken)

\* Nobody sleeps in take() once _started has been cleared: notifyAll has
\* woken those who did, and the test in take() keeps others out
\* (Threadpool.cpp:25-34, 60-61).
NoSleeperOnceStopped == ~started => Waiting = {}

\* start() is past a thread only when that thread has stored its id and
\* opened its latch ("assert(_tid > 0)", Thread.cpp:79).
PastLatch == created - (IF owner \in {"latch", "latchWait"} THEN 1 ELSE 0)
TidStored == \A w \in running : w <= PastLatch => w \in tid

\* When stop() has returned no worker is running a task or ever will
\* (Threadpool.cpp:32-33).
QuietAfterStop == owner = "stopped" => \A w \in Workers : pc[w] \in {"none", "done"}

\* How far each thread is, for the induction.
ThreadInv ==
    /\ owner = "idle" => created = 0 /\ ~started
    /\ owner \in {"start", "latch", "latchWait", "open"} => started /\ joined = 0
    /\ owner \in {"join", "stopped"} => ~started
    /\ owner \in {"latch", "latchWait"} => created \in running
    /\ joined <= created
    /\ owner = "stopped" => joined = created
    /\ \A w \in Workers :
        /\ w \in running <=> pc[w] # "none"
        /\ w \in running => w <= created
        /\ pc[w] \notin {"none", "born"} => w \in tid
        /\ latch[w] = 0 <=> pc[w] \notin {"none", "born", "named"}
        /\ w \in running /\ w <= PastLatch => latch[w] = 0
        /\ w <= joined => pc[w] = "done"
        /\ pc[w] = "run" <=> task[w] # NoTask

\* The inductive invariant behind the properties above.
IInv == TypeOK /\ ThreadInv /\ NoTaskOverlooked /\ NoSleeperOnceStopped

\* A queued task is run, unless the pool is stopped first or not one thread
\* could be created (Threadpool.cpp:35-68).
TaskRuns ==
    \A t \in Tasks : t <= added ~> (t \in ran \/ owner \in {"join", "stopped", "aborted"} \/
                                    (created = ThreadNums /\ running = {}))

\* start() and stop() return, however they race the workers (Thread.cpp:66-81,
\* CountLatch.h:8-20, Threadpool.cpp:25-34).
CallsReturn == owner \notin {"idle", "open"} ~> owner \in {"open", "stopped", "aborted"}
==============================================================================
