------------------------------ MODULE LoopTasks ------------------------------
(***************************************************************************)
(* What an event loop promises to the threads that hand it work            *)
(* (Eventloop::queueInLoop and Eventloop::runInLoop), with no mutex, no    *)
(* eventfd and no poll: each loop owns one FIFO of tasks, every task that  *)
(* is handed over is executed exactly once and in hand-over order, and a   *)
(* loop that is not stopped never leaves a task waiting for ever.          *)
(***************************************************************************)
EXTENDS Sequences

CONSTANTS Loops,   \* the event loops, one thread each
          Tasks    \* the closures (Functor) handed to a loop

VARIABLES pending,   \* pending[l]: tasks handed to l and not yet executed
          executed,  \* executed[l]: tasks executed by l's thread, in order
          stopped    \* loops whose thread has left loop()

taskVars == <<pending, executed, stopped>>

TasksTypeOK ==
    /\ pending \in [Loops -> Seq(Tasks)]
    /\ executed \in [Loops -> Seq(Tasks)]
    /\ stopped \in SUBSET Loops

TasksInit ==
    /\ pending = [l \in Loops |-> <<>>]
    /\ executed = [l \in Loops |-> <<>>]
    /\ stopped = {}

\* Some thread hands task k to loop l.
Submit(l, k) ==
    /\ pending' = [pending EXCEPT ![l] = Append(@, k)]
    /\ UNCHANGED <<executed, stopped>>

\* Loop l executes the oldest task handed to it.
Execute(l) ==
    /\ l \notin stopped
    /\ pending[l] # <<>>
    /\ executed' = [executed EXCEPT ![l] = Append(@, Head(pending[l]))]
    /\ pending' = [pending EXCEPT ![l] = Tail(@)]
    /\ UNCHANGED stopped

\* A callback already running in l's thread executes k without queueing it.
ExecuteNow(l, k) ==
    /\ l \notin stopped
    /\ executed' = [executed EXCEPT ![l] = Append(@, k)]
    /\ UNCHANGED <<pending, stopped>>

\* The thread of l leaves loop(); what is still pending stays pending.
Stop(l) ==
    /\ stopped' = stopped \cup {l}
    /\ UNCHANGED <<pending, executed>>

TasksNext ==
    \E l \in Loops :
        \/ \E k \in Tasks : Submit(l, k) \/ ExecuteNow(l, k)
        \/ Execute(l)
        \/ Stop(l)

TasksSafeSpec == TasksInit /\ [][TasksNext]_taskVars

TasksSpec == TasksSafeSpec /\ \A l \in Loops : WF_taskVars(Execute(l))
==============================================================================
