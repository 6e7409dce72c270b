---------------------------- MODULE ConnectionLife ----------------------------
(***************************************************************************)
(* What the server promises of every connection, whichever threads have a   *)
(* hand in it: it is queued, served, closed and released, once and in that   *)
(* order; one that is queued gets served and one that is closed gives its    *)
(* descriptor back, unless the process dies.  Server implements this.       *)
(***************************************************************************)
CONSTANT Conns

VARIABLES stage,  \* stage[c]: how far connection c has come
          dead    \* the process has died

lifeVars == <<stage, dead>>

Stages == {"unborn", "queued", "served", "closed", "released"}

LifeInit == stage = [c \in Conns |-> "unborn"] /\ dead = FALSE

Moves(c, from, to) ==
    /\ ~dead
    /\ stage[c] = from
    /\ stage' = [stage EXCEPT ![c] = to]
    /\ UNCHANGED dead

Queue(c) == Moves(c, "unborn", "queued")

Serve(c) == Moves(c, "queued", "served")

\* The object may be gone at once, or be held by a thread that is at work on it.
Close(c) == Moves(c, "served", "closed") \/ Moves(c, "served", "released")

Release(c) == Moves(c, "closed", "released")

Die == dead' = TRUE /\ stage' \in [Conns -> Stages]

LifeNext ==
    \/ ~dead /\ Die
    \/ \E c \in Conns : Queue(c) \/ Serve(c) \/ Close(c) \/ Release(c)

LifeSafety == LifeInit /\ [][LifeNext]_lifeVars

LifeSpec ==
    /\ LifeSafety
    /\ \A c \in Conns : WF_lifeVars(Serve(c)) /\ WF_lifeVars(Release(c))
==============================================================================
