-------------------------------- MODULE Server --------------------------------
(***************************************************************************)
(* The life of a connection across the threads that touch it: the main     *)
(* thread accepts it (Acceptor, TCPserver::newConnectioninLoop) and turns   *)
(* the timing wheel that kicks idle connections (httpServer::onTimer and   *)
(* ~Entry); the IO loop it is dealt to creates it, serves it and closes it *)
(* (newConnnection, Channel::handleEvent, httpServer::handleRead,          *)
(* handleClose, removeConnection).                                         *)
(*                                                                         *)
(* Connections are numbered in the order they are accepted; a number is    *)
(* never used twice, a file descriptor is.  A connection object lives as   *)
(* long as a shared_ptr holds it (connectionMap, the IO thread inside a    *)
(* handler, ~Entry on the main thread) and its descriptor is open as long  *)
(* as the object lives.  What a loop is handed is a FIFO of tasks: see     *)
(* LoopTasks.  One access to connBuckets is one step.                      *)
(***************************************************************************)
EXTENDS Naturals, Sequences, FiniteSets

CONSTANTS NumLoops,   \* IO loops of the EventLoopThreadpool
          Fds,        \* the descriptors connections can get
          WheelSize,  \* buckets of the wheel (60)
          MaxConns    \* bound: connections accepted in a behaviour

ASSUME ServerConstants ==
    /\ NumLoops \in Nat \ {0}
    /\ Fds \subseteq Nat \ {0}
    /\ WheelSize \in Nat \ {0}
    /\ MaxConns \in Nat

Loops == 1 .. NumLoops
Conns == 1 .. MaxConns
None == 0

VARIABLES
    accepted,   \* number of connections accepted
    fd, loop,   \* fd[c], loop[c]: descriptor and loop of connection c
    nextLoop,   \* _next of the EventLoopThreadpool
    pending,    \* pending[l]: tasks handed to loop l
    batch,      \* batch[l]: how many of them doPendingFunctors has swapped out
    phase,      \* phase[l]: the stage of l's iteration of loop()
    active,     \* active[l]: connections left in l's ActivityChannel
    touching,   \* touching[l]: the connection whose handleRead is at its end
    chanMap,    \* channelMap of l's Poller: fd to (the channel of) a connection
    connMap,    \* connectionMap[l]: fd to connection
    peerData,   \* peerData[c]: unread data has arrived
    peerClosed, \* peerClosed[c]: the peer has closed
    context,    \* context[c]: what the Context pointer of c points to
    buckets,    \* connBuckets: the wheel, oldest bucket first
    expiring,   \* entries whose last shared_ptr the main thread has dropped
    kicking,    \* the connection ~Entry has locked on the main thread
    crashed     \* why the process died, if it did

mainVars == <<accepted, fd, loop, nextLoop, expiring, kicking>>
ioVars == <<batch, phase, active, touching>>
maps == <<chanMap, connMap>>
peerVars == <<peerData, peerClosed>>
vars == <<mainVars, ioVars, maps, peerVars, pending, context, buckets, crashed>>

Tasks == {"create", "close"} \X Conns

TypeOK ==
    /\ accepted \in 0 .. MaxConns
    /\ fd \in [Conns -> Fds \cup {None}]
    /\ loop \in [Conns -> Loops \cup {None}]
    /\ nextLoop \in Loops
    /\ pending \in [Loops -> Seq(Tasks)]
    /\ batch \in [Loops -> Nat]
    /\ phase \in [Loops -> {"poll", "events", "functors"}]
    /\ active \in [Loops -> SUBSET Conns]
    /\ touching \in [Loops -> Conns \cup {None}]
    /\ chanMap \in [Loops -> [Fds -> Conns \cup {None}]]
    /\ connMap \in [Loops -> [Fds -> Conns \cup {None}]]
    /\ peerData \in [Conns -> BOOLEAN]
    /\ peerClosed \in [Conns -> BOOLEAN]
    /\ context \in [Conns -> {"null", "entry", "freed"}]
    /\ buckets \in Seq(SUBSET Conns) /\ buckets # <<>>
    /\ expiring \in SUBSET Conns
    /\ kicking \in Conns \cup {None}
    /\ crashed \in {"no", "channel", "context"}

Init ==
    /\ accepted = 0
    /\ fd = [c \in Conns |-> None] /\ loop = [c \in Conns |-> None]
    /\ nextLoop = 1
    /\ pending = [l \in Loops |-> <<>>] /\ batch = [l \in Loops |-> 0]
    /\ phase = [l \in Loops |-> "poll"] /\ active = [l \in Loops |-> {}]
    /\ touching = [l \in Loops |-> None]
    /\ chanMap = [l \in Loops |-> [f \in Fds |-> None]]
    /\ connMap = [l \in Loops |-> [f \in Fds |-> None]]
    /\ peerData = [c \in Conns |-> FALSE] /\ peerClosed = [c \in Conns |-> FALSE]
    /\ context = [c \in Conns |-> "null"]
    /\ buckets = <<{}>>
    /\ expiring = {} /\ kicking = None
    /\ crashed = "no"

------------------------------------------------------------------------------
(* Lifetimes                                                               *)

Registered(c) == \E l \in Loops, f \in Fds : connMap[l][f] = c

\* Some shared_ptr<Connection> holds c.
Alive(c) == Registered(c) \/ kicking = c \/ \E l \in Loops : touching[l] = c

ToBeCreated(c) == \E l \in Loops : \E i \in DOMAIN pending[l] : pending[l][i] = <<"create", c>>

\* c owns its descriptor.
Held(c) == Alive(c) \/ ToBeCreated(c)

OpenFds == {fd[c] : c \in {x \in Conns : Held(x)}}

LowestFree == CHOOSE f \in Fds \ OpenFds : \A g \in Fds \ OpenFds : f <= g

InWheel(c) == \E i \in DOMAIN buckets : c \in buckets[i]

\* connBuckets.back()[loop].insert(entry)
Refresh(c) == buckets' = [buckets EXCEPT ![Len(buckets)] = @ \cup {c}]

\* Mutant: channelMap is not updated.
RemoveConnectionOnly(l, f) ==
    /\ connMap' = [connMap EXCEPT ![l][f] = None]
    /\ UNCHANGED <<chanMap, crashed>>

\* removeConnection and Poller::removeChannel: channelMap[fd] of a missing
\* fd yields a null Channel*, which is dereferenced.
RemoveConnection(l, f) ==
    IF chanMap[l][f] = None
       THEN crashed' = "channel" /\ UNCHANGED maps
       ELSE /\ chanMap' = [chanMap EXCEPT ![l][f] = None]
            /\ connMap' = [connMap EXCEPT ![l][f] = None]
            /\ UNCHANGED crashed

\* The process has not died: nothing moves after that.
Up == crashed = "no"

------------------------------------------------------------------------------
(* The main thread                                                         *)

MainIdle == Up /\ expiring = {} /\ kicking = None

\* Mutant: the index runs past the end.
NextLoopUnbounded(n) == n + 1

\* getNextLoop: round robin.
NextLoop(n) == IF n + 1 > NumLoops THEN 1 ELSE n + 1

\* Acceptor::handleRead and newConnectioninLoop: the kernel gives the lowest
\* free descriptor, the next loop creates the connection.
Accept ==
    LET c == accepted + 1 IN
    /\ MainIdle
    /\ c \in Conns
    /\ Fds \ OpenFds # {}
    /\ accepted' = c
    /\ fd' = [fd EXCEPT ![c] = LowestFree]
    /\ loop' = [loop EXCEPT ![c] = nextLoop]
    /\ nextLoop' = NextLoop(nextLoop)
    /\ pending' = [pending EXCEPT ![nextLoop] = Append(@, <<"create", c>>)]
    /\ UNCHANGED <<ioVars, maps, peerVars, context, buckets, expiring, kicking, crashed>>

\* onTimer: a new bucket in, the oldest out; the entries it held last begin
\* to be destroyed.
OnTimer ==
    LET turned == Append(buckets, {})
        kept == IF Len(turned) > WheelSize THEN Tail(turned) ELSE turned
    IN
    /\ MainIdle
    /\ buckets' = kept
    /\ expiring' = {c \in Conns : InWheel(c) /\ \A i \in DOMAIN kept : c \notin kept[i]}
    /\ UNCHANGED <<accepted, fd, loop, nextLoop, kicking, pending, ioVars, maps, peerVars,
                   context, crashed>>

\* Mutant: ~Entry does not ask whether the connection is still there.
DestroyEntryBlindly(c) ==
    /\ Up /\ c \in expiring /\ kicking = None
    /\ expiring' = expiring \ {c}
    /\ context' = [context EXCEPT ![c] = "freed"]
    /\ kicking' = c
    /\ UNCHANGED <<accepted, fd, loop, nextLoop, pending, ioVars, maps, peerVars, buckets, crashed>>

\* ~Entry: lock the weak_ptr, delete connContext.
DestroyEntry(c) ==
    /\ Up /\ c \in expiring /\ kicking = None
    /\ expiring' = expiring \ {c}
    /\ context' = [context EXCEPT ![c] = "freed"]
    /\ kicking' = IF Alive(c) THEN c ELSE None
    /\ UNCHANGED <<accepted, fd, loop, nextLoop, pending, ioVars, maps, peerVars, buckets, crashed>>

\* Mutant: the connection is not closed.
KickNothing(c) ==
    /\ Up /\ kicking = c
    /\ context' = [context EXCEPT ![c] = "null"]
    /\ kicking' = None
    /\ UNCHANGED <<accepted, fd, loop, nextLoop, expiring, ioVars, maps, peerVars, buckets,
                   pending, crashed>>

\* Mutant: the main thread removes the connection itself.
KickAtOnce(c) ==
    /\ Up /\ kicking = c
    /\ context' = [context EXCEPT ![c] = "null"]
    /\ kicking' = None
    /\ RemoveConnection(loop[c], fd[c])
    /\ UNCHANGED <<accepted, fd, loop, nextLoop, expiring, ioVars, peerVars, buckets, pending>>

\* The rest of ~Entry: setContext(NULL), handleClose queues the close in the
\* loop of c, the shared_ptr goes.
Kick(c) ==
    /\ Up /\ kicking = c
    /\ context' = [context EXCEPT ![c] = "null"]
    /\ pending' = [pending EXCEPT ![loop[c]] = Append(@, <<"close", c>>)]
    /\ kicking' = None
    /\ UNCHANGED <<accepted, fd, loop, nextLoop, expiring, ioVars, maps, peerVars, buckets, crashed>>

------------------------------------------------------------------------------
(* An IO loop                                                              *)

Ready(c) == peerData[c] \/ peerClosed[c]

ReadyIn(l) == {c \in Conns : Ready(c) /\ \E f \in Fds : chanMap[l][f] = c}

\* An IO loop has no timer: its poll() blocks until a channel is ready or a
\* task has been handed over (EventLoop: SleeperIsWoken), and returns every
\* ready channel.
Poll(l) ==
    /\ Up /\ phase[l] = "poll"
    /\ ReadyIn(l) # {} \/ pending[l] # <<>>
    /\ phase' = [phase EXCEPT ![l] = "events"]
    /\ active' = [active EXCEPT ![l] = ReadyIn(l)]
    /\ UNCHANGED <<mainVars, batch, touching, maps, peerVars, pending, context, buckets, crashed>>

\* handleRead finds the peer's end of file: handleClose, at once.
HandleEof(l, c) ==
    /\ Up /\ c \in active[l] /\ touching[l] = None
    /\ ~peerData[c]
    /\ active' = [active EXCEPT ![l] = @ \ {c}]
    /\ RemoveConnection(l, fd[c])
    /\ UNCHANGED <<mainVars, batch, phase, touching, peerVars, pending, context, buckets>>

\* handleRead with data: httpServer::handleRead answers, closes unless the
\* request says keep-alive, then looks at the Context pointer.
HandleMessage(l, c) ==
    /\ Up /\ c \in active[l] /\ touching[l] = None
    /\ peerData[c]
    /\ peerData' = [peerData EXCEPT ![c] = FALSE]
    /\ active' = [active EXCEPT ![l] = @ \ {c}]
    /\ \/ UNCHANGED <<maps, crashed>>
       \/ RemoveConnection(l, fd[c])
    /\ touching' = [touching EXCEPT ![l] = IF context[c] # "null" THEN c ELSE None]
    /\ UNCHANGED <<mainVars, batch, phase, peerClosed, pending, context, buckets>>

\* Mutant: the entry is inserted without asking whether it is still there.
TouchBlindly(l) ==
    LET c == touching[l] IN
    /\ Up /\ c # None
    /\ touching' = [touching EXCEPT ![l] = None]
    /\ Refresh(c)
    /\ UNCHANGED <<mainVars, batch, phase, active, maps, peerVars, pending, context, crashed>>

\* The end of httpServer::handleRead: the Context pointer it found non-null
\* is dereferenced, the entry locked and put into the newest bucket.  A
\* context deleted meanwhile is read after free: the read finds an expired
\* weak_ptr or kills the process.
Touch(l) ==
    LET c == touching[l] IN
    /\ Up /\ c # None
    /\ touching' = [touching EXCEPT ![l] = None]
    /\ \/ context[c] = "entry" /\ InWheel(c) /\ Refresh(c) /\ UNCHANGED crashed
       \/ ~(context[c] = "entry" /\ InWheel(c)) /\ UNCHANGED <<buckets, crashed>>
       \/ context[c] # "entry" /\ crashed' = "context" /\ UNCHANGED buckets
    /\ UNCHANGED <<mainVars, batch, phase, active, maps, peerVars, pending, context>>

\* All channels handled: doPendingFunctors takes the tasks there are.
EventsDone(l) ==
    /\ Up /\ phase[l] = "events" /\ active[l] = {} /\ touching[l] = None
    /\ phase' = [phase EXCEPT ![l] = "functors"]
    /\ batch' = [batch EXCEPT ![l] = Len(pending[l])]
    /\ UNCHANGED <<mainVars, active, touching, maps, peerVars, pending, context, buckets, crashed>>

HeadIs(l, kind, c) == Up /\ batch[l] > 0 /\ Head(pending[l]) = <<kind, c>>

TakeTask(l) ==
    /\ pending' = [pending EXCEPT ![l] = Tail(@)]
    /\ batch' = [batch EXCEPT ![l] = @ - 1]

\* newConnnection: the connection, its entry in the wheel (connCallBack), its
\* channel in the poller, its place in connectionMap.
CreateConnection(l, c) ==
    /\ HeadIs(l, "create", c)
    /\ TakeTask(l)
    /\ Refresh(c)
    /\ context' = [context EXCEPT ![c] = "entry"]
    /\ chanMap' = [chanMap EXCEPT ![l][fd[c]] = c]
    /\ connMap' = [connMap EXCEPT ![l][fd[c]] = IF @ = None THEN c ELSE @]
    /\ UNCHANGED <<mainVars, phase, active, touching, peerVars, crashed>>

\* The close ~Entry has queued: removeConnection(fd, loop).
CloseConnection(l, c) ==
    /\ HeadIs(l, "close", c)
    /\ TakeTask(l)
    /\ RemoveConnection(l, fd[c])
    /\ UNCHANGED <<mainVars, phase, active, touching, peerVars, context, buckets>>

FunctorsDone(l) ==
    /\ Up /\ phase[l] = "functors" /\ batch[l] = 0
    /\ phase' = [phase EXCEPT ![l] = "poll"]
    /\ UNCHANGED <<mainVars, batch, active, touching, maps, peerVars, pending, context, buckets, crashed>>

------------------------------------------------------------------------------
(* The peers                                                               *)

PeerSends(c) ==
    /\ Up /\ c <= accepted /\ ~peerClosed[c]
    /\ peerData' = [peerData EXCEPT ![c] = TRUE]
    /\ UNCHANGED <<mainVars, ioVars, maps, peerClosed, pending, context, buckets, crashed>>

PeerCloses(c) ==
    /\ Up /\ c <= accepted /\ ~peerClosed[c]
    /\ peerClosed' = [peerClosed EXCEPT ![c] = TRUE]
    /\ UNCHANGED <<mainVars, ioVars, maps, peerData, pending, context, buckets, crashed>>

------------------------------------------------------------------------------
MainStep == OnTimer \/ \E c \in Conns : DestroyEntry(c) \/ Kick(c)

LoopStep(l) ==
    \/ Poll(l)
    \/ \E c \in Conns :
        \/ HandleEof(l, c)
        \/ HandleMessage(l, c)
        \/ CreateConnection(l, c)
        \/ CloseConnection(l, c)
    \/ Touch(l)
    \/ EventsDone(l)
    \/ FunctorsDone(l)

Next ==
    \/ Accept
    \/ MainStep
    \/ \E l \in Loops : LoopStep(l)
    \/ \E c \in Conns : PeerSends(c) \/ PeerCloses(c)

Spec == Init /\ [][Next]_vars

\* Every loop thread runs and the wheel's timer keeps firing; no client owes
\* a connection, data or a close.
FairSpec ==
    /\ Spec
    /\ WF_vars(MainStep)
    /\ \A l \in Loops : WF_vars(LoopStep(l))

------------------------------------------------------------------------------
(* Properties                                                              *)

\* connectionMap, channelMap, and the connections agree: no Channel* of a
\* destroyed connection stays in a poller, and none is reached under the
\* descriptor or in the loop of another (TCPserver.cpp:44-72).
MapsAgree ==
    \A l \in Loops, f \in Fds :
        /\ chanMap[l][f] = connMap[l][f]
        /\ chanMap[l][f] # None => fd[chanMap[l][f]] = f /\ loop[chanMap[l][f]] = l

\* The raw Channel* left in ActivityChannel (Eventloop.cpp:36-39) are still
\* registered, whatever the handlers before them closed.
ActiveAreRegistered ==
    \A l \in Loops : \A c \in active[l] : chanMap[l][fd[c]] = c

\* Entry and Context: the heap-allocated weak_ptr is there exactly as long as
\* the entry, so ~Entry deletes it once (httpServer.h:37-47).
ContextFollowsEntry ==
    \A c \in Conns : context[c] = "entry" <=> InWheel(c) \/ c \in expiring

\* A close queued by the wheel can only hit the connection it was meant for:
\* a descriptor is not given to a new connection of the same loop while the
\* close of its former owner has yet to run (httpServer.h:37-46).
CloseHitsOwner ==
    \A l \in Loops : \A i \in DOMAIN pending[l] : \A c \in Conns :
        pending[l][i] = <<"close", c>> =>
            /\ chanMap[l][fd[c]] \in {c, None}
            /\ \A j \in 1 .. i : \A d \in Conns :
                    pending[l][j] = <<"create", d>> => fd[d] # fd[c]

\* The stages of loop(): nothing is being handled outside "events", and tasks
\* are taken off only in "functors".
StagesKept ==
    \A l \in Loops :
        /\ batch[l] <= Len(pending[l])
        /\ phase[l] # "events" => active[l] = {} /\ touching[l] = None
        /\ phase[l] # "functors" => batch[l] = 0

\* Only connections that were accepted are known, each to its own loop.
KnownAreAccepted ==
    /\ \A c \in Conns : c <= accepted => fd[c] \in Fds /\ loop[c] \in Loops
    /\ \A c \in Conns : Held(c) => c <= accepted
    /\ \A l \in Loops : \A c \in active[l] : c <= accepted
    /\ \A l \in Loops : \A i \in DOMAIN pending[l] :
            pending[l][i][2] <= accepted /\ loop[pending[l][i][2]] = l

\* A connection is created once, and nobody holds it before.
CreatedOnce ==
    /\ \A l \in Loops : \A i, j \in DOMAIN pending[l] :
            pending[l][i] = pending[l][j] /\ pending[l][i][1] = "create" => i = j
    /\ \A c \in Conns : ToBeCreated(c) => ~Alive(c)

\* Two connections do not have the same descriptor.
FdsDistinct == \A c, d \in Conns : Held(c) /\ Held(d) /\ fd[c] = fd[d] => c = d

\* An entry is in the wheel, then about to be destroyed, then being destroyed.
EntryMovesOn ==
    \A c \in Conns :
        /\ c \in expiring => ~InWheel(c)
        /\ kicking = c => ~InWheel(c) /\ c \notin expiring
        /\ c > accepted \/ ToBeCreated(c) => ~InWheel(c) /\ c \notin expiring

\* The invariant of the proofs; each part needs those before it.
IInv ==
    /\ TypeOK
    /\ StagesKept
    /\ KnownAreAccepted
    /\ CreatedOnce
    /\ FdsDistinct
    /\ MapsAgree
    /\ ActiveAreRegistered
    /\ CloseHitsOwner
    /\ EntryMovesOn
    /\ ContextFollowsEntry

\* A connection whose peer has nothing more to say ends: the wheel kicks it
\* and its descriptor comes back (httpServer.cpp:48, "every 10 seconds, drop
\* the connections with no response for 60*10 seconds").
IdleIsKicked ==
    \A c \in Conns :
        <>[](~peerData[c]) => (c <= accepted ~> ~Held(c) \/ ~Up)

\* How far a connection has come.
Stage(c) ==
    CASE c > accepted -> "unborn"
      [] ToBeCreated(c) -> "queued"
      [] Registered(c) -> "served"
      [] Alive(c) /\ ~Registered(c) -> "closed"
      [] OTHER -> "released"

Life == INSTANCE ConnectionLife WITH stage <- [c \in Conns |-> Stage(c)], dead <- ~Up

\* Whatever the main thread, the IO loops and the peers do, a connection is
\* queued, served, closed and released once and in that order: none is lost
\* between accept4() and its loop, none is found again once its last
\* shared_ptr is gone, and none stays half closed with its descriptor open
\* (TCPserver.cpp:44-98, httpServer.h:37-47).
ImplementsLife == Life!LifeSpec

\* httpServer.h:39, "if the connection is still there, close it": a queued
\* close finds its channel.
CloseFindsChannel == crashed # "channel"
==============================================================================
