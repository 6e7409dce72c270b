----------------------------- MODULE Server_proofs -----------------------------
(***************************************************************************)
(* The safety invariants of Server, for any number of loops, descriptors,   *)
(* connections and buckets.  IInv is inductive: each step of the server is   *)
(* taken by itself below.  The heart of it: a descriptor belongs to one      *)
(* connection from accept4() on until the last shared_ptr is gone, and a     *)
(* loop's tasks are a FIFO, so that whatever still knows a descriptor means  *)
(* the connection that has it.                                             *)
(***************************************************************************)
EXTENDS Server, SequenceTheorems, WellFoundedInduction, TLAPS

\* The tasks of the loops when loop l is handed one more.
LEMMA HandedOver ==
    ASSUME NEW S, NEW P \in [Loops -> Seq(S)], NEW l \in Loops, NEW t \in S,
           NEW Q, Q = [P EXCEPT ![l] = Append(@, t)]
    PROVE  /\ Q \in [Loops -> Seq(S)]
           /\ \A m \in Loops : /\ Len(P[m]) \in Nat /\ DOMAIN P[m] = 1 .. Len(P[m])
                               /\ Len(Q[m]) \in Nat /\ DOMAIN Q[m] = 1 .. Len(Q[m])
                               /\ Len(P[m]) <= Len(Q[m])
           /\ \A m \in Loops : \A i \in DOMAIN P[m] : i \in DOMAIN Q[m] /\ Q[m][i] = P[m][i]
           /\ \A m \in Loops : \A i \in DOMAIN Q[m] :
                    i \in DOMAIN P[m] \/ (m = l /\ i = Len(P[l]) + 1 /\ Q[m][i] = t)
<1>1. /\ Q \in [Loops -> Seq(S)] /\ Q[l] = Append(P[l], t)
      /\ \A m \in Loops : m # l => Q[m] = P[m]
  OBVIOUS
<1>2. /\ Len(Q[l]) = Len(P[l]) + 1 /\ Q[l][Len(P[l]) + 1] = t
      /\ \A i \in 1 .. Len(P[l]) : Q[l][i] = P[l][i]
  BY <1>1, AppendProperties
<1>3. \A m \in Loops : /\ Len(P[m]) \in Nat /\ DOMAIN P[m] = 1 .. Len(P[m])
                       /\ Len(Q[m]) \in Nat /\ DOMAIN Q[m] = 1 .. Len(Q[m])
  BY <1>1, LenProperties
<1>4. DOMAIN P[l] = 1 .. Len(P[l]) /\ DOMAIN Q[l] = 1 .. Len(P[l]) + 1 /\ Len(P[l]) \in Nat
  BY <1>2, <1>3
<1>5. \A i \in DOMAIN Q[l] : i \in DOMAIN P[l] \/ i = Len(P[l]) + 1
  BY <1>4
<1>6. \A m \in Loops : Len(P[m]) <= Len(Q[m])
  BY <1>1, <1>2, <1>3
<1>7. \A m \in Loops : \A i \in DOMAIN P[m] : i \in DOMAIN Q[m] /\ Q[m][i] = P[m][i]
  BY <1>1, <1>2, <1>4
<1> QED
  BY <1>1, <1>2, <1>3, <1>5, <1>6, <1>7

\* The tasks of the loops when loop l has taken its first.
LEMMA TakenOff ==
    ASSUME NEW S, NEW P \in [Loops -> Seq(S)], NEW l \in Loops, P[l] # <<>>,
           NEW Q, Q = [P EXCEPT ![l] = Tail(@)]
    PROVE  /\ Q \in [Loops -> Seq(S)]
           /\ Len(Q[l]) = Len(P[l]) - 1 /\ Len(P[l]) \in Nat \ {0}
           /\ DOMAIN P[l] = 1 .. Len(P[l]) /\ DOMAIN Q[l] = 1 .. Len(Q[l])
           /\ \A i \in DOMAIN Q[l] : i + 1 \in DOMAIN P[l] /\ Q[l][i] = P[l][i + 1]
           /\ \A i \in DOMAIN P[l] : i = 1 \/ (i - 1 \in DOMAIN Q[l] /\ Q[l][i - 1] = P[l][i])
           /\ \A m \in Loops : m # l => Q[m] = P[m]
<1>1. /\ Q \in [Loops -> Seq(S)] /\ Q[l] = Tail(P[l]) /\ P[l] \in Seq(S) /\ Q[l] \in Seq(S)
      /\ \A m \in Loops : m # l => Q[m] = P[m]
  OBVIOUS
<1>2. /\ Len(Q[l]) = Len(P[l]) - 1 /\ Len(P[l]) \in Nat \ {0}
      /\ \A i \in 1 .. Len(Q[l]) : Q[l][i] = P[l][i + 1]
  BY <1>1, HeadTailProperties
<1>3. DOMAIN P[l] = 1 .. Len(P[l]) /\ DOMAIN Q[l] = 1 .. Len(Q[l])
  BY <1>1, LenProperties
<1>4. \A i \in DOMAIN Q[l] : i + 1 \in DOMAIN P[l] /\ Q[l][i] = P[l][i + 1]
  BY <1>2, <1>3
<1>5. \A i \in DOMAIN P[l] : i = 1 \/ (i - 1 \in DOMAIN Q[l] /\ Q[l][i - 1] = P[l][i])
  <2> TAKE i \in DOMAIN P[l]
  <2>1. i = 1 \/ (i - 1 \in 1 .. Len(Q[l]) /\ (i - 1) + 1 = i)
    BY <1>2, <1>3
  <2> QED
    BY <2>1, <1>2, <1>3
<1> QED
  BY <1>1, <1>2, <1>3, <1>4, <1>5

\* Nothing is known at first.
LEMMA InitIInv == Init => IInv
<1> SUFFICES ASSUME Init
             PROVE  IInv
  OBVIOUS
<1> USE ServerConstants DEF Loops, Conns, None
<1>1. TypeOK
  <2>1. buckets \in Seq(SUBSET Conns) /\ buckets # <<>>
    BY DEF Init
  <2>2. pending \in [Loops -> Seq(Tasks)]
    BY DEF Init
  <2> QED
    BY <2>1, <2>2 DEF Init, TypeOK
<1>2. \A c \in Conns : ~Alive(c) /\ ~ToBeCreated(c) /\ ~InWheel(c)
  BY DEF Init, Alive, ToBeCreated, InWheel, Registered
<1>3. StagesKept /\ KnownAreAccepted /\ CreatedOnce /\ FdsDistinct
  BY <1>2 DEF Init, StagesKept, KnownAreAccepted, CreatedOnce, FdsDistinct, Held
<1>4. MapsAgree /\ ActiveAreRegistered /\ CloseHitsOwner
  BY DEF Init, MapsAgree, ActiveAreRegistered, CloseHitsOwner
<1>5. EntryMovesOn /\ ContextFollowsEntry
  BY <1>2 DEF Init, EntryMovesOn, ContextFollowsEntry
<1> QED
  BY <1>1, <1>3, <1>4, <1>5 DEF IInv

\* Steps that do not change who holds what: poll() and the turns of loop().
LEMMA StageSteps ==
    ASSUME IInv, NEW l \in Loops, Poll(l) \/ EventsDone(l) \/ FunctorsDone(l)
    PROVE  IInv'
<1>1. UNCHANGED <<mainVars, touching, maps, peerVars, pending, context, buckets, crashed>>
  BY DEF Poll, EventsDone, FunctorsDone
<1>2. \A c \in Conns : /\ Alive(c)' = Alive(c) /\ ToBeCreated(c)' = ToBeCreated(c)
                       /\ InWheel(c)' = InWheel(c) /\ Held(c)' = Held(c)
  BY <1>1 DEF Alive, ToBeCreated, InWheel, Registered, Held, mainVars, maps
<1>3. TypeOK' /\ StagesKept'
  <2> USE DEF IInv
  <2>1. /\ phase' \in [Loops -> {"poll", "events", "functors"}]
        /\ batch' \in [Loops -> Nat]
        /\ active' \in [Loops -> SUBSET Conns]
        /\ StagesKept'
    <3>0. Len(pending[l]) \in Nat
      BY DEF TypeOK
    <3>1. CASE Poll(l)
      BY <3>1 DEF Poll, TypeOK, StagesKept, ReadyIn
    <3>2. CASE EventsDone(l)
      BY <3>0, <3>2 DEF EventsDone, TypeOK, StagesKept
    <3>3. CASE FunctorsDone(l)
      BY <3>3 DEF FunctorsDone, TypeOK, StagesKept
    <3> QED
      BY <3>1, <3>2, <3>3
  <2> QED
    BY <1>1, <2>1 DEF TypeOK, mainVars, maps, peerVars
<1>4. KnownAreAccepted' /\ CreatedOnce' /\ FdsDistinct'
  <2>1. \A m \in Loops : \A c \in active'[m] : c <= accepted
    <3>1. \A c \in ReadyIn(l) : c \in Conns /\ Held(c)
      <4> TAKE c \in ReadyIn(l)
      <4>1. PICK f \in Fds : c \in Conns /\ chanMap[l][f] = c
        BY DEF ReadyIn
      <4>2. connMap[l][f] = c
        BY <4>1 DEF IInv, MapsAgree
      <4> QED
        BY <4>1, <4>2 DEF Held, Alive, Registered
    <3>2. active' = active \/ active' = [active EXCEPT ![l] = ReadyIn(l)]
      BY DEF Poll, EventsDone, FunctorsDone
    <3>3. active \in [Loops -> SUBSET Conns]
      BY DEF IInv, TypeOK
    <3> HIDE DEF ReadyIn
    <3> QED
      BY <3>1, <3>2, <3>3 DEF IInv, KnownAreAccepted
  <2> QED
    BY <1>1, <1>2, <2>1 DEF IInv, KnownAreAccepted, CreatedOnce, FdsDistinct, mainVars
<1>5. MapsAgree' /\ CloseHitsOwner'
  BY <1>1 DEF IInv, MapsAgree, CloseHitsOwner, mainVars, maps
<1>6. ActiveAreRegistered'
  <2>1. CASE Poll(l)
    <3>1. \A c \in ReadyIn(l) : chanMap[l][fd[c]] = c
      BY ServerConstants DEF ReadyIn, IInv, MapsAgree, Conns, None
    <3>2. active' = [active EXCEPT ![l] = ReadyIn(l)] /\ UNCHANGED <<chanMap, fd>>
      BY <2>1, <1>1 DEF Poll, mainVars, maps
    <3>3. active \in [Loops -> SUBSET Conns]
      BY DEF IInv, TypeOK
    <3> HIDE DEF ReadyIn
    <3> QED
      BY <3>1, <3>2, <3>3 DEF IInv, ActiveAreRegistered
  <2>2. CASE EventsDone(l) \/ FunctorsDone(l)
    BY <2>2, <1>1 DEF IInv, EventsDone, FunctorsDone, ActiveAreRegistered, mainVars, maps
  <2> QED
    BY <2>1, <2>2
<1>7. EntryMovesOn' /\ ContextFollowsEntry'
  BY <1>1, <1>2 DEF IInv, EntryMovesOn, ContextFollowsEntry, mainVars
<1> QED
  BY <1>3, <1>4, <1>5, <1>6, <1>7 DEF IInv

\* The peers change what can be read, and nothing else.
LEMMA PeerSteps ==
    ASSUME IInv, NEW c \in Conns, PeerSends(c) \/ PeerCloses(c)
    PROVE  IInv'
<1>1. UNCHANGED <<mainVars, ioVars, maps, pending, context, buckets, crashed>>
  BY DEF PeerSends, PeerCloses
<1>2. peerData' \in [Conns -> BOOLEAN] /\ peerClosed' \in [Conns -> BOOLEAN]
  BY DEF IInv, TypeOK, PeerSends, PeerCloses
<1>3. \A d \in Conns : /\ Alive(d)' = Alive(d) /\ ToBeCreated(d)' = ToBeCreated(d)
                       /\ InWheel(d)' = InWheel(d) /\ Held(d)' = Held(d)
  BY <1>1 DEF Alive, ToBeCreated, InWheel, Registered, Held, mainVars, ioVars, maps
<1>4. TypeOK' /\ StagesKept'
  BY <1>1, <1>2 DEF IInv, TypeOK, StagesKept, mainVars, ioVars, maps
<1>5. KnownAreAccepted' /\ CreatedOnce' /\ FdsDistinct'
  BY <1>1, <1>3 DEF IInv, KnownAreAccepted, CreatedOnce, FdsDistinct, mainVars, ioVars
<1>6. MapsAgree' /\ CloseHitsOwner' /\ ActiveAreRegistered'
  BY <1>1 DEF IInv, MapsAgree, CloseHitsOwner, ActiveAreRegistered, mainVars, ioVars, maps
<1>7. EntryMovesOn' /\ ContextFollowsEntry'
  BY <1>1, <1>3 DEF IInv, EntryMovesOn, ContextFollowsEntry, mainVars
<1> QED
  BY <1>4, <1>5, <1>6, <1>7 DEF IInv

\* onTimer: the entries that leave the wheel are those about to be destroyed.
LEMMA OnTimerStep ==
    ASSUME IInv, OnTimer
    PROVE  IInv'
<1> DEFINE turned == Append(buckets, {})
           kept == IF Len(turned) > WheelSize THEN Tail(turned) ELSE turned
<1>1. /\ UNCHANGED <<accepted, fd, loop, nextLoop, kicking, pending, ioVars, maps, peerVars,
                     context, crashed>>
      /\ buckets' = kept /\ expiring = {} /\ kicking = None
      /\ expiring' = {c \in Conns : InWheel(c) /\ \A i \in DOMAIN kept : c \notin kept[i]}
  BY DEF OnTimer, MainIdle
<1>2. buckets \in Seq(SUBSET Conns) /\ buckets # <<>>
  BY DEF IInv, TypeOK
<1>3. /\ turned \in Seq(SUBSET Conns) /\ Len(turned) = Len(buckets) + 1 /\ Len(buckets) \in Nat \ {0}
      /\ \A i \in 1 .. Len(buckets) : turned[i] = buckets[i]
      /\ turned[Len(buckets) + 1] = {}
  BY <1>2
<1> HIDE DEF turned
<1>4. /\ kept \in Seq(SUBSET Conns) /\ kept # <<>>
      /\ \A i \in DOMAIN kept : \E j \in DOMAIN turned : kept[i] = turned[j]
  <2>1. CASE kept = turned
    BY <2>1, <1>3
  <2>2. CASE kept = Tail(turned)
    BY <2>2, <1>3, HeadTailProperties
  <2> QED
    BY <2>1, <2>2
<1>5. \A c \in Conns, i \in DOMAIN kept : c \in kept[i] => InWheel(c)
  <2> TAKE c \in Conns, i \in DOMAIN kept
  <2>1. PICK j \in DOMAIN turned : kept[i] = turned[j]
    BY <1>4
  <2>2. j \in 1 .. Len(buckets) \/ j = Len(buckets) + 1
    BY <1>3, <2>1
  <2> QED
    BY <2>1, <2>2, <1>3, <1>2 DEF InWheel
<1> HIDE DEF kept
<1>6. \A c \in Conns : /\ InWheel(c)' <=> InWheel(c) /\ c \notin expiring'
                       /\ c \in expiring' => InWheel(c) /\ ~InWheel(c)'
  BY <1>1, <1>5 DEF InWheel
<1>7. \A c \in Conns : Alive(c)' = Alive(c) /\ ToBeCreated(c)' = ToBeCreated(c) /\ Held(c)' = Held(c)
  BY <1>1 DEF Alive, ToBeCreated, Registered, Held, ioVars, maps
<1>8. TypeOK' /\ StagesKept'
  BY <1>1, <1>4 DEF IInv, TypeOK, StagesKept, ioVars, maps, peerVars
<1>9. KnownAreAccepted' /\ CreatedOnce' /\ FdsDistinct'
  BY <1>1, <1>7 DEF IInv, KnownAreAccepted, CreatedOnce, FdsDistinct, ioVars
<1>10. MapsAgree' /\ CloseHitsOwner' /\ ActiveAreRegistered'
  BY <1>1 DEF IInv, MapsAgree, CloseHitsOwner, ActiveAreRegistered, ioVars, maps
<1>11. EntryMovesOn'
  BY <1>1, <1>6, <1>7 DEF IInv, EntryMovesOn, None, Conns
<1>12. ContextFollowsEntry'
  BY <1>1, <1>6 DEF IInv, ContextFollowsEntry
<1> QED
  BY <1>8, <1>9, <1>10, <1>11, <1>12 DEF IInv

\* ~Entry begins: the connection it locks is one that somebody still holds.
LEMMA DestroyEntryStep ==
    ASSUME IInv, NEW c \in Conns, DestroyEntry(c)
    PROVE  IInv'
<1>1. /\ UNCHANGED <<accepted, fd, loop, nextLoop, pending, ioVars, maps, peerVars, buckets, crashed>>
      /\ c \in expiring /\ kicking = None /\ expiring' = expiring \ {c}
      /\ context' = [context EXCEPT ![c] = "freed"]
      /\ (kicking' = c /\ Alive(c)) \/ kicking' = None
  BY DEF DestroyEntry
<1>2. \A d \in Conns : /\ ToBeCreated(d)' = ToBeCreated(d) /\ InWheel(d)' = InWheel(d)
                       /\ Alive(d)' => Alive(d)
                       /\ Held(d)' => Held(d)
  BY <1>1, ServerConstants
  DEF Alive, ToBeCreated, InWheel, Registered, Held, ioVars, maps, None, Conns
<1>3. TypeOK' /\ StagesKept'
  BY <1>1 DEF IInv, TypeOK, StagesKept, ioVars, maps, peerVars
<1>4. KnownAreAccepted' /\ CreatedOnce' /\ FdsDistinct'
  BY <1>1, <1>2 DEF IInv, KnownAreAccepted, CreatedOnce, FdsDistinct, ioVars
<1>5. MapsAgree' /\ CloseHitsOwner' /\ ActiveAreRegistered'
  BY <1>1 DEF IInv, MapsAgree, CloseHitsOwner, ActiveAreRegistered, ioVars, maps
<1>6. EntryMovesOn'
  BY <1>1, <1>2, ServerConstants DEF IInv, EntryMovesOn, None, Conns
<1>7. ContextFollowsEntry'
  BY <1>1, <1>2 DEF IInv, ContextFollowsEntry, EntryMovesOn, TypeOK
<1> QED
  BY <1>3, <1>4, <1>5, <1>6, <1>7 DEF IInv

\* What a descriptor is registered for is the connection that owns it.
LEMMA OwnerIsRegistered ==
    ASSUME IInv, NEW c \in Conns, Held(c), NEW l \in Loops
    PROVE  chanMap[l][fd[c]] \in {c, None}
<1> DEFINE d == chanMap[l][fd[c]]
<1>1. fd[c] \in Fds
  BY DEF IInv, KnownAreAccepted
<1>2. d \in Conns \cup {None}
  BY <1>1 DEF IInv, TypeOK
<1>3. d # None => d \in Conns /\ Registered(d) /\ fd[d] = fd[c]
  BY <1>1, <1>2 DEF IInv, MapsAgree, Registered
<1>4. d # None => Held(d)
  BY <1>3 DEF Held, Alive
<1> HIDE DEF d
<1> QED
  BY <1>3, <1>4 DEF IInv, FdsDistinct, d

\* The rest of ~Entry: a close goes to the end of the tasks of the loop of a
\* connection the main thread still holds.
LEMMA KickStep ==
    ASSUME IInv, NEW c \in Conns, Kick(c)
    PROVE  IInv'
<1> DEFINE l == loop[c]
           n == Len(pending[l])
           t == <<"close", c>>
<1>1. /\ UNCHANGED <<accepted, fd, loop, nextLoop, expiring, ioVars, maps, peerVars, buckets, crashed>>
      /\ kicking = c /\ kicking' = None
      /\ context' = [context EXCEPT ![c] = "null"]
      /\ pending' = [pending EXCEPT ![l] = Append(@, t)]
  BY DEF Kick
<1>2. Alive(c) /\ Held(c) /\ c <= accepted /\ l \in Loops /\ fd[c] \in Fds
  BY <1>1 DEF IInv, Alive, Held, KnownAreAccepted
<1>3. pending \in [Loops -> Seq(Tasks)] /\ t \in Tasks
  BY DEF IInv, TypeOK, Tasks
<1>4. /\ pending' \in [Loops -> Seq(Tasks)]
      /\ \A m \in Loops : /\ Len(pending[m]) \in Nat /\ DOMAIN pending[m] = 1 .. Len(pending[m])
                          /\ Len(pending'[m]) \in Nat /\ DOMAIN pending'[m] = 1 .. Len(pending'[m])
                          /\ Len(pending[m]) <= Len(pending'[m])
      /\ \A m \in Loops : \A i \in DOMAIN pending[m] :
            i \in DOMAIN pending'[m] /\ pending'[m][i] = pending[m][i]
      /\ \A m \in Loops : \A i \in DOMAIN pending'[m] :
            i \in DOMAIN pending[m] \/ (m = l /\ i = n + 1 /\ pending'[m][i] = t)
  BY <1>1, <1>2, <1>3, HandedOver
<1> HIDE DEF n, l
<1>6. \A d \in Conns : ToBeCreated(d)' <=> ToBeCreated(d)
  <2> TAKE d \in Conns
  <2>1. ASSUME ToBeCreated(d)'
        PROVE  ToBeCreated(d)
    <3>1. PICK m \in Loops : \E i \in DOMAIN pending'[m] : pending'[m][i] = <<"create", d>>
      BY <2>1 DEF ToBeCreated
    <3>2. PICK i \in DOMAIN pending'[m] : pending'[m][i] = <<"create", d>>
      BY <3>1
    <3>3. pending'[m][i] # t
      BY <3>2
    <3> QED
      BY <3>2, <3>3, <1>4 DEF ToBeCreated
  <2>2. ASSUME ToBeCreated(d)
        PROVE  ToBeCreated(d)'
    BY <2>2, <1>4 DEF ToBeCreated
  <2> QED
    BY <2>1, <2>2
<1>7. \A d \in Conns : /\ Alive(d)' => Alive(d)
                       /\ Held(d)' => Held(d)
                       /\ InWheel(d)' <=> InWheel(d)
  BY <1>1, <1>6, ServerConstants DEF Alive, Held, InWheel, Registered, ioVars, maps, None, Conns
<1>8. TypeOK'
  BY <1>1, <1>4 DEF IInv, TypeOK, ioVars, maps, peerVars
<1>9. StagesKept'
  <2>1. \A m \in Loops : batch[m] \in Nat
    BY DEF IInv, TypeOK
  <2> QED
    BY <1>1, <1>4, <2>1 DEF IInv, StagesKept, ioVars
<1>10. KnownAreAccepted'
  BY <1>1, <1>2, <1>4, <1>7 DEF IInv, KnownAreAccepted, l, ioVars
<1>11. CreatedOnce'
  BY <1>4, <1>6, <1>7 DEF IInv, CreatedOnce
<1>12. FdsDistinct'
  BY <1>1, <1>7 DEF IInv, FdsDistinct
<1>13. MapsAgree' /\ ActiveAreRegistered'
  BY <1>1 DEF IInv, MapsAgree, ActiveAreRegistered, ioVars, maps
<1>14. CloseHitsOwner'
  <2>1. ASSUME NEW m \in Loops, NEW i \in DOMAIN pending'[m], NEW e \in Conns,
               pending'[m][i] = <<"close", e>>
        PROVE  /\ chanMap[m][fd[e]] \in {e, None}
               /\ \A j \in 1 .. i : \A d \in Conns :
                     pending'[m][j] = <<"create", d>> => fd[d] # fd[e]
    <3>1. CASE i \in DOMAIN pending[m]
      <4>1. \A j \in 1 .. i : j \in DOMAIN pending[m]
        BY <3>1, <1>4
      <4> QED
        BY <2>1, <3>1, <4>1, <1>4 DEF IInv, CloseHitsOwner
    <3>2. CASE m = l /\ i = n + 1 /\ pending'[m][i] = t
      <4>1. e = c
        BY <2>1, <3>2
      <4>2. ASSUME NEW j \in 1 .. i, NEW d \in Conns, pending'[m][j] = <<"create", d>>
            PROVE  fd[d] # fd[c]
        <5>1. j \in DOMAIN pending'[m] /\ pending'[m][j] # t
          BY <4>2, <1>4
        <5>2. j \in DOMAIN pending[m] /\ pending[m][j] = <<"create", d>>
          BY <4>2, <5>1, <1>4
        <5>3. ToBeCreated(d) /\ Held(d)
          BY <5>2 DEF ToBeCreated, Held
        <5> QED
          BY <5>3, <1>2 DEF IInv, FdsDistinct, CreatedOnce
      <4> QED
        BY <4>1, <4>2, <1>2, OwnerIsRegistered, <3>2 DEF l
    <3> QED
      BY <3>1, <3>2, <1>4
  <2>2. chanMap' = chanMap /\ fd' = fd
    BY <1>1 DEF maps
  <2> QED
    BY <2>1, <2>2 DEF CloseHitsOwner
<1>15. EntryMovesOn'
  BY <1>1, <1>6, <1>7, ServerConstants DEF IInv, EntryMovesOn, None, Conns
<1>16. ContextFollowsEntry'
  BY <1>1, <1>7 DEF IInv, ContextFollowsEntry, EntryMovesOn, TypeOK
<1> QED
  BY <1>8, <1>9, <1>10, <1>11, <1>12, <1>13, <1>14, <1>15, <1>16 DEF IInv

\* The kernel gives a descriptor nobody owns.
LEMMA LowestFreeIsFree ==
    ASSUME Fds \ OpenFds # {}
    PROVE  LowestFree \in Fds \ OpenFds
<1>1. Fds \ OpenFds \in SUBSET Nat
  BY ServerConstants
<1>2. \E f \in Fds \ OpenFds : \A g \in Fds \ OpenFds : f <= g
  <2> DEFINE S == Fds \ OpenFds
  <2>1. S \in SUBSET Nat /\ S # {}
    BY <1>1
  <2> HIDE DEF S
  <2>2. PICK f \in S : \A g \in S : ~(<<g, f>> \in OpToRel(<, Nat))
    BY <2>1, NatLessThanWellFounded, WFMin
  <2>3. \A g \in S : ~(g < f)
    <3> TAKE g \in S
    <3>1. <<g, f>> \in Nat \X Nat /\ <<g, f>>[1] = g /\ <<g, f>>[2] = f
      BY <2>1
    <3> QED
      BY <3>1, <2>2 DEF OpToRel
  <2>4. \A g \in S : f <= g
    BY <2>1, <2>3
  <2> QED
    BY <2>4 DEF S
<1> QED
  BY <1>2 DEF LowestFree

\* A connection is accepted: its descriptor is nobody's and nobody knows it.
LEMMA AcceptStep ==
    ASSUME IInv, Accept
    PROVE  IInv'
<1> DEFINE c == accepted + 1
           l == nextLoop
           f == LowestFree
           n == Len(pending[l])
           t == <<"create", c>>
<1>1. /\ UNCHANGED <<ioVars, maps, peerVars, context, buckets, expiring, kicking, crashed>>
      /\ c \in Conns /\ Fds \ OpenFds # {}
      /\ accepted' = c /\ fd' = [fd EXCEPT ![c] = f] /\ loop' = [loop EXCEPT ![c] = l]
      /\ nextLoop' = NextLoop(l)
      /\ pending' = [pending EXCEPT ![l] = Append(@, t)]
  BY DEF Accept
<1>2. /\ accepted \in Nat /\ l \in Loops /\ f \in Fds /\ f \notin OpenFds
      /\ \A d \in Conns : d <= accepted => d # c /\ d <= c
      /\ \A d \in Conns : d <= c => d <= accepted \/ d = c
      /\ ~(c <= accepted) /\ c > accepted
  BY <1>1, LowestFreeIsFree DEF IInv, TypeOK, Conns
<1>3. pending \in [Loops -> Seq(Tasks)] /\ t \in Tasks
  BY <1>1 DEF IInv, TypeOK, Tasks
<1>4. /\ pending' \in [Loops -> Seq(Tasks)]
      /\ \A m \in Loops : /\ Len(pending[m]) \in Nat /\ DOMAIN pending[m] = 1 .. Len(pending[m])
                          /\ Len(pending'[m]) \in Nat /\ DOMAIN pending'[m] = 1 .. Len(pending'[m])
                          /\ Len(pending[m]) <= Len(pending'[m])
      /\ \A m \in Loops : \A i \in DOMAIN pending[m] :
            i \in DOMAIN pending'[m] /\ pending'[m][i] = pending[m][i]
      /\ \A m \in Loops : \A i \in DOMAIN pending'[m] :
            i \in DOMAIN pending[m] \/ (m = l /\ i = n + 1 /\ pending'[m][i] = t)
  BY <1>1, <1>2, <1>3, HandedOver
<1>5. /\ fd' \in [Conns -> Fds \cup {None}] /\ loop' \in [Conns -> Loops \cup {None}]
      /\ fd'[c] = f /\ loop'[c] = l
      /\ \A d \in Conns : d # c => fd'[d] = fd[d] /\ loop'[d] = loop[d]
  BY <1>1, <1>2 DEF IInv, TypeOK
<1> HIDE DEF n, l, f
<1>6. \A d \in Conns : ToBeCreated(d)' => ToBeCreated(d) \/ d = c
  <2> TAKE d \in Conns
  <2> SUFFICES ASSUME ToBeCreated(d)', d # c
               PROVE  ToBeCreated(d)
    OBVIOUS
  <2>1. PICK m \in Loops : \E i \in DOMAIN pending'[m] : pending'[m][i] = <<"create", d>>
    BY DEF ToBeCreated
  <2>2. PICK i \in DOMAIN pending'[m] : pending'[m][i] = <<"create", d>>
    BY <2>1
  <2>3. pending'[m][i] # t
    BY <2>2
  <2> QED
    BY <2>2, <2>3, <1>4 DEF ToBeCreated
<1>7. \A d \in Conns : Alive(d)' <=> Alive(d)
  BY <1>1 DEF Alive, Registered, ioVars, maps
<1>8. \A d \in Conns : Held(d)' => Held(d) \/ d = c
  BY <1>6, <1>7 DEF Held
<1>9. \A d \in Conns : InWheel(d)' <=> InWheel(d)
  BY <1>1 DEF InWheel
<1>10. TypeOK'
  <2>1. nextLoop' \in Loops
    BY <1>1, <1>2, ServerConstants DEF NextLoop, Loops
  <2>2. accepted' \in 0 .. MaxConns
    BY <1>1 DEF Conns
  <2> QED
    BY <1>1, <1>4, <1>5, <2>1, <2>2 DEF IInv, TypeOK, ioVars, maps, peerVars
<1>11. StagesKept'
  <2>1. \A m \in Loops : batch[m] \in Nat
    BY DEF IInv, TypeOK
  <2> QED
    BY <1>1, <1>4, <2>1 DEF IInv, StagesKept, ioVars
<1>12. \A m \in Loops : \A i \in DOMAIN pending[m] :
            /\ pending[m][i] \in Tasks /\ pending[m][i][2] \in Conns
            /\ pending[m][i][2] <= accepted /\ pending[m][i][2] # c
  BY <1>2, <1>3, <1>4 DEF IInv, KnownAreAccepted, Tasks
<1>13. KnownAreAccepted'
  <2>1. \A d \in Conns : d <= accepted' => fd'[d] \in Fds /\ loop'[d] \in Loops
    BY <1>1, <1>2, <1>5 DEF IInv, KnownAreAccepted
  <2>2. \A d \in Conns : Held(d)' => d <= accepted'
    BY <1>1, <1>2, <1>8 DEF IInv, KnownAreAccepted
  <2>3. \A m \in Loops : \A d \in active[m] : d \in Conns /\ d <= accepted
    BY DEF IInv, KnownAreAccepted, TypeOK
  <2>4. \A m \in Loops : \A d \in active'[m] : d <= accepted'
    BY <1>1, <1>2, <2>3 DEF ioVars
  <2>5. ASSUME NEW m \in Loops, NEW i \in DOMAIN pending'[m]
        PROVE  pending'[m][i][2] <= accepted' /\ loop'[pending'[m][i][2]] = m
    <3>1. CASE i \in DOMAIN pending[m]
      BY <3>1, <1>1, <1>2, <1>4, <1>5, <1>12 DEF IInv, KnownAreAccepted
    <3>2. CASE m = l /\ i = n + 1 /\ pending'[m][i] = t
      BY <3>2, <1>1, <1>2, <1>5
    <3> QED
      BY <3>1, <3>2, <1>4
  <2> QED
    BY <2>1, <2>2, <2>4, <2>5 DEF KnownAreAccepted
<1>14. CreatedOnce'
  <2>1. \A m \in Loops : \A i, j \in DOMAIN pending'[m] :
            pending'[m][i] = pending'[m][j] /\ pending'[m][i][1] = "create" => i = j
    <3>1. \A m \in Loops : \A i \in DOMAIN pending[m] : pending'[m][i] # t
      BY <1>4, <1>12
    <3> QED
      BY <3>1, <1>4 DEF IInv, CreatedOnce
  <2>2. ~Alive(c)
    BY <1>1, <1>2 DEF IInv, KnownAreAccepted, Held
  <2> QED
    BY <2>1, <2>2, <1>6, <1>7 DEF IInv, CreatedOnce
<1>15. FdsDistinct'
  <2>1. \A d \in Conns : Held(d) => fd[d] # f /\ d # c
    BY <1>2 DEF OpenFds, IInv, KnownAreAccepted
  <2> QED
    BY <1>5, <1>8, <2>1 DEF IInv, FdsDistinct
<1>16. \A m \in Loops, g \in Fds : chanMap[m][g] # None =>
            chanMap[m][g] \in Conns /\ chanMap[m][g] <= accepted
  <2>1. \A m \in Loops, g \in Fds : chanMap[m][g] # None =>
            chanMap[m][g] \in Conns /\ Held(chanMap[m][g])
    BY DEF IInv, TypeOK, MapsAgree, Held, Alive, Registered
  <2> QED
    BY <2>1 DEF IInv, KnownAreAccepted
<1>17. MapsAgree'
  BY <1>1, <1>2, <1>5, <1>16 DEF IInv, MapsAgree, maps
<1>18. ActiveAreRegistered'
  <2>1. \A m \in Loops : \A d \in active[m] : d \in Conns /\ d # c
    BY <1>2 DEF IInv, KnownAreAccepted, TypeOK
  <2> QED
    BY <1>1, <1>5, <2>1 DEF IInv, ActiveAreRegistered, ioVars, maps
<1>19. CloseHitsOwner'
  <2>1. ASSUME NEW m \in Loops, NEW i \in DOMAIN pending'[m], NEW e \in Conns,
               pending'[m][i] = <<"close", e>>
        PROVE  /\ chanMap'[m][fd'[e]] \in {e, None}
               /\ \A j \in 1 .. i : \A d \in Conns :
                     pending'[m][j] = <<"create", d>> => fd'[d] # fd'[e]
    <3>1. i \in DOMAIN pending[m] /\ pending[m][i] = <<"close", e>>
      BY <2>1, <1>4
    <3>2. \A j \in 1 .. i : j \in DOMAIN pending[m] /\ pending'[m][j] = pending[m][j]
      BY <3>1, <1>4
    <3>3. e # c /\ fd'[e] = fd[e]
      BY <3>1, <1>5, <1>12
    <3>4. \A j \in 1 .. i : \A d \in Conns :
                pending'[m][j] = <<"create", d>> => fd'[d] = fd[d]
      BY <3>2, <1>5, <1>12
    <3> QED
      BY <1>1, <3>1, <3>2, <3>3, <3>4 DEF IInv, CloseHitsOwner, maps
  <2> QED
    BY <2>1 DEF CloseHitsOwner
<1>20. EntryMovesOn'
  BY <1>1, <1>2, <1>6, <1>9 DEF IInv, EntryMovesOn, Conns
<1>21. ContextFollowsEntry'
  BY <1>1, <1>9 DEF IInv, ContextFollowsEntry
<1> QED
  BY <1>10, <1>11, <1>13, <1>14, <1>15, <1>17, <1>18, <1>19, <1>20, <1>21 DEF IInv

\* removeConnection takes one place out of both maps, or none.
LEMMA Removed ==
    ASSUME IInv, NEW l \in Loops, NEW f \in Fds, RemoveConnection(l, f)
    PROVE  /\ chanMap' \in [Loops -> [Fds -> Conns \cup {None}]]
           /\ connMap' \in [Loops -> [Fds -> Conns \cup {None}]]
           /\ crashed' \in {"no", "channel", "context"}
           /\ \A m \in Loops, g \in Fds :
                /\ chanMap'[m][g] = connMap'[m][g]
                /\ chanMap'[m][g] \in {chanMap[m][g], None}
                /\ m # l \/ g # f => chanMap'[m][g] = chanMap[m][g]
           /\ \A c \in Conns : Registered(c)' => Registered(c)
<1>1. /\ chanMap \in [Loops -> [Fds -> Conns \cup {None}]]
      /\ connMap \in [Loops -> [Fds -> Conns \cup {None}]]
      /\ crashed \in {"no", "channel", "context"}
      /\ \A m \in Loops, g \in Fds : chanMap[m][g] = connMap[m][g]
  BY DEF IInv, TypeOK, MapsAgree
<1>2. CASE crashed' = "channel" /\ UNCHANGED maps
  BY <1>1, <1>2 DEF maps, Registered
<1>3. CASE /\ chanMap' = [chanMap EXCEPT ![l][f] = None]
           /\ connMap' = [connMap EXCEPT ![l][f] = None]
           /\ UNCHANGED crashed
  <2>1. /\ chanMap' \in [Loops -> [Fds -> Conns \cup {None}]]
        /\ connMap' \in [Loops -> [Fds -> Conns \cup {None}]]
    BY <1>1, <1>3
  <2>2. \A m \in Loops, g \in Fds :
            /\ chanMap'[m][g] = IF m = l /\ g = f THEN None ELSE chanMap[m][g]
            /\ connMap'[m][g] = IF m = l /\ g = f THEN None ELSE connMap[m][g]
    BY <1>1, <1>3
  <2>3. \A c \in Conns : Registered(c)' => Registered(c)
    BY <2>2, ServerConstants DEF Registered, None, Conns
  <2> QED
    BY <1>1, <1>3, <2>1, <2>2, <2>3
<1> QED
  BY <1>2, <1>3 DEF RemoveConnection

\* Maps that shrink, with everything else about connections as it was or less.
LEMMA ShrunkMaps ==
    ASSUME IInv, UNCHANGED <<fd, loop>>,
           \A m \in Loops, g \in Fds :
                chanMap'[m][g] = connMap'[m][g] /\ chanMap'[m][g] \in {chanMap[m][g], None}
    PROVE  MapsAgree'
  BY DEF IInv, MapsAgree

\* A connection in ActivityChannel is registered.
LEMMA ActiveIsAlive ==
    ASSUME IInv, NEW l \in Loops, NEW c \in Conns, c \in active[l]
    PROVE  /\ chanMap[l][fd[c]] = c /\ fd[c] \in Fds /\ phase[l] = "events"
           /\ Registered(c) /\ Alive(c) /\ Held(c)
<1>1. fd[c] \in Fds /\ chanMap[l][fd[c]] = c /\ phase[l] = "events"
  BY DEF IInv, KnownAreAccepted, ActiveAreRegistered, StagesKept
<1>2. connMap[l][fd[c]] = c
  BY <1>1 DEF IInv, MapsAgree
<1> QED
  BY <1>1, <1>2 DEF Registered, Alive, Held

\* A read callback that closes the connection or does not, and that may be
\* about to touch its entry.
LEMMA HandledStep ==
    ASSUME IInv, NEW l \in Loops, NEW c \in Conns, c \in active[l],
           UNCHANGED <<mainVars, batch, phase, pending, context, buckets>>,
           active' = [active EXCEPT ![l] = @ \ {c}],
           touching' = touching \/ touching' = [touching EXCEPT ![l] = c]
                                \/ touching' = [touching EXCEPT ![l] = None],
           peerData' \in [Conns -> BOOLEAN], peerClosed' \in [Conns -> BOOLEAN],
           UNCHANGED <<maps, crashed>> \/ RemoveConnection(l, fd[c])
    PROVE  IInv'
<1>1. /\ chanMap[l][fd[c]] = c /\ fd[c] \in Fds /\ phase[l] = "events"
      /\ Registered(c) /\ Alive(c) /\ Held(c)
  BY ActiveIsAlive
<1>2. /\ chanMap' \in [Loops -> [Fds -> Conns \cup {None}]]
      /\ connMap' \in [Loops -> [Fds -> Conns \cup {None}]]
      /\ crashed' \in {"no", "channel", "context"}
      /\ \A m \in Loops, g \in Fds :
            /\ chanMap'[m][g] = connMap'[m][g]
            /\ chanMap'[m][g] \in {chanMap[m][g], None}
            /\ m # l \/ g # fd[c] => chanMap'[m][g] = chanMap[m][g]
      /\ \A d \in Conns : Registered(d)' => Registered(d)
  <2>1. CASE UNCHANGED <<maps, crashed>>
    BY <2>1 DEF IInv, TypeOK, MapsAgree, Registered, maps
  <2>2. CASE RemoveConnection(l, fd[c])
    BY <2>2, <1>1, Removed
  <2> QED
    BY <2>1, <2>2
<1>3. /\ active \in [Loops -> SUBSET Conns] /\ touching \in [Loops -> Conns \cup {None}]
      /\ active' \in [Loops -> SUBSET Conns] /\ touching' \in [Loops -> Conns \cup {None}]
      /\ \A m \in Loops : active'[m] \subseteq active[m] /\ c \notin active'[l]
      /\ \A m \in Loops : touching'[m] \in {touching[m], c, None}
      /\ \A m \in Loops : m # l => active'[m] = active[m] /\ touching'[m] = touching[m]
  <2>1. active \in [Loops -> SUBSET Conns] /\ touching \in [Loops -> Conns \cup {None}]
    BY DEF IInv, TypeOK
  <2>2. active' \in [Loops -> SUBSET Conns]
    BY <2>1
  <2>3. touching' \in [Loops -> Conns \cup {None}]
    BY <2>1
  <2>4. \A m \in Loops : active'[m] \subseteq active[m] /\ c \notin active'[l]
    BY <2>1
  <2>5. \A m \in Loops : touching'[m] \in {touching[m], c, None}
    BY <2>1
  <2>6. \A m \in Loops : m # l => active'[m] = active[m] /\ touching'[m] = touching[m]
    BY <2>1
  <2> QED
    BY <2>1, <2>2, <2>3, <2>4, <2>5, <2>6
<1>4. \A d \in Conns : /\ ToBeCreated(d)' <=> ToBeCreated(d)
                       /\ InWheel(d)' <=> InWheel(d)
  BY DEF ToBeCreated, InWheel
<1>5. \A d \in Conns : /\ Alive(d)' => Alive(d)
                       /\ Held(d)' => Held(d)
  BY <1>1, <1>2, <1>3, <1>4, ServerConstants DEF Alive, Held, mainVars, None, Conns
<1>6. TypeOK'
  BY <1>2, <1>3 DEF IInv, TypeOK, mainVars
<1>7. StagesKept'
  BY <1>1, <1>3 DEF IInv, StagesKept
<1>8. KnownAreAccepted'
  BY <1>3, <1>5 DEF IInv, KnownAreAccepted, mainVars
<1>9. CreatedOnce' /\ FdsDistinct'
  BY <1>4, <1>5 DEF IInv, CreatedOnce, FdsDistinct, mainVars
<1>10. MapsAgree'
  BY <1>2, ShrunkMaps DEF mainVars
<1>11. ActiveAreRegistered'
  <2>1. ASSUME NEW m \in Loops, NEW d \in active'[m]
        PROVE  chanMap'[m][fd[d]] = d
    <3>1. d \in Conns /\ d \in active[m] /\ (m = l => d # c)
      BY <2>1, <1>3
    <3>2. chanMap[m][fd[d]] = d /\ fd[d] \in Fds /\ Held(d)
      BY <3>1, ActiveIsAlive
    <3>3. m # l \/ fd[d] # fd[c]
      BY <3>1, <3>2, <1>1 DEF IInv, FdsDistinct
    <3> QED
      BY <3>2, <3>3, <1>2
  <2> QED
    BY <2>1 DEF ActiveAreRegistered, mainVars
<1>12. CloseHitsOwner'
  <2>1. \A m \in Loops : \A i \in DOMAIN pending[m] : \A e \in Conns :
            pending[m][i] = <<"close", e>> => fd[e] \in Fds
    BY DEF IInv, KnownAreAccepted
  <2>2. \A m \in Loops : \A i \in DOMAIN pending[m] : \A e \in Conns :
            pending[m][i] = <<"close", e>> => chanMap'[m][fd[e]] \in {e, None}
    <3> TAKE m \in Loops
    <3> TAKE i \in DOMAIN pending[m]
    <3> TAKE e \in Conns
    <3> HAVE pending[m][i] = <<"close", e>>
    <3>1. chanMap[m][fd[e]] \in {e, None}
      BY DEF IInv, CloseHitsOwner
    <3>2. fd[e] \in Fds
      BY <2>1
    <3>3. chanMap'[m][fd[e]] \in {chanMap[m][fd[e]], None}
      BY <3>2, <1>2
    <3> QED
      BY <3>1, <3>3
  <2>3. fd' = fd /\ pending' = pending
    BY DEF mainVars
  <2>4. \A m \in Loops : \A i \in DOMAIN pending[m] : \A e \in Conns :
            pending[m][i] = <<"close", e>> =>
                \A j \in 1 .. i : \A d \in Conns :
                    pending[m][j] = <<"create", d>> => fd[d] # fd[e]
    BY DEF IInv, CloseHitsOwner
  <2> QED
    BY <2>2, <2>3, <2>4 DEF CloseHitsOwner
<1>13. EntryMovesOn' /\ ContextFollowsEntry'
  BY <1>4 DEF IInv, EntryMovesOn, ContextFollowsEntry, mainVars
<1> QED
  BY <1>6, <1>7, <1>8, <1>9, <1>10, <1>11, <1>12, <1>13 DEF IInv

\* handleRead: the end of file, and data.
LEMMA HandleSteps ==
    ASSUME IInv, NEW l \in Loops, NEW c \in Conns, HandleEof(l, c) \/ HandleMessage(l, c)
    PROVE  IInv'
<1>1. CASE HandleEof(l, c)
  <2>1. peerData' \in [Conns -> BOOLEAN] /\ peerClosed' \in [Conns -> BOOLEAN]
    BY <1>1 DEF HandleEof, peerVars, IInv, TypeOK
  <2> QED
    BY <1>1, <2>1, HandledStep DEF HandleEof
<1>2. CASE HandleMessage(l, c)
  <2>1. peerData' \in [Conns -> BOOLEAN] /\ peerClosed' \in [Conns -> BOOLEAN]
    BY <1>2 DEF HandleMessage, IInv, TypeOK
  <2> QED
    BY <1>2, <2>1, HandledStep DEF HandleMessage
<1> QED
  BY <1>1, <1>2

\* An insertion into the newest bucket.
LEMMA Refreshed ==
    ASSUME buckets \in Seq(SUBSET Conns), buckets # <<>>, NEW c \in Conns, Refresh(c)
    PROVE  /\ buckets' \in Seq(SUBSET Conns) /\ buckets' # <<>>
           /\ \A d \in Conns : InWheel(d)' <=> InWheel(d) \/ d = c
<1> DEFINE n == Len(buckets)
<1>1. n \in 1 .. n /\ DOMAIN buckets = 1 .. n
  BY EmptySeq, LenProperties
<1>2. /\ buckets' = [buckets EXCEPT ![n] = @ \cup {c}]
      /\ DOMAIN buckets' = 1 .. n
      /\ \A i \in 1 .. n : buckets'[i] = IF i = n THEN buckets[n] \cup {c} ELSE buckets[i]
  BY <1>1 DEF Refresh
<1>3. buckets' \in Seq(SUBSET Conns) /\ buckets' # <<>>
  BY <1>1, <1>2
<1>4. \A d \in Conns : InWheel(d)' <=> InWheel(d) \/ d = c
  BY <1>1, <1>2 DEF InWheel
<1> QED
  BY <1>3, <1>4

\* The end of httpServer::handleRead: only an entry that is in the wheel is
\* put into the newest bucket.
LEMMA TouchStep ==
    ASSUME IInv, NEW l \in Loops, Touch(l)
    PROVE  IInv'
<1> DEFINE c == touching[l]
<1>1. /\ UNCHANGED <<mainVars, batch, phase, active, maps, peerVars, pending, context>>
      /\ c \in Conns /\ touching' = [touching EXCEPT ![l] = None]
  BY DEF Touch, IInv, TypeOK
<1>2. /\ buckets \in Seq(SUBSET Conns) /\ buckets # <<>>
      /\ touching \in [Loops -> Conns \cup {None}]
  BY DEF IInv, TypeOK
<1>3. /\ buckets' \in Seq(SUBSET Conns) /\ buckets' # <<>>
      /\ crashed' \in {"no", "channel", "context"}
      /\ \A d \in Conns : InWheel(d)' <=> InWheel(d)
  <2>1. CASE InWheel(c) /\ Refresh(c) /\ UNCHANGED crashed
    BY <2>1, <1>1, <1>2, Refreshed DEF IInv, TypeOK
  <2>2. CASE buckets' = buckets /\ crashed' \in {crashed, "context"}
    BY <2>2, <1>2 DEF InWheel, IInv, TypeOK
  <2> QED
    BY <2>1, <2>2 DEF Touch
<1>4. \A d \in Conns : /\ ToBeCreated(d)' <=> ToBeCreated(d)
                       /\ Alive(d)' => Alive(d)
                       /\ Held(d)' => Held(d)
  <2>1. \A m \in Loops : touching'[m] \in {touching[m], None}
    BY <1>1, <1>2
  <2>2. \A d \in Conns : ToBeCreated(d)' <=> ToBeCreated(d)
    BY <1>1 DEF ToBeCreated
  <2>3. \A d \in Conns : Registered(d)' <=> Registered(d)
    BY <1>1 DEF Registered, maps
  <2>4. \A d \in Conns : d # None /\ kicking' = kicking
    BY <1>1 DEF mainVars, None, Conns
  <2>5. \A d \in Conns : Alive(d)' => Alive(d)
    BY <2>1, <2>3, <2>4 DEF Alive
  <2> QED
    BY <2>2, <2>5 DEF Held
<1>5. TypeOK' /\ StagesKept'
  BY <1>1, <1>2, <1>3 DEF IInv, TypeOK, StagesKept, mainVars, maps, peerVars
<1>6. KnownAreAccepted' /\ CreatedOnce' /\ FdsDistinct'
  BY <1>1, <1>4 DEF IInv, KnownAreAccepted, CreatedOnce, FdsDistinct, mainVars
<1>7. MapsAgree' /\ ActiveAreRegistered' /\ CloseHitsOwner'
  BY <1>1 DEF IInv, MapsAgree, ActiveAreRegistered, CloseHitsOwner, mainVars, maps
<1>8. EntryMovesOn' /\ ContextFollowsEntry'
  BY <1>1, <1>3, <1>4 DEF IInv, EntryMovesOn, ContextFollowsEntry, mainVars
<1> QED
  BY <1>5, <1>6, <1>7, <1>8 DEF IInv

\* doPendingFunctors takes a task off the front: the others keep their order.
LEMMA TaskTaken ==
    ASSUME IInv, NEW l \in Loops, batch[l] > 0, TakeTask(l)
    PROVE  /\ pending' \in [Loops -> Seq(Tasks)] /\ batch' \in [Loops -> Nat]
           /\ phase[l] = "functors" /\ active[l] = {} /\ touching[l] = None
           /\ 1 \in DOMAIN pending[l] /\ pending[l][1] = Head(pending[l])
           /\ \A m \in Loops : /\ batch'[m] <= Len(pending'[m])
                               /\ phase[m] # "functors" => batch'[m] = 0
           /\ \A m \in Loops : \A i \in DOMAIN pending'[m] : i \in Nat \ {0}
           /\ \A i \in DOMAIN pending'[l] :
                i + 1 \in DOMAIN pending[l] /\ pending'[l][i] = pending[l][i + 1]
           /\ \A i \in DOMAIN pending[l] :
                i = 1 \/ (i - 1 \in DOMAIN pending'[l] /\ pending'[l][i - 1] = pending[l][i])
           /\ \A m \in Loops : m # l => pending'[m] = pending[m]
<1>1. /\ pending \in [Loops -> Seq(Tasks)] /\ batch \in [Loops -> Nat]
      /\ batch[l] <= Len(pending[l]) /\ Len(pending[l]) \in Nat
  BY DEF IInv, TypeOK, StagesKept
<1>2. pending[l] # <<>>
  BY <1>1
<1>3. /\ pending' = [pending EXCEPT ![l] = Tail(@)] /\ batch' = [batch EXCEPT ![l] = @ - 1]
  BY DEF TakeTask
<1>4. /\ pending' \in [Loops -> Seq(Tasks)]
      /\ Len(pending'[l]) = Len(pending[l]) - 1 /\ Len(pending[l]) \in Nat \ {0}
      /\ DOMAIN pending[l] = 1 .. Len(pending[l])
      /\ \A i \in DOMAIN pending'[l] :
            i + 1 \in DOMAIN pending[l] /\ pending'[l][i] = pending[l][i + 1]
      /\ \A i \in DOMAIN pending[l] :
            i = 1 \/ (i - 1 \in DOMAIN pending'[l] /\ pending'[l][i - 1] = pending[l][i])
      /\ \A m \in Loops : m # l => pending'[m] = pending[m]
  BY <1>1, <1>2, <1>3, TakenOff
<1>5. phase[l] = "functors" /\ active[l] = {} /\ touching[l] = None
  BY <1>1 DEF IInv, StagesKept
<1>6. /\ batch' \in [Loops -> Nat]
      /\ \A m \in Loops : /\ batch'[m] <= Len(pending'[m])
                          /\ phase[m] # "functors" => batch'[m] = 0
  BY <1>1, <1>3, <1>4, <1>5 DEF IInv, StagesKept
<1>7. \A m \in Loops : \A i \in DOMAIN pending'[m] : i \in Nat \ {0}
  BY <1>4, LenProperties
<1>8. 1 \in DOMAIN pending[l] /\ pending[l][1] = Head(pending[l])
  BY <1>1, <1>2, <1>4
<1> QED
  BY <1>4, <1>5, <1>6, <1>7, <1>8

\* newConnnection: the descriptor is in neither map, so that the connection
\* gets its place in both, and no close waiting behind means it.
LEMMA CreateStep ==
    ASSUME IInv, NEW l \in Loops, NEW c \in Conns, CreateConnection(l, c)
    PROVE  IInv'
<1> DEFINE t == <<"create", c>>
           f == fd[c]
<1>1. /\ UNCHANGED <<mainVars, phase, active, touching, peerVars, crashed>>
      /\ batch[l] > 0 /\ Head(pending[l]) = t /\ TakeTask(l) /\ Refresh(c)
      /\ context' = [context EXCEPT ![c] = "entry"]
      /\ chanMap' = [chanMap EXCEPT ![l][f] = c]
      /\ connMap' = [connMap EXCEPT ![l][f] = IF @ = None THEN c ELSE @]
  BY DEF CreateConnection, HeadIs
<1>2. /\ pending' \in [Loops -> Seq(Tasks)] /\ batch' \in [Loops -> Nat]
      /\ phase[l] = "functors" /\ active[l] = {} /\ touching[l] = None
      /\ 1 \in DOMAIN pending[l] /\ pending[l][1] = Head(pending[l])
      /\ \A m \in Loops : /\ batch'[m] <= Len(pending'[m])
                          /\ phase[m] # "functors" => batch'[m] = 0
      /\ \A m \in Loops : \A i \in DOMAIN pending'[m] : i \in Nat \ {0}
      /\ \A i \in DOMAIN pending'[l] :
            i + 1 \in DOMAIN pending[l] /\ pending'[l][i] = pending[l][i + 1]
      /\ \A i \in DOMAIN pending[l] :
            i = 1 \/ (i - 1 \in DOMAIN pending'[l] /\ pending'[l][i - 1] = pending[l][i])
      /\ \A m \in Loops : m # l => pending'[m] = pending[m]
  BY <1>1, TaskTaken
<1>3. ToBeCreated(c) /\ Held(c) /\ ~Alive(c) /\ ~Registered(c)
  <2>1. ToBeCreated(c)
    BY <1>1, <1>2 DEF ToBeCreated
  <2> QED
    BY <2>1 DEF Held, IInv, CreatedOnce, Alive
<1>4. c <= accepted /\ f \in Fds /\ loop[c] = l /\ c # None
  <2>1. pending[l][1][2] = c
    BY <1>1, <1>2
  <2> QED
    BY <1>2, <1>3, <2>1 DEF IInv, KnownAreAccepted, None, Conns
<1>5. \A m \in Loops : chanMap[m][f] = None /\ connMap[m][f] = None
  <2> TAKE m \in Loops
  <2>1. chanMap[m][f] \in {c, None} /\ chanMap[m][f] = connMap[m][f]
    BY <1>3, <1>4, OwnerIsRegistered DEF IInv, MapsAgree
  <2> QED
    BY <2>1, <1>3, <1>4 DEF Registered
<1>6. /\ chanMap' \in [Loops -> [Fds -> Conns \cup {None}]]
      /\ connMap' \in [Loops -> [Fds -> Conns \cup {None}]]
      /\ \A m \in Loops, g \in Fds :
            /\ chanMap'[m][g] = IF m = l /\ g = f THEN c ELSE chanMap[m][g]
            /\ connMap'[m][g] = IF m = l /\ g = f THEN c ELSE connMap[m][g]
  <2>1. /\ chanMap \in [Loops -> [Fds -> Conns \cup {None}]]
        /\ connMap \in [Loops -> [Fds -> Conns \cup {None}]]
    BY DEF IInv, TypeOK
  <2> QED
    BY <2>1, <1>1, <1>4, <1>5
<1>7. /\ buckets' \in Seq(SUBSET Conns) /\ buckets' # <<>>
      /\ \A d \in Conns : InWheel(d)' <=> InWheel(d) \/ d = c
  BY <1>1, Refreshed DEF IInv, TypeOK
<1> HIDE DEF f
<1>8. \A d \in Conns : ToBeCreated(d)' => ToBeCreated(d) /\ d # c
  <2> TAKE d \in Conns
  <2> SUFFICES ASSUME ToBeCreated(d)'
               PROVE  ToBeCreated(d) /\ d # c
    OBVIOUS
  <2>1. PICK m \in Loops : \E i \in DOMAIN pending'[m] : pending'[m][i] = <<"create", d>>
    BY DEF ToBeCreated
  <2>2. PICK i \in DOMAIN pending'[m] : pending'[m][i] = <<"create", d>>
    BY <2>1
  <2>3. CASE m = l
    <3>1. i + 1 \in DOMAIN pending[l] /\ pending[l][i + 1] = <<"create", d>> /\ i + 1 # 1
      BY <2>2, <2>3, <1>2
    <3>2. d # c
      <4> SUFFICES ASSUME d = c
                   PROVE  FALSE
        OBVIOUS
      <4>1. pending[l][1] = <<"create", c>> /\ pending[l][1][1] = "create"
        BY <1>1, <1>2
      <4>2. pending[l][1] = pending[l][i + 1]
        BY <3>1, <4>1
      <4> QED
        BY <3>1, <4>1, <4>2, <1>2 DEF IInv, CreatedOnce
    <3> QED
      BY <3>1, <3>2 DEF ToBeCreated
  <2>4. CASE m # l
    <3>1. i \in DOMAIN pending[m] /\ pending[m][i] = <<"create", d>>
      BY <2>2, <2>4, <1>2
    <3>2. loop[pending[m][i][2]] = m
      BY <3>1 DEF IInv, KnownAreAccepted
    <3> QED
      BY <3>1, <3>2, <2>4, <1>4 DEF ToBeCreated
  <2> QED
    BY <2>3, <2>4
<1>9. \A d \in Conns : Registered(d)' => Registered(d) \/ d = c
  BY <1>6 DEF Registered
<1>10. /\ \A d \in Conns : Alive(d)' => Alive(d) \/ d = c
       /\ \A d \in Conns : Held(d)' => Held(d)
  <2>1. \A d \in Conns : Alive(d)' => Alive(d) \/ d = c
    BY <1>1, <1>9 DEF Alive, mainVars
  <2> QED
    BY <2>1, <1>3, <1>8 DEF Held
<1>11. TypeOK'
  <2>1. context' \in [Conns -> {"null", "entry", "freed"}]
    BY <1>1 DEF IInv, TypeOK
  <2> QED
    BY <1>1, <1>2, <1>6, <1>7, <2>1 DEF IInv, TypeOK, mainVars, peerVars
<1>12. StagesKept'
  BY <1>1, <1>2 DEF IInv, StagesKept
<1>13. KnownAreAccepted'
  <2>1. ASSUME NEW m \in Loops, NEW i \in DOMAIN pending'[m]
        PROVE  pending'[m][i][2] <= accepted /\ loop[pending'[m][i][2]] = m
    <3>1. \E j \in DOMAIN pending[m] : pending'[m][i] = pending[m][j]
      <4>1. CASE m = l
        BY <4>1, <2>1, <1>2
      <4>2. CASE m # l
        BY <4>2, <2>1, <1>2
      <4> QED
        BY <4>1, <4>2
    <3>2. PICK j \in DOMAIN pending[m] : pending'[m][i] = pending[m][j]
      BY <3>1
    <3>3. pending[m][j][2] <= accepted /\ loop[pending[m][j][2]] = m
      BY DEF IInv, KnownAreAccepted
    <3> QED
      BY <3>2, <3>3
  <2> QED
    BY <1>1, <1>10, <2>1 DEF IInv, KnownAreAccepted, mainVars
<1>14. CreatedOnce'
  <2>1. ASSUME NEW m \in Loops, NEW i \in DOMAIN pending'[m], NEW j \in DOMAIN pending'[m],
               pending'[m][i] = pending'[m][j], pending'[m][i][1] = "create"
        PROVE  i = j
    <3>1. CASE m # l
      <4>1. /\ i \in DOMAIN pending[m] /\ pending'[m][i] = pending[m][i]
            /\ j \in DOMAIN pending[m] /\ pending'[m][j] = pending[m][j]
        BY <2>1, <3>1, <1>2
      <4>2. \A a, b \in DOMAIN pending[m] :
                pending[m][a] = pending[m][b] /\ pending[m][a][1] = "create" => a = b
        BY DEF IInv, CreatedOnce
      <4> QED
        BY <2>1, <4>1, <4>2
    <3>2. CASE m = l
      <4>1. /\ i + 1 \in DOMAIN pending[l] /\ pending'[l][i] = pending[l][i + 1]
            /\ j + 1 \in DOMAIN pending[l] /\ pending'[l][j] = pending[l][j + 1]
            /\ i \in Nat /\ j \in Nat
        BY <2>1, <3>2, <1>2
      <4>2. i + 1 = j + 1
        BY <2>1, <3>2, <4>1 DEF IInv, CreatedOnce
      <4> QED
        BY <4>1, <4>2
    <3> QED
      BY <3>1, <3>2
  <2>2. \A d \in Conns : ToBeCreated(d)' => ~Alive(d)'
    BY <1>8, <1>10 DEF IInv, CreatedOnce
  <2> QED
    BY <2>1, <2>2 DEF CreatedOnce
<1>15. FdsDistinct'
  BY <1>1, <1>10 DEF IInv, FdsDistinct, mainVars
<1>16. MapsAgree'
  BY <1>1, <1>4, <1>6 DEF IInv, MapsAgree, mainVars, f
<1>17. ActiveAreRegistered'
  <2>1. ASSUME NEW m \in Loops, NEW d \in active[m]
        PROVE  chanMap'[m][fd[d]] = d
    <3>1. d \in Conns /\ d \in active[m] /\ m # l
      BY <2>1, <1>2 DEF IInv, TypeOK
    <3>2. chanMap[m][fd[d]] = d /\ fd[d] \in Fds
      BY <3>1, ActiveIsAlive
    <3> QED
      BY <3>1, <3>2, <1>6
  <2> QED
    BY <2>1, <1>1 DEF ActiveAreRegistered, mainVars
<1>18. CloseHitsOwner'
  <2>1. ASSUME NEW m \in Loops, NEW i \in DOMAIN pending'[m], NEW e \in Conns,
               pending'[m][i] = <<"close", e>>
        PROVE  /\ chanMap'[m][fd[e]] \in {e, None}
               /\ \A j \in 1 .. i : \A d \in Conns :
                     pending'[m][j] = <<"create", d>> => fd[d] # fd[e]
    <3>0. fd[e] \in Fds
      <4>1. pending'[m][i][2] <= accepted' /\ pending'[m][i][2] = e
        BY <1>13, <2>1 DEF KnownAreAccepted
      <4> QED
        BY <4>1, <1>1 DEF IInv, KnownAreAccepted, mainVars
    <3>1. CASE m # l
      <4>1. pending'[m] = pending[m] /\ i \in DOMAIN pending[m] /\ pending[m][i] = <<"close", e>>
        BY <2>1, <3>1, <1>2
      <4>2. chanMap'[m][fd[e]] = chanMap[m][fd[e]]
        BY <3>0, <3>1, <1>6
      <4> QED
        BY <4>1, <4>2 DEF IInv, CloseHitsOwner
    <3>2. CASE m = l
      <4>1. /\ i \in Nat \ {0} /\ i + 1 \in DOMAIN pending[l]
            /\ pending[l][i + 1] = <<"close", e>>
        BY <2>1, <3>2, <1>2
      <4>2. /\ chanMap[l][fd[e]] \in {e, None}
            /\ \A j \in 1 .. (i + 1) : \A d \in Conns :
                    pending[l][j] = <<"create", d>> => fd[d] # fd[e]
        BY <4>1 DEF IInv, CloseHitsOwner
      <4>3. 1 \in 1 .. (i + 1) /\ pending[l][1] = <<"create", c>>
        BY <4>1, <1>1, <1>2
      <4>4. f # fd[e]
        BY <4>2, <4>3 DEF f
      <4>5. chanMap'[m][fd[e]] \in {e, None}
        BY <3>0, <3>2, <4>2, <4>4, <1>6
      <4>6. ASSUME NEW j \in 1 .. i, NEW d \in Conns, pending'[m][j] = <<"create", d>>
            PROVE  fd[d] # fd[e]
        <5>1. DOMAIN pending'[l] = 1 .. Len(pending'[l]) /\ Len(pending'[l]) \in Nat
          BY <1>2, LenProperties
        <5>2. j \in DOMAIN pending'[l] /\ j + 1 \in 1 .. (i + 1)
          BY <2>1, <3>2, <4>1, <5>1
        <5>3. pending[l][j + 1] = <<"create", d>>
          BY <3>2, <4>6, <5>2, <1>2
        <5> QED
          BY <4>2, <5>2, <5>3
      <4> QED
        BY <4>5, <4>6
    <3> QED
      BY <3>1, <3>2
  <2> QED
    BY <2>1, <1>1 DEF CloseHitsOwner, mainVars
<1>19. c \notin expiring /\ kicking # c
  BY <1>3 DEF IInv, EntryMovesOn, Alive
<1>20. EntryMovesOn'
  BY <1>1, <1>4, <1>7, <1>8, <1>19 DEF IInv, EntryMovesOn, mainVars, TypeOK, Conns
<1>21. ContextFollowsEntry'
  BY <1>1, <1>7, <1>19 DEF IInv, ContextFollowsEntry, mainVars, TypeOK
<1> QED
  BY <1>11, <1>12, <1>13, <1>14, <1>15, <1>16, <1>17, <1>18, <1>20, <1>21 DEF IInv

\* A queued close is run.
LEMMA CloseStep ==
    ASSUME IInv, NEW l \in Loops, NEW c \in Conns, CloseConnection(l, c)
    PROVE  IInv'
<1> DEFINE f == fd[c]
<1>1. /\ UNCHANGED <<mainVars, phase, active, touching, peerVars, context, buckets>>
      /\ batch[l] > 0 /\ Head(pending[l]) = <<"close", c>> /\ TakeTask(l)
      /\ RemoveConnection(l, f)
  BY DEF CloseConnection, HeadIs
<1>2. /\ pending' \in [Loops -> Seq(Tasks)] /\ batch' \in [Loops -> Nat]
      /\ phase[l] = "functors" /\ active[l] = {} /\ touching[l] = None
      /\ 1 \in DOMAIN pending[l] /\ pending[l][1] = Head(pending[l])
      /\ \A m \in Loops : /\ batch'[m] <= Len(pending'[m])
                          /\ phase[m] # "functors" => batch'[m] = 0
      /\ \A m \in Loops : \A i \in DOMAIN pending'[m] : i \in Nat \ {0}
      /\ \A i \in DOMAIN pending'[l] :
            i + 1 \in DOMAIN pending[l] /\ pending'[l][i] = pending[l][i + 1]
      /\ \A i \in DOMAIN pending[l] :
            i = 1 \/ (i - 1 \in DOMAIN pending'[l] /\ pending'[l][i - 1] = pending[l][i])
      /\ \A m \in Loops : m # l => pending'[m] = pending[m]
  BY <1>1, TaskTaken
<1>3. f \in Fds
  <2>1. pending[l][1][2] = c
    BY <1>1, <1>2
  <2> QED
    BY <1>2, <2>1 DEF IInv, KnownAreAccepted
<1> HIDE DEF f
<1>4. /\ chanMap' \in [Loops -> [Fds -> Conns \cup {None}]]
      /\ connMap' \in [Loops -> [Fds -> Conns \cup {None}]]
      /\ crashed' \in {"no", "channel", "context"}
      /\ \A m \in Loops, g \in Fds :
            /\ chanMap'[m][g] = connMap'[m][g]
            /\ chanMap'[m][g] \in {chanMap[m][g], None}
            /\ m # l \/ g # f => chanMap'[m][g] = chanMap[m][g]
      /\ \A d \in Conns : Registered(d)' => Registered(d)
  BY <1>1, <1>3, Removed
<1>5. \A d \in Conns : ToBeCreated(d)' => ToBeCreated(d)
  <2> TAKE d \in Conns
  <2> SUFFICES ASSUME ToBeCreated(d)'
               PROVE  ToBeCreated(d)
    OBVIOUS
  <2>1. PICK m \in Loops : \E i \in DOMAIN pending'[m] : pending'[m][i] = <<"create", d>>
    BY DEF ToBeCreated
  <2>2. PICK i \in DOMAIN pending'[m] : pending'[m][i] = <<"create", d>>
    BY <2>1
  <2>3. \E j \in DOMAIN pending[m] : pending[m][j] = <<"create", d>>
    <3>1. CASE m = l
      <4>1. i + 1 \in DOMAIN pending[l] /\ pending'[l][i] = pending[l][i + 1]
        BY <2>2, <3>1, <1>2
      <4> QED
        BY <2>2, <3>1, <4>1
    <3>2. CASE m # l
      BY <2>2, <3>2, <1>2
    <3> QED
      BY <3>1, <3>2
  <2> QED
    BY <2>3 DEF ToBeCreated
<1>6. /\ \A d \in Conns : Alive(d)' => Alive(d)
      /\ \A d \in Conns : Held(d)' => Held(d)
      /\ \A d \in Conns : InWheel(d)' <=> InWheel(d)
  <2>1. \A d \in Conns : Alive(d)' => Alive(d)
    BY <1>1, <1>4 DEF Alive, mainVars
  <2>2. \A d \in Conns : InWheel(d)' <=> InWheel(d)
    BY <1>1 DEF InWheel
  <2> QED
    BY <2>1, <2>2, <1>5 DEF Held
<1>7. TypeOK' /\ StagesKept'
  BY <1>1, <1>2, <1>4 DEF IInv, TypeOK, StagesKept, mainVars, peerVars
<1>8. KnownAreAccepted'
  <2>1. ASSUME NEW m \in Loops, NEW i \in DOMAIN pending'[m]
        PROVE  pending'[m][i][2] <= accepted /\ loop[pending'[m][i][2]] = m
    <3>1. \E j \in DOMAIN pending[m] : pending'[m][i] = pending[m][j]
      <4>1. CASE m = l
        BY <4>1, <2>1, <1>2
      <4>2. CASE m # l
        BY <4>2, <2>1, <1>2
      <4> QED
        BY <4>1, <4>2
    <3>2. PICK j \in DOMAIN pending[m] : pending'[m][i] = pending[m][j]
      BY <3>1
    <3>3. pending[m][j][2] <= accepted /\ loop[pending[m][j][2]] = m
      BY DEF IInv, KnownAreAccepted
    <3> QED
      BY <3>2, <3>3
  <2> QED
    BY <1>1, <1>6, <2>1 DEF IInv, KnownAreAccepted, mainVars
<1>9. CreatedOnce'
  <2>1. ASSUME NEW m \in Loops, NEW i \in DOMAIN pending'[m], NEW j \in DOMAIN pending'[m],
               pending'[m][i] = pending'[m][j], pending'[m][i][1] = "create"
        PROVE  i = j
    <3>1. CASE m # l
      <4>1. /\ i \in DOMAIN pending[m] /\ pending'[m][i] = pending[m][i]
            /\ j \in DOMAIN pending[m] /\ pending'[m][j] = pending[m][j]
        BY <2>1, <3>1, <1>2
      <4>2. \A a, b \in DOMAIN pending[m] :
                pending[m][a] = pending[m][b] /\ pending[m][a][1] = "create" => a = b
        BY DEF IInv, CreatedOnce
      <4> QED
        BY <2>1, <4>1, <4>2
    <3>2. CASE m = l
      <4>1. /\ i + 1 \in DOMAIN pending[l] /\ pending'[l][i] = pending[l][i + 1]
            /\ j + 1 \in DOMAIN pending[l] /\ pending'[l][j] = pending[l][j + 1]
            /\ i \in Nat /\ j \in Nat
        BY <2>1, <3>2, <1>2
      <4>2. i + 1 = j + 1
        BY <2>1, <3>2, <4>1 DEF IInv, CreatedOnce
      <4> QED
        BY <4>1, <4>2
    <3> QED
      BY <3>1, <3>2
  <2> QED
    BY <2>1, <1>5, <1>6 DEF IInv, CreatedOnce
<1>10. FdsDistinct'
  BY <1>1, <1>6 DEF IInv, FdsDistinct, mainVars
<1>11. MapsAgree'
  BY <1>1, <1>4, ShrunkMaps DEF mainVars
<1>12. ActiveAreRegistered'
  <2>1. ASSUME NEW m \in Loops, NEW d \in active[m]
        PROVE  chanMap'[m][fd[d]] = d
    <3>1. d \in Conns /\ d \in active[m] /\ m # l
      BY <2>1, <1>2 DEF IInv, TypeOK
    <3>2. chanMap[m][fd[d]] = d /\ fd[d] \in Fds
      BY <3>1, ActiveIsAlive
    <3> QED
      BY <3>1, <3>2, <1>4
  <2> QED
    BY <2>1, <1>1 DEF ActiveAreRegistered, mainVars
<1>13. CloseHitsOwner'
  <2>1. ASSUME NEW m \in Loops, NEW i \in DOMAIN pending'[m], NEW e \in Conns,
               pending'[m][i] = <<"close", e>>
        PROVE  /\ chanMap'[m][fd[e]] \in {e, None}
               /\ \A j \in 1 .. i : \A d \in Conns :
                     pending'[m][j] = <<"create", d>> => fd[d] # fd[e]
    <3>0. fd[e] \in Fds
      <4>1. pending'[m][i][2] <= accepted' /\ pending'[m][i][2] = e
        BY <1>8, <2>1 DEF KnownAreAccepted
      <4> QED
        BY <4>1, <1>1 DEF IInv, KnownAreAccepted, mainVars
    <3>1. CASE m # l
      <4>1. pending'[m] = pending[m] /\ i \in DOMAIN pending[m] /\ pending[m][i] = <<"close", e>>
        BY <2>1, <3>1, <1>2
      <4>2. chanMap'[m][fd[e]] = chanMap[m][fd[e]]
        BY <3>0, <3>1, <1>4
      <4> QED
        BY <4>1, <4>2 DEF IInv, CloseHitsOwner
    <3>2. CASE m = l
      <4>1. /\ i \in Nat \ {0} /\ i + 1 \in DOMAIN pending[l]
            /\ pending[l][i + 1] = <<"close", e>>
        BY <2>1, <3>2, <1>2
      <4>2. /\ chanMap[l][fd[e]] \in {e, None}
            /\ \A j \in 1 .. (i + 1) : \A d \in Conns :
                    pending[l][j] = <<"create", d>> => fd[d] # fd[e]
        BY <4>1 DEF IInv, CloseHitsOwner
      <4>3. chanMap'[m][fd[e]] \in {e, None}
        BY <3>0, <3>2, <4>2, <1>4
      <4>4. ASSUME NEW j \in 1 .. i, NEW d \in Conns, pending'[m][j] = <<"create", d>>
            PROVE  fd[d] # fd[e]
        <5>1. DOMAIN pending'[l] = 1 .. Len(pending'[l]) /\ Len(pending'[l]) \in Nat
          BY <1>2, LenProperties
        <5>2. j \in DOMAIN pending'[l] /\ j + 1 \in 1 .. (i + 1)
          BY <2>1, <3>2, <4>1, <5>1
        <5>3. pending[l][j + 1] = <<"create", d>>
          BY <3>2, <4>4, <5>2, <1>2
        <5> QED
          BY <4>2, <5>2, <5>3
      <4> QED
        BY <4>3, <4>4
    <3> QED
      BY <3>1, <3>2
  <2> QED
    BY <2>1, <1>1 DEF CloseHitsOwner, mainVars
<1>14. EntryMovesOn' /\ ContextFollowsEntry'
  BY <1>1, <1>5, <1>6 DEF IInv, EntryMovesOn, ContextFollowsEntry, mainVars
<1> QED
  BY <1>7, <1>8, <1>9, <1>10, <1>11, <1>12, <1>13, <1>14 DEF IInv

------------------------------------------------------------------------------
\* Whatever the threads and the peers do, every part of IInv holds.
THEOREM InductiveInvariant == Spec => []IInv
<1>1. IInv /\ [Next]_vars => IInv'
  <2> SUFFICES ASSUME IInv, [Next]_vars
               PROVE  IInv'
    OBVIOUS
  <2>1. CASE UNCHANGED vars
    <3>1. UNCHANGED <<mainVars, ioVars, maps, peerVars, pending, context, buckets, crashed>>
      BY <2>1 DEF vars
    <3>2. \A d \in Conns : /\ Alive(d)' = Alive(d) /\ ToBeCreated(d)' = ToBeCreated(d)
                           /\ InWheel(d)' = InWheel(d) /\ Held(d)' = Held(d)
      BY <3>1 DEF Alive, ToBeCreated, InWheel, Registered, Held, mainVars, ioVars, maps
    <3>3. TypeOK' /\ StagesKept' /\ MapsAgree' /\ CloseHitsOwner' /\ ActiveAreRegistered'
      BY <3>1 DEF IInv, TypeOK, StagesKept, MapsAgree, CloseHitsOwner, ActiveAreRegistered,
                  mainVars, ioVars, maps, peerVars
    <3>4. /\ KnownAreAccepted' /\ CreatedOnce' /\ FdsDistinct'
          /\ EntryMovesOn' /\ ContextFollowsEntry'
      BY <3>1, <3>2 DEF IInv, KnownAreAccepted, CreatedOnce, FdsDistinct, EntryMovesOn,
                        ContextFollowsEntry, mainVars, ioVars
    <3> QED
      BY <3>3, <3>4 DEF IInv
  <2>2. CASE Accept
    BY <2>2, AcceptStep
  <2>3. CASE MainStep
    BY <2>3, OnTimerStep, DestroyEntryStep, KickStep DEF MainStep
  <2>4. ASSUME NEW l \in Loops, LoopStep(l)
        PROVE  IInv'
    BY <2>4, StageSteps, HandleSteps, CreateStep, CloseStep, TouchStep DEF LoopStep
  <2>5. ASSUME NEW c \in Conns, PeerSends(c) \/ PeerCloses(c)
        PROVE  IInv'
    BY <2>5, PeerSteps
  <2> QED
    BY <2>1, <2>2, <2>3, <2>4, <2>5 DEF Next
<1> QED
  BY <1>1, InitIInv, PTL DEF Spec

\* No poller keeps the Channel* of a destroyed connection, and connectionMap
\* and channelMap never disagree (TCPserver.cpp:44-72).
THEOREM MapsAlwaysAgree == Spec => []MapsAgree
<1>1. IInv => MapsAgree
  BY DEF IInv
<1> QED
  BY <1>1, InductiveInvariant, PTL

\* No handler of ActivityChannel meets a channel that is not there any more
\* (Eventloop.cpp:36-39).
THEOREM ActiveStayRegistered == Spec => []ActiveAreRegistered
<1>1. IInv => ActiveAreRegistered
  BY DEF IInv
<1> QED
  BY <1>1, InductiveInvariant, PTL

\* A close queued by the wheel never hits a later owner of the descriptor
\* (httpServer.h:37-46).
THEOREM QueuedCloseHitsOwner == Spec => []CloseHitsOwner
<1>1. IInv => CloseHitsOwner
  BY DEF IInv
<1> QED
  BY <1>1, InductiveInvariant, PTL

\* The Context of a connection is deleted once, with its entry
\* (httpServer.h:37-47).
THEOREM ContextDeletedOnce == Spec => []ContextFollowsEntry
<1>1. IInv => ContextFollowsEntry
  BY DEF IInv
<1> QED
  BY <1>1, InductiveInvariant, PTL
------------------------------------------------------------------------------
(* Server implements ConnectionLife                                         *)

\* The cases of Stage exclude each other.
LEMMA Stages ==
    ASSUME IInv, NEW c \in Conns
    PROVE  /\ Stage(c) \in Life!Stages
           /\ Stage(c) = "unborn" <=> c > accepted
           /\ Stage(c) = "queued" <=> ToBeCreated(c)
           /\ Stage(c) = "served" <=> Registered(c)
           /\ Stage(c) = "closed" <=> Alive(c) /\ ~Registered(c)
           /\ Stage(c) = "released" <=> c <= accepted /\ ~Held(c)
<1>1. accepted \in Nat /\ c \in Nat
  BY DEF IInv, TypeOK, Conns
<1>2. /\ Held(c) => ~(c > accepted)
      /\ ToBeCreated(c) => ~Alive(c)
      /\ Registered(c) => Alive(c)
      /\ Held(c) <=> Alive(c) \/ ToBeCreated(c)
  BY <1>1 DEF IInv, KnownAreAccepted, CreatedOnce, Alive, Held
<1>3. c > accepted <=> ~(c <= accepted)
  BY <1>1
<1> QED
  BY <1>2, <1>3 DEF Stage, Life!Stages

\* The same after a step.
LEMMA LaterStages ==
    ASSUME IInv', NEW c \in Conns
    PROVE  /\ Stage(c)' \in Life!Stages
           /\ Stage(c)' = "unborn" <=> c > accepted'
           /\ Stage(c)' = "queued" <=> ToBeCreated(c)'
           /\ Stage(c)' = "served" <=> Registered(c)'
           /\ Stage(c)' = "closed" <=> Alive(c)' /\ ~Registered(c)'
           /\ Stage(c)' = "released" <=> c <= accepted' /\ ~Held(c)'
<1>1. accepted' \in Nat /\ c \in Nat
  BY DEF IInv, TypeOK, Conns
<1>2. /\ Held(c)' => ~(c > accepted')
      /\ ToBeCreated(c)' => ~Alive(c)'
      /\ Registered(c)' => Alive(c)'
      /\ Held(c)' <=> Alive(c)' \/ ToBeCreated(c)'
  BY <1>1 DEF IInv, KnownAreAccepted, CreatedOnce, Alive, Held
<1>3. c > accepted' <=> ~(c <= accepted')
  BY <1>1
<1> QED
  BY <1>2, <1>3 DEF Stage, Life!Stages

\* A step that changes who knows connection c alone moves c alone.
LEMMA OneMoves ==
    ASSUME IInv, IInv', Up, Up', NEW c \in Conns, NEW from, NEW to, Stage(c) = from, Stage(c)' = to,
           \A d \in Conns \ {c} : /\ (d > accepted') <=> (d > accepted)
                                  /\ ToBeCreated(d)' <=> ToBeCreated(d)
                                  /\ Registered(d)' <=> Registered(d)
                                  /\ Alive(d)' <=> Alive(d)
    PROVE  /\ Life!Moves(c, from, to)
           /\ from = to => UNCHANGED Life!lifeVars
<1>1. \A d \in Conns \ {c} : Stage(d)' = Stage(d)
  BY DEF Stage
<1> HIDE DEF Stage
<1>2. [d \in Conns |-> Stage(d)'] = [[d \in Conns |-> Stage(d)] EXCEPT ![c] = to]
  BY <1>1
<1>3. from = to => [d \in Conns |-> Stage(d)'] = [d \in Conns |-> Stage(d)]
  BY <1>1
<1> QED
  BY <1>2, <1>3 DEF Life!Moves, Life!lifeVars

\* When the process dies the connections are in some stage each.
LEMMA Dies ==
    ASSUME IInv, IInv', Up, ~Up'
    PROVE  ~(~Up) /\ Life!Die
<1>1. \A d \in Conns : Stage(d)' \in Life!Stages
  BY LaterStages
<1> QED
  BY <1>1 DEF Life!Die

\* A step in which nobody is handed, given or deprived of a connection.
LEMMA NothingMoves ==
    ASSUME UNCHANGED crashed,
           \A d \in Conns : /\ (d > accepted') <=> (d > accepted)
                            /\ ToBeCreated(d)' <=> ToBeCreated(d)
                            /\ Registered(d)' <=> Registered(d)
                            /\ Alive(d)' <=> Alive(d)
    PROVE  UNCHANGED Life!lifeVars
<1>1. \A d \in Conns : Stage(d)' = Stage(d)
  BY DEF Stage
<1>2. [d \in Conns |-> Stage(d)'] = [d \in Conns |-> Stage(d)]
  <2> HIDE DEF Stage
  <2> QED
    BY <1>1
<1> QED
  BY <1>2 DEF Life!lifeVars, Up

LEMMA QuietSteps ==
    ASSUME IInv, \/ OnTimer
                 \/ \E c \in Conns : DestroyEntry(c) \/ PeerSends(c) \/ PeerCloses(c)
                 \/ \E l \in Loops : Poll(l) \/ EventsDone(l) \/ FunctorsDone(l)
    PROVE  UNCHANGED Life!lifeVars
<1>1. UNCHANGED <<accepted, crashed, pending, connMap, touching>>
  BY DEF OnTimer, DestroyEntry, PeerSends, PeerCloses, Poll, EventsDone, FunctorsDone,
         mainVars, ioVars, maps
<1>2. \A d \in Conns : /\ ToBeCreated(d)' <=> ToBeCreated(d)
                       /\ Registered(d)' <=> Registered(d)
  BY <1>1 DEF ToBeCreated, Registered
<1>3. CASE kicking' = kicking
  <2>1. \A d \in Conns : Alive(d)' <=> Alive(d)
    BY <1>1, <1>2, <1>3 DEF Alive
  <2> QED
    BY <1>1, <1>2, <2>1, NothingMoves
<1>4. CASE \E c \in Conns : DestroyEntry(c)
  <2>1. PICK c \in Conns : kicking = None /\ kicking' = IF Alive(c) THEN c ELSE None
    BY <1>4 DEF DestroyEntry
  <2>2. \A d \in Conns : d # None
    BY DEF Conns, None
  <2>3. \A d \in Conns : Alive(d)' <=> Alive(d)
    BY <1>1, <1>2, <2>1, <2>2 DEF Alive
  <2> QED
    BY <1>1, <1>2, <2>3, NothingMoves
<1> QED
  BY <1>3, <1>4
  DEF OnTimer, PeerSends, PeerCloses, Poll, EventsDone, FunctorsDone, mainVars

\* Which connections wait to be created, when one more task is handed over.
LEMMA HandedTask ==
    ASSUME IInv, NEW l \in Loops, NEW t \in Tasks, pending' = [pending EXCEPT ![l] = Append(@, t)]
    PROVE  /\ \A d \in Conns : ToBeCreated(d)' => ToBeCreated(d) \/ t = <<"create", d>>
           /\ \A d \in Conns : ToBeCreated(d) \/ t = <<"create", d>> => ToBeCreated(d)'
<1>1. pending \in [Loops -> Seq(Tasks)]
  BY DEF IInv, TypeOK
<1>2. /\ pending' \in [Loops -> Seq(Tasks)]
      /\ \A m \in Loops : \A i \in DOMAIN pending[m] :
            i \in DOMAIN pending'[m] /\ pending'[m][i] = pending[m][i]
      /\ \A m \in Loops : \A i \in DOMAIN pending'[m] :
            i \in DOMAIN pending[m] \/ pending'[m][i] = t
  BY <1>1, HandedOver
<1>3. \E i \in DOMAIN pending'[l] : pending'[l][i] = t
  <2>1. pending'[l] = Append(pending[l], t) /\ pending[l] \in Seq(Tasks)
    BY <1>1
  <2>2. Len(pending[l]) + 1 \in DOMAIN Append(pending[l], t)
    BY <2>1, LenProperties, AppendProperties
  <2> QED
    BY <2>1, <2>2, AppendProperties
<1>4. ASSUME NEW d \in Conns, ToBeCreated(d)'
      PROVE  ToBeCreated(d) \/ t = <<"create", d>>
  <2>1. PICK m \in Loops : \E i \in DOMAIN pending'[m] : pending'[m][i] = <<"create", d>>
    BY <1>4 DEF ToBeCreated
  <2>2. PICK i \in DOMAIN pending'[m] : pending'[m][i] = <<"create", d>>
    BY <2>1
  <2>3. CASE i \in DOMAIN pending[m]
    <3>1. pending[m][i] = <<"create", d>>
      BY <2>2, <2>3, <1>2
    <3> QED
      BY <2>3, <3>1 DEF ToBeCreated
  <2> QED
    BY <2>2, <2>3, <1>2
<1>5. ASSUME NEW d \in Conns, ToBeCreated(d) \/ t = <<"create", d>>
      PROVE  ToBeCreated(d)'
  <2>1. CASE t = <<"create", d>>
    BY <2>1, <1>3 DEF ToBeCreated
  <2>2. CASE ToBeCreated(d)
    BY <2>2, <1>2 DEF ToBeCreated
  <2> QED
    BY <1>5, <2>1, <2>2
<1> QED
  BY <1>4, <1>5

\* Which connections wait to be created, when the first task is taken.
LEMMA FirstTask ==
    ASSUME IInv, NEW l \in Loops, batch[l] > 0, TakeTask(l), NEW d \in Conns,
           Head(pending[l]) # <<"create", d>>
    PROVE  ToBeCreated(d)' <=> ToBeCreated(d)
<1>1. /\ 1 \in DOMAIN pending[l] /\ pending[l][1] = Head(pending[l])
      /\ \A i \in DOMAIN pending'[l] :
            i + 1 \in DOMAIN pending[l] /\ pending'[l][i] = pending[l][i + 1]
      /\ \A i \in DOMAIN pending[l] :
            i = 1 \/ (i - 1 \in DOMAIN pending'[l] /\ pending'[l][i - 1] = pending[l][i])
      /\ \A m \in Loops : m # l => pending'[m] = pending[m]
  BY TaskTaken
<1>2. \A m \in Loops : (\E i \in DOMAIN pending'[m] : pending'[m][i] = <<"create", d>>)
                   <=> (\E i \in DOMAIN pending[m] : pending[m][i] = <<"create", d>>)
  <2> TAKE m \in Loops
  <2>1. CASE m # l
    BY <2>1, <1>1
  <2>2. CASE m = l
    BY <2>2, <1>1
  <2> QED
    BY <2>1, <2>2
<1> QED
  BY <1>2 DEF ToBeCreated

\* removeConnection takes the connection it was asked for out of the map, and
\* no other, or kills the process.
LEMMA RemovesOwner ==
    ASSUME IInv, NEW l \in Loops, NEW c \in Conns, fd[c] \in Fds,
           chanMap[l][fd[c]] \in {c, None}, RemoveConnection(l, fd[c])
    PROVE  \/ crashed' = "channel" /\ UNCHANGED maps
           \/ /\ UNCHANGED crashed
              /\ Registered(c) /\ ~Registered(c)'
              /\ \A d \in Conns \ {c} : Registered(d)' <=> Registered(d)
<1> SUFFICES ASSUME ~(crashed' = "channel" /\ UNCHANGED maps)
             PROVE  /\ UNCHANGED crashed
                    /\ Registered(c) /\ ~Registered(c)'
                    /\ \A d \in Conns \ {c} : Registered(d)' <=> Registered(d)
  OBVIOUS
<1>1. /\ UNCHANGED crashed /\ chanMap[l][fd[c]] = c
      /\ connMap' = [connMap EXCEPT ![l][fd[c]] = None]
  BY DEF RemoveConnection
<1>2. /\ connMap \in [Loops -> [Fds -> Conns \cup {None}]]
      /\ \A m \in Loops, g \in Fds : /\ chanMap[m][g] = connMap[m][g]
                                     /\ connMap[m][g] = c => fd[c] = g /\ loop[c] = m
      /\ \A d \in Conns : d # None
  BY DEF IInv, TypeOK, MapsAgree, None, Conns
<1>3. \A m \in Loops, g \in Fds :
            connMap'[m][g] = IF m = l /\ g = fd[c] THEN None ELSE connMap[m][g]
  BY <1>1, <1>2
<1>4. connMap[l][fd[c]] = c
  BY <1>1, <1>2
<1> QED
  BY <1>1, <1>2, <1>3, <1>4 DEF Registered

\* accept4() queues a connection.
LEMMA AcceptQueues ==
    ASSUME IInv, IInv', Accept
    PROVE  Life!LifeNext
<1>1. PICK c \in Conns : c = accepted + 1
  BY DEF Accept
<1>2. /\ accepted' = c /\ nextLoop \in Loops /\ <<"create", c>> \in Tasks
      /\ accepted \in Nat /\ \A d \in Conns : d \in Nat
      /\ UNCHANGED <<connMap, touching, kicking, crashed>> /\ Up
      /\ pending' = [pending EXCEPT ![nextLoop] = Append(@, <<"create", c>>)]
  BY <1>1 DEF Accept, MainIdle, IInv, TypeOK, Tasks, Conns, ioVars, maps
<1>3. /\ ToBeCreated(c)' /\ c > accepted /\ Up'
      /\ \A d \in Conns \ {c} : ToBeCreated(d)' <=> ToBeCreated(d)
  <2>1. /\ \A d \in Conns : ToBeCreated(d)' => ToBeCreated(d) \/ <<"create", c>> = <<"create", d>>
        /\ \A d \in Conns : ToBeCreated(d) \/ <<"create", c>> = <<"create", d>> => ToBeCreated(d)'
    BY <1>2, HandedTask
  <2>2. \A d \in Conns \ {c} : <<"create", c>> # <<"create", d>>
    OBVIOUS
  <2>3. c > accepted /\ Up'
    BY <1>1, <1>2 DEF Up
  <2> QED
    BY <2>1, <2>2, <2>3
<1>4. /\ \A d \in Conns : Registered(d)' <=> Registered(d)
      /\ \A d \in Conns : Alive(d)' <=> Alive(d)
  BY <1>2 DEF Registered, Alive
<1>5. \A d \in Conns \ {c} : (d > accepted') <=> (d > accepted)
  BY <1>1, <1>2
<1>6. Stage(c) = "unborn" /\ Stage(c)' = "queued"
  BY <1>3, Stages, LaterStages
<1>7. Life!Moves(c, "unborn", "queued")
  BY <1>2, <1>3, <1>4, <1>5, <1>6, OneMoves
<1> QED
  BY <1>7 DEF Life!LifeNext, Life!Queue

\* A connection that is served or closed, and goes on to be closed or released.
LEMMA Leaves ==
    ASSUME IInv, IInv', Up, Up', NEW c \in Conns, Alive(c), UNCHANGED accepted,
           Registered(c)' => Registered(c),
           ~ToBeCreated(c)',
           \A d \in Conns \ {c} : /\ ToBeCreated(d)' <=> ToBeCreated(d)
                                  /\ Registered(d)' <=> Registered(d)
                                  /\ Alive(d)' <=> Alive(d)
    PROVE  Life!LifeNext \/ UNCHANGED Life!lifeVars
<1>1. Stage(c) \in {"served", "closed"} /\ (Stage(c) = "closed" => ~Registered(c))
  BY Stages
<1>2. accepted \in Nat /\ c \in Nat /\ c <= accepted
  BY DEF IInv, TypeOK, KnownAreAccepted, Held, Conns
<1>3. Stage(c)' \in {"served", "closed", "released"} /\ (Stage(c)' = "served" => Registered(c))
  BY <1>2, LaterStages DEF Held
<1>4. \A d \in Conns \ {c} : (d > accepted') <=> (d > accepted)
  OBVIOUS
<1>5. CASE Stage(c)' = Stage(c)
  BY <1>4, <1>5, OneMoves
<1>6. CASE Stage(c) = "served" /\ Stage(c)' = "closed"
  <2>1. Life!Moves(c, "served", "closed")
    BY <1>4, <1>6, OneMoves
  <2> QED
    BY <2>1 DEF Life!LifeNext, Life!Close
<1>7. CASE Stage(c) = "served" /\ Stage(c)' = "released"
  <2>1. Life!Moves(c, "served", "released")
    BY <1>4, <1>7, OneMoves
  <2> QED
    BY <2>1 DEF Life!LifeNext, Life!Close
<1>8. CASE Stage(c) = "closed" /\ Stage(c)' = "released"
  <2>1. Life!Moves(c, "closed", "released")
    BY <1>4, <1>8, OneMoves
  <2> QED
    BY <2>1 DEF Life!LifeNext, Life!Release
<1> QED
  BY <1>1, <1>3, <1>5, <1>6, <1>7, <1>8


\* ~Entry lets go of the connection it had locked.
LEMMA KickLeaves ==
    ASSUME IInv, IInv', NEW c \in Conns, Kick(c)
    PROVE  Life!LifeNext \/ UNCHANGED Life!lifeVars
<1>1. /\ UNCHANGED <<accepted, connMap, touching, crashed>> /\ Up /\ Up'
      /\ kicking = c /\ kicking' = None
      /\ pending' = [pending EXCEPT ![loop[c]] = Append(@, <<"close", c>>)]
  BY DEF Kick, Up, ioVars, maps
<1>2. Alive(c) /\ Held(c) /\ loop[c] \in Loops /\ <<"close", c>> \in Tasks
  BY <1>1 DEF Alive, Held, IInv, KnownAreAccepted, Tasks
<1>3. \A d \in Conns : ToBeCreated(d)' <=> ToBeCreated(d)
  BY <1>1, <1>2, HandedTask
<1>4. ~ToBeCreated(c)'
  BY <1>2, <1>3 DEF IInv, CreatedOnce
<1>5. /\ \A d \in Conns : Registered(d)' <=> Registered(d)
      /\ \A d \in Conns \ {c} : Alive(d)' <=> Alive(d)
  BY <1>1 DEF Registered, Alive, None, Conns
<1> QED
  BY <1>1, <1>2, <1>3, <1>4, <1>5, Leaves

\* A read callback closes the connection or leaves it.
LEMMA HandlerLeaves ==
    ASSUME IInv, IInv', NEW l \in Loops, NEW c \in Conns, HandleEof(l, c) \/ HandleMessage(l, c)
    PROVE  Life!LifeNext \/ UNCHANGED Life!lifeVars
<1>1. /\ UNCHANGED <<accepted, kicking, pending>> /\ Up /\ c \in active[l] /\ touching[l] = None
      /\ touching' = touching \/ touching' = [touching EXCEPT ![l] = c]
                              \/ touching' = [touching EXCEPT ![l] = None]
      /\ UNCHANGED <<maps, crashed>> \/ RemoveConnection(l, fd[c])
  BY DEF HandleEof, HandleMessage, mainVars
<1>2. /\ chanMap[l][fd[c]] = c /\ fd[c] \in Fds /\ Registered(c) /\ Alive(c)
  BY <1>1, ActiveIsAlive
<1>3. /\ UNCHANGED crashed
      /\ Registered(c)' => Registered(c)
      /\ \A d \in Conns \ {c} : Registered(d)' <=> Registered(d)
  <2>1. CASE UNCHANGED <<maps, crashed>>
    BY <2>1 DEF Registered, maps
  <2>2. CASE RemoveConnection(l, fd[c])
    <3>1. crashed' # "channel" \/ UNCHANGED crashed
      BY <1>2, <2>2 DEF RemoveConnection, None, Conns
    <3> QED
      BY <1>1, <1>2, <2>2, <3>1, RemovesOwner DEF Up
  <2> QED
    BY <1>1, <2>1, <2>2
<1>4. \A d \in Conns : ToBeCreated(d)' <=> ToBeCreated(d)
  BY <1>1 DEF ToBeCreated
<1>5. ~ToBeCreated(c)' /\ Up'
  <2>1. ~ToBeCreated(c)
    BY <1>2 DEF IInv, CreatedOnce
  <2>2. Up'
    BY <1>1, <1>3 DEF Up
  <2> QED
    BY <2>1, <2>2, <1>4
<1>6. \A d \in Conns \ {c} : Alive(d)' <=> Alive(d)
  <2>1. touching \in [Loops -> Conns \cup {None}]
    BY DEF IInv, TypeOK
  <2>2. \A m \in Loops : touching'[m] = touching[m] \/ (touching[m] = None /\ touching'[m] \in {c, None})
    BY <1>1, <2>1
  <2> QED
    BY <1>1, <1>3, <2>2 DEF Alive, None, Conns
<1> QED
  BY <1>1, <1>2, <1>3, <1>4, <1>5, <1>6, Leaves

\* The end of handleRead lets go of the connection, or kills the process.
LEMMA TouchLeaves ==
    ASSUME IInv, IInv', NEW l \in Loops, Touch(l)
    PROVE  Life!LifeNext \/ UNCHANGED Life!lifeVars
<1>1. PICK c \in Conns : c = touching[l]
  BY DEF Touch, IInv, TypeOK
<1>2. /\ UNCHANGED <<accepted, kicking, pending, connMap>> /\ Up
      /\ touching' = [touching EXCEPT ![l] = None]
      /\ crashed' \in {crashed, "context"}
  BY DEF Touch, mainVars, maps
<1>3. /\ \A d \in Conns : ToBeCreated(d)' <=> ToBeCreated(d)
      /\ \A d \in Conns : Registered(d)' <=> Registered(d)
  BY <1>2 DEF ToBeCreated, Registered
<1>4. Alive(c) /\ ~ToBeCreated(c)'
  BY <1>1, <1>3 DEF Alive, IInv, CreatedOnce
<1>5. \A d \in Conns \ {c} : Alive(d)' <=> Alive(d)
  <2>1. touching \in [Loops -> Conns \cup {None}]
    BY DEF IInv, TypeOK
  <2>2. \A m \in Loops : touching'[m] = touching[m] \/ (touching[m] = c /\ touching'[m] = None)
    BY <1>1, <1>2, <2>1
  <2> QED
    BY <1>2, <1>3, <2>2 DEF Alive, None, Conns
<1>6. CASE Up'
  BY <1>2, <1>3, <1>4, <1>5, <1>6, Leaves
<1>7. CASE ~Up'
  BY <1>2, <1>7, Dies DEF Life!LifeNext
<1> QED
  BY <1>6, <1>7

\* The IO loop creates the connection it was handed.
LEMMA CreateServes ==
    ASSUME IInv, IInv', NEW l \in Loops, NEW c \in Conns, CreateConnection(l, c)
    PROVE  Life!LifeNext
<1>1. /\ UNCHANGED <<accepted, kicking, touching, crashed>> /\ Up /\ Up'
      /\ batch[l] > 0 /\ Head(pending[l]) = <<"create", c>> /\ TakeTask(l)
      /\ connMap' = [connMap EXCEPT ![l][fd[c]] = IF @ = None THEN c ELSE @]
  BY DEF CreateConnection, HeadIs, Up, mainVars
<1>2. ToBeCreated(c)
  BY <1>1, TaskTaken DEF ToBeCreated
<1>3. /\ fd[c] \in Fds /\ ~Registered(c)
      /\ connMap \in [Loops -> [Fds -> Conns \cup {None}]]
      /\ connMap[l][fd[c]] \in {c, None}
  <2>1. Held(c)
    BY <1>2 DEF Held
  <2>2. fd[c] \in Fds
    BY <2>1 DEF IInv, KnownAreAccepted
  <2>3. ~Registered(c)
    BY <1>2 DEF IInv, CreatedOnce, Alive
  <2>4. connMap \in [Loops -> [Fds -> Conns \cup {None}]]
    BY DEF IInv, TypeOK
  <2>5. chanMap[l][fd[c]] \in {c, None}
    BY <2>1, OwnerIsRegistered
  <2>6. connMap[l][fd[c]] \in {c, None}
    BY <2>2, <2>5 DEF IInv, MapsAgree
  <2> QED
    BY <2>2, <2>3, <2>4, <2>6
<1>4. connMap[l][fd[c]] = None
  BY <1>3 DEF Registered
<1>5. \A m \in Loops, g \in Fds :
            connMap'[m][g] = IF m = l /\ g = fd[c] THEN c ELSE connMap[m][g]
  BY <1>1, <1>3, <1>4
<1>6. Registered(c)' /\ \A d \in Conns \ {c} : Registered(d)' <=> Registered(d)
  BY <1>3, <1>4, <1>5 DEF Registered, None, Conns
<1>7. \A d \in Conns \ {c} : Alive(d)' <=> Alive(d)
  BY <1>1, <1>6 DEF Alive
<1>8. \A d \in Conns \ {c} : ToBeCreated(d)' <=> ToBeCreated(d)
  <2>1. \A d \in Conns \ {c} : Head(pending[l]) # <<"create", d>>
    BY <1>1
  <2> QED
    BY <1>1, <2>1, FirstTask
<1>9. Stage(c) = "queued" /\ Stage(c)' = "served"
  BY <1>2, <1>6, Stages, LaterStages
<1>10. \A d \in Conns \ {c} : (d > accepted') <=> (d > accepted)
  BY <1>1
<1>11. Life!Moves(c, "queued", "served")
  BY <1>1, <1>6, <1>7, <1>8, <1>9, <1>10, OneMoves
<1> QED
  BY <1>11 DEF Life!LifeNext, Life!Serve

\* A queued close takes its own connection away, or kills the process.
LEMMA CloseLeaves ==
    ASSUME IInv, IInv', NEW l \in Loops, NEW c \in Conns, CloseConnection(l, c)
    PROVE  Life!LifeNext \/ UNCHANGED Life!lifeVars
<1>1. /\ UNCHANGED <<accepted, kicking, touching>> /\ Up
      /\ batch[l] > 0 /\ Head(pending[l]) = <<"close", c>> /\ TakeTask(l)
      /\ RemoveConnection(l, fd[c])
  BY DEF CloseConnection, HeadIs, mainVars
<1>2. 1 \in DOMAIN pending[l] /\ pending[l][1] = <<"close", c>>
  BY <1>1, TaskTaken
<1>3. fd[c] \in Fds /\ chanMap[l][fd[c]] \in {c, None}
  <2>1. pending[l][1][2] = c
    BY <1>2
  <2> QED
    BY <1>2, <2>1 DEF IInv, KnownAreAccepted, CloseHitsOwner
<1>4. CASE ~Up'
  BY <1>1, <1>4, Dies DEF Life!LifeNext
<1>5. CASE Up'
  <2>1. crashed' # "channel"
    BY <1>5 DEF Up
  <2>2. /\ Registered(c) /\ ~Registered(c)'
        /\ \A d \in Conns \ {c} : Registered(d)' <=> Registered(d)
    BY <1>1, <1>3, <2>1, RemovesOwner
  <2>3. \A d \in Conns \ {c} : Alive(d)' <=> Alive(d)
    BY <1>1, <2>2 DEF Alive
  <2>4. \A d \in Conns : ToBeCreated(d)' <=> ToBeCreated(d)
    <3>1. \A d \in Conns : Head(pending[l]) # <<"create", d>>
      BY <1>1
    <3> QED
      BY <1>1, <3>1, FirstTask
  <2>5. Alive(c) /\ ~ToBeCreated(c)'
    BY <2>2, <2>4 DEF Alive, IInv, CreatedOnce
  <2> QED
    BY <1>1, <1>5, <2>2, <2>3, <2>4, <2>5, Leaves
<1> QED
  BY <1>4, <1>5

\* Whatever the threads and the peers do, no connection is lost, found again
\* or left half closed: the safety part of ImplementsLife, for any number of
\* loops, descriptors, connections and buckets (TCPserver.cpp:44-98,
\* httpServer.h:37-47).
THEOREM LifeIsKept == Spec => Life!LifeSafety
<1>1. Init => Life!LifeInit
  <2> SUFFICES ASSUME Init
               PROVE  Life!LifeInit
    OBVIOUS
  <2>1. \A c \in Conns : c > accepted
    BY DEF Init, Conns
  <2>2. \A c \in Conns : Stage(c) = "unborn"
    BY <2>1, InitIInv, Stages
  <2>3. Up
    BY DEF Init, Up
  <2> QED
    BY <2>2, <2>3 DEF Life!LifeInit
<1>2. IInv /\ IInv' /\ [Next]_vars => [Life!LifeNext]_(Life!lifeVars)
  <2> SUFFICES ASSUME IInv, IInv', [Next]_vars
               PROVE  Life!LifeNext \/ UNCHANGED Life!lifeVars
    OBVIOUS
  <2>1. CASE UNCHANGED vars
    <3>1. UNCHANGED <<accepted, crashed, pending, connMap, touching, kicking>>
      BY <2>1 DEF vars, mainVars, ioVars, maps
    <3>2. \A d \in Conns : /\ ToBeCreated(d)' <=> ToBeCreated(d)
                           /\ Registered(d)' <=> Registered(d)
                           /\ Alive(d)' <=> Alive(d)
      BY <3>1 DEF ToBeCreated, Registered, Alive
    <3> QED
      BY <3>1, <3>2, NothingMoves
  <2>2. CASE Accept
    BY <2>2, AcceptQueues
  <2>3. CASE MainStep
    BY <2>3, QuietSteps, KickLeaves DEF MainStep
  <2>4. ASSUME NEW l \in Loops, LoopStep(l)
        PROVE  Life!LifeNext \/ UNCHANGED Life!lifeVars
    BY <2>4, QuietSteps, HandlerLeaves, CreateServes, CloseLeaves, TouchLeaves DEF LoopStep
  <2>5. ASSUME NEW c \in Conns, PeerSends(c) \/ PeerCloses(c)
        PROVE  Life!LifeNext \/ UNCHANGED Life!lifeVars
    BY <2>5, QuietSteps
  <2> QED
    BY <2>1, <2>2, <2>3, <2>4, <2>5 DEF Next
<1> QED
  BY <1>1, <1>2, InductiveInvariant, PTL DEF Spec, Life!LifeSafety
==============================================================================
