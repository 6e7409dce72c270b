----------------------------- MODULE Poller_proofs -----------------------------
(***************************************************************************)
(* TLAPS proofs about Poller, for any set of descriptors and any bound on  *)
(* buffered output: every channel knows its place in the pollfd list after *)
(* any sequence of registrations, events and closes, and POLLOUT is asked  *)
(* for only while there is output to send.                                 *)
(***************************************************************************)
EXTENDS Poller, SequenceTheorems, TLAPS

\* update() changes no descriptor and raises no interest but that of c.
LEMMA UpdateProperties ==
    ASSUME pollfdList \in Seq(Entries), index \in [Fds -> Nat],
           NEW c \in Fds, NEW out \in BOOLEAN, Update(c, out)
    PROVE  /\ pollfdList' \in Seq(Entries)
           /\ Len(pollfdList') = Len(pollfdList)
           /\ \A i \in 1 .. Len(pollfdList) :
                /\ pollfdList'[i].fd = pollfdList[i].fd
                /\ i # index[c] => pollfdList'[i].out = pollfdList[i].out
                /\ i = index[c] => pollfdList'[i].out = out
<1>1. CASE index[c] \in 1 .. Len(pollfdList)
  <2> DEFINE e == [pollfdList[index[c]] EXCEPT !.out = out]
  <2>1. pollfdList' = [pollfdList EXCEPT ![index[c]] = e]
    BY <1>1 DEF Update
  <2>2. pollfdList[index[c]] \in Entries
    BY <1>1, ElementOfSeq
  <2>3. e \in Entries /\ e.fd = pollfdList[index[c]].fd /\ e.out = out
    BY <2>2 DEF Entries
  <2>4. /\ pollfdList' \in Seq(Entries)
        /\ Len(pollfdList') = Len(pollfdList)
    BY <1>1, <2>1, <2>3, ExceptSeq
  <2>5. \A i \in 1 .. Len(pollfdList) :
            pollfdList'[i] = IF i = index[c] THEN e ELSE pollfdList[i]
    BY <2>1, LenProperties
  <2>6. QED
    BY <2>3, <2>4, <2>5
<1>2. CASE index[c] \notin 1 .. Len(pollfdList)
  <2>1. pollfdList \in [1 .. Len(pollfdList) -> Entries]
    BY LenProperties
  <2>2. pollfdList' = pollfdList
    BY <1>2, <2>1 DEF Update
  <2>3. QED
    BY <1>2, <2>2
<1>3. QED
  BY <1>1, <1>2

\* removeChannel() leaves an entry of everybody else, in the same place or,
\* for the last one, in the place of c.
LEMMA RemoveProperties ==
    ASSUME IInv, NEW c \in channelMap, RemoveChannel(c)
    PROVE  /\ pollfdList' \in Seq(Entries)
           /\ index' \in [Fds -> Nat]
           /\ Len(pollfdList') = Len(pollfdList) - 1
           /\ IndexesAgree'
           /\ \A d \in channelMap' : pollfdList'[index'[d]] = pollfdList[index[d]]
<1> DEFINE len == Len(pollfdList)
           moved == [pollfdList EXCEPT ![index[c]] = Last]
<1>1. /\ c \in Fds /\ index[c] \in 2 .. len /\ pollfdList[index[c]].fd = c
      /\ len \in Nat /\ len >= 2
  BY LenProperties DEF IInv, TypeOK, IndexesAgree
<1>2. Last \in Entries /\ Last.fd \in channelMap /\ index[Last.fd] = len
  BY <1>1, ElementOfSeq DEF IInv, TypeOK, IndexesAgree, Last
<1>3. moved \in Seq(Entries) /\ Len(moved) = len
  BY <1>1, <1>2, ExceptSeq DEF IInv, TypeOK
<1>4. \A i \in 1 .. len : moved[i] = IF i = index[c] THEN Last ELSE pollfdList[i]
  BY <1>1, LenProperties DEF IInv, TypeOK
<1>5. /\ pollfdList' \in Seq(Entries)
      /\ Len(pollfdList') = len - 1
      /\ \A i \in 1 .. len - 1 : pollfdList'[i] = moved[i]
  <2>1. \A i \in 1 .. len - 1 : moved[i] \in Entries
    BY <1>1, <1>3, ElementOfSeq
  <2>2. pollfdList' = SubSeq(moved, 1, len - 1)
    BY DEF RemoveChannel
  <2>3. QED
    BY <1>1, <2>1, <2>2, SubSeqProperties
<1>6. channelMap' = channelMap \ {c}
  BY DEF RemoveChannel
<1>7. /\ index' \in [Fds -> Nat]
      /\ \A d \in channelMap' : index'[d] = IF index[d] = len THEN index[c] ELSE index[d]
  <2>1. CASE index[c] = len
    BY <1>1, <1>6, <2>1 DEF RemoveChannel, IInv, TypeOK, IndexesAgree
  <2>2. CASE index[c] # len
    <3>1. index' = [index EXCEPT ![Last.fd] = index[c]]
      BY <2>2 DEF RemoveChannel
    <3>2. \A d \in channelMap : index[d] = len <=> d = Last.fd
      BY <1>1, <1>2 DEF IInv, IndexesAgree, Last
    <3>3. QED
      BY <1>1, <1>2, <1>6, <3>1, <3>2 DEF IInv, TypeOK
  <2>3. QED
    BY <2>1, <2>2
<1>8. \A d \in channelMap' :
        /\ d \in channelMap /\ d # c
        /\ index[d] \in 2 .. len /\ pollfdList[index[d]].fd = d
        /\ index[d] # index[c]
  BY <1>1, <1>6 DEF IInv, IndexesAgree
<1>9. \A d \in channelMap' :
        /\ index'[d] \in 2 .. len - 1
        /\ pollfdList'[index'[d]] = pollfdList[index[d]]
  <2>1. SUFFICES ASSUME NEW d \in channelMap'
                 PROVE  /\ index'[d] \in 2 .. len - 1
                        /\ pollfdList'[index'[d]] = pollfdList[index[d]]
    OBVIOUS
  <2>2. CASE index[d] = len
    BY <1>1, <1>4, <1>5, <1>7, <1>8, <2>2 DEF Last
  <2>3. CASE index[d] # len
    BY <1>1, <1>4, <1>5, <1>7, <1>8, <2>3
  <2>4. QED
    BY <2>2, <2>3
<1>10. \A i \in 2 .. len - 1 : pollfdList'[i].fd \in channelMap' /\ index'[pollfdList'[i].fd] = i
  <2>1. SUFFICES ASSUME NEW i \in 2 .. len - 1
                 PROVE  pollfdList'[i].fd \in channelMap' /\ index'[pollfdList'[i].fd] = i
    OBVIOUS
  <2>2. CASE i = index[c]
    <3>1. pollfdList'[i] = Last
      BY <1>1, <1>4, <1>5, <2>2
    <3>2. Last.fd # c
      BY <1>1, <1>2, <2>2
    <3>3. QED
      BY <1>2, <1>6, <1>7, <2>2, <3>1, <3>2
  <2>3. CASE i # index[c]
    <3>1. pollfdList'[i] = pollfdList[i]
      BY <1>1, <1>4, <1>5, <2>3
    <3>2. pollfdList[i].fd \in channelMap /\ index[pollfdList[i].fd] = i
      BY <1>1 DEF IInv, IndexesAgree
    <3>3. QED
      BY <1>1, <1>6, <1>7, <2>3, <3>1, <3>2
  <2>4. QED
    BY <2>2, <2>3
<1>11. pollfdList' # <<>> /\ pollfdList'[1].fd = WakeupFd
  <2>1. pollfdList'[1] = pollfdList[1]
    BY <1>1, <1>4, <1>5
  <2>2. pollfdList' # <<>>
    BY <1>1, <1>5
  <2>3. QED
    BY <2>1, <2>2 DEF IInv, IndexesAgree
<1>12. IndexesAgree'
  BY <1>1, <1>5, <1>8, <1>9, <1>10, <1>11 DEF IndexesAgree
<1>13. QED
  BY <1>5, <1>7, <1>9, <1>12

\* Appending the entry of a new channel leaves the others where they are.
LEMMA InsertProperties ==
    ASSUME IInv, NEW c \in Fds, c \notin channelMap, Insert(c)
    PROVE  /\ pollfdList' \in Seq(Entries)
           /\ index' \in [Fds -> Nat]
           /\ IndexesAgree'
           /\ pollfdList'[index'[c]].out = FALSE
           /\ \A d \in channelMap : pollfdList'[index'[d]] = pollfdList[index[d]]
<1> DEFINE len == Len(pollfdList)
           new == [fd |-> c, out |-> FALSE]
<1>1. pollfdList \in Seq(Entries) /\ len \in Nat /\ len >= 1 /\ new \in Entries
  BY LenProperties, EmptySeq DEF IInv, TypeOK, IndexesAgree, Entries
<1>2. pollfdList' = Append(pollfdList, new)
  BY DEF Insert
<1>3. /\ pollfdList' \in Seq(Entries) /\ pollfdList' # <<>>
      /\ Len(pollfdList') = len + 1
      /\ \A i \in 1 .. len : pollfdList'[i] = pollfdList[i]
      /\ pollfdList'[len + 1] = new
  BY <1>1, <1>2, AppendProperties
<1>4. /\ index' \in [Fds -> Nat] /\ index'[c] = len + 1
      /\ \A d \in Fds : d # c => index'[d] = index[d]
      /\ channelMap' = channelMap \cup {c}
  BY <1>1 DEF Insert, IInv, TypeOK
<1>5. \A d \in channelMap :
        /\ d # c /\ index'[d] = index[d] /\ index[d] \in 2 .. len
        /\ pollfdList'[index[d]] = pollfdList[index[d]] /\ pollfdList[index[d]].fd = d
  BY <1>1, <1>3, <1>4 DEF IInv, TypeOK, IndexesAgree
<1>6. IndexesAgree'
  <2>1. pollfdList' # <<>> /\ pollfdList'[1].fd = WakeupFd
    BY <1>1, <1>3 DEF IInv, IndexesAgree
  <2>2. \A i \in 2 .. len + 1 : pollfdList'[i].fd \in channelMap' /\ index'[pollfdList'[i].fd] = i
    <3>1. \A i \in 2 .. len : pollfdList'[i].fd \in channelMap' /\ index'[pollfdList'[i].fd] = i
      BY <1>1, <1>3, <1>4, <1>5 DEF IInv, IndexesAgree
    <3>2. QED
      BY <1>1, <1>3, <1>4, <3>1
  <2>3. \A d \in channelMap' :
            index'[d] \in 2 .. len + 1 /\ pollfdList'[index'[d]].fd = d
    BY <1>1, <1>3, <1>4, <1>5
  <2>4. QED
    BY <1>3, <2>1, <2>2, <2>3 DEF IndexesAgree
<1>7. QED
  BY <1>3, <1>4, <1>5, <1>6

\* update() does not move an entry.
LEMMA UpdateKeepsIndexes ==
    ASSUME IInv, NEW c \in Fds, NEW out \in BOOLEAN, Update(c, out),
           UNCHANGED <<channelMap, index>>
    PROVE  /\ pollfdList' \in Seq(Entries) /\ index' \in [Fds -> Nat] /\ IndexesAgree'
           /\ \A d \in channelMap :
                pollfdList'[index'[d]].out =
                    IF index[d] = index[c] THEN out ELSE pollfdList[index[d]].out
<1>1. /\ pollfdList \in Seq(Entries) /\ index \in [Fds -> Nat]
      /\ pollfdList # <<>> /\ pollfdList[1].fd = WakeupFd
  BY DEF IInv, TypeOK, IndexesAgree
<1>2. /\ pollfdList' \in Seq(Entries)
      /\ Len(pollfdList') = Len(pollfdList)
      /\ \A i \in 1 .. Len(pollfdList) :
            /\ pollfdList'[i].fd = pollfdList[i].fd
            /\ i # index[c] => pollfdList'[i].out = pollfdList[i].out
            /\ i = index[c] => pollfdList'[i].out = out
  BY <1>1, UpdateProperties
<1>3. Len(pollfdList) \in Nat /\ Len(pollfdList) >= 1
  BY <1>1, LenProperties, EmptySeq
<1>4. pollfdList' # <<>>
  BY <1>2, <1>3
<1>5. IndexesAgree'
  BY <1>1, <1>2, <1>3, <1>4 DEF IInv, IndexesAgree
<1>6. \A d \in channelMap : index[d] \in 1 .. Len(pollfdList)
  BY <1>3 DEF IInv, IndexesAgree
<1>7. QED
  BY <1>1, <1>2, <1>5, <1>6

\* What the end of a callback does to ActivityChannel.
LEMMA ReadDoneProperties ==
    ASSUME IInv, NEW c \in Fds, Reads(c), ReadDone(c), UNCHANGED stage
    PROVE  /\ revent' \in [Fds -> SUBSET Events] /\ between' \in SUBSET Fds
           /\ c \in channelMap
           /\ channelMap \ {c} \subseteq channelMap' => ActivityInv'
<1>1. /\ revent' \in [Fds -> SUBSET Events] /\ between' \in SUBSET Fds
      /\ c \in channelMap /\ stage' = "events"
  BY DEF IInv, TypeOK, ActivityInv, Reads, ReadDone, Events
<1>2. /\ \A d \in Fds : d # c => revent'[d] = revent[d]
      /\ revent'[c] = revent[c] \ {"in"}
      /\ revent[c] \subseteq {"in", "out"}
      /\ \A d \in Fds : revent[d] # {} => d \in channelMap
  BY DEF IInv, TypeOK, ActivityInv, Reads, ReadDone, Events
<1>3. CASE "out" \in revent[c]
  <2>1. between' = {c} /\ revent'[c] = {"out"}
    BY <1>2, <1>3 DEF ReadDone
  <2>2. QED
    BY <1>1, <1>2, <2>1 DEF ActivityInv
<1>4. CASE "out" \notin revent[c]
  <2>1. between' = {} /\ revent'[c] = {}
    BY <1>2, <1>4 DEF ReadDone
  <2>2. QED
    BY <1>1, <1>2, <2>1 DEF ActivityInv
<1>5. QED
  BY <1>3, <1>4

LEMMA WriteDoneProperties ==
    ASSUME IInv, NEW c \in Fds, Writes(c), WriteDone(c), UNCHANGED <<stage, channelMap>>
    PROVE  revent' \in [Fds -> SUBSET Events] /\ between' \in SUBSET Fds /\ ActivityInv'
<1>1. /\ revent' \in [Fds -> SUBSET Events] /\ between' = {}
      /\ revent'[c] = {} /\ \A d \in Fds : d # c => revent'[d] = revent[d]
  BY DEF IInv, TypeOK, WriteDone
<1>2. \A d \in Fds : d # c /\ revent[d] # {} => d \in channelMap
  BY DEF IInv, ActivityInv, Writes
<1>3. stage' = "events"
  BY DEF IInv, TypeOK, ActivityInv, Writes
<1>4. QED
  BY <1>1, <1>2, <1>3 DEF ActivityInv

------------------------------------------------------------------------------
LEMMA InitIInv == Init => IInv
<1> SUFFICES ASSUME Init PROVE IInv
  OBVIOUS
<1>2. [fd |-> WakeupFd, out |-> FALSE] \in Entries
  BY DEF Entries
<1>3. pollfdList \in Seq(Entries) /\ Len(pollfdList) = 1 /\ pollfdList[1].fd = WakeupFd
  BY <1>2 DEF Init
<1>4. TypeOK
  BY <1>3, PollerConstants DEF Init, TypeOK
<1>5. ActivityInv /\ IndexesAgree /\ OutputWanted
  BY <1>3 DEF Init, ActivityInv, IndexesAgree, OutputWanted
<1>6. QED
  BY <1>4, <1>5 DEF IInv

LEMMA StepIInv == IInv /\ [Next]_vars => IInv'
<1> SUFFICES ASSUME IInv, [Next]_vars
             PROVE  IInv'
  OBVIOUS
<1>1. CASE Poll
  <2>1. /\ stage' = "events" /\ revent' \in [Fds -> SUBSET Events] /\ between' = {}
        /\ \A c \in Fds : revent'[c] # {} => c \in channelMap'
    BY <1>1 DEF Poll, IInv, ActivityInv
  <2>2. UNCHANGED <<pollfdList, channelMap, index, writing, outBuffer>>
    BY <1>1 DEF Poll
  <2>3. TypeOK' /\ ActivityInv'
    BY <2>1, <2>2 DEF IInv, TypeOK, ActivityInv
  <2>4. IndexesAgree' /\ OutputWanted'
    BY <2>2 DEF IInv, IndexesAgree, OutputWanted
  <2>5. QED
    BY <2>3, <2>4 DEF IInv
<1>2. ASSUME NEW c \in Fds, ReadNothing(c) PROVE IInv'
  <2>1. /\ Reads(c) /\ ReadDone(c)
        /\ UNCHANGED <<stage, pollfdList, channelMap, index, writing, outBuffer>>
    BY <1>2 DEF ReadNothing
  <2>2. revent' \in [Fds -> SUBSET Events] /\ between' \in SUBSET Fds /\ ActivityInv'
    BY <2>1, ReadDoneProperties
  <2>3. TypeOK' /\ IndexesAgree' /\ OutputWanted'
    BY <2>1, <2>2 DEF IInv, TypeOK, IndexesAgree, OutputWanted
  <2>4. QED
    BY <2>2, <2>3 DEF IInv
<1>3. ASSUME NEW c \in Fds, ReadAndClose(c) PROVE IInv'
  <2>1. /\ Reads(c) /\ ReadDone(c) /\ RemoveChannel(c)
        /\ UNCHANGED <<stage, writing, outBuffer>>
    BY <1>3 DEF ReadAndClose
  <2>2. channelMap' = channelMap \ {c}
    BY <2>1 DEF RemoveChannel
  <2>3. /\ revent' \in [Fds -> SUBSET Events] /\ between' \in SUBSET Fds /\ c \in channelMap
        /\ ActivityInv'
    BY <2>1, <2>2, ReadDoneProperties
  <2>4. /\ pollfdList' \in Seq(Entries) /\ index' \in [Fds -> Nat] /\ IndexesAgree'
        /\ \A d \in channelMap' : pollfdList'[index'[d]] = pollfdList[index[d]]
    BY <2>1, <2>3, RemoveProperties
  <2>5. TypeOK' /\ OutputWanted'
    BY <2>1, <2>2, <2>3, <2>4 DEF IInv, TypeOK, OutputWanted
  <2>6. QED
    BY <2>3, <2>4, <2>5 DEF IInv
<1>4. ASSUME NEW c \in Fds, Buffered(c), UNCHANGED stage
      PROVE  /\ Reads(c) /\ ReadDone(c)
             /\ writing' \in [Fds -> BOOLEAN] /\ outBuffer' \in [Fds -> 0 .. MaxOut]
             /\ writing'[c] /\ outBuffer'[c] > 0
             /\ \A d \in Fds : d # c => writing'[d] = writing[d] /\ outBuffer'[d] = outBuffer[d]
  <2>1. PICK n \in outBuffer[c] + 1 .. MaxOut : outBuffer' = [outBuffer EXCEPT ![c] = n]
    BY <1>4 DEF Buffered
  <2>2. outBuffer[c] \in Nat /\ n \in 0 .. MaxOut /\ n > 0
    BY <2>1, PollerConstants DEF IInv, TypeOK
  <2>3. outBuffer' \in [Fds -> 0 .. MaxOut] /\ outBuffer'[c] > 0
    BY <2>1, <2>2 DEF IInv, TypeOK
  <2>4. \A d \in Fds : d # c => writing'[d] = writing[d] /\ outBuffer'[d] = outBuffer[d]
    BY <1>4, <2>1 DEF Buffered, IInv, TypeOK
  <2>5. writing' \in [Fds -> BOOLEAN] /\ writing'[c]
    BY <1>4 DEF Buffered, IInv, TypeOK
  <2>6. QED
    BY <1>4, <2>3, <2>4, <2>5 DEF Buffered
<1>5. ASSUME NEW c \in Fds, SendAndKeep(c) PROVE IInv'
  <2>1. /\ Buffered(c) /\ Update(c, TRUE) /\ UNCHANGED <<stage, channelMap, index>>
    BY <1>5 DEF SendAndKeep
  <2>2. /\ Reads(c) /\ ReadDone(c)
        /\ writing' \in [Fds -> BOOLEAN] /\ outBuffer' \in [Fds -> 0 .. MaxOut]
        /\ writing'[c] /\ outBuffer'[c] > 0
        /\ \A d \in Fds : d # c => writing'[d] = writing[d] /\ outBuffer'[d] = outBuffer[d]
    BY <1>4, <2>1
  <2>3. /\ revent' \in [Fds -> SUBSET Events] /\ between' \in SUBSET Fds /\ c \in channelMap
        /\ ActivityInv'
    BY <2>1, <2>2, ReadDoneProperties
  <2>4. /\ pollfdList' \in Seq(Entries) /\ index' \in [Fds -> Nat] /\ IndexesAgree'
        /\ \A d \in channelMap :
              pollfdList'[index'[d]].out =
                  IF index[d] = index[c] THEN TRUE ELSE pollfdList[index[d]].out
    BY <2>1, UpdateKeepsIndexes
  <2>5. \A d \in channelMap : index[d] = index[c] => d = c
    BY <2>3 DEF IInv, IndexesAgree
  <2>6. TypeOK'
    BY <2>1, <2>2, <2>3, <2>4 DEF IInv, TypeOK
  <2>7. OutputWanted'
    BY <2>1, <2>2, <2>4, <2>5 DEF IInv, TypeOK, OutputWanted
  <2>8. QED
    BY <2>3, <2>4, <2>6, <2>7 DEF IInv
<1>6. ASSUME NEW c \in Fds, SendAndClose(c) PROVE IInv'
  <2>1. Buffered(c) /\ RemoveChannel(c) /\ UNCHANGED stage
    BY <1>6 DEF SendAndClose
  <2>2. /\ Reads(c) /\ ReadDone(c)
        /\ writing' \in [Fds -> BOOLEAN] /\ outBuffer' \in [Fds -> 0 .. MaxOut]
        /\ \A d \in Fds : d # c => writing'[d] = writing[d] /\ outBuffer'[d] = outBuffer[d]
    BY <1>4, <2>1
  <2>3. channelMap' = channelMap \ {c}
    BY <2>1 DEF RemoveChannel
  <2>4. /\ revent' \in [Fds -> SUBSET Events] /\ between' \in SUBSET Fds /\ c \in channelMap
        /\ ActivityInv'
    BY <2>1, <2>2, <2>3, ReadDoneProperties
  <2>5. /\ pollfdList' \in Seq(Entries) /\ index' \in [Fds -> Nat] /\ IndexesAgree'
        /\ \A d \in channelMap' : pollfdList'[index'[d]] = pollfdList[index[d]]
    BY <2>1, <2>4, RemoveProperties
  <2>6. TypeOK'
    BY <2>1, <2>2, <2>3, <2>4, <2>5 DEF IInv, TypeOK
  <2>7. OutputWanted'
    BY <2>2, <2>3, <2>5 DEF IInv, TypeOK, OutputWanted
  <2>8. QED
    BY <2>4, <2>5, <2>6, <2>7 DEF IInv
<1>7. ASSUME NEW c \in Fds, WriteNothing(c) PROVE IInv'
  <2>1. /\ Writes(c) /\ WriteDone(c)
        /\ UNCHANGED <<stage, pollfdList, channelMap, index, writing, outBuffer>>
    BY <1>7 DEF WriteNothing
  <2>2. revent' \in [Fds -> SUBSET Events] /\ between' \in SUBSET Fds /\ ActivityInv'
    BY <2>1, WriteDoneProperties
  <2>3. TypeOK' /\ IndexesAgree' /\ OutputWanted'
    BY <2>1, <2>2 DEF IInv, TypeOK, IndexesAgree, OutputWanted
  <2>4. QED
    BY <2>2, <2>3 DEF IInv
<1>8. ASSUME NEW c \in Fds, WriteSome(c) PROVE IInv'
  <2>1. /\ Writes(c) /\ WriteDone(c) /\ writing[c]
        /\ UNCHANGED <<stage, pollfdList, channelMap, index, writing>>
    BY <1>8 DEF WriteSome
  <2>2. revent' \in [Fds -> SUBSET Events] /\ between' \in SUBSET Fds /\ ActivityInv'
    BY <2>1, WriteDoneProperties
  <2>3. PICK n \in 1 .. outBuffer[c] - 1 : outBuffer' = [outBuffer EXCEPT ![c] = n]
    BY <1>8 DEF WriteSome
  <2>4. /\ outBuffer' \in [Fds -> 0 .. MaxOut] /\ outBuffer'[c] > 0
        /\ \A d \in Fds : d # c => outBuffer'[d] = outBuffer[d]
    BY <2>3, PollerConstants DEF IInv, TypeOK
  <2>5. TypeOK' /\ IndexesAgree'
    BY <2>1, <2>2, <2>4 DEF IInv, TypeOK, IndexesAgree
  <2>6. OutputWanted'
    BY <2>1, <2>4 DEF IInv, TypeOK, OutputWanted
  <2>7. QED
    BY <2>2, <2>5, <2>6 DEF IInv
<1>9. ASSUME NEW c \in Fds, WriteAll(c) PROVE IInv'
  <2>1. /\ Writes(c) /\ WriteDone(c) /\ Update(c, FALSE)
        /\ outBuffer' = [outBuffer EXCEPT ![c] = 0]
        /\ writing' = [writing EXCEPT ![c] = FALSE]
        /\ UNCHANGED <<stage, channelMap, index>>
    BY <1>9 DEF WriteAll
  <2>2. revent' \in [Fds -> SUBSET Events] /\ between' \in SUBSET Fds /\ ActivityInv'
    BY <2>1, WriteDoneProperties
  <2>3. /\ pollfdList' \in Seq(Entries) /\ index' \in [Fds -> Nat] /\ IndexesAgree'
        /\ \A d \in channelMap :
              pollfdList'[index'[d]].out =
                  IF index[d] = index[c] THEN FALSE ELSE pollfdList[index[d]].out
    BY <2>1, UpdateKeepsIndexes
  <2>4. TypeOK'
    <3>1. outBuffer' \in [Fds -> 0 .. MaxOut] /\ writing' \in [Fds -> BOOLEAN]
      <4>1. 0 \in 0 .. MaxOut
        BY PollerConstants
      <4>2. QED
        BY <2>1, <4>1 DEF IInv, TypeOK
    <3>2. QED
      BY <2>1, <2>2, <2>3, <3>1 DEF IInv, TypeOK
  <2>5. \A d \in channelMap' : pollfdList'[index'[d]].out => d # c /\ pollfdList[index[d]].out
    BY <2>1, <2>3
  <2>6. \A d \in channelMap' : writing'[d] <=> outBuffer'[d] > 0
    BY <2>1 DEF IInv, TypeOK, OutputWanted
  <2>7. \A d \in channelMap' : d # c => writing'[d] = writing[d]
    BY <2>1 DEF IInv, TypeOK
  <2>8. OutputWanted'
    BY <2>1, <2>5, <2>6, <2>7 DEF IInv, OutputWanted
  <2>9. QED
    BY <2>2, <2>3, <2>4, <2>8 DEF IInv
<1>10. CASE EventsDone
  <2>1. stage' = "functors" /\ between = {} /\ \A c \in Fds : revent[c] = {}
    BY <1>10 DEF EventsDone, IInv, TypeOK, ActivityInv
  <2>2. UNCHANGED <<pollfdList, channelMap, index, writing, outBuffer, revent, between>>
    BY <1>10 DEF EventsDone
  <2>3. QED
    BY <2>1, <2>2 DEF IInv, TypeOK, ActivityInv, IndexesAgree, OutputWanted
<1>11. ASSUME NEW c \in Fds, Register(c) PROVE IInv'
  <2>1. /\ stage = "functors" /\ c \notin channelMap /\ Insert(c)
        /\ writing' = [writing EXCEPT ![c] = FALSE]
        /\ outBuffer' = [outBuffer EXCEPT ![c] = 0]
        /\ UNCHANGED <<stage, revent, between>>
    BY <1>11 DEF Register
  <2>2. /\ pollfdList' \in Seq(Entries) /\ index' \in [Fds -> Nat] /\ IndexesAgree'
        /\ pollfdList'[index'[c]].out = FALSE
        /\ \A d \in channelMap : pollfdList'[index'[d]] = pollfdList[index[d]]
    BY <2>1, InsertProperties
  <2>3. channelMap' = channelMap \cup {c}
    BY <2>1 DEF Insert
  <2>4. TypeOK'
    <3>1. outBuffer' \in [Fds -> 0 .. MaxOut] /\ writing' \in [Fds -> BOOLEAN]
      <4>1. 0 \in 0 .. MaxOut
        BY PollerConstants
      <4>2. QED
        BY <2>1, <4>1 DEF IInv, TypeOK
    <3>2. QED
      BY <2>1, <2>2, <2>3, <3>1 DEF IInv, TypeOK
  <2>5. ActivityInv'
    BY <2>1 DEF IInv, ActivityInv
  <2>6. \A d \in channelMap : d # c /\ writing'[d] = writing[d] /\ outBuffer'[d] = outBuffer[d]
    BY <2>1 DEF IInv, TypeOK
  <2>7. ~writing'[c] /\ outBuffer'[c] = 0
    BY <2>1 DEF IInv, TypeOK
  <2>8. OutputWanted'
    BY <2>2, <2>3, <2>6, <2>7 DEF IInv, OutputWanted
  <2>9. QED
    BY <2>2, <2>4, <2>5, <2>8 DEF IInv
<1>12. ASSUME NEW c \in Fds, CloseIdle(c) PROVE IInv'
  <2>1. /\ stage = "functors" /\ c \in channelMap /\ RemoveChannel(c)
        /\ UNCHANGED <<stage, writing, outBuffer, revent, between>>
    BY <1>12 DEF CloseIdle
  <2>2. channelMap' = channelMap \ {c}
    BY <2>1 DEF RemoveChannel
  <2>3. /\ pollfdList' \in Seq(Entries) /\ index' \in [Fds -> Nat] /\ IndexesAgree'
        /\ \A d \in channelMap' : pollfdList'[index'[d]] = pollfdList[index[d]]
    BY <2>1, RemoveProperties
  <2>4. TypeOK' /\ ActivityInv'
    BY <2>1, <2>2, <2>3 DEF IInv, TypeOK, ActivityInv
  <2>5. OutputWanted'
    BY <2>1, <2>2, <2>3 DEF IInv, OutputWanted
  <2>6. QED
    BY <2>3, <2>4, <2>5 DEF IInv
<1>13. CASE FunctorsDone
  <2>1. /\ stage' = "poll" /\ between = {} /\ \A c \in Fds : revent[c] = {}
        /\ UNCHANGED <<pollfdList, channelMap, index, writing, outBuffer, revent, between>>
    BY <1>13 DEF FunctorsDone, IInv, ActivityInv
  <2>2. QED
    BY <2>1 DEF IInv, TypeOK, ActivityInv, IndexesAgree, OutputWanted
<1>14. CASE UNCHANGED vars
  BY <1>14 DEF vars, IInv, TypeOK, ActivityInv, IndexesAgree, OutputWanted
<1>15. QED
  BY <1>1, <1>2, <1>3, <1>5, <1>6, <1>7, <1>8, <1>9, <1>10, <1>11, <1>12, <1>13, <1>14
     DEF Next, HandleEvent

\* The invariant of Poller.cpp:14-54 and Connection.cpp:71-131 holds in every
\* behaviour, stale updates of closed channels included.
THEOREM InductiveInvariant == Spec => []IInv
<1>1. QED
  BY InitIInv, StepIInv, PTL DEF Spec

\* Every registered channel knows its place in the pollfd list.
THEOREM ChannelsKnowTheirPlace == Spec => []IndexesAgree
<1>1. IInv => IndexesAgree
  BY DEF IInv
<1>2. QED
  BY <1>1, InductiveInvariant, PTL

\* POLLOUT is asked for only while there is output to send.
THEOREM NoBusyLoop == Spec => []OutputWanted
<1>1. IInv => OutputWanted
  BY DEF IInv
<1>2. QED
  BY <1>1, InductiveInvariant, PTL
==============================================================================
