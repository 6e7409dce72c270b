-------------------------------- MODULE Poller --------------------------------
(***************************************************************************)
(* What one IO loop's thread does to its pollfd list, its channels and the *)
(* output buffers of its connections: Poller (update, removeChannel, poll), *)
(* Channel::handleEvent and the read and write handlers of Connection.     *)
(*                                                                         *)
(* A descriptor stands for the connection that has it: the object dies, and *)
(* the descriptor can come back, only after the event that closed it        *)
(* (module Server).  Positions count from 1: index[c] is Channel::_index    *)
(* plus one.  The wakeup channel of the loop is the first entry for good;   *)
(* every entry asks for POLLIN, `out` says whether it asks for POLLOUT.    *)
(***************************************************************************)
EXTENDS Naturals, Sequences

CONSTANTS Fds,       \* the descriptors of connections
          WakeupFd,  \* the eventfd of the loop
          MaxOut     \* bound: units of unsent output in one outBuffer

ASSUME PollerConstants ==
    /\ WakeupFd \notin Fds
    /\ MaxOut \in Nat \ {0}

VARIABLES
    stage,       \* the stage of the iteration of loop()
    pollfdList,  \* what ::poll is given
    channelMap,  \* the keys of channelMap
    index,       \* Channel::_index
    writing,     \* Channel::isWriting(): _event asks for POLLOUT
    outBuffer,   \* units in outBuffer
    revent,      \* revent[c]: what is left to handle of _revent of c
    between      \* the channel between its read and its write callback

vars == <<stage, pollfdList, channelMap, index, writing, outBuffer, revent, between>>

Entries == [fd : Fds \cup {WakeupFd}, out : BOOLEAN]
Events == {"in", "out"}

TypeOK ==
    /\ stage \in {"poll", "events", "functors"}
    /\ pollfdList \in Seq(Entries)
    /\ channelMap \in SUBSET Fds
    /\ index \in [Fds -> Nat]
    /\ writing \in [Fds -> BOOLEAN]
    /\ outBuffer \in [Fds -> 0 .. MaxOut]
    /\ revent \in [Fds -> SUBSET Events]
    /\ between \in SUBSET Fds

Init ==
    /\ stage = "poll"
    /\ pollfdList = <<[fd |-> WakeupFd, out |-> FALSE]>>
    /\ channelMap = {}
    /\ index = [c \in Fds |-> 0]
    /\ writing = [c \in Fds |-> FALSE]
    /\ outBuffer = [c \in Fds |-> 0]
    /\ revent = [c \in Fds |-> {}]
    /\ between = {}

------------------------------------------------------------------------------
(* Poller                                                                  *)

\* update of a channel that has an index.  The index of a removed channel
\* stays what it was: past the end it is spare capacity of the vector that is
\* written, otherwise the entry of whoever has moved there.
Update(c, out) ==
    pollfdList' = IF index[c] <= Len(pollfdList)
                     THEN [pollfdList EXCEPT ![index[c]].out = out]
                     ELSE pollfdList

\* update of a channel whose _index is -1.
Insert(c) ==
    /\ pollfdList' = Append(pollfdList, [fd |-> c, out |-> FALSE])
    /\ index' = [index EXCEPT ![c] = Len(pollfdList) + 1]
    /\ channelMap' = channelMap \cup {c}

Last == pollfdList[Len(pollfdList)]

\* Mutant: the channel that takes the free place is not told its new index.
RemoveChannelNoSetIndex(c) ==
    /\ channelMap' = channelMap \ {c}
    /\ pollfdList' = SubSeq([pollfdList EXCEPT ![index[c]] = Last], 1, Len(pollfdList) - 1)
    /\ UNCHANGED index

\* removeChannel: the last entry takes the place of the one removed.
RemoveChannel(c) ==
    /\ channelMap' = channelMap \ {c}
    /\ pollfdList' = SubSeq([pollfdList EXCEPT ![index[c]] = Last], 1, Len(pollfdList) - 1)
    /\ index' = IF index[c] = Len(pollfdList) THEN index ELSE [index EXCEPT ![Last.fd] = index[c]]

\* ::poll and fillActivityChannel: any of the events asked for.
Poll ==
    /\ stage = "poll"
    /\ stage' = "events"
    /\ revent' \in [Fds -> SUBSET Events]
    /\ \A c \in Fds : revent'[c] # {} => c \in channelMap
    /\ \A c \in channelMap : "out" \in revent'[c] => pollfdList[index[c]].out
    /\ UNCHANGED <<pollfdList, channelMap, index, writing, outBuffer, between>>

------------------------------------------------------------------------------
(* Channel::handleEvent, once for every channel of ActivityChannel (in any   *)
(* order: that of the list means nothing to a connection).                 *)

\* The read callback is next for c, or the write callback.
Reads(c) == between = {} /\ "in" \in revent[c]
Writes(c) == between \subseteq {c} /\ revent[c] = {"out"}

\* The read callback is done: POLLOUT of the same channel comes next, even if
\* the channel has just been removed (guard keeps the connection alive).
ReadDone(c) ==
    /\ revent' = [revent EXCEPT ![c] = @ \ {"in"}]
    /\ between' = {c} \cap {d \in Fds : "out" \in revent[d]}

WriteDone(c) ==
    /\ revent' = [revent EXCEPT ![c] = {}]
    /\ between' = {}

\* handleRead fails, finds no whole request, or answers in full (or not at
\* all, n < 0) and keeps the connection.
ReadNothing(c) ==
    /\ Reads(c)
    /\ ReadDone(c)
    /\ UNCHANGED <<stage, pollfdList, channelMap, index, writing, outBuffer>>

\* handleRead reads 0 bytes, or the response just sent in full (or not at
\* all) is the last one: handleClose, which runs at once.
ReadAndClose(c) ==
    /\ Reads(c)
    /\ ReadDone(c)
    /\ RemoveChannel(c)
    /\ UNCHANGED <<stage, writing, outBuffer>>

\* The response leaves output: write() took a part of it, or earlier output
\* waits already.
Buffered(c) ==
    /\ Reads(c)
    /\ ReadDone(c)
    /\ \E n \in outBuffer[c] + 1 .. MaxOut : outBuffer' = [outBuffer EXCEPT ![c] = n]
    /\ writing' = [writing EXCEPT ![c] = TRUE]

SendAndKeep(c) ==
    /\ Buffered(c)
    /\ Update(c, TRUE)
    /\ UNCHANGED <<stage, channelMap, index>>

\* ... and the connection is closed after it, unsent output and all.
SendAndClose(c) ==
    /\ Buffered(c)
    /\ RemoveChannel(c)
    /\ UNCHANGED stage

\* handleWrite, when the write callback finds nothing it may send or write()
\* fails.
WriteNothing(c) ==
    /\ Writes(c)
    /\ WriteDone(c)
    /\ UNCHANGED <<stage, pollfdList, channelMap, index, writing, outBuffer>>

\* handleWrite: a part of outBuffer leaves.
WriteSome(c) ==
    /\ Writes(c)
    /\ writing[c]
    /\ WriteDone(c)
    /\ \E n \in 1 .. outBuffer[c] - 1 : outBuffer' = [outBuffer EXCEPT ![c] = n]
    /\ UNCHANGED <<stage, pollfdList, channelMap, index, writing>>

\* Mutant: disableWriting is forgotten.
WriteAllKeepWriting(c) ==
    /\ Writes(c)
    /\ writing[c]
    /\ WriteDone(c)
    /\ outBuffer' = [outBuffer EXCEPT ![c] = 0]
    /\ UNCHANGED <<stage, pollfdList, channelMap, index, writing>>

\* handleWrite: all of it leaves, disableWriting.
WriteAll(c) ==
    /\ Writes(c)
    /\ writing[c]
    /\ WriteDone(c)
    /\ outBuffer' = [outBuffer EXCEPT ![c] = 0]
    /\ writing' = [writing EXCEPT ![c] = FALSE]
    /\ Update(c, FALSE)
    /\ UNCHANGED <<stage, channelMap, index>>

EventsDone ==
    /\ stage = "events"
    /\ \A c \in Fds : revent[c] = {}
    /\ stage' = "functors"
    /\ UNCHANGED <<pollfdList, channelMap, index, writing, outBuffer, revent, between>>

------------------------------------------------------------------------------
(* Tasks other threads have queued                                         *)

\* newConnnection: a fresh connection activates its channel.
Register(c) ==
    /\ stage = "functors"
    /\ c \notin channelMap
    /\ Insert(c)
    /\ writing' = [writing EXCEPT ![c] = FALSE]
    /\ outBuffer' = [outBuffer EXCEPT ![c] = 0]
    /\ UNCHANGED <<stage, revent, between>>

\* Mutant: the close does not wait for the functors stage.
CloseIdleAtOnce(c) ==
    /\ c \in channelMap
    /\ RemoveChannel(c)
    /\ UNCHANGED <<stage, writing, outBuffer, revent, between>>

\* The close the timing wheel has queued (one that finds no channel: Server).
CloseIdle(c) ==
    /\ stage = "functors"
    /\ c \in channelMap
    /\ RemoveChannel(c)
    /\ UNCHANGED <<stage, writing, outBuffer, revent, between>>

FunctorsDone ==
    /\ stage = "functors"
    /\ stage' = "poll"
    /\ UNCHANGED <<pollfdList, channelMap, index, writing, outBuffer, revent, between>>

------------------------------------------------------------------------------
HandleEvent(c) ==
    \/ ReadNothing(c) \/ ReadAndClose(c) \/ SendAndKeep(c) \/ SendAndClose(c)
    \/ WriteNothing(c) \/ WriteSome(c) \/ WriteAll(c)

Next ==
    \/ Poll
    \/ \E c \in Fds : HandleEvent(c) \/ Register(c) \/ CloseIdle(c)
    \/ EventsDone
    \/ FunctorsDone

Spec == Init /\ [][Next]_vars

------------------------------------------------------------------------------
(* Properties                                                              *)

\* Only registered channels are handled, except that one closed by its read
\* callback still has its write callback to come (Channel.cpp:49-78).
ActivityInv ==
    /\ stage # "events" => between = {} /\ \A c \in Fds : revent[c] = {}
    /\ \A c \in Fds : revent[c] # {} => c \in channelMap \cup between
    /\ \A c \in between : between = {c} /\ revent[c] = {"out"}

\* Every entry but the first belongs to a registered channel that knows its
\* place, and every registered channel has an entry, whatever the order of
\* removals (Poller.cpp:14-54): poll() looks for POLLOUT of nobody else, and
\* fillActivityChannel never dereferences channelMap.end().
IndexesAgree ==
    /\ pollfdList # <<>> /\ pollfdList[1].fd = WakeupFd
    /\ \A i \in 2 .. Len(pollfdList) :
        pollfdList[i].fd \in channelMap /\ index[pollfdList[i].fd] = i
    /\ \A c \in channelMap :
        index[c] \in 2 .. Len(pollfdList) /\ pollfdList[index[c]].fd = c

\* No busy loop: poll() is asked for POLLOUT only while there is output to
\* send, and the channel asks exactly then (Connection.cpp:71-131).
OutputWanted ==
    \A c \in channelMap :
        /\ pollfdList[index[c]].out => writing[c]
        /\ writing[c] <=> outBuffer[c] > 0

\* The inductive invariant behind these two.
IInv == TypeOK /\ ActivityInv /\ IndexesAgree /\ OutputWanted

\* Connection.cpp:113-114, "close is called at the end of the event loop":
\* when the write callback runs the channel is still registered, so that its
\* update() changes no other channel's entry.
WriteUpdatesOwnEntry ==
    [][\A c \in Fds : WriteAll(c) =>
        \A i \in DOMAIN pollfdList : pollfdList[i].fd # c => pollfdList'[i] = pollfdList[i]]_vars
==============================================================================
