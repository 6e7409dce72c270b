----------------------------- MODULE AsyncLogging -----------------------------
(***************************************************************************)
(* Double-buffered logging: front-end threads append() lines to the        *)
(* current buffer, one back-end thread swaps the full buffers out, writes  *)
(* them to the file and recycles two of them.                              *)
(*                                                                         *)
(* Lines are numbered in the order _mutex admits them, each is one unit    *)
(* long.  Buffers are identities with a content, so that two shared_ptrs   *)
(* to one buffer would be seen.  The back end holds _mutex from the top of *)
(* an iteration to its end, except inside the timed wait: front ends can   *)
(* run only when MutexFree.  The thread that owns the object calls start() *)
(* and stop().                                                             *)
(***************************************************************************)
EXTENDS Naturals, Sequences, SequencesExt

CONSTANTS BufferIds,   \* identities for the objects made by new Buffer
          NoBuffer,    \* the empty shared_ptr
          BufferSize,  \* SIZE of a FixedBuffer, in lines (kLargeBuffer)
          MaxBacklog,  \* more buffers than this are a pile-up (25)
          FlushEvery,  \* _flushEveryN of LogFile (1024)
          MaxLines,    \* bound: lines appended in a behaviour
          MaxFailures  \* bound: writes to the file that fail

ASSUME LoggingConstants ==
    /\ NoBuffer \notin BufferIds
    /\ \E b1, b2 \in BufferIds : b1 # b2
    /\ BufferSize \in Nat /\ BufferSize >= 3
    /\ MaxBacklog \in Nat /\ MaxBacklog >= 2
    /\ FlushEvery \in Nat \ {0}
    /\ MaxLines \in Nat /\ MaxFailures \in Nat

VARIABLES
    pc,          \* the back end's place in threadFunc
    owner,       \* where the thread that calls start() and stop() is
    running,     \* _running
    latch,       \* _latch
    content,     \* the lines in each buffer
    currBuffer, nextBuffer, buffers,         \* the members guarded by _mutex
    newBuffer1, newBuffer2, buffersTowrite,  \* the locals of threadFunc
    written,     \* loop counter: buffers of buffersTowrite already in the file
    file,        \* the lines fwrite() has taken, in order
    count,       \* _count of LogFile: appends since the last flush it did
    flushed,     \* how many lines of file fflush() has put on the disk
    failures,    \* number of writes that failed
    accepted,    \* history: number of lines appended
    dropped,     \* history: lines erased by the pile-up rule or not written
    owed         \* history: lines appended before stop() was called

members == <<currBuffer, nextBuffer, buffers>>
locals == <<newBuffer1, newBuffer2, buffersTowrite>>
fileVars == <<file, count, flushed, failures>>
vars == <<pc, owner, running, latch, content, members, locals, written, fileVars,
          accepted, dropped, owed>>

Pointer == BufferIds \cup {NoBuffer}
Lines == 1 .. MaxLines
Stages == {"absent", "entry", "check", "lock", "waiting", "swap", "write", "recycle", "exited"}

TypeOK ==
    /\ pc \in Stages
    /\ owner \in {"new", "starting", "running", "stopping", "joined"}
    /\ running \in BOOLEAN
    /\ latch \in {0, 1}
    /\ content \in [BufferIds -> Seq(Lines)]
    /\ currBuffer \in Pointer /\ nextBuffer \in Pointer
    /\ buffers \in Seq(BufferIds)
    /\ newBuffer1 \in Pointer /\ newBuffer2 \in Pointer
    /\ buffersTowrite \in Seq(BufferIds)
    /\ written \in Nat
    /\ file \in Seq(Lines)
    /\ count \in Nat /\ flushed \in Nat /\ failures \in 0 .. MaxFailures
    /\ accepted \in 0 .. MaxLines
    /\ dropped \in SUBSET Lines
    /\ owed \in SUBSET Lines

------------------------------------------------------------------------------
(* Buffers                                                                 *)

\* The shared_ptrs of the object and of threadFunc that are not in a vector.
Pointers == <<currBuffer, nextBuffer, newBuffer1, newBuffer2>>

Unused == BufferIds \ (Range(Pointers) \cup Range(buffers) \cup Range(buffersTowrite))

\* new Buffer, once and twice, up to the names of the objects.
Fresh == CHOOSE b \in Unused : TRUE
TwoOf(S) == CHOOSE p \in S \X S : p[1] # p[2]

\* avail() > len for a line one unit long.
Fits(b) == BufferSize - Len(content[b]) > 1

LinesIn(bs) == UNION {Range(content[bs[i]]) : i \in DOMAIN bs}

MutexFree == pc \notin {"swap", "write", "recycle"}

------------------------------------------------------------------------------
Init ==
    /\ pc = "absent" /\ owner = "new" /\ running = FALSE /\ latch = 1
    /\ content = [b \in BufferIds |-> <<>>]
    /\ currBuffer = TwoOf(BufferIds)[1] /\ nextBuffer = TwoOf(BufferIds)[2]
    /\ buffers = <<>>
    /\ newBuffer1 = NoBuffer /\ newBuffer2 = NoBuffer /\ buffersTowrite = <<>>
    /\ written = 0 /\ file = <<>> /\ count = 0 /\ flushed = 0 /\ failures = 0
    /\ accepted = 0 /\ dropped = {} /\ owed = {}

\* start, up to the wait on the latch.
Start ==
    /\ owner = "new"
    /\ owner' = "starting"
    /\ running' = TRUE
    /\ pc' = "entry"
    /\ UNCHANGED <<latch, content, members, locals, written, fileVars, accepted, dropped, owed>>

\* _latch.wait() returns.
StartReturns ==
    /\ owner = "starting"
    /\ latch = 0
    /\ owner' = "running"
    /\ UNCHANGED <<pc, running, latch, content, members, locals, written, fileVars, accepted, dropped, owed>>

\* append by a front-end thread, in one hold of _mutex.  The object is
\* handed out when start() has returned (once_init, Logging.cpp).
AppendLine ==
    /\ owner \in {"running", "stopping"}
    /\ MutexFree
    /\ accepted < MaxLines
    /\ accepted' = accepted + 1
    /\ \/ /\ Fits(currBuffer)
          /\ content' = [content EXCEPT ![currBuffer] = Append(@, accepted + 1)]
          /\ UNCHANGED members
       \/ /\ ~Fits(currBuffer)
          /\ buffers' = Append(buffers, currBuffer)
          /\ IF nextBuffer # NoBuffer
                THEN currBuffer' = nextBuffer
                ELSE Unused # {} /\ currBuffer' = Fresh
          /\ nextBuffer' = NoBuffer
          /\ content' = [content EXCEPT ![currBuffer'] =
                IF nextBuffer # NoBuffer THEN Append(@, accepted + 1) ELSE <<accepted + 1>>]
    /\ UNCHANGED <<pc, owner, running, latch, locals, written, fileVars, dropped, owed>>

\* stop: lower the flag and signal.  The signal is no more than a wakeup of
\* the timed wait, which may end at any time anyway.
Stop ==
    /\ owner = "running"
    /\ owner' = "stopping"
    /\ running' = FALSE
    /\ owed' = 1 .. accepted
    /\ UNCHANGED <<pc, latch, content, members, locals, written, fileVars, accepted, dropped>>

\* _thread.join() returns.
Join ==
    /\ owner = "stopping"
    /\ pc = "exited"
    /\ owner' = "joined"
    /\ UNCHANGED <<pc, running, latch, content, members, locals, written, fileVars, accepted, dropped, owed>>

------------------------------------------------------------------------------
(* threadFunc                                                              *)

\* The two spare buffers, then CountDown.
Entry ==
    /\ pc = "entry"
    /\ pc' = "check"
    /\ latch' = 0
    /\ \E b1, b2 \in Unused : b1 # b2
    /\ newBuffer1' = TwoOf(Unused)[1] /\ newBuffer2' = TwoOf(Unused)[2]
    /\ UNCHANGED <<owner, running, content, members, buffersTowrite, written, fileVars, accepted, dropped, owed>>

\* LogFile::flush: what stdio holds back goes to the disk.
Flush == flushed' = Len(file)

\* LogFile::append, FileUtil::append: fwrite() takes all the lines, or fails
\* after n of them and the others are given up; every so many appends the
\* file is flushed.
FileAppend(lines, n) ==
    LET due == count + 1 >= FlushEvery IN
    /\ file' = file \o SubSeq(lines, 1, n)
    /\ dropped' = dropped \cup Range(SubSeq(lines, n + 1, Len(lines)))
    /\ count' = IF due THEN 0 ELSE count + 1
    /\ flushed' = IF due THEN Len(file') ELSE flushed
    /\ failures' = IF n < Len(lines) THEN failures + 1 ELSE failures

\* Mutant: the loop does not look at _running.
CheckForever ==
    /\ pc = "check"
    /\ pc' = "lock"
    /\ UNCHANGED <<owner, running, latch, content, members, locals, written, fileVars, accepted, dropped, owed>>

\* while (_running); after the loop the last flush.
Check ==
    /\ pc = "check"
    /\ \/ running /\ pc' = "lock" /\ UNCHANGED flushed
       \/ ~running /\ pc' = "exited" /\ Flush
    /\ UNCHANGED <<owner, running, latch, content, members, locals, written, file, count, failures,
                   accepted, dropped, owed>>

\* Take _mutex; with nothing to write, wait and give it back meanwhile.
Lock ==
    /\ pc = "lock"
    /\ pc' = IF buffers = <<>> THEN "waiting" ELSE "swap"
    /\ UNCHANGED <<owner, running, latch, content, members, locals, written, fileVars, accepted, dropped, owed>>

\* Mutant: wait() in place of waitForSeconds(_flushInterval).
WakeWhenFull ==
    /\ pc = "waiting"
    /\ buffers # <<>> \/ ~running
    /\ pc' = "swap"
    /\ UNCHANGED <<owner, running, latch, content, members, locals, written, fileVars, accepted, dropped, owed>>

\* waitForSeconds returns: signalled, timed out or spuriously.
Wake ==
    /\ pc = "waiting"
    /\ pc' = "swap"
    /\ UNCHANGED <<owner, running, latch, content, members, locals, written, fileVars, accepted, dropped, owed>>

\* Mutant: erase(begin() + 1, end()).
KeptOne(bs) == IF Len(bs) > MaxBacklog THEN SubSeq(bs, 1, 1) ELSE bs

\* The pile-up rule: all but the first two buffers are erased.
Kept(bs) == IF Len(bs) > MaxBacklog THEN SubSeq(bs, 1, 2) ELSE bs

Swap ==
    LET all == Append(buffers, currBuffer) IN
    /\ pc = "swap"
    /\ pc' = "write"
    /\ currBuffer' = newBuffer1
    /\ newBuffer1' = NoBuffer
    /\ buffersTowrite' = Kept(all)
    /\ buffers' = buffersTowrite
    /\ dropped' = dropped \cup LinesIn(SubSeq(all, Len(Kept(all)) + 1, Len(all)))
    /\ IF nextBuffer = NoBuffer
          THEN nextBuffer' = newBuffer2 /\ newBuffer2' = NoBuffer
          ELSE UNCHANGED <<nextBuffer, newBuffer2>>
    /\ UNCHANGED <<owner, running, latch, content, written, fileVars, accepted, owed>>

\* One turn of the for loop: output.append.
WriteBuffer ==
    /\ pc = "write"
    /\ written < Len(buffersTowrite)
    /\ written' = written + 1
    /\ LET lines == content[buffersTowrite[written + 1]] IN
       \E n \in 0 .. Len(lines) :
            (n < Len(lines) => failures < MaxFailures) /\ FileAppend(lines, n)
    /\ UNCHANGED <<pc, owner, running, latch, content, members, locals, accepted, owed>>

\* The loop is over.
WriteDone ==
    /\ pc = "write"
    /\ written >= Len(buffersTowrite)
    /\ pc' = "recycle"
    /\ written' = 0
    /\ UNCHANGED <<owner, running, latch, content, members, locals, fileVars, accepted, dropped, owed>>

\* Mutant: the pop_back() between the two calls of back() is forgotten.
BackNotPopped(bs, popped) == bs[Len(bs)]

\* back() after `popped` calls of pop_back().
Back(bs, popped) == bs[Len(bs) - popped]

\* Mutant: reset() is forgotten.
EmptiedNever(bs) == content

\* reset() of the recycled buffers.
Emptied(bs) == [b \in BufferIds |-> IF b \in bs THEN <<>> ELSE content[b]]

\* resize(2), recycle, clear, flush; the destructor of lock ends the hold.
Recycle ==
    LET two == IF Len(buffersTowrite) > 2 THEN SubSeq(buffersTowrite, 1, 2) ELSE buffersTowrite
    IN
    /\ pc = "recycle"
    /\ pc' = "check"
    /\ newBuffer1' = Back(two, 0)
    /\ newBuffer2' = IF newBuffer2 = NoBuffer THEN Back(two, 1) ELSE newBuffer2
    /\ content' = Emptied({newBuffer1', newBuffer2'})
    /\ buffersTowrite' = <<>>
    /\ Flush
    /\ UNCHANGED <<owner, running, latch, members, written, file, count, failures, accepted, dropped, owed>>

BackEnd == Entry \/ Check \/ Lock \/ Wake \/ Swap \/ WriteBuffer \/ WriteDone \/ Recycle

Next == Start \/ StartReturns \/ AppendLine \/ Stop \/ Join \/ BackEnd

Spec == Init /\ [][Next]_vars

\* The scheduler runs the back end and returns from join(); the timed wait
\* ends by itself.  Nobody owes a line, start() or stop().
FairSpec == Spec /\ WF_vars(BackEnd) /\ WF_vars(Join)

------------------------------------------------------------------------------
(* Properties                                                              *)

\* Outside an iteration both spare buffers exist, and the reserve is missing
\* only if an append of this period has queued a full buffer
\* (AsyncLogging.cpp:35-40, 77-84, 106-117).
SparesInv ==
    /\ owner = "new" <=> pc = "absent"
    /\ currBuffer # NoBuffer
    /\ nextBuffer = NoBuffer => buffers # <<>>
    /\ pc \in {"absent", "entry"} => newBuffer1 = NoBuffer /\ newBuffer2 = NoBuffer
    /\ pc \in {"check", "lock", "waiting", "swap"} =>
        newBuffer1 # NoBuffer /\ newBuffer2 # NoBuffer
    /\ pc \notin {"write", "recycle"} => buffersTowrite = <<>>
    /\ pc \in {"write", "recycle"} =>
        /\ buffers = <<>>
        /\ buffersTowrite # <<>>
        /\ newBuffer1 = NoBuffer
        /\ newBuffer2 = NoBuffer => Len(buffersTowrite) >= 2

\* A buffer is empty when it is handed to the front ends: at the start, and
\* in every later iteration because the back end resets the ones it recycles
\* (AsyncLogging.cpp:12-18, 63-66, 77-84, 106-117).
SparesEmpty ==
    /\ latch = 1 <=> pc \in {"absent", "entry"}
    /\ latch = 1 => owner \in {"new", "starting"} /\ \A b \in BufferIds : content[b] = <<>>
    /\ \A b \in {nextBuffer, newBuffer1, newBuffer2} : b # NoBuffer => content[b] = <<>>
    /\ written <= Len(buffersTowrite)
    /\ pc # "write" => written = 0

\* The inductive invariant behind RecycleHasBuffers and EveryLineInOrder.
IInv == TypeOK /\ SparesInv /\ SparesEmpty

\* back() at AsyncLogging.cpp:108 and 114 is never called on an empty
\* vector, whatever appends happened while the back end waited.
RecycleHasBuffers ==
    pc = "recycle" =>
        Len(buffersTowrite) >= (IF newBuffer1 = NoBuffer THEN 1 ELSE 0)
                             + (IF newBuffer2 = NoBuffer THEN 1 ELSE 0)

\* One owner per buffer: no buffer is filled by a front end, or reset, while
\* another pointer still has lines to write from it (AsyncLogging.cpp:35-40,
\* 77-84, 106-118).
OneOwner ==
    /\ \A i, j \in DOMAIN Pointers :
        i # j => Pointers[i] # Pointers[j] \/ Pointers[i] = NoBuffer
    /\ Range(Pointers) \cap (Range(buffers) \cup Range(buffersTowrite)) = {}
    /\ Range(buffers) \cap Range(buffersTowrite) = {}
    /\ IsInjective(buffers) /\ IsInjective(buffersTowrite)

Unwritten == SubSeq(buffersTowrite, written + 1, Len(buffersTowrite))

\* The buffers with lines still to write, the oldest first: the back end's,
\* the full ones of the front ends and the one they fill.
Held == (IF pc = "recycle" THEN <<>> ELSE Unwritten) \o Append(buffers, currBuffer)

\* Where the lines are: the file first, then those buffers.
Places == [i \in 0 .. Len(Held) |-> IF i = 0 THEN file ELSE content[Held[i]]]

InOrder(lines) == \A i, j \in DOMAIN lines : i < j => lines[i] < lines[j]

Before(S, T) == \A m \in S : \A n \in T : m < n

Ordered(places) ==
    /\ \A i \in DOMAIN places : InOrder(places[i])
    /\ \A i, j \in DOMAIN places : i < j => Before(Range(places[i]), Range(places[j]))

AllLines(places) == UNION {Range(places[i]) : i \in DOMAIN places}

\* Nothing is lost, duplicated or reordered on the way to the file, but what
\* the pile-up rule erases and a failed write gives up: the file, then what
\* the back end and the front ends still hold, is every other accepted line
\* in order (AsyncLogging.cpp:28-44, 70-120, FileUtil.cpp:15-32).
EveryLineInOrder ==
    /\ Ordered(Places)
    /\ AllLines(Places) = (1 .. accepted) \ dropped
    /\ dropped \subseteq 1 .. accepted

\* While nobody calls stop(), an appended line reaches the disk: a line in a
\* half-full buffer too, by the flush interval, and a line stdio holds back,
\* by the flush at the end of the iteration (AsyncLogging.cpp:73-77, 119).
LineReachesFile ==
    \A n \in Lines :
        n <= accepted ~> n \in Range(SubSeq(file, 1, flushed)) \cup dropped \/ owner # "running"

\* stop() returns (AsyncLogging.cpp:54-59).
StopReturns == owner = "stopping" ~> owner = "joined"

\* What the comment in start() (AsyncLogging.cpp:50-51) promises: a line
\* appended between start() and stop() is not lost because the back end
\* finds _running false.
NoLineLostAtStop == owner = "joined" => owed \subseteq Range(file) \cup dropped
==============================================================================
