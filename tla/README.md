# A TLA+ model of Multi-Threaded-Server

The repository is a C++ web server in the style of muduo: a main thread accepts
connections and deals them to IO threads, each of which runs an event loop; a
timing wheel closes connections that fall silent; a logging thread writes what
the others append to two rotating buffers. This directory models that code in
TLA+, checks it with TLC and proves part of it with TLAPS. `PROJECT.json` lists
the runs, the lines each definition stands for, the mutants, the findings, the
hazards and the theorems.

## The system

| component | state | operations | interacts through |
|---|---|---|---|
| Event loop (`net/Eventloop`) | `_functorList` under `_mutex`, `_quit`, `_callingPendingFunctors`, an eventfd | `loop`, `queueInLoop`, `runInLoop`, `quit`, `wakeup`, `handleRead`, `runAfter/At/Every` | any thread queues closures; owns a Poller |
| Poller, Channel (`net/Poller`, `net/Channel`) | `pollfdList`, `channelMap`, each channel's `_index`, `_event`, `_revent` | `update`, `removeChannel`, `poll`, `handleEvent` | callbacks into Connection, Acceptor and Eventloop |
| Connection (`net/Connection`) | `outBuffer`, `inBuffer`, `Context` | `handleRead`, `handleWrite`, `send`, `sendinLoop`, `handleClose`, `activationChannel` | held by `connectionMap`; its Channel sits in a Poller |
| Acceptor, TCPserver | listening socket; `connectionMap` per loop | `handleRead`, `newConnectioninLoop`, `newConnnection`, `removeConnection` | main thread queues creation to an IO loop |
| IO thread pool (`net/EventLoopThread*`) | loops, `_next`; per thread `_loop` under a mutex | `start`, `getNextLoop`, `startLoop`, `threadFunc` | starts and stops loops |
| httpServer | the wheel `connBuckets`; one `Entry` and one `Context` per connection | `connCallBack`, `handleRead`, `onTimer`, `~Entry`, the request parser | wheel shared by main thread and IO threads |
| Timers (`net/Timer`) | a heap of timers | `addTimer`, `handleExpriedEvent` | a loop runs them after its functors |
| Buffer (`net/Buffer`) | `readIndex`, `writeIndex`, a vector | `append`, `makeSpace`, `retrive`, `readFd`, `findcrlf` | owned by a Connection |
| Asynchronous logging (`base/Log`) | two + two buffers, a list of full ones, `_running`, a latch | `append`, `start`, `stop`, `threadFunc` | any thread appends |
| Task thread pool (`base/Threadpool`, `TaskQueue`) | queue under a mutex, `_started` | `start`, `addTask`, `take`, `doTask`, `stop` | |
| Thread primitives (`base/Thread`, `CountLatch`, `Condition`) | `_started`, `_tid`, a latch | `start`, `runInThread`, `join`, `wait`, `CountDown` | used by both pools and the log |
| Log file (`LogFile`, `FileUtil`) | `_count`, what stdio holds back | `append`, `flush` | written by the logging thread |
| RingBuffer, Epoller, log formatting | | | |

What is hard to get right in this code, and hard to test: wakeups that must not be
lost between a closure being queued and a loop going to sleep; threads that publish an object
to one that waits for it, and destroy it while another thread calls it; descriptors that
are reused while a close for their former owner is still queued; objects shared
by the main thread (the wheel) and an IO thread (the handlers); the swap-with-last
removal in the pollfd list while channels are being handled; the recycling of log
buffers across a timed wait; workers that are told to stop between testing a flag and
going to sleep; requests that a read cuts anywhere, in a buffer that moves and grows; output of which each
write takes any part; timers on a clock that moves between any two readings. Each is a hazard of `PROJECT.json` with the properties
that would catch it.

What makes each component correct:

* event loop: a closure is executed once, in order, and eventually; `quit` ends the loop;
* poller: every registered channel knows its entry; interest in POLLOUT matches waiting output;
* server: `connectionMap`, `channelMap` and the connections agree; a handler meets no
  destroyed channel; a queued close hits its own connection or none; silent connections end;
* IO threads: a loop the pool hands out is being run, each gets its share of the connections,
  the destructors wait for the threads and return;
* logging: no buffer is shared or missing; lines reach the file in order; `stop` returns;
* thread pool: a task runs once, `stop` returns; timers: a timer fires once, not early, and
  `poll()` does not sleep past it; buffer: what is appended is what is read; output: the client
  receives the responses in order; parser: requests that arrive one at a time are answered
  as a look at the whole request would.

## Modules

| module | models | how state and actions correspond to the code |
|---|---|---|
| `LoopTasks` | what a loop promises: a FIFO executor per loop | abstract: `Submit`, `Execute`, `ExecuteNow`, `Stop` |
| `EventLoop` | `Eventloop.cpp` with several loops and foreign threads | `pc[l]` is the stage of `loop()`; a critical section on `_mutex` is one step, the eventfd write after it (`Wakeup`) another; callbacks, functors and timer callbacks may call `QueueInLoop`, `RunNow`, `Quit` |
| `EventLoop_proofs` | theorems about it | |
| `AsyncLogging` | `AsyncLogging.cpp`, `LogFile.cpp`, `FileUtil.cpp` | buffers are identities with a content, lines are numbers; the back end holds `_mutex` from `Lock` to `Recycle` except while it waits; the pile-up rule, the swap, the recycling are one step each, as nobody can run in between; `file` is what `fwrite` has taken, `flushed` how much of it is at least on the disk; a write may fail half way |
| `AsyncLogging_proofs` | theorems about it | |
| `Server` | Acceptor, TCPserver, the lifetime side of Connection and Channel, the wheel | connections are numbered as accepted, descriptors are the lowest free ones; what a loop is handed is the FIFO of `LoopTasks`; `~Entry` is two steps (`DestroyEntry`, `Kick`), the end of `httpServer::handleRead` is a step of its own (`Touch`), as each races the other |
| `ConnectionLife` | what the server promises of a connection: queued, served, closed, released | abstract: `Queue`, `Serve`, `Close`, `Release`, `Die` |
| `Server_proofs` | theorems about `Server`, and that it implements `ConnectionLife` | |
| `EventLoopThread` | EventLoopThread, EventLoopThreadpool, TCPserver::start, Thread::start and join | `owner` is where the main thread is in `start` or the destructors, `cur` which EventLoopThread it is at, `pc[i]` where IO thread i is in `threadFunc`; `loopPtr`, `quit`, `eventfd` are `_loop`, `_quit`, `wakeupFd`; the destructor reads `_loop` with no lock; `pthread_create` may fail, a wait may end for nothing |
| `EventLoopThread_proofs` | theorems about it | |
| `TimerQueue` | Timer, TimerQueue, SetpollTimeout, runAfter, runAt, runEvery | `queue` is the heap as a set, of which only the top is looked at (ties are broken any way); the clock may tick between any two steps, and each reading of it is a step of its own: the test of a timer, the next deadline, the timeout; `ToInt` is the cast to int |
| `TimerQueue_proofs` | theorems about it | |
| `Poller` | Poller, `Channel::handleEvent`, the read and write handlers of Connection, in one loop | `pollfdList` is a sequence of (fd, POLLOUT wanted); `index[c]` is `_index` + 1 and is left stale by `RemoveChannel`, as in the code; `outBuffer[c]` counts units of unsent output; the kernel's answers are nondeterministic |
| `Poller_proofs` | theorems about it | |
| `Threadpool` | Threadpool, Thread, CountLatch, Condition | `owner` is where the one caller of `start` and `stop` is, `pc[w]` where worker w is; `created`, `running`, `latch`, `tid` are `_threads.size()`, `Thread::_started`, `_latch`, `_tid`; a critical section up to a wait is one step; condition variables may wake for nothing, `pthread_create` may fail |
| `Threadpool_proofs` | theorems about it | |
| `Buffer` | Buffer | operators on a record: what the vector has allocated, its size, the two indexes, which are unsigned; no state of its own; a copy that leaves the memory, or a distance below zero, makes the buffer `Broken`, as nothing can be said of the process any more |
| `ConnectionOutput` | `send`, `sendinLoop`, `handleWrite` over a `Buffer` | `out` is a record: `outBuffer`, `isWriting()`, what the client has received, what it was to receive; a `write` takes any of the `Cuts`, all or nothing |
| `HttpParser` | `Connection::handleRead`, the parser and the answers of httpServer, over a `Buffer` and a `ConnectionOutput` | one connection; a read of any length and its handler are one step; a line's text is one unit, CR, LF and body bytes are units of their own; `ideal` is what the buffer should hold, `asked` the requests if each has come in a read of its own, `refused` that a header was refused after `keep_alive`; the loops of the parser are stated by where they end, the first line that stops them or the least number of rounds |
| `HttpParser_proofs` | theorems about `Buffer`, `ConnectionOutput` and `HttpParser` | |
| `MCHttpParser` | the clients of the runs | |

How they fit: `ConnectionOutput` extends `Buffer`, and `HttpParser` extends it. `EventLoop` implements `LoopTasks`; `Server` relies on that by
giving each loop a FIFO of tasks and by letting a loop with a task leave
`poll()`. `Server` also relies on `EventLoopThread`, which shows that the loops it deals to are there, run, and have
their map in `connectionMap` (`LoopsServe`, `DealtToReady`), and on `TimerQueue`, which shows that the wheel's
repeating timer runs (`TimerRuns`). `Server` implements `ConnectionLife`. `Server` has the facts between threads about one connection;
`Poller` has the facts inside one loop about all of its connections, and takes
from `Server` that a queued close finds its channel, which `Server` shows to
fail (see the findings), and that a descriptor is reused only after its former
connection is gone, which `Server` shows to hold (`CloseHitsOwner`).

## Runs

| run | instance | shows |
|---|---|---|
| `EventLoop.cfg` | 2 loops, 1 foreign thread, 2 closures | `IInv`, `SleeperIsWoken`, `QuitStopsLoop`, `ImplementsLoopTasks` |
| `AsyncLogging.cfg` | buffers of 2 usable lines, 8 lines, pile-up above 2, 1 failed write, a flush every 2 appends | `IInv`, `RecycleHasBuffers`, `OneOwner`, `EveryLineInOrder`, `LineReachesFile`, `StopReturns` |
| `AsyncLoggingStop.cfg` | the same | violation: a line accepted before `stop` is lost |
| `Server.cfg` | 2 loops, 2 descriptors, 3 connections, wheel of 2 | `MapsAgree`, `ActiveAreRegistered`, `ContextFollowsEntry`, `CloseHitsOwner` |
| `ServerIdle.cfg` | 2 loops, 2 descriptors, 2 connections | `IInv`, `IdleIsKicked`, `ImplementsLife` |
| `ServerStaleClose.cfg` | 1 loop, 1 connection | violation: the wheel's close finds no channel |
| `EventLoopThread.cfg` | 3 IO threads, 2 connections each | `IInv` (with `StartNotMissed`, `JoinedFirst`), `DealtToReady`, `LoopsServe`, `StartReturns`, `StopReturns` |
| `TimerQueue.cfg` | 2 timers, delays of 1 and 3 units, 2 units to a millisecond, an int of 2 bits, time up to 8 | `IInv` (with `RunsOnce`), `NotEarly`, `PeriodKept`, `WakesInTime`, `TimerRuns` |
| `Poller.cfg` | 3 descriptors, 2 units of output | `IInv`, `IndexesAgree`, `OutputWanted` |
| `PollerLateWrite.cfg` | as `Poller.cfg` | violation: a closed connection clears another's POLLOUT |
| `Threadpool.cfg` | 3 workers, 3 tasks | `IInv`, `NoTaskOverlooked`, `NoSleeperOnceStopped`, `TaskRuns`, `CallsReturn` |
| `HttpParser.cfg` | 16 streams of 3 requests, buffers of 12 units, responses of 6 and 3, writes of 2 units, all or nothing | `WithinCapacity`, `FifoWhileTight`, `AnsweredAsWhole`, `ResponsesInOrder`, `RefusedForGood` |

Bounds. Two loops let a loop be caller and callee, a third adds no new pair; the
worker is the foreign thread. Two closures are the least that can be reordered. Eight
lines fill four buffers: enough for the third buffer that makes a pile-up above 2,
with appends before and after it, and a failed write before, in or behind it; `BufferSize` 3 is two lines, since `avail() > len`
leaves one unused. Eight buffer identities are more than are ever held at once.
Three connections over two descriptors give reuse of a descriptor in the same loop
and in another; a wheel of two buckets separates "refreshed" from "expired". Three
descriptors let a removal move an entry that is neither the first nor the one
handled. Three workers let a task be taken by one that never slept while another is woken and a third
sleeps. A buffer of 12 units and requests of 5 to 13 make it move its contents, grow without slack
and grow with slack, the three ways `makeSpace` can go; three requests show what one leaves to the next two, and
every cut of the stream into reads is tried, the one that brings whole requests included, of which two kinds fit the `Short` of `AnsweredAsWhole` and the others do not; two responses of six units overflow `outBuffer` into the growth that
leaves slack, one does not. Three IO threads have a first, a middle and a last, and a thread on either
side of the one that is started or destroyed. Two timers can swap places at the top of the heap; with two units to a millisecond
a deadline can be less than a millisecond away, and with `IntMax` 1 it can be out of the range of int, where the cast wraps; the clock stops at 8, and the liveness
property speaks of deadlines before that. No counter of the environment other than these is bounded: data may arrive
at any time, `quit` and `stop` may come at any time.

`CHECK_DEADLOCK FALSE` is everywhere because each instance really may stop: every
loop has quit, the log or the pool is stopped, the client has said all, nobody connects or sends any more, or the process
has died (`crashed`).

Fairness. Threads are scheduled: a loop's thread between two calls, a thread
inside `queueInLoop` or `quit`, the logging back end, `join`, the main thread's wheel, the
owner of the thread pool inside `start` and `stop`, its workers (tasks end).
`poll()` must return when the eventfd is readable, and for nothing else: sockets and
timers of a loop owe no event, except the wheel's repeating timer in `IdleIsKicked`; in `TimerQueue` it must return at its
timeout, and the clock moves. A wait of `startLoop` must end once it is signalled.
The timed wait of the back end ends by itself, as
`pthread_cond_timedwait` does. Users owe no call: nobody has to append, to add a task, to start or stop, to
send or to close. `IdleIsKicked` speaks only of connections that are silent from some
time on.

Each property of a passing run has a mutant: an operator placed just before the
definition it would replace, marked `Mutant:`, with which TLC finds the property violated.

## Findings

1. `AsyncLoggingStop`: the latch is counted down before `_running` is tested, and the
   back end writes nothing after its loop: what was appended since the last swap is lost at
   `stop()`, the case the comment in `start()` wants to exclude included.
2. `ServerStaleClose`: `~Entry` (main thread) queues a close; if the connection is closed
   by its own loop first, `removeChannel` dereferences a null `Channel*`.
3. `PollerLateWrite`: `handleClose` inside a handler takes effect at once, not at
   the end of the loop as a comment says. The write callback of the same event then runs on
   a removed channel, and its `disableWriting()` writes through the stale `_index`: the
   connection that was moved there loses its POLLOUT while it has output to send,
   and its response stalls until it sends again.

Four more disagreements have no run of their own; the models contain them and the passing properties are stated around them.

* `writeableBytes()` counts to `capacity()`, while `Buffer.h:5-10` draws the indexes up to size. Once a growth has left capacity
  above size, as a read does that takes the buffer past its first 1024 bytes, bytes are written beyond `size()`, and the next
  growth does not copy them. A `readFd` that overflows sets `writeIndex` back to `size()` (`Buffer.cpp:91`), which drops what is
  behind it. If `readIndex` is beyond `size()` already, the indexes are now in the wrong order. What `append` does then
  depends on the rest: it fits, and `findcrlf`, which stops only where it meets `writeIndex`, leaves the memory unless enough
  has been appended; or `makeSpace` grows the vector, and only the bytes are lost; or `makeSpace` moves the contents (53-56): `readableBytes()`
  wraps, `std::copy` gets its ends swapped, and `append` writes in front of the vector. In `HttpParser` this is `Runaway`: the
  connection stops there, as everything after it is undefined. To see it, check `~Runaway(inBuffer)` as an invariant of
  `HttpParser.cfg`, or `inBuffer.mem # Broken` for the last case, of which one trace is the stream Body, KeepThenOther, Post
  read as 20, 4 and 8 units: size 20, capacity 24, `readIndex` 22 when the third read needs 8. `WithinCapacity` says that this is the only
  way out of the memory; `FifoWhileTight`, `RefusedForGood` and `ResponsesInOrder` say what holds without slack.
* `~Entry` deletes the Context before it clears the pointer, and the IO thread reads it with no lock (`httpServer.h:40-43`,
  `httpServer.cpp:346-348`): `Touch` of `Server` may then end the process. To see it, check `crashed # "context"`.
* `~EventLoopThread` calls `quit()`, which goes on using the loop after it has set `_quit`, when the thread may already
  have destroyed it (`QuitWakeup` of `EventLoopThread`). To see it, check `~crashed`.
* A timer whose distance in milliseconds is beyond the range of int gets a timeout that is wrapped: negative, which
  `poll()` takes for ever, or far too short (`Timeout` of `TimerQueue`). `WakesInTime` and `TimerRuns` are about timers in the range.

Not a run, as no code of the repository does it: `queueInLoop` called from a timer callback on its own loop is
announced by no wakeup, since timers run after `_callingPendingFunctors` is lowered and before `poll()`.
`EventLoop` leaves that one call out (`QueuedByOwnTimer`).

## Proofs

TLAPS proves the following for every value of the constants that satisfies the
`ASSUME` of the module.

* `EventLoop` (assuming that no foreign thread is a loop). `TypeCorrect`,
  `InductiveInvariant`, `NoLostWakeup`, `RefinesLoopTasks`. The key of the invariant
  is that a non-empty `_functorList` is either about to be swapped in this iteration (stages
  "events" and "swap") or has a wakeup coming, where "coming" includes a thread that has
  pushed and not yet written the eventfd. `SleeperIsWoken` alone is not inductive: it says nothing of the
  other stages, and nothing that ties `_callingPendingFunctors` to the stage.
  Lemma `DebtIsWakeup` is the step in which a foreign thread pushes. The refinement maps the vector being run
  followed by the shared list to the abstract FIFO; `AppendRight` and `TakeLeft` are the two facts
  about sequences it needs.
* `AsyncLogging` (buffers of at least three units, backlog limit of at least 2, at least two
  buffer identities). `InductiveInvariant` and `BackOnNonEmpty`: the spare buffers exist outside an
  iteration, and `_nextBuffer` can be missing only if a full buffer has been queued, so that a swap that
  uses up both spares has at least two buffers to recycle, and every spare is empty (`SparesEmpty`). `BuffersHaveOneOwner`: `OneOwner` is restated as `Apart`, a
  condition on places that may hold a buffer, which every append, swap and recycling keeps. `LinesStayInOrder`: the
  file, the buffers being written, those waiting and the current one are the places of a line, in this order; each place is increasing
  and all of it is below the next (`Ordered`). An append adds at the last place (`LastPlaceGrows`) or in a new one
  (`NewPlace`), a pile-up takes the last ones away (`LastPlacesGo`), a write moves the second place, or a part of it, to the first
  (`FirstPlaceTakes`). So no induction over the list of buffers is needed.
* `Server` (any number of loops, descriptors and connections, any wheel). `InductiveInvariant`, `MapsAlwaysAgree`,
  `ActiveStayRegistered`, `QueuedCloseHitsOwner`, `ContextDeletedOnce`, `LifeIsKept`. `MapsAgree` is not inductive: a
  creation could meet an old entry under its descriptor. That it does not needs that the old
  connection holds its descriptor as long as it is in a map (`FdsDistinct`), that no close of an earlier
  owner is queued before the creation (`CloseHitsOwner`), and that each connection is created once and belongs to one
  loop (`CreatedOnce`, `KnownAreAccepted`). `LifeIsKept` is the safety part of the refinement: each
  step moves at most one connection, by one of the moves of `ConnectionLife`; its liveness stays with TLC.
* `EventLoopThread` (any number of threads, at least one). `InductiveInvariant`, `HandedLoopsServe`, `NoStartMissed`, `ThreadsAreJoined`,
  `RoundRobin`, `DealtAfterStart`. The invariant ties where each IO thread is to where the main thread is, and adds
  that a loop that has been told to quit does not sleep; `DealtEvenly` needs the exact shares (`DealInv`).
* `TimerQueue` (any timers, delays, clock). `InductiveInvariant`, `NothingEarly`, `NothingTwice`, `RepeatsApart`, `SleepsNoLonger`. The
  key is that the successor of a repeating timer, being in the future, cannot become the top between
  the test and the `pop()`.
* `Poller` (any descriptors, any bound on output). `InductiveInvariant`,
  `ChannelsKnowTheirPlace`, `NoBusyLoop`. The invariant adds to the two properties what ActivityChannel
  may contain: everything in it is registered but the one channel between its two callbacks. The lemmas are
  one per operation on the list: `UpdateProperties` (stale indexes included), `RemoveProperties`
  (swap with last), `InsertProperties`.

* `Threadpool` (any number of workers and tasks). `InductiveInvariant`, `EveryTaskHasAWorker`, `StopWakesAll`,
  `LatchPublishesTid`, `StoppedPoolIsQuiet`. The invariant adds to the properties how far each thread is
  relative to `start` and `stop` (`ThreadInv`). The delicate part is `NoTaskOverlooked`, a count: `addTask`
  adds one task and one woken worker, and a worker that takes a task may or may not be a woken one; `OverlookedStep` goes
  through the cases.
* `Buffer` (any data). `MakeSpaceKeeps`, `AppendIsFifo`, `RetriveDrops`: with `InOrder`, the order that Buffer.h
  draws, each operation does to the readable bytes what its name says. `append` promises no `InOrder` in
  return, which is the first of the disagreements above. `ReadFdInside`: with slack or without, a read stays inside the memory
  and leaves `readIndex` not above `writeIndex`, unless it finds `readIndex` beyond `size()` and more than there is room for; that
  `readIndex` is not above `writeIndex` before is needed, as `AppendInside` shows what `append` does
  otherwise. `ReadFdIsFifo` needs `InOrder` and a vector with no slack.
* `ConnectionOutput` (any responses, any cuts). `OutputInOrder`: as long as `outBuffer` has no slack, what is received and what
  waits is what was to be sent, and with nothing written to it while `isWriting()` is off it is empty. `AnswersInOrder`
  is the same of `HttpParser`, where the parser's answers and closes drive the output.
* `HttpParser` (any streams, any `InitSize` the `ASSUME` admits, any responses). `InputInvariant` is the inductive invariant of the input: the
  types, `InputWithin` (the half of `WithinCapacity` about `inBuffer`), `FifoWhileTight`, `NotGrown`, `AnsweredAsWhole`. The three parts that say
  something of the text rest on each other. `InputWithin` is `ReadFdInside`, and parsing only moves `readIndex` forward: `ParseLeaves` says that
  what `parse_http` leaves is no longer than what it saw. `MemoryRespected` adds `outBuffer`, which `append` and `retrive` alone keep inside
  its memory (`PassedInside`, `WrittenInside`). `FifoWhileTight` is `ReadFdIsFifo` followed by the parser looking at the same units in both
  buffers. `AnsweredAsWhole` is not inductive without what is left in front of the next request, at most one blank line;
  with that, `SimpleAnswered` goes through the parser on one request: where its first line ends (`LineEnds`), that each of
  its headers is a line (`HeadersOf`), that none but the last line stops the loop (`SimpleStops`), and that
  the blank line of the request before is skipped. `ShortNeedNoGrowth` is why short requests need no other condition: at most two units of the
  buffer are taken when one arrives, so `makeSpace` moves and never grows (`ShortReadFits`).
  `BodyIsCutShort` says what goes wrong with a body: the blank line is counted as the first two units of it, and its own last two are left.

A few properties have a theorem and no place in a run, as they follow from the `IInv` the run checks: `DealtEvenly`, `JoinedFirst`,
`StartNotMissed` of `EventLoopThread`, `RunsOnce` of `TimerQueue`, `TidStored` and `QuietAfterStop` of `Threadpool`.

Only model-checked: the liveness properties
(`QuitStopsLoop`, the liveness halves of `ImplementsLoopTasks` and `ImplementsLife`, `LineReachesFile`, `IdleIsKicked`, `TaskRuns`, `CallsReturn`,
`StartReturns`, `TimerRuns`, the two `StopReturns`), which are outside what this prover can do, and `RefusedForGood`, which is about streams in which each line has one text, as those
of `MCHttpParser` do: with more, a text behind the refused one could still be taken for a request, which the units do not
stand for. Every other property of a passing run has a theorem. `Server` abstracts from the content of a connection, so its theorems hold for whatever the parser answers.

What the parser's loops compute is stated as the least position or number of rounds with a property (`HeadersEnd`, `SkipBlank`,
`ParseContent`), and a lemma about least elements (`LeastOf`, from the well-foundedness of the naturals) replaces the
induction. That form agrees with one that takes a line at a time, as the code does, on all strings of up to six of eight units.

## Not modelled, and abstractions to know of

* The text of requests beyond what the parser tells apart (`HttpParser`), url and version included; `get_file` and
  the text of responses. In `Server` and `Poller` a read of a connection answers in
  full, in part or not at all, and closes or does not: every combination the handler can produce. In `HttpParser` what
  `get_file` refuses is answered by one of the `Responses`, like a file.
* A body is two or seven units; negative or overlong `Content-Length` values are left out.
* `parse_http` may end without returning a value; `OffEnd` are the codes its caller may then see
  (`NO_REQUEST` or `BAD_REQUEST`).
* `connBuckets` is used by several threads without a lock. The model takes each access as
  one step; a torn access to the deque is undefined and outside the model.
* POLLHUP without POLLIN (not produced by TCP sockets), `disableReading` (no caller), `disableAll` (only in
  the destructor of Eventloop), `send` from a foreign thread (no caller), write-complete callbacks (never set).
* Accept errors other than a lack of descriptors, `pthread_create` failures of the logging thread, memory exhaustion, a server with no IO
  threads, the init callback of a pool (never set). `main` never destroys its server: the destructors are modelled as the code
  of the pool has them.
* The second `close` of `wakeupFd` by the Channel after `~Eventloop` has closed it: `~Eventloop` is one step.
* The clock never goes back (`gettimeofday` may, when it is set). `~Timer` of a queue that is destroyed with timers in it
  would run their callbacks early; no loop with timers is destroyed.
* When stdio writes on its own account, before a flush: `flushed` is the least that is on the disk.
* `LogStream`: a piece of a log line that does not fit its 4000 bytes is dropped, the pieces after it are not; the length that
  `snprintf` reports is added even where it exceeds `kMaxNumSize`, as it does for large doubles. Every use of `LOG` in the repository is commented out.
* Epoller (never instantiated), RingBuffer (its use is commented out), `main` (commented-out tests but for three lines), what a
  TimeStamp is formatted to.

## Plan

Done, in this order: `LoopTasks`, `EventLoop`, `AsyncLogging`, `Server`, `Poller`, `Threadpool`, `Buffer`, `HttpParser`,
`EventLoopThread`, `TimerQueue`, `ConnectionOutput`, `ConnectionLife`, the log file, and proofs about all of them.
What could still be added, in this order:

1. The answers to requests that a read cuts in two, or that follow each other in one read: the buffer is proved to be a FIFO
   for these too, what they are answered is not stated, since an incomplete request makes `parse_http` end without a value.
2. The wheel and the loop with data races made explicit: a torn access to `connBuckets` as an outcome of its own.
3. `LogStream`, as soon as something logs.
