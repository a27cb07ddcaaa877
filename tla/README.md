# libNGX in TLA+

libNGX is a C++ library for building event-driven network servers: an epoll
loop that expires timers and hands socket events to worker threads, the memory
structures they run on, and the beginnings of an HTTP server.  This directory
holds its model: TLA+ modules translated from the code under `src/`, the TLC
configurations that check them on small instances, and proofs that TLAPS checks
for every instance.  `PROJECT.json` maps each definition to the lines it models
and lists the runs, hazards, findings and theorems.

## The system

| part | state | operations | called by |
|---|---|---|---|
| worker threads (`ThreadPool`, `Thread`, `Job`) | per thread: job list, spin lock, `Running`, `PressureScore`, a memory pool | constructor/`start`, `fetchOneThread`, `postJob`, `threadProcess`, `stop`, destructor | event domain, job bodies |
| memory pool (`Pool`, `PoolMemoryBlock`) | chain of blocks, current block, a reference count per block | `allocate`, `free`, `collect`, `reset` | each thread, for its `Job` objects |
| red-black tree (`RBTree`, `RBNode`) | Root; Parent, Left, Right and colour of nodes embedded in their owners | `insert`, `remove`, `begin`, `next` (`end`, `prev` unused) | timers, dictionary |
| timers (`TimerTree`, `Timer`) | the tree; mode, interval, timestamp of each timer | `setOnce`, `setInterval`, `stop`, `respawnInterval` (`preempt` unused) | event domain |
| event loop (`EventDomain`, `EPollEventDomain`) | domain lock, timers, workers, epoll descriptor | `eventLoop`, `emitExpiredTimer`, timer calls, `attachFD`/`detachFD`, destructor | application thread, handlers |
| subscribers (`EventSubscriber`) | a lock, a callback, the worker they post to | `postEvent` | event loop |
| connections, listening sockets | descriptor, domain, timer | bind, unbind, close, reset | application, handlers |
| buffers (`Buffer`, cursors) | chain of blocks, read position and write bound, copies of the cursor | `ReadBytes`, `ReadConnection`, `<<`, `>>`, `Reset`, `GC`, `isEmpty`, cursor `+`, `Size`, `ReadBytes`, `CmpBytes` | handlers |
| block collector | free list, room left, lock | `Get`, `Put` (`SetBlockSize`, `SetCollectorSize`, `Reset`) | buffers of any connection |
| dictionary | tree of items ordered by hash, then key | `Insert`, `Remove`, `Find` | application |
| memory buffers (`WritableMemoryBuffer`, `BufferWriter`) | one growing allocation; limit and position of its writer | `fromString`, `fromByte`, `fromSocket`, `resize`, `setMaximumBufferSize` | `HTTPHeader::write`, application |
| time service | SIGALRM flag, ring of formatted time strings, version | `UpdateTimeString`, `GetTimeStamp`, `ForceSleep` | application, signal handler |
| HTTP parsers | automaton state, offsets | request line, URI, headers; response | handlers |
| loadable components | handle, function pointers | load, unload | application |

How they meet: the application thread calls `eventLoop`.  Under the domain's
lock it waits in epoll; after releasing it, it dispatches each event by posting
a job to the worker of its subscriber; then, under the lock again, it expires
timers, which post jobs too.  A worker runs the handler of a subscriber, which
may hold the subscriber's lock and call timer operations, which take the
domain's.  The two locks are therefore taken in both orders, and only
`tryLock` in `emitExpiredTimer` keeps them apart.  Workers allocate jobs from
their own pool, whose blocks live in a chain; buffers of all connections share
one collector.

What is hard here, and what makes each part correct:

* **Worker threads.**  `fetchOneThread` reads scores without a lock, twice; a
  worker drops its lock around each body; bodies post to any thread, their own
  included; the destructor deletes threads in order while later ones run.
  Correct when the list is only touched under the lock, the score equals the
  load, jobs run once and in order, and nothing accepted is lost before a stop.
* **Pool.**  `collect` runs inside `allocate` and may free the current block.
  Correct when counts equal the pointers out and no two pointers overlap.
* **Tree, timers, loop.**  The structure is walked while it is changed, with
  two locks, two kinds of threads and a destructor that joins while it holds
  the lock.  Correct when expiry ends, nothing fires early, twice or when
  disarmed, and what has expired fires.
* **Buffers.**  Positions cross block boundaries; blocks move between buffers
  through the collector; allocation fails in the middle of a write.  Correct
  when each buffer is a queue of bytes and each block has one owner.
* **Memory buffers.**  The buffer moves when it grows, by C functions that stop at
  certain bytes, while its writer keeps a number.  Correct when what was taken is
  there, and a refusal means that the buffer is full.
* **Connections.**  The application binds, handlers unbind and close, and the
  loop collects events under the lock and dispatches them after it; the kernel
  gives the number of a closed descriptor to the next object.  Correct when
  `Domain` agrees with what epoll knows, and an object that is closed and
  unbound gets no further event.
* **Time.**  A signal sets a flag that is cleared later; readers look at ring
  slots after the lock is released.  Correct when a text is whole and the date
  it should be, answers never go back, and the texts catch up with the clock.
* **Parsers.**  Input arrives in pieces and the automaton must resume.  Correct
  when the pieces do not matter, nothing kept reaches behind the input, and what
  was composed is what is read.

## Modules

| module | models | remarks |
|---|---|---|
| `JobService` | abstract: what a set of workers promises | accept, begin, finish, close, retire |
| `ThreadPool` | `ThreadPool.cpp` | one action per step between two points another thread can observe; lock explicit |
| `MCThreadPool` | instance | |
| `ThreadPoolProofs` | theorems on `ThreadPool` | locking, counts and histories; then search, deletion, stop |
| `Pool`, `MCPool` | `Pool.cpp` | sizes in units of the smallest request |
| `PoolProofs` | theorems on `Pool` | with the induction the chain needs |
| `RBTree` | `RBTree.cpp` | operators on a record of pointers, no state of its own |
| `TimerTree` | `TimerTree.cpp` | EXTENDS `RBTree`; checked as part of `EventDomain` |
| `TimerService` | abstract: what a set of timers promises | arm, adjust, disarm, fire |
| `EventDomain`, `MCEventDomain` | `EventDomain.cpp`, `EPollEventDomain.cpp` | EXTENDS `TimerTree`; workers and handlers in brief |
| `Dictionary`, `MCDictionary` | `Dictionary.cpp` | EXTENDS `RBTree` |
| `FlatTreeProofs` | lemmas on `RBTree`, theorems on `TimerTree`, `EventDomain` and `Dictionary` | |
| `BlockCollector` | `BufferMemoryBlockCollector.cpp` | |
| `ByteStreams` | abstract: buffers are queues of bytes | receive, consume |
| `Buffers`, `MCBuffers` | `Buffer.cpp`, `BoundCursor.cpp` | EXTENDS `BlockCollector` |
| `BuffersProofs` | theorems on `Buffers` | types and ownership; what a cursor covers; `ByteStreams` |
| `MemoryBuffers` | `MemoryBuffer.cpp` | checked as it is |
| `MemoryBuffersProofs` | theorems on `MemoryBuffers` | |
| `Connections` | `HTTPConnection.cpp`, `HTTPListen.cpp`, `Connection.cpp`, `Listen.cpp`, `EPollEventDomain.cpp` | the loop and the worker in brief, the registrations in full |
| `ConnectionsProofs` | theorems on `Connections` | |
| `ByteAutomata` | the loops over `switch (State)` of the parsers | an automaton is a table of rules |
| `HTTPHeader` | `HTTPHeader.cpp` | one header line read and written; EXTENDS `ByteAutomata` |
| `RequestLine`, `ResponseLine` | `HTTPRequest.cpp`, `HTTPResponse.cpp` | the automata of the first line; EXTEND `ByteAutomata` |
| `HTTPMessages`, `MCHTTPMessages` | `parse` of both | what is kept between calls; EXTENDS the three above |
| `HTTPMessagesProofs` | theorems on `HTTPMessages` | the automata of the lines, a call, the specification |
| `Calendar` | the arithmetic of `UpdateTimeString` | with an independent calendar to check it against |
| `TimeService`, `MCTimeService` | `Time.cpp` | EXTENDS `Calendar` |
| `TimeServiceProofs` | theorems on `TimeService` and `Calendar` | |

### Correspondence with the code

`ThreadPool`.  `lock`, `queue`, `running`, `pressure` are the fields of each
thread; `live` is the set of Job objects its pool has given out.  A worker's
place is `wpc`, a call to `fetchOneThread`/`postJob` is at `cpc`, the owner
(constructor and destructor) at `opc`.  The two unlocked reads of a score are
two actions (`Compare`, `Take`).  A job body posts at most one job (`Spawn`)
with the same steps as an application thread.  Touching a thread the destructor
has deleted is recorded in `fault`, after which the program does nothing.

`Pool`.  `chain` is the list from `HeadBlock`; `held` what the users' pointers
point to; `crash` the two ways the code dies (the null current block is used;
`free` of a foreign pointer recurses without end).

`RBTree`.  `insert` takes `Root` by reference for its walk and moves it, so the
new node always becomes `Root` and never a child.  The model keeps exactly
that; rotations and the body of `eraseColor` are represented by a flag that is
raised where one would start.  `FixupsAreDead` says it never is, and is proved
for timers and dictionaries.

`TimerTree`, `EventDomain`.  The domain's lock is `lpc`: it is held in `emit`
(expiry) and in `join` (destructor); waiting in epoll is one step.  A timer
operation holds the lock for its own duration and is one step.  `jobs` is the
list of each worker, bounded by the memory its thread has: an event whose
`postEvent` fails is lost, as in the code, where nobody looks at the answer.
`beat` is a history bit that flips when a timer's event is posted, and `intact` says
that no timer was removed (stopped, or expired) while another one was set: until then
`RBTree::remove` has left nothing behind.

`Dictionary`.  `Greater` is `operator-` of items: a wrapped 32-bit difference of
hashes, with a hash of 0 meaning "not computed".

`Buffers`.  An address is a block and an offset.  `ReadBytes` and
`ReadConnection` are a first step and one step per call of the collector or of
`recv`; `GC` gives back one block per step; other buffers go on in between.
Bytes carry the number the peer gave them, so that a lost, repeated, reordered
or foreign byte shows; what a block held is forgotten when it is given back.
`Rest` is the loop of `Size` over the blocks behind the first, `Moved` that of
`operator+`; `Content` and `Unread` belong to the properties: what a cursor has to
read, byte for byte.

`MemoryBuffers`.  `mem` is what is between `BufferStart` and `BufferEnd`; a byte
nobody has written is `Junk`, which may be any byte when `memccpy` looks for its
stop.  `Cursor` is a `size_t` and wraps.  `accepted` is every byte a call has
taken, `lost` which of the things the code makes no provision for has happened.
A limit of 0 is no limit, and so is the default of -1.  A write through null or
outside the buffer ends the program (`fault`).

`Connections`.  `fd`, `domain` and `armed` are the descriptor, `Domain` and the
timer of each object; `reg`, `edge` and `waiting` are what the kernel knows: the
object registered for a descriptor, events not reported yet, peers not accepted.
`bindDomain` is three steps (the test of `Domain`, `attachFD`, the assignment),
`unbindDomain` likewise (`detachFD`, `stopTimer`, the assignment), since nothing
locks them against a handler or the loop.  The application opens and binds;
unbinding and closing is done by the object's own handler, on its worker.
`HTTPConnection` does not initialise `Domain`: it starts as null or as junk
(then `bindDomain` answers `EALREADY`).  `seen` is the value of `Domain` that
`unbindDomain` went by.  `bypassed` and `early` mark the two ways in which the
code lets `Domain` and epoll disagree for good: `Listen::close`, and
`Connection::close` through a reference to the base class, do not unbind; and a
handler that closes between `attachFD` and `Domain = &D` finds no domain to leave.

`ByteAutomata`.  A rule says on which bytes the automaton goes to which state,
which marks it sets and where, and which flags, digits and numbers it changes;
`Step` is one turn of the loop.  A text is a sequence of characters, an offset is
the one of the code.  `HTTPMessages` calls `parse` with everything received so
far, as a handler does, and keeps of the parser object what the code keeps:
`State`, `HeadersOffset`, the method, the fields found, the header map.  A
`StatusCode`, which no constructor sets, starts as one of several values.
`early` and `spoiled` mark the two ways in which the code loses its place
(below).  Assumed: no byte is NUL or above 0x7f (they index the tables with a
negative `char`) or a control character other than CR and LF or a backquote (every
automaton takes them for other bytes that do occur), and `murmurhash2` has no collisions among the names; a request
has at most 16 headers and a response 32, the in-place size of their
`SmallVector`.

`TimeService`.  The lock is explicit; `UpdateTimeString` is one step per store
another thread can see, with each text as a date and a time of day.  One kind of
reader stands for the five `Write...` functions, which copy a text in two parts.
`SIGALRM` may arrive at any moment.  `laps` counts, for a thread that holds a
slot number, how often the ring went on since: with 128 slots and a second each,
a reader that sleeps two minutes may find its slot rewritten, and then only the
order of answers (`TimeGoesForward`) is claimed.  Assumed: the clock is not set
back.

## Runs

| run | instance | shows |
|---|---|---|
| `thread_pool` | 2 threads, 1 client, 3 jobs of which one posted by a body, 2 Job objects per thread | all invariants, that a stop drops nothing of a list a worker is in, `JobService`, and under fairness that jobs run and the destructor ends |
| `pool` | 3 pointers, 3 blocks of 4 units, requests 0..3, a collect every 3rd advance | counts, disjointness, the one way to the null block |
| `timers` | 2 timers, 1 subscriber, 1 worker, handlers that lock, destructor | `TimerService` but for three named steps, expiry ends, what the destructor waits for |
| `dictionary` | 4 items, equal keys, colliding hashes | tree shape |
| `buffers` | 2 buffers, 3 blocks of 2 bytes, collector of 1 | queues of bytes, one owner per block |
| `memory_buffers` | buffers of 0 to 4 bytes, texts of 1 and 2, a limit of 3 or none | what was taken is there; what a refusal means |
| `connections` | a connection, a listening socket, 2 descriptors, 2 jobs | `Domain` against epoll, no event after the end, a waiting peer is noticed |
| `http_messages` | 70 messages of up to 50 bytes, composed and broken, cut anywhere | pieces do not matter, offsets stay inside, what is composed is read |
| `time_service` | 2 threads, 2 slots, 2 clock readings a second, over midnight and the end of 9999 | whole texts, answers in order, texts catch up, sleeps last |
| `timers_spin`, `dictionary_find`, `buffers_copy` | as above | violations, see Findings |

Why the bounds are enough: two threads are the least with which
`fetchOneThread` chooses, a body posts to its own and to another thread, and
the destructor deletes one thread while another runs; two Job objects make
`postJob` fail for lack of memory.  Three pool blocks have a first, a current
and a last; three units of a four-unit block leave one that must not be used.
Three timers are the least with which Parent pointers form a cycle of two: the
first of them must have had a parent when it was removed.  Two are the least that
`RBTree::remove` can leave in disorder, and with two each of the three steps that
`ServedUnlessStale` excepts occurs; for more timers it is proved.  Timers have no run
of their own: `timers` uses all their operations that have a caller, and that the tree
of any number of them keeps its shape is proved.  Three blocks of two bytes let a buffer
span three, and two buffers compete for the last.  A memory buffer of two
bytes doubles once to four, one of none twice, and under the limit of three the
doubling is cut.  A connection and a listening
socket over two descriptors are enough for a number to be given again while
events of its first holder are under way.  The messages go through every state
of every automaton, every method, flag and form of target; each is received in
every sequence of pieces, and since what a parser keeps is part of the state,
two cuts that leave the same state are one.  Two slots make the ring come round
after two seconds, which takes 128 in the code; the clock starts in the second
before midnight of a day whose next day is in another year, and on the last day
of the year 9999.  `MCTimeService` also compares the date of every day of eight
years, the leap rules among them, with the independent calendar.

Deadlock is checked everywhere but in `memory_buffers`, where the program ends
with a write through null, and in `timers`, where the system really
stops: the destructor holds the domain's lock while it joins a worker whose
handler waits for it (`DestructorWaitsForCall` says that is the only case).

### What some properties say, and what they leave

`DrainOutlastsStop`: a worker that finds `Running` false leaves, and what is still
queued is dropped although `postJob` reported success (`ThreadPool.cpp:94`).  That
happens to a worker which is asleep, or about to look at `Running`, when `stop` clears
it.  The property says that it happens to no other: whoever is inside the list at
that time empties it before leaving, whatever its bodies post to it meanwhile.
`AcceptedIsRun` excepts threads that are told to stop, so it does not say what a stop
drops.

`ServedUnlessStale`: with two timers the service of `TimerService` is *not* what the
code gives.  `remove` of a Root that has a parent leaves it Root (`RBTree.cpp:257`),
and a node in the middle stays the parent of others.  Three steps follow from that,
and the property says that there is no fourth: a timer that was stopped is fired
(`FiresDetached`); a timer that was stopped is set again and becomes its own parent,
which counts as not attached (`SetIsLost`); and the same for an interval timer that
is set again by the pass itself (`RespawnIsLost`).  The first two need an earlier
removal of a timer while another was set (`intact`).  Each of the three
occurs in the run: the property fails without its exception.  A timer whose event was
lost with a job there was no memory for counts as fired: nobody looks at the answer.
That an expired timer fires in the end is claimed for no number of timers: the pass
may follow a stale Parent past it.

`SizeIsUnread` speaks of `Size` and `operator!`.  `Buffer::isEmpty` is no part of it:
`Buffer.h:63` says "If the Buffer is empty", but it answers true with one byte left as
well, and with the last byte of a full last block left it dereferences null
(`Buffer.h:65`, `BoundCursor.cpp:33`).  It has no caller; the action `IsEmpty` keeps
what it can do to the program.

`ParsedIsWritten` compares the headers exactly (core names in their own
spelling, others as they were written last), the target, the argument, the
digits and the text of the status.  The argument is what follows the *last* question
mark (`HTTPRequest.cpp:399`).  The number of a status is wrong whenever
memory held something else than 0 where the constructor leaves `StatusCode`
(`HTTPResponse.h:18`): the property says what it is, `1000 * junk + code`.  Junk above
nine never gets so far, since the line is then taken to end too early and refused;
junk that is negative, or so large that ten times it overflows, is not modelled.

### Fairness

Worker threads: every step a thread can take by itself is weakly fair (the
operating system schedules every thread); taking a spin lock is strongly fair,
since the lock is free again and again and the code has no other order.
Clients need not post.  Event domain: the application keeps calling
`eventLoop`; each thread is scheduled; nothing is assumed of a handler that
competes with the loop for the lock, whose spin lock is not fair, and neither
that the application destroys the domain, nor that time passes.  Connections:
the application keeps calling `eventLoop`, finishes a `bindDomain` it has begun,
and every thread is scheduled; a handler that is in a loop of its own ends in
the end; `stopTimer` gets the domain's lock, which the loop releases in every
round.  Peers need not come and nothing need be opened, bound or closed.  Time:
every thread goes on, the spin lock is got in the end, the interval timer and
the clock go on, and somebody asks for the time again and again.  The parsers
have no fairness: they are called or not.

## Findings

* `timers_spin`: with three timers, one of them stopped and set again while it
  is still `Root`, Parent pointers form a cycle; when a handler that holds
  its subscriber's lock waits for the domain's, `emitExpiredTimer` goes round it
  for ever, holding the domain's lock.  A removed node stays `Root`
  (`RBTree.cpp:257`) and becomes a parent (`RBTree.cpp:174`).
* `dictionary_find`: only the last item inserted is found
  (`DictionaryTest.cpp:42` expects twelve).
* `buffers_copy`: a cursor inside a block copies bytes from behind the end of
  the block when the data goes on in the next (`BoundCursor.cpp:80`, `:139`).

Seen while modelling, without a run: `Pool::allocate` answers null with memory
left when the block after the current one is full too (`Pool.cpp:87`);
`isEmpty` (above); reading the last byte of a full last block dereferences null
(`BoundCursor.cpp:33`; `AdvanceWithinData` states what holds).

* Timers: of two timers that are set, the one set last is Root and has the other as its
  parent.  If it is stopped it stays Root, and the pass fires it; if it is set again
  then, or is an interval timer and expires, it becomes its own parent, which counts
  as not attached (`RBTree.cpp:257`, `:174`; `ServedUnlessStale`).
* Connections: `close` goes on when `unbindDomain` fails (`HTTPConnection.cpp:11`);
  `Listen::close` leaves `Domain` set, so that the object can neither be bound nor
  unbound again; a handler that closes between `attachFD` and `Domain = &D` leaves
  the same state; `Domain` of an `HTTPConnection` is not initialised;
  `HTTPConnection()` dereferences the null `headerBuffer`;
  `TCPConnection::connect` and `TCPListen::bind` pass their own, still empty,
  `Address` to the kernel instead of the argument.
* Requests: after headers with nothing behind them `parse` answers 0 but stays in
  `HTTP_PARSE_HEADER`, and the next call reads the body as headers
  (`HTTPRequest.cpp:721`); a piece that ends inside a method of more than three
  letters answers `EFAULT`, not `EAGAIN` (`:58`); any four-letter word with an O in
  the middle is accepted and leaves `Method` as it was (`:35`); leading line
  ends are skipped by `parseMethod` and not by `parseRequestline`; a bare LF after
  a simple target leaves `RequestLineEnd` behind the method (`:325`), after a
  version it drops the last digit (`:497`); a target of "/" before CR is empty
  (`:260`); a CR passes for a byte of the host, since `CR | 0x20` is "-" (`:160`);
  an absolute URI without a path is given the byte behind the space; the last "?"
  begins the argument; `BodyTH` is given the length from the old, empty `BodyTH`,
  which wraps (`:723`); `parseRequestURI` shifts by 31 bits too many (`:661`).
* Headers: a line that is ignored and then an empty one leave an offset inside the
  ignored line (`HTTPHeader.cpp:192`).
* Responses: an unfinished status line has already added its digits to
  `StatusCode`, and the next call adds them again (`HTTPResponse.cpp:119`); version
  digits must not be 0; a bare LF ends the code where the text should end (`:150`);
  an unfinished line answers `EINVAL` (`:165`).
* `SmallVector::push_back` grows only when the size exceeds the capacity
  (`SmallVector.h:174`), one element too late; `SmallVector(Size, Value)` leaves
  `BeginX`, `Size` and `Capacity` unset.
* Memory buffers: growth loses what is behind the first byte 1
  (`MemoryBuffer.cpp:44`, `memccpy` for `memcpy`); a text that would leave exactly one
  byte is refused for ever (`:71`, `:97`); a `recv` that fails moves the cursor back
  by one, to the end of all numbers from 0 (`:119` tests `ReadSize` for `RecvSize`),
  and `fromSocket` always answers -1; a `NewBuffer` without memory has a null start
  and a size (`:28-30`); `fromByte` copies the byte behind its own (`:92`, `:101`);
  `HTTPHeader::write` goes on after a piece was refused, so that a name and a value
  may follow each other without the ": ".
* `Component::loadDynamicComponent` keeps the library open when the symbol is missing
  or the loader gives null (`HTTPComponent.cpp:27-33`).
* Time: the early return leaves the flag set (`Time.cpp:223`), which costs one
  more update; two of the texts label UTC as `+0800` (`:269-273`).

## Proofs

All are checked by TLAPS for every value of the constants that satisfies the
named assumptions.

* **`ThreadPoolProofs`** (any number of threads, clients and jobs; assumption
  `PoolAssumption`).  None of the properties is inductive by itself: a worker's
  decrement keeps `PressureIsLoad` only if the worker holds a job, which
  depends on where it is; `AcceptedOnce` needs that two callers never post the
  same job.  `Inv` adds `WorkerHoldsJob`, `CallsFromBodies`, `CallShape`,
  `DistinctCalls` and `OwnerShape`.  `Init => Inv`; each conjunct is preserved
  by each action (one lemma per conjunct, one step per action); `Invariance`
  combines them.  From it follow `TypeCorrect`, `MutualExclusion`,
  `PressureCorrect`, `Fifo`, `JobMemory`, `AtMostOnce`.
  `ImplementsServiceTheorem`: under `Inv` every step is a step of `JobService`
  or leaves the mapped variables unchanged.
  `Reach` adds to `Inv` what the search
  and the destructor need: the jobs of a thread fit its memory (`LoadFits`), so that
  no score reaches the one the search begins with; a search that has found nothing
  stands at the first thread (`ScanStarts`); the deleted threads are those the
  destructor has passed (`DeletedPassed`); an application thread searches only in a
  pool that is not being destroyed (`ClientCallsLive`).  From it `SearchSucceeds` and
  `OnlyLaterBodiesTouch`.  `StopDropsNothingInHand` has an invariant of its own: a thread
  that is told to stop and is in its list, or has an empty one, stays so
  (`OutlastsStep`), since a stopped thread is given no more jobs and leaves its list by
  its end only.
* **`ConnectionsProofs`** (any number of objects, descriptors and jobs).  `ConnInv` is
  `BoundMeansRegistered` with what makes it inductive: what is handled, queued,
  collected or bound was constructed (`Constructed`), epoll has events of registered
  descriptors only (`EventsOfRegistered`), and how far `bindDomain`, `unbindDomain` and
  `close` have come (`BindShape`, `UnbindShape`).  `DomainIsTruth` is the invariant;
  `GoneIsGone` is that no step brings back an object that is `Gone`.
* **`TimeServiceProofs`** (any number of threads and slots, any resolution).
  `TimeGoesForward` depends on where the lock is: `TimeInv` says that who updates
  holds it (`InsideHolds`), that the clock read last and the current slot are of the
  same second except while a thread writes it down, and that no slot is ahead of the
  current one (`ClockRead`), and that a thread's last answer is not ahead of the slot it
  was told (`AnswersBehind`), which a lap of the ring can only make later.
  `TextsAreWhole` follows a text through the ring: `TextInv` says that every slot
  holds the date and the time of its own second, but for what the holder of the lock
  is about to write into the current one (`TextsOfStamps`), and that a reader the ring
  has not come round to is told a slot `laps` behind the current one, which nobody
  writes (`ReaderFits`); that it is another slot is `NotRound`, arithmetic modulo the
  number of slots.  What the text says is `CalendarIsGregorian`: for every day from 1970
  on, the arithmetic of `UpdateTimeString` gives the date of an independently written
  calendar.  `Guess` bounds by how much its division by 146097 can miss the year, by the
  decomposition into 400, 100 and 4 years; the months are a finite table.
* **`PoolProofs`** (any sizes, any finite number of blocks and pointers).  The chain is
  filtered by a recursive function, so what `collect` keeps is proved by induction on
  its length; the library's induction theorems cannot be used here, but a set of
  naturals without a least element is empty (`SetInduction`, from well-foundedness)
  serves as well.  `PoolInv` relates the chain, each block's `RefCount` and cursor, and
  the pointers that are out: they lie behind one another below the cursor of their
  block, and the count is their number.  From it the five properties of the run.
* **`MemoryBuffersProofs`** (any sizes, limits, texts; `Wrap` large enough).
  `BufferInv` holds the accepted bytes against the buffer one by one.  `ResizedShape`
  is the heart: the copy ends at `memccpy`'s stop or at the smaller size, and if that is
  before the cursor the loss is noted.  `DataIsKept` follows; `RefusedAtLimit` looks at
  the doubling and at a `size_t` that wraps at most once.
* **`FlatTreeProofs`** (any timers, items, keys and hashes).  `Settled` (types, no child
  pointers, no fix-up) is kept by `Insert` and `Remove`.  The walk is a recursive
  function; that it is defined and stays put in a tree without children is
  `BottomOfFlat`.  From it `TimerTypes`, `TimersNeverRotate`, `DictionaryTypes` and
  `DictionaryNeverRotates`.
  `TimersAreServed` is `ServedUnlessStale`, the refinement of `TimerService` by
  `EventDomain` but for the three steps, for any timers, subscribers, workers, intervals
  and times.  `ServedInv` says that no interval is beyond the clock and that the pass is
  somewhere only while the lock is held; and, as long as `intact` holds, that Root and
  the parents of attached timers are attached (`Chain`) and the pass is at such a timer.
  What an insertion and a removal do to the pointers of a tree without children is
  `FlatInsert` and `FlatRemove`; where the pass begins and goes on, `FlatBegin` and
  `FlatNext`.  `ServedSet`, `ServedStop` and `ServedFire` are the three kinds of steps.
* **`BuffersProofs`** (any buffers, blocks, capacity, lengths and steps; a block is no
  longer than the numbers of bytes, `Cap <= Ring`, which is what tells the bytes of a
  block apart).  The variables of `Buffers` are pointers, and none of its properties can
  be shown of pointers alone.  `BuffersInv` says that there is a list `q[b]` of blocks
  for each buffer: along `NextBlock` from the head, no block twice or in two lists or
  with the collector, and blocks in no list without a next (`Owned`); a cursor's Bound
  is in the last block, its Position before it, a copy's Position never before that of
  its buffer, and there is a first block while bytes are received (`Reads`).  Each action
  lengthens, shortens or keeps one list.  What the code does in a loop along `NextBlock`
  is a recursive function; that it is defined, and what it gives, follows from the lists
  being finite (`NextRecursion`, `NextInduction`, `Backward`), again without the
  library's induction theorems.  So `BuffersTypes`, `CollectorIsExact` and
  `BlocksHaveOneOwner`; then `SizeCountsTheUnread` and `AdvanceIsSafe`, which turn a
  position in a list into a number of bytes (`Flat`, `Span`).
  `BuffersAreQueues` is the refinement of `ByteStreams`: what a buffer has to read is
  determined by its list, its cursor and its blocks' bytes (`UnreadIn`, `SameUnread`);
  receiving appends exactly the peer's next bytes, in place or across a new block
  (`ReadMore`, `FilledReads`, `GrownReads`); giving back a cursor drops a prefix
  (`ReadLess`); and a block that is given back was read (`ReadOfTail`).  Other buffers
  keep what they have, since their lists share no block (`OthersKeep`).
* **`HTTPMessagesProofs`** (any messages of any length, cut in any way;
  `MessagesAssumption` says that they are made of bytes).  An automaton runs by a recursive
  function over the text; that it is defined is `LoopRuns`, by `SetInduction`, and what
  it gives is shown turn by turn.  `HeaderSafe`, `LineSafe` and `ResponseSafe` bound an
  automaton that has read k bytes: it looks at byte k, or has ended before it, and its
  marks are at most one byte further.  They hold because each rule of the tables only
  sets marks that far (`LineFine`, `StatusFine`: one lemma for each way of writing a
  rule, then one step for each state).  `URIEnd` and `HTTPEnd`, and `StatusCodeEnd` of
  a response, may lie before the start of the text, by two bytes; a field that ends before it
  begins is dropped, so no StringRef does.  A turn goes forward by a byte, or back to a state from which the
  next one goes forward (`HeaderTurn`, `LineTurn`, `ResponseTurn`), and a header that was
  read moves the offset (`HeaderWithin`): so the loops end, and the bound the model puts
  on them cuts none short.  `HTTPInv` adds to `WithinInput` that the length of the method
  is a number and that `HeadersOffset` is 0 until a line was read.  From it
  `ParsersStayWithin`, and `HeadersGoOn`: `HeadersOffset` never goes back.
  `ResumingIsRestarting` is `ResumeIsRestart`.  It compares runs over a text and over a
  longer one that begins with it (`Prefix`).  Turn by turn they are the same (`RunsAgree`), since a
  turn looks at the byte where it is and at text before it; an automaton that has ended
  stays, and the flags of one that has not only grow (`Beyond`).  So what was read of a
  short text is read of the long one: a method, a request line, a status line, a header
  (`MethodAgrees`, `LineAgrees`, `StatusAgrees`, `HeaderAgrees`).  What was not read is read again,
  and it remains to show that what the first attempt left behind makes no difference:
  the answer, and of a request line its flags, which the second attempt sets again
  (`MethodResumed`, `LineResumed`, `StatusResumed`).  A header block is gone on with at its first header that
  was not read (`BlockFollows`): the turns over the longer text, from there, are the last
  turns of one run over all of it (`HeadersAgree`).  `ParseResumed` puts the cases of
  `parse` together, for a parser that is `InPlace`, that is, outside the two exceptions
  of the property; and `ResumeInv`, which says so of the new parser too, is inductive.

Only model-checked: everything temporal under fairness (`AcceptedIsRun`,
`DestructorEnds`, `EmitEnds`, `DestructorWaitsForCall`, `ListenerServed`, `TimeCatchesUp`, `SleepsAsAsked`), which the
prover does not handle; and `ParsedIsWritten`, which relates a run to the message its text was
composed from, and so needs of each message what only the finite set of `MCHTTPMessages` gives: how
it was composed.

## Plan

Done, in this order: worker threads, pool, tree, timers, loop, dictionary and
buffers; then connections, the parsers, the time service and the memory buffers.
What is left:

1. `SmallVector` on its pointers, and the request's header map on it, beyond the
   sixteen headers it has room for in place.
2. Loadable components: the handles of `dlopen` against the objects that live.
3. The collector's configuration calls, once something calls them.

## Not modelled

Checksums, hashes, digests and CPU detection are functions of bytes without
state; the hash is a parameter of `Dictionary`.  Errors and socket addresses are
values.  `Server`, `FileCache`, `ModuleRegistry`, `Router` and `HTTPContext` have
no behaviour in this commit.  `SmallVector` is a sequence in `HTTPMessages`, which
stays within its in-place size; `Array` and the allocators have no user.  A
loadable component is a `dlopen`, a call and a `dlclose`; what the loaded code does
is not in the repository.

Of the parts that are modelled: `PostCount` of a thread and the call of `collect` it
triggers (only memory, see `Pool`); `start` called a second time; a job body that
stops its own pool (it joins itself); the second destruction of the domain's pool,
which has no defined effect; `RBTree::end` and `prev` and
`TimerTree::preempt` (no caller); the destructors of
`TimerTree`, `Dictionary` and the connections; `connect`, `bind`, `listen` and the
socket options, which only hand a descriptor to the kernel; `processCoreHeader` and
the `write` functions of both messages, which are empty; the second piece of a
wrapped buffer, which the parsers store and do not read; the letters of the time
texts and the size of the caller's buffer; the `Interrupted` flag of `SIGINT`, which
nothing reads; `fromFile` and `toSocket`, which do nothing.
