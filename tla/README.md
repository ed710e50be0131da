# A verification project for XWebServer

XWebServer is a small C++ HTTP server: one thread accepts connections and waits
in `epoll_wait`, a pool of threads serves the connections, a min-heap of timers
closes the idle ones, and an asynchronous logger writes what happens. These TLA+
modules model its parts from the source, TLC checks them on small instances, and
TLAPS proves theorems about them for every value of their constants.

Run from this directory: `tlc -config <file>.cfg <MC module>` checks a run and
`tlapm <module>Proofs.tla` checks the proofs. `PROJECT.json` lists the runs, which
definition stands for which lines, a mutant for each property (a change of the
code's model that the property must detect), the findings, the hazards and the
theorems.

## 1. Inventory

| Component | Source | State | Operations | Used by |
|---|---|---|---|---|
| Thread pool | `include/thread_pool/thread_pool.hpp` | mutex, condition variable, queue of tasks, `isClosed` | worker loop, `AddTask`, destructor | event loop |
| Program | `XWebServer.cpp` | none of its own | `main`: constructs the server, starts it, destroys it; `~Log` runs after it | |
| Event loop | `src/server/http_server.cc` | `m_users`, `m_timer`, `listenFd`, `isClose`, epoll registrations, collected events | constructor, `InitSocket`, destructor, `Start`, `DealListen`, `DealRead`, `DealWrite`, `AddClient`, `CloseConn`, `OnRead`, `OnProcess`, `OnWrite` | `main` |
| Epoller | `src/server/epoller.cc` | the kernel's | `AddFd`, `ModFd`, `DelFd`, `Wait` | event loop, workers |
| Timers | `src/timer/timer.cc` | `heap_`, `ref_` | `add`, `adjust`, `doWork`, `tick`, `GetNextTick`, `clear` | event loop (main thread only) |
| Connection | `src/http/http_conn.cc` | descriptor, `m_isClose`, `iov`, both buffers, request, response, `m_user_count` | `Init`, `Read`, `Process`, `Write`, `Close` | workers, main thread |
| Request parser | `src/http/http_request.cc` | `state`, method, path, headers, body | `Init`, `ParseRequest` | connection |
| Response | `src/http/http_response.cc` | `mmFile`, `mmFileStat`, code | `Init`, `MakeResponse`, `UnmapFile` | connection |
| Buffer | `src/buffer/buffer.cc` | array, `readPos`, `writePos` | `Append`, `ReadFd`, `WriteFd`, `Retrieve*`, `EnsureWriteable`, `BeginWrite`, `HasWritten` | connection, log |
| Blocking queue | `include/log/block_queue.hpp` | deque, `isClose_`, two condition variables | `push_back`, `pop`, `flush`, `Close` | log |
| Log | `src/log/log.cc` | `fp_` and what stdio buffers for it, `lineCount_`, `toDay_`, `isAsync_`, `buff_` | `init`, `write`, `flush`, flusher thread, destructor | all |

How they interact. The main thread runs `HttpServer::Start`: it calls
`GetNextTick`, which may close connections through the callbacks of their timers,
waits in `epoll_wait`, accepts, closes connections that hung up, and puts a task
for each ready connection into the pool. A worker runs the task: it reads,
processes or writes through the `HttpConn` of the descriptor, and arms the
descriptor again or closes the connection. Nothing but the one-shot arming of
descriptors (`EPOLLONESHOT`) keeps two threads off an `HttpConn`, which has no
lock. Every part writes log lines, under the mutex of the `Log`, into the blocking
queue, and one thread takes them out and writes the file. The log's file, the listening
socket and epoll share the descriptors of the process, and a descriptor that is closed
is given out again.

What is hard here, and the properties that make each part correct:

* *Thread pool*: tasks are run once, in order; no wakeup is lost; nothing is
  abandoned by the destructor.
* *Event loop*: a connection has one owner at a time, and always has one; what is
  closed is one's own; descriptors come back from `accept` while events, tasks and
  timers still name them; the edge triggered listener must not strand connections.
* *Timers*: heap and index agree in the middle of every operation; the heap stays
  ordered, so that looking at the root is enough; expired timers fire, each once;
  `epoll_wait` is woken for the next one.
* *Connection*: a response is sent exactly, whatever `writev` takes; it is not
  cut off nor overwritten; its file is mapped while it is sent; keep-alive is kept.
* *Buffer*: bytes neither get lost nor change order when the array is compacted or
  grows.
* *Request parser*: no request is answered twice or for another, however reads cut the
  stream; one that comes whole is consumed whole; parsing ends.
* *Blocking queue and log*: items in order, no lost wakeup, no deadlock between the
  log's mutex and the queue's waits; a line is written once; it is bounded how far
  lines overtake each other, and how many are lost when the program is killed; files are
  changed under the writers.
* *Program*: `InitSocket` sets up all of the socket or leaves none open; what the
  destructors close is theirs; the program ends.

Not modelled, and why: the wording of responses, `webbench-1.5` (a vendored load generator), `thread_pool.cc` (commented
out), `block_deque.hpp` (a copy that nothing includes), `locker.hpp` and
`noncopyable.hpp` (unused), build files and pages.

## 2. Modules

| Module | What it is |
|---|---|
| `TaskQueue` | What the pool promises: a queue from which each worker takes a task and finishes it. |
| `ThreadPool` | The pool's threads with mutex, condition variable and destructor. Implements `TaskQueue`. |
| `HttpServer` | The event loop and the life of connections, over the pool as an instance of `TaskQueue`. |
| `TimerQueue` | What the timers promise: deadlines that fire in order, once, not early. |
| `HeapTimer` | The heap and its index, one iteration of a loop at a time. Implements `TimerQueue`. |
| `HttpConn` | One `HttpConn` object with the handlers that serve it, over successive connections. |
| `HttpRequest` | The parser on one connection, fed with a stream of requests. |
| `HttpResponse` | Operators: the response to a code, by the kind of the file. Used by `HttpRequest`. |
| `ByteQueue` | What a buffer promises: a queue of bytes. |
| `Buffer` | The array and its positions. Implements `ByteQueue`. |
| `BlockDeque` | The blocking queue. |
| `Log` | Extends `BlockDeque`: the writers, the flusher, the change of file, the buffer of stdio and the destructor, with the queue and without. |
| `Program` | Extends `Log`: `main`, from the constructor of the server with `InitSocket` to the end of `~Log`. |
| `ThreadPoolProofs`, `HttpServerProofs`, `HeapTimerProofs`, `HttpConnProofs`, `BlockDequeProofs`, `ProgramProofs`, `BufferProofs`, `HttpRequestProofs` | Theorems and proofs, each about the module it is named after; `ProgramProofs` is about `Log` under `main`. |
| `MC...` | What TLC runs: the module, and its symmetry where a run uses one. The `.cfg` files give the constants their values. |

They compose in five places: `HttpServer` uses the pool through `TaskQueue`, which
`ThreadPool` is proved to implement; `HttpConn` assumes that one thread at a time
serves a connection, which is theorem `OneOwner` of `HttpServerProofs`; `HttpRequest` makes its answers with `HttpResponse`; `Log`
runs on the queue of `BlockDeque` itself, its `push_back` and `pop` being conjuncts
of the log's steps; and `Program` runs `Log` under `main`, which says when a thread may begin
a line and when `~Log` begins, and shares the descriptors with it. The connections that are served
in the loop are `HttpServer`'s matter; in `Program` they are threads that write lines.

### State and actions

A step is what a thread does between two points where another thread, the kernel
or the clock can interfere. In detail:

* `ThreadPool`: the worker's loop is `Lock`, `MoveFront` and `PopTask` (the task is
  moved out of the front and then popped, under the mutex), `RunTask`, `Break`,
  `Wait`; `AddTask` is lock, `Emplace`, `NotifyOne` after the mutex is released; the
  destructor is `SetClosed` and `NotifyAll`. Condition variables may wake without
  a notification. The pool has one client, the thread that owns the server.
* `HttpServer`: `EpollWait` collects events and disarms their descriptors;
  `Dispatch*` handles them one by one; `Accept`, `InitConn`, `Register` are the steps
  of `DealListen`; `DelFd`, `CheckClosed`, `SetClosed`, `CloseFd` the steps of
  `CloseConn`, in which `HttpConn::Close` tests `m_isClose` and sets it separately;
  `OnRead`, `OnWrite`, `OnProcess`, `ModFd` the tasks. A descriptor that was closed
  comes back from `Accept`.
* `HeapTimer`: `SiftUp` and `SiftDown` are one iteration each. The clock moves
  between any two steps, and is set back (`SetBack`) at most `MaxBacks` times; `backs`
  counts them, because most properties are about a clock that was not. Reading `heap_[-1]` (see findings) is a nondeterministic
  choice between ending the loop and calling `SwapNode_` with that index.
* `HttpConn`: requests are what they ask for (keep-alive, and the length of the file,
  0 for none), responses the units of head and file still to send. Each `writev`
  takes any number of units that fit. The trigger mode `isET` is chosen in `Init` and
  never changed, so a run covers both. A client may send its next request before it
  has all of the answer to the last. `iov` keeps what it held, as in the code,
  from one connection of the object to the next. `MakeResponse` and `UnmapFile` are operators
  of the steps that call them.
* `HttpRequest`: `Send` adds the pieces of a request to the stream and `Read` takes any
  number of them. `Process` clears the request and tests `readBuff`; `ParseRequestLine`,
  `BadRequestLine`, `ParseHeader`, `ParseBody` are one iteration of the loop each, and
  `EndOfLoop` its condition; `Respond` makes the response and `AfterWrite` is `OnWrite`.
  The text is cut where the regular expressions and the search for CRLF can tell:
  inside the request line, inside the name of a header, between CR and LF, around a
  body. A response is what `open` and `mmap` come to (`HttpResponse.Contents`): the file; an error page, when `open` fails or the
  file begins with the four bytes of -1, which the code takes for a failed `mmap`; or the end of the process, when `mmap` fails
  and its result is read.
* `BlockDeque`: a method is one critical section and so one step, up to the point
  where it waits; `Close` notifies in a step after its critical section.
* `Log`: `write` is `Begin` (it reads the time); the test for a new file, whose two operands are two
  reads (`Check` is `CheckDay` or `CheckLines`); the useless lock and unlock (`Touch`); the name
  (`Rename`), which is made without `mtx_` and so in the steps `TestDay` (the test at 293), `NewDay` (the name, and
  `toDay_`), `Restart` (`lineCount_`) or, in the other branch, `NewPart`, any of which another thread may run between; closing and
  opening under `mtx_` (`Fclose`, `Fopen`); and under `mtx_` `Count` with `full()`, and
  `Push` or `Fputs`. `lineCount_++` is done under `mtx_` and the reset at 297 is not, so the increment may undo the
  reset (`Restart`). `crossed` records that a thread made its test of the day while another had decided and not opened its file. `LOG_BASE` then calls `flush`, without `mtx_`: `NotifyFlusher` and `FlushLine`. If another
  thread has closed the file at that moment, `fflush` may do nothing or end the process. Whether
  `MAX_LINES` (50000) are reached is tested on `lineCount_` without a lock. stdio may write its
  buffer out at any `fputs`. A line is its number. A failed `fopen` fails an `assert`, which ends
  the process, as does one in `init`.
* `Program`: `CheckPort`, and then one step for each system call of `InitSocket` that succeeds and
  one for each that fails, except that `SetFdNonblock` is one step for both, as nothing looks at its result;
  `setUp` are the calls that were looked at and succeeded; `InitLog`; `Report`, the lines that the constructor and `Start` write; the loop;
  `DestroyServer`, the destructors of `HttpServer` and of its `Epoller`; `Exit`, with which `~Log` begins.
  `listenFd` has no initialiser, so before `socket` it is any descriptor or none.
* `Buffer`: a method is a step; sizes are small, and what `readv` puts on the stack
  is appended. `Printf` is `BeginWrite`, `snprintf` to it and `HasWritten`, as `Log::write` uses them.

## 3. Runs

| Run | Bounds | Shows |
|---|---|---|
| `pool_threads` | 3 workers, 4 tasks | `NoLostWakeup`, `EveryTaskStarts`, `ShutdownCompletes`, `ImplementsTaskQueue` |
| `server_prompt_tasks` | 3 descriptors, 2 workers, 4 connections, `MAX_FD` 2, edge triggered, prompt tasks | `Exclusive`, `NoOrphan`, `UserCountExact`, `ClosesOwnConnection`, `NoStrandedBacklog` |
| `server_slow_tasks` | 1 descriptor, 2 workers, 3 connections, `MAX_FD` 1, level triggered, slow tasks | `TimerForEvent`, `HangUpsAreClosed`, `AcceptsWhileRoom`: what holds even if timers close connections that are being served |
| `timer_order` | 4 timers, clock to 5, set back once | `RefAgrees`; `HeapOrder`, `TickFiresAll`, `ImplementsTimerQueue` until the clock is set back |
| `timer_root_has_no_parent`, `timer_wait_is_negative` | 1 timer | violations, see 7 |
| `conn_serve` | both trigger modes, 2 connections, head 2, files 0 or 3, room 2, threshold 2, any memory | `OwedIsGiven`, `NothingOverwritten`, `FileMapped`, `SentBeforeClose`, `EveryRequestAnswered` |
| `conn_stale_iovec` | as above, memory was zero | violation, see 7 |
| `request_streams` | 2 requests, bodies without and with CRLF at the end, four kinds of files, every way to cut the stream | `AnswersAreAsked`, `WholeRequestsServed`, `AllIsRead` |
| `buffer_queue` | array of 3 to 8 bytes, chunks to 4 | `ImplementsByteQueue`, and with `TypeOK` that there is always the room that was asked for |
| `deque_threads` | 3 producers, 3 consumers, room for 2, 5 items | `PoppedInOrder`, `NoLostWakeup` |
| `program_threads` | `main` and one more writer, the flusher; ports 80 and 8093, 3 descriptors; room for 1, 4 lines, 2 days, new file after 2 lines; with the queue and without | `LineInOnePlace`, `NeverWaitsForRoom`, `BoundedOvertaking`, `BoundedLoss`, `AllOrNothing`, `PutsIntoOpenFile`, `EveryLineIsWritten`, `DestructorReturns` |

Type invariants are checked in `pool_threads`, `server_prompt_tasks`, `timer_order`, `buffer_queue`
and `program_threads` (`ProgramTypeOK`, of which those of `BlockDeque` and `Log` are conjuncts);
`HttpConn` and `HttpRequest` have none in their runs; `HttpRequestProofs` proves the types of `HttpRequest` (`Typed`). `InOrderExactlyOnce` and `ExitOnlyWhenDrained` of the pool are
theorems; what they say of a run is part of `ImplementsTaskQueue` and `EveryTaskStarts`.

Why the bounds are enough. In the pool two tasks can be queued while a worker runs
and another sleeps, which is where a wakeup can be lost. In the event loop a
descriptor is closed and reused while another is served, and with more connections
than descriptors both `accept` and `MAX_FD` end the accept loop. Four timers are a heap of
three levels, where `siftdown_` chooses between children and goes on. A head of 2
and a file of 3 with room for 2 make `writev` end inside the head, at its end, across
it and inside the file. The buffer's chunks fit, fit after compacting, make the array
grow once and again, and are read in two parts. The log's files change by date and by
lines while lines are queued and overtaken, and two threads decide for one at a time and open them in either order. One of the two ports is
refused and with the other each call of `InitSocket` may fail. Three descriptors are those of epoll,
the socket and the log: the log gets the one of the socket when there is none.

Bounds in the guards: `MaxTasks`, `MaxConns`, `MaxTime`, `MaxBacks`, `Lives`, `MaxItems`,
`MaxDay`, `MaxChunk`, `MaxSize`;
`Ports`, `InfoLines` and `Fds` are small sets and numbers in the place of the program's. Symmetry is used in `server_prompt_tasks` and
`timer_order` only, which check no liveness.

Conditions in the properties: `PutsIntoOpenFile` says that the file is open without any condition, and that it is of the day of
`toDay_` unless two threads have decided for a name at a time, or one has moved `toDay_` and is about to close the file of the day before;
`AllOrNothing` is about the calls whose result `InitSocket` looks at; `BoundedLoss` that nothing is lost by a program that ends by
itself unless `listenFd` names a descriptor; `DestructorReturns` is about a flusher that sleeps; `HeapOrder`, `TickFiresAll` and `ImplementsTimerQueue` say
nothing once the clock was set back; `SentBeforeClose` is about edge triggering, with
which the program is started; `WholeRequestsServed` is about requests that come whole, one
at a time, with bodies that CRLF ends, says what code they are answered with and not that the file is sent, and admits that
the process ends when the file of the next one is there and cannot be mapped; `NoStrandedBacklog` exempts an accept loop that ended at `MAX_FD` or
for want of a descriptor; `UserCountExact`, `ClosesOwnConnection`, `Exclusive` and `NoOrphan` are about prompt tasks. Section 7 says what happens otherwise.

## 4. Fairness

* The pool and the event loop: each thread that can take a step eventually does, and a
  thread that asks for the mutex of the pool again and again gets it. `epoll_wait`
  returns when there is something to report. No peer has to do anything, and no timer
  has to expire.
* `HttpConn`: the main thread dispatches events, a worker finishes its task (weak
  fairness), and the client receives what it is sent. Without the last one a response
  need not end. Clients need not send, and timeouts may or may not occur.
* `HttpRequest`: the thread that serves the connection goes on, and what was sent arrives.
* `Program`: every thread is scheduled: one that has begun to write a line goes on, the
  flusher does, and `~Log` does once it has begun. Nobody has to begin a line, and `main` need not go on.

`PromptTasks` of `HttpServer` is not fairness but an assumption on the environment: the
timer of a connection expires only when no task of it is queued or running. The
program relies on it (60 s against the time of one task) without enforcing it, so
`server_slow_tasks` runs without it. With slow tasks the properties that
say that a connection has one owner do not hold.

`CHECK_DEADLOCK FALSE` is set where the system really stops: the model of a
connection ends after `Lives` connections or with SIGPIPE; the program ends, is killed, or sleeps for
good in the `join` of `~Log` (7); `SiftUpAbort` ends the process.

## 5. What is proved

All theorems are for every value of the constants that the named assumptions of the
modules admit.

* `ThreadPoolProofs`: `TypeCorrect`, `TasksInOrderExactlyOnce`, `WakeupsNotLost`,
  `DrainedBeforeExit` and `Refinement` (the pool implements `TaskQueue`). The inductive
  invariant adds who holds the mutex, because moving a task out of the front and popping
  it are two steps, and that nothing is added once the pool is closed.
* `HttpServerProofs`: `TypeCorrect`, `TimersAreSet` and `NoneStranded` (`NoStrandedBacklog`) without any condition; `OneOwner`,
  `NoneForgotten`, `OwnCloses`, `UsersCounted` if tasks are prompt or there are no timers. The
  invariant says that a descriptor is in at most one of a worker's hands, the queue, the
  collected events, the main thread's hands and the armed set, that none of these has it twice,
  and that an open one is somewhere. Every step moves a descriptor from one to the next. That
  `adjust` never fails its assertion follows from: what is registered has a timer, and a
  timer is dropped only after `DelFd`.
* `HeapTimerProofs`: `TypeCorrect` and `IndexAgrees`, whatever the clock does. The two form
  the invariant together: a swap is at places of the heap, and updates both entries of the
  index. Until the clock is set back, `HeapInOrder` (`HeapOrder`), `AllExpiredFired` (`TickFiresAll`) and `Refinement`
  (`ImplementsTimerQueue`). While a node is sifted the heap is out of order at its place only, and what is
  directly below that place does not expire before what is directly above it (`OrderInv`; `PlaceInv` says which place that
  is, and where the node to delete is): sifting moves the place, and ends when the node fits. That the root is the first of
  the whole heap to expire, which `tick` relies on, is lemma `RootIsFirst`: the first place with an earlier expiry
  would have a parent with one. The refinement reads the heap as the set of
  its nodes, so every swap is a stutter.
* `HttpConnProofs`: `OwedIsWhatIsGiven`, `ResponsesNotOverwritten`, `FileStaysMapped`, and `EdgeSendsAll` for edge
  triggering (`SentBeforeClose`). The invariant adds that a connection that waits for a request owes
  nothing and that its `writeBuff` is empty (`Quiet`), and that a descriptor is armed only when no
  thread serves it (`Served`). With edge triggering the loop of `Write` ends only with an error,
  with EAGAIN or with nothing to give (`EndOfLoop`).
* `BlockDequeProofs`: `TypeCorrect`, `ItemsInOrder` and `WakeupsNotLost`. The last counts, by cardinalities, the
  threads that are on their way after a notification, against the items and the room they are for.
* `ProgramProofs`: `SocketAllOrNothing` (`AllOrNothing`), `RoomStaysFree` (`NeverWaitsForRoom`) and `LinesGoToOpenFile`
  (`PutsIntoOpenFile`), from one invariant. `Stages` says where `main` and the threads may be at a time,
  `Holders` that a thread holds `mtx_` from `full()` to `push_back` and from `fclose` to `fopen`, `SetUp` which of the calls that
  `InitSocket` looks at have succeeded, `Descriptors` that epoll, the socket and the log have at most one descriptor each, so that one
  is left for the next, `Opened` that the file is closed only before `init`, in a change, or at the end, and
  `Dated` which day the open file and the name computed for the next one are of at each step of a change, as long as no two
  threads decided at a time. That the file is open needs `Opened` and `Holders` only, and so no such condition.
  Further, from invariants of their own over that one:
  * `LinesKept` (`LineInOnePlace`), by counting: each step moves a line from a hand to the queue or to the file, or from
    the queue to a hand, which lowers one of the three counts of `LineInOnePlace` and raises another. The
    invariant adds that only a thread at `push` or `fputs` has a line in hand and that numbers do not
    exceed `counted`.
  * `FewOvertaken` (`BoundedOvertaking`): a line is put into the file under `mtx_`, and then no writer has a line in hand. So the
    lines that are counted and not in the file are in the deque or in the flusher's hand, since each is in one place (`Once`),
    and the deque is never longer than `Capacity` (`Balanced`).
  * `LossIsBounded` (`BoundedLoss`): the lines that are counted are those in the file, in the deque and in hands (`Balanced`);
    a thread that flushes saves everything in the file, which leaves no more than the deque and the hands,
    and a thread that counts a line is one more in `Unfinished` until it has flushed. `LogOpen` says that the log has a descriptor until `~HttpServer` closes the number
    of `listenFd`, so that what the destructor flushes is kept.
  * `ProgramTyped` (`ProgramTypeOK`), from the types of each of the three modules (`TypesInv`).
* `BufferProofs`: `PositionsInRange` (`TypeOK`) and `BytesInOrder` (`ImplementsByteQueue`). Lemmas say what compacting,
  growing and overwriting leave of the readable bytes; each operation is then the one of `ByteQueue`.
* `HttpRequestProofs`: `AskedInOrder` (`AnswersAreAsked`) and `WholeServed` (`WholeRequestsServed`). What was received and what
  is still to come are one stream (`All`), of which a read, however short, moves the border only. The invariant says that
  the numbers of the requests increase in the stream and that only those to be kept have the header (`Kept`), that the parser
  is behind the request line of the request whose path it has (`Phase`), and that what is answered
  is behind `readPos` when the next answer begins (`Order`); an answer to what is not understood has no request, is an error, and closes the connection. For whole requests `Tidied` adds where in its request the
  parser is in each of its states. Both were checked as invariants on the instance of `request_streams` before they were proved.

Only model-checked: the liveness properties `EveryTaskStarts`, `ShutdownCompletes`, `HangUpsAreClosed`, `AcceptsWhileRoom`,
`EveryLineIsWritten`, `DestructorReturns`, `EveryRequestAnswered` and `AllIsRead`. They rest on fairness, which is outside the
prover's reach. Every other property that a run expects to hold is a theorem.

## 6. What the models leave out

* `HttpServer`: results of `epoll_ctl`, which nothing looks at after `InitSocket`. Between
  `AddFd` and `SetFdNonblock` the worker can already use the descriptor, in blocking mode for an
  instant; reads are not modelled as blocking.
* `HttpConn`: bytes and pointers. Requests in parts, or several at a time, are the matter of
  `HttpRequest`. A file has no length when it is missing or `open` fails, so that an error page is sent.
  The end of the process by a failed `mmap`, whose result is read nevertheless (`http_response.cc:114-118`), is the matter of `HttpResponse`.
* `Buffer`: text that does not fit. For it `snprintf` returns the length it would have had and `HasWritten` moves
  `writePos` behind the array; the guard of `Printf` excludes it, so the run says nothing of such lines.
* `Log`: formatting, the level filter (`SetLevel` is never called), and `openLog`, which the program sets. The races on
  `lineCount_` and `toDay_` are modelled by steps that each read or write one of them at once, in the order of the program; the two reads of
  `lineCount_` at 284 are one step, and when the increment undoes the reset nobody sees the zero in between. `localtime`'s static
  result is taken for the thread's own; another thread that overwrites it makes the time earlier or later by as much as the two calls are apart.
* `Program`, `HttpServer`: what a listening socket does that stayed blocking because `SetFdNonblock` failed: the last `accept` of the edge
  triggered loop would wait for the next client. `HttpServer` takes it for non-blocking.
* `Program`: the path of the files, and what `main` passes and the modules take as constants.
* `BlockDeque`: the methods that nothing calls.
* `HttpRequest`: `GetPost` and `ParseFromUrlencoded`, which nothing calls.

## 7. Findings

| Run | What |
|---|---|
| `timer_root_has_no_parent` | `siftup_` tests `j >= 0` on a `size_t` and goes to `heap_[-1]` at the root. |
| `timer_wait_is_negative` | `GetNextTick` tests a `size_t` for being negative; `epoll_wait` may block for ever. |
| `conn_stale_iovec` | A length left over in `iov[1]` makes the server close a connection it was asked to keep. |

Known besides, and excluded by the condition of a property or not stated as one:

* `README.md:32` says that tasks are dealt Round Robin. All workers share one queue, and
  whichever takes the mutex first runs the next task.
* The clock of the timers is the system's, which can be set. `adjust` (`timer.cc:91`) only
  sifts down, so after the clock was set back a renewed node may be earlier than its
  parent, and `tick`, which looks at the root, leaves expired timers behind it.
* Level triggered, `Write` (`http_conn.cc:62`) stops when at most 10240 bytes are left, without
  EAGAIN, and `OnWrite` takes this for an error and closes the connection: the rest of
  the response is not sent.
* `BlockDeque::pop` looks at `isClose_` only after a wait, so that if the flusher is still
  writing a line when `~Log` calls `Close` it comes back to an empty, closed queue and
  waits, and `join` does not return. `DestructorReturns` is about the other case.
  A server that could not start, whose `main` returns, may thus never end.
* `README.md:7` says that the log records the server's state. `~HttpServer` closes `listenFd` although
  `InitSocket` may have closed it, or never set it (`http_server.cc:41`). By then it may be the log's descriptor, and the line that
  says why the server did not start is lost. `BoundedLoss` holds with this exception.
* Two threads that see the end of a day, or of a file's lines, at the same time both change the file, and
  which name is opened last is a matter of chance. One that is past the test of the day (`log.cc:293`), for the next part of
  yesterday's file, may open it after another has changed to today's; `toDay_` then is today, and the log stays in yesterday's
  file until the next change. A thread that has read the time before midnight and tests after the change even moves `toDay_` back.
* A client that waits when the accept loop of the edge triggered listener ends at `MAX_FD`, or because `accept` has no descriptor, is
  without an event until another client arrives (`http_server.cc:135-139`).
* The result of `SetFdNonblock` is ignored (`http_server.cc:264`), so that the loop may be entered with a blocking socket.
* `Log::flush` uses `fp_` without `mtx_` (`log.cc:360`), and another thread may have closed it. The lines that the flusher
  puts into the file stay in the buffer of stdio until somebody else flushes it.
* The log's queue always has room for 1000, as `init` does not pass on the size it is given.
* An error page always says "Bad Request": `ErrorContent` looks up `res_code == 1` (`http_response.cc:159`).
* A timer and a worker that close one connection at a time may both see `m_isClose`
  false (`http_conn.cc:98`) and both lower `m_user_count`. `UserCountExact` holds with prompt
  tasks and fails without.
* `Process` clears the request before it parses (`http_conn.cc:68`), so a request that
  comes in two reads is not resumed. Cut inside the request line it is not understood;
  cut behind it, it is answered at once, and the rest is not understood. Nor is a
  request behind a body that CRLF does not end, or behind another in one read
  (`http_request.cc:36`, `46`): its first lines are taken for a body.
* What is not understood should be answered with 400, but its path is empty and names the
  directory of the files, for which `mmap` fails (`http_response.cc:114`), and the
  process ends; if not even `open` succeeds the answer is a 404. The process ends too for a path that names a directory or an empty file,
  or any file that `mmap` fails for.
* When `open` fails for a file that `stat` finds (no descriptor is left, no right), the error page is sent with the code 200. A file whose
  first four bytes are 0xFF is taken for one that `mmap` failed for: an error page is sent, and the descriptor and the mapping
  are never given back (`http_response.cc:115-118`).
* A file that others may not read is answered with 403 and, if the server may open it,
  with its content.

## 8. Plan

Done first, because everything else rests on them: the pool, the event loop, the timers, the
write path, and their proofs; then the log, the buffer and the parser; then the program as a whole;
then the proofs of all safety properties, action properties and refinements. Left, in this order:

1. `HttpRequest` composed with `HttpConn`, in the place of its abstract `Send` and `Process`.
2. `Log` on `Buffer`, with text that does not fit.
3. The write path of `HttpConn` under the slow tasks of `HttpServer`: two threads in one object.
4. Proofs: the safety properties of what 1 to 3 add.
