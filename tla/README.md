# libmintress in TLA+

TLA+ modules of the parts of libmintress that have behaviour worth checking: threads that
share state, a signal handler, child processes, processes that share a directory, transfers
that fail, a table that fills up, a policy that remembers, a stream cut into pieces. TLC
checks each on a small instance, and TLAPS proves the safety properties of all of them for
every value of the constants.

    tlc -workers 2 -config MCThreadPool.cfg MCThreadPool      # one run
    tlapm ThreadPoolProofs.tla                                # the proofs of one module

`PROJECT.json` lists the components, the runs, for each definition the source lines it
models, for each property a plausible bug in the code (a *mutant*, an operator named after
the definition it alters) that violates it, the hazards and the theorems.

## The system

| component | state | operations | what is hard | what makes it correct |
|---|---|---|---|---|
| `sys/ThreadPool` | `iWorkerList`, `iPendingTaskList`, `iWorkingCount`, `iTerminated`, a mutex and a condition | `postTask`, `doWork` in each worker, `joinAll`, destructor | notification after the unlock, several workers for one task, spawning on demand, destruction with tasks pending and posting | each accepted task is started once, in order; no worker sleeps beside a task; the destructor leaves no thread |
| `net/TcpServer` | listening socket, `iTerminated`, a pool | `run` (blocking or not), `listenLoop`, `stop`, destructor | the loop is itself a task of the pool; `stop` closes the socket under it | the loop ends after `stop`; handlers stay within the limit; posted connections are handled |
| `utl/Timer` | queue of events by deadline, mutex, condition | `connect`, `mainLoop`, disconnecting, destructor | events that come earlier than the one slept for; callbacks that repeat; an unlocked notification in the destructor | the loop does not oversleep, fires in order, fires everything |
| `net/Repeater` | route table, `select` mask, highest descriptor, `iForceStop` | `run`, `stop`, `addRoute`, `addLocalRoute`, `removeLocalRoute`, `doRepeat` | the table changes while the thread selects on a copy of the mask; two locked sections in one call; a bind that fails unnoticed; restart | table and mask agree; datagrams on routes are repeated; `stop` returns |
| `sys/Shell` | `gRunningList`, `gZombieList`, `gZombieCount`, `gMutex` | `launch`, `terminate`, `terminateAll`, `isRunning`, `getProcessList`, the SIGCHLD handler | the handler runs between any two steps of any thread and takes a mutex; the count is unprotected | live processes can be reached; deaths are reported; the dead are forgotten |
| `mmf/TranscoderEngine{Ffmpeg,Vlc}` | `iRunningPid` | `start`, destructor | restarting against a process that dies by itself | one transcoder for an engine |
| `net/HttpDownloader` with `net/CurlSession` | status, response code, the local file, the thread | `startDownload`, `cancelDownload`, `doDownload` | three transfers, each with its errors; the tail written before the head; a tail of another length; cancelling | success means a whole file; cancelling leaves no transfer running, and comes back unless the tail hangs |
| `net/dshlsbw.c`, slots | `g_hls.cls` | every `hls_` call's lookup, `hls_delete_channel` | shared home slots, idle slots, a full table | no other channel takes the slot of an active one; as long as no channel is deleted, it finds its record again |
| `net/dshlsbw.c`, sending | the call's own variables, a pointer into the table | `hls_send_and_estimate_bw`, `hs_tcp_send`, `hls_estimate_bw` | the kernel takes pieces; a wait of seconds with the pointer in hand; other threads in the table | each byte once, in order; an estimate goes to its own channel |
| `net/dshlsbw.c`, advice | a channel's `HlsClientInfo` | `hls_estimate_bw`, `hls_get_initial_probe_bw`, `hls_get_predicted_bps_advice`, `hls_update_switched` | counts that make the advice patient, trends, limits | no hasty rise, no big one under congestion, only rates of the table or the OK rate |
| `net/Socket` | `iInternalBuffer`, `iLastLineEndChar` | `receiveLine`, `receive`, `send`, `close` | pieces that end in the middle of a CR LF; a buffer that two operations read from | the lines of the stream, and what follows them, whatever the pieces |
| `net/BaseHttpHandler` | one connection, the lines of its header | `operator()`, `HttpRequest::create`, `sendFile`, `responseError` | a silent peer; a file that changes while it is sent | the request is the whole header; the length announced is the length sent |
| `net/PortPool` over `utl/ResourcePool` | `iAvailablePool`, `iOccupiedPool` | constructor, `acquire`, `release`, `clear`, `add` | ports that others use; nothing left; a counter that overflows | no port in two places, none given out twice |
| `utl/Logger`, its directory | `iLogFp`, the files, `latest.txt` | constructor with `removeOldLogs`, `doLog`, destructor | other processes that start, write and remove at the same time | a running process keeps its log |
| `utl/String`, `net/Misc` | none | `strToArgv`, `encodeUrl`, `decodeUrl` | quotes, escapes and their combinations | what was written comes back |

They interact as follows. `TcpServer` owns a `ThreadPool` and posts the listen loop and one
task per connection; the handler is the application's. A transcoder engine calls
`shell::launch` and `shell::terminate`; the shell calls back from its signal handler.
`HttpDownloader` drives a `CurlSession`, which calls back into it during a transfer. The
sender of HLS chunks calls `dshlsbw.c` around each send. A `BaseHttpHandler` reads and
writes through a `TcpSocket`. `shell::launch` takes its command line apart with `strToArgv`.
`Timer`, `Repeater` and `PortPool` stand alone, with callbacks and sockets of their users.
Everything logs; outside of LogDir logging is left out.

## The modules

Every module models a mutex section as one step and has a step of its own for whatever the
code does outside the mutex; where code reads shared state without the mutex, that reading is
a separate step. Variables and actions have the names of the code. A variable marked
*history* in its comment does not exist in the code and no guard that models code reads it.

* **TaskQueue**: what the thread pool promises, without threads: a queue, what is in
  progress, what is finished.
* **ThreadPool**: `worker[w]` is where a worker stands in `doWork`, `call[th]` where a thread
  stands in `postTask`, `owner` where the owner stands in the destructor. Actions: `PostCheck`
  (the unlocked test), `PostEnqueue`, `PostNotify`; `WorkerTake`, `WorkerIdle`, `WorkerExit`,
  `TaskReturn`, `WorkerDone`, `SpuriousWakeup`; `DtorTerminate`, `DtorNotify`, `JoinNext`,
  `JoinReturn`. A pool's workers may post tasks themselves. `Service` maps it to `TaskQueue`.
* **TcpServer** extends ThreadPool: `loop` is where `listenLoop` stands and `loopThread` who
  runs it; the pool's own steps are taken over unchanged. The kernel's part is `backlog` and
  the state of the socket, with failures of bind, listen and accept.
* **AlarmClock**: what the timer promises, without a queue, a mutex or a sleeping thread.
* **Timer**: the queue is the set of its events with their deadlines; `wakeAt` is what
  `timed_wait` was given; `Tick` is the clock. The test of the inner loop and the call are two
  steps, since the destructor sets `iTerminated` without the mutex. `Clock` maps it to
  `AlarmClock`: an event is set while it is in the queue and rings while it is in hand, and
  the clock has decided between the test and the call.
* **Repeater**: descriptors are numbers, so that a stale mask can be told from a current
  one. A route counts its sockets for each destination port. A new inbound socket is bound to
  its port or, where bind fails, to `Unbound`, as which no later look-up finds it. The
  history `overlapped` has the ports for which one call of `addLocalRoute` began between the
  two locked sections of another.
* **ProcessTable**: what the shell promises to those who launch processes, without threads,
  a list of zombies or a signal handler: when a process is entered, leaves, is killed and
  has its death reported.
* **Shell**: `pc[t]` is where a thread stands in a function of the shell and `handler[t]`
  where the handler stands that interrupted it; while it runs the thread stands still. The
  kernel's view of each child is `child[p]`. `gZombieCount++` and `--` are not atomic: they
  store a value computed from an earlier or a current reading. Reading outside an array and
  two threads inside the map's `erase` lead to `crashed`. `ExecFails` is the child whose
  command cannot be executed and whose copy of the static destructor kills its siblings.
  `Table` maps it to `ProcessTable`: a process is `starting` while a thread in `launch` holds
  its pid, `listed` while it is in `gRunningList` and `gone` after that; its report is due
  while a handler that has found its callback has not called it.
* **TranscoderEngine** extends Shell: `start` and `killRunningProcess` are the calls of the
  shell they make, one after the other. Both engines have the same code here.
* **HttpDownloader**: `file` says what stands in the tail of the local file and in what comes
  before it, and whether something is beyond them; `position` is where the next byte goes. A
  transfer ends with any response code or curl error, and a 206 may bring bytes of another
  length than the tail's (`tailFits`), with which the code goes on. `NoDownloadRuns`, in the
  guard of `StartDownload`, is a premise on the caller: `startDownload` does not look whether
  a download runs.
* **HlsSlots**: `cls` is the table; a record is its channel, the time of its last access,
  the number of large samples and whose estimate it holds. Each entry point is one step.
* **HlsCalls** extends HlsSlots: `sender[t]` is where a thread stands in
  `hls_send_and_estimate_bw` and in the functions it calls. The lookup has two steps, the
  search and the claim, between which other lookups fall; `overlap` and `unsure` record that
  one did, or that a channel was deleted while its estimate waited. `EstimateWake` writes
  through the pointer that `EstimateFind` got.
* **HlsAdvice**: `ci` is one channel's record. The bandwidth and the round trip that the
  kernel's counters yield are any of a small set, and so is how congested the connection is;
  each way through `hls_get_predicted_bps_advice` is an action. The table of rates is what
  `copy_cfg_bitrates` makes of any list, one without a positive rate included. What rate the
  player has and what it reports are any of `PlayerRates`: no call looks whether they were
  advised, are in the table, or agree.
* **Hls** puts HlsCalls and HlsAdvice side by side: the whole of `dshlsbw.c`.
* **Socket**: the peer's characters are `stream`, of which `recv` has returned `taken`;
  `receiveLine` stands in `reading`. `LinesOf` says what the lines of a stream are without
  saying how they are found.
* **HttpHandler** extends Socket: `http` is where `operator()` stands, with `sendFile` in
  three steps, between which `FileChanges`.
* **PortPool**: `acquire` with one step for each port it tries, and the constructor with one
  for each turn of its loop, with the width of its counter. What is given out, lost in a
  failed `acquire` or removed by `clear` is recorded as history.
* **LogDir**: `process[p]` is where a process stands in the start of the logger; a log's name
  is the second in which it was opened. A process may be killed anywhere and start again.
* **Text**: `strToArgv` with an action for each kind of character, on command lines that
  `CommandLines` writes for a list of arguments in every way that the quoting rules allow;
  `EncodeUrl` and each turn of `decodeUrl`.
* **...Proofs**: the theorems about ThreadPool, TcpServer, Timer, Repeater, TranscoderEngine
  (with Shell) and Hls (with its three modules); **HttpProofs** has those about the two ends
  of HTTP, HttpDownloader and HttpHandler with Socket, and **LibraryProofs** those about
  PortPool, LogDir and Text.
* **MC...**: the values of the constants for TLC. **MCHls** and **MCLibrary** hold several
  models: the variable `part` says which of them moves in a behaviour, and the others stay
  as they begin, so that the states add up and do not multiply.

## The runs

In every model the system may stop, so no passing run checks deadlock: a pool is
destroyed, a bounded number of events, runs, downloads or processes is used up, a repeater
hangs as described below. What must go on is said by the liveness properties.

| run | states | bounds, and why they are enough | shows |
|---|---|---|---|
| ThreadPool | 18716 | 2 clients, 3 tasks, capacity 2 from no worker: a task can be pending beside two busy workers, and each worker can post | types; `WorkingCountExact`; `NoLostWakeup`; `TaskInOnePlace`; `DestroyedIsQuiet`; the refinement `ImplementsTaskQueue`; `AcceptedTaskRuns`; `DtorReturns` |
| TcpServer | 5818 | 2 connections, 1 handler (2 threads): one connection waits for the other's handler | `HandlerLimit`, `StopEndsLoop`, `PostedConnHandled` |
| TcpServerStop | | the same | `StopReturns` is violated, see below |
| Timer | 241567 | 2 events, time 0..3, time-outs 0..2: earlier, equal and repeated deadlines | `SleepNotTooLong`; the refinement `ImplementsAlarmClock`; `EventFires`, `DtorReturns` |
| Repeater | 251655 | 2 inbound ports, 1 outbound port, 2 descriptors, 2 runs, 2 controllers: two routes, or two of one port after overlapping calls or a failed bind, and the reuse of a descriptor | `TableWellFormed` (with the types), `MaskMatchesTable`, `DatagramRepeated`, `StopReturns` |
| RepeaterFedOnce | | the same with 1 controller: no overlap is needed | `DestFedOnce` is violated |
| TranscoderEngine | 205355 | 2 threads, 1 engine, 2 processes, room for 2 zombies: a process dies during the launch of another, on either thread; a count beyond the list needs more deaths than this, or room for 1, and is left to the proof | types; `LiveIsListed`, `OneTranscoder`; the refinement `ImplementsProcessTable`; `DeathReported` |
| ShellForgets | | the same | `ReapedIsForgotten` is violated |
| HttpDownloader | 12531 | 3 starts: cancelled, restarted, restarted while the old thread is in its callback | types; `FileIsWhole` (success is the whole file, and a tail of the right length is there before the head), `CancelledIsQuiet`, `CancelReturns` (unless it waits for the tail) |
| DownloadOver | | the same | `OverIsFinished` is violated |
| Hls | 1626106 | *slots*: 3 slots, 4 valid channels (two with one home) and 2 invalid, 4 ticks with an idle time of 1: the table is full and a slot goes idle. *calls*: the same table, 2 threads that send for the two channels with one home, chunks of 1 and 2, of which 2 is estimated: an estimate waits while the other thread looks for a slot. *advice*: 4 rates (the neighbour rule needs four), 4 samples with thresholds of 1 and 2, 3 switches counted; the player has and reports 128000 or 512000, the rates at which the step rule and the jumps between extremes begin | `HlsWellFormed` (types; one slot for a channel; advice is 0, a rate of the table or the OK rate), `ActiveKept`, `EstimateIsOwn`, `SentInOrder`, `NoQuickSwingUp`, `CongestedUpIsSmall` |
| Library | 692406 | *http*: every stream of up to 5 characters of a, CR and LF, and two whole requests, in pieces of up to 3: each pair of characters falls apart somewhere. *ports*: a range of three, an empty one and one without an end, in shorts of 2 bits. *log*: 2 processes, logs kept for 1 tick, 3 ticks. *text*: lists of up to 2 arguments, texts and URLs of up to 4 characters, one of each kind | `LinesAreTheStream`, `ExchangeIsWhole`, `PortsAccounted`, `LogKept`, `TextRoundTrip` |

Counters that only grow are capped by a named constant (`MaxStarts`, `MaxRuns`, `MaxTime`,
`MaxLogTime`, `MaxSamples`, `MaxAdviceSamples`, `MaxSwitches`, `Pids`); in the *calls* part
of MCHls time ends at 3 and one large sample is counted for a slot; where the cap stops an action, the action's guard
says so, and no liveness property relies on what lies beyond it.

### Fairness

Weak fairness of each thread's next step: a thread that can run does. Strong fairness of
taking a mutex where another thread takes it again and again (`Timer`'s `ConnectPush`, the
shell's `Lock` and `HandlerFind`): a mutex does not pass over a waiting thread for ever.
Tasks, handlers and callbacks return; the kernel delivers a pending SIGCHLD and carries out a
SIGKILL; asking for the length has a time limit, and libcurl calls the progress callback of
the second transfer. Neither of the two transfers need ever end of itself, and the tail's has no
progress callback and no time limit, so that `CancelReturns` excepts it. A callback
that repeats with a timeout of zero does so only finitely often: `mainLoop` would run it again
at once, for ever, with the mutex held (Timer.cpp:115-125). Apart from that time
limit none of these is in the code; each is a premise of the liveness property that needs it. Nobody is obliged
to post, to connect, to stop or to destroy, and an unkilled child need not end.

## Where the code and its comments disagree

* **`TcpServer::stop` does not return** (`TcpServerStop`). It joins the pool's threads
  (TcpServer.cpp:92) but only the pool's destructor tells them to end: they wait for a task
  for ever, the listening socket is not released, and the destructor, which could end them,
  is not reached. A blocking server that never accepted a connection has no threads, and its
  `stop` does return: then it releases the socket under the loop.
* **A destination may be fed twice** (`RepeaterFedOnce`). "Remove any out port bound to
  another in port" (Repeater.cpp:189) happens only when the inbound port is new.
* **A process that died early is listed for ever** (`ShellForgets`): it is reaped, and its
  zombie entry is cleaned away, before `launch` enters it (Shell.cpp:143-144).
* **A failed download is never over** (`DownloadOver`): a curl error other than the abort
  leaves STATUS_DOWNLOADING (HttpDownloader.cpp:231-253), and `isFinished` stays false.

What else the models contain and no property forbids, because nothing in the repository says
it should not happen; the properties that would be violated name these cases as their
exceptions.

* Timer: the destructor hangs when its unlocked notification falls between the loop's test
  and its wait and no event is scheduled.
* Repeater: `stop` does the same without a route, and after a first run the mask keeps closed
  descriptors. Two threads that call `addLocalRoute` for one port enter it twice. So does
  each call after one whose bind failed: the result of bind is not looked at
  (Repeater.cpp:187), and the socket's `iBoundPort` stays 0 (Socket.cpp:80-90).
* Shell: the SIGCHLD handler deadlocks on the mutex of the thread it interrupts;
  `gZombieCount` wraps below zero, and goes beyond `gZombieList` when two handlers fill the
  last place.
* HttpDownloader: one that was cancelled once aborts every later download. A 206 of another
  length than the tail's is logged and the download goes on (HttpDownloader.cpp:196-212), so
  that something else stands in the tail while the body is fetched, and a file that is
  reported a success may be longer than the body. `cancelDownload` waits for the tail as long
  as the server likes (HttpDownloader.cpp:179-185).
* dshlsbw.c: a deletion may free the home of a channel that lives elsewhere; its next access
  makes a new record there and forgets what was known of it, however active it is, and
  deleting the channel frees one of its two slots. A lookup that falls into another can give
  one slot to two channels. A chunk sent in pieces is estimated by the size of its last piece.
* dshlsbw.c, `hls_init`: a list without a positive rate clears the table, but leaves its
  length and the rates derived from it as they were, so that 0 is what a prediction comes to;
  without a list the table of the source stays, with nothing derived from it. The step rule
  may advise the OK rate though it is not in the table. Before the player has reported a
  rate, or when it has another than it reported, a rise under congestion may be a big one.
* PortPool: an `acquire` that finds no port loses all those it has tried (PortPool.cpp:50),
  and the constructor does not end for a range up to 32767, whose counter is a `short`.
* strFormat: it takes a text that just fits its buffer, whose last letter `vsnprintf` has
  replaced by a NUL (String.cpp:28), and otherwise reads its `va_list` a second time.
* Socket: `receiveLine` gives up after 100 ms of silence although it has no time limit, and
  then leaves 512 NUL characters in its buffer.
* BaseHttpHandler: a header cut short by such a silence is taken for a whole one. `sendFile`
  throws when the file vanishes after it has been opened, and the descriptor stays open.
  (Outside of the model, in `create`: a field's name loses its last letter, by
  `substr( 0, pos - 1 )`, and its value keeps the blank in front, so that neither
  `Connection: keep-alive` nor `User-Agent` is ever recognised.)
* Logger: two processes of the same second empty and share one log. `latest.txt` points
  nowhere when the second changes while it is made. A log that cannot be opened crashes the
  process in `setlinebuf`. With the external DeLogger in use, as by default, nothing is
  written to the file, so that a process that is up for a week has its log removed.
* encodeUrl: a character beyond ASCII is encoded as `%FFFFFFxx`, of which `decodeUrl` reads
  two digits.

## What is proved

For any values of the constants that the named assumptions of a module allow, and with no
other assumption unless it is said below. In each module an inductive invariant is proved
from `Init` and kept by every action, in one lemma or step for each; PTL concludes.

**ThreadPoolProofs**: `TypeCorrect`, `WakeupsNotLost`, `TasksInOnePlace`,
`WorkingCountIsExact`, `DestroyedQuiet`, and `PoolImplementsTaskQueue`, that the pool
implements `TaskQueue!Safety`. `CoreInv` says, beside the types, that the workers born are
those within `iWorkerCount` (`BirthInv`); that a thread in `postTask` has a task of its own,
and a worker there is running one (`CallInv`); that a worker between taking a task and
handing it back holds one, and every running task is held (`HeldInv`); that while the pool is
terminated no client is in `postTask` (`OwnerInv`); and that the workers before `joinIdx`
have left (`JoinInv`). `JoinInv` needs `CallInv`: a worker that could still post while being
joined would spawn another behind the joiner's back. `NoLostWakeup` needs `OwnerInv`: only a
task that still runs can raise the queue after the destructor's notification, and it notifies
itself. The working count is a cardinality and has an invariant of its own on top; the
refinement maps each action to one of `TaskQueue`, or to none.

**TcpServerProofs**: `ServerIsPool`, that each step of the server is one of `ThreadPool!Next`
or leaves the pool alone, which carries every theorem about the pool over to the server's;
`ServerTypes`; and `HandlersLimited`. `LoopInv` says that a loop in the pool has its worker
inside the listening task, `RunInv` that the loop has not begun while that task is being
posted or pending, so that it begins once; the limit follows from the pool's `BirthInv` and
the size of its list.

**TimerProofs**: `TimerTypes`, `TimerSleeps`, `TimerFires`. `TimerInv` adds that an event in
the queue has been connected, so that no `connect` changes its deadline under the sleeper,
that the event in hand is not in the queue, and that the loop's time is not ahead of the
clock. `TimerImplementsAlarmClock` maps each action to one of `AlarmClock`, or to none: a
callback begins only for an event that is due before all others and has not been
disconnected, while no other is called and after a test at which the destructor had not raised
`iTerminated`; it may have done so since, so that one callback may still begin. `ClockInv` adds for it that a connected event is
in the queue, a called one in hand, and that its deadline had passed by the loop's time.
The refinement includes the order of the callbacks, which `TimerFires` states by itself.

**RepeaterProofs**, for any number of controllers: `MaskIsTable`, from `BaseInv`, which has
the types, that the table's sockets are open, bound to their ports and not shared
(`SocketInv`), and that the mask is the set of them with the right maximum (`MaskInv`); and
`TableIsWellFormed`, which also needs `OneInv`: between the two locked sections of
`addLocalRoute` nobody else enters the port or the destination, unless two calls for the port
overlap, and nobody else has the socket if it could not be bound (`CallInv`). The theorem has
the property's two exceptions, ports in `overlapped` and sockets that are `Unbound`.

**TranscoderEngineProofs**: `WellFormed`, `NoneIsLost`, `OneForEachEngine`, for any number of
threads, engines and processes, any size of `gZombieList`, and a `gZombieCount` that goes
anywhere. The argument is that whatever stands in the zombie list, in a handler's hands or in
its callback has been reaped (`ZombieInv`), so that `cleanZombie` erases only the dead; that a
thread holds the process it has forked, alone, until it is listed (`HeldInv`); and that an
engine which kills has asked for it or is done with it (`EngineInv`).

`ShellImplementsProcessTable` maps each action to one of `ProcessTable`, or to none. Two
invariants are added for it: a process is in the hands of one handler at most, from `Reap` to
its callback, and has not been reported before (`HandlerInv`), which makes the callback come
once though several handlers run; and what is in `gRunningList`, or in the copy of it that a
child has inherited, has been launched and is no longer being started (`EntryInv`), so that
nothing is entered twice and a failed `exec` kills none but those that had been entered. The
table does not promise that a reaped process ever leaves it: `ShellForgets` is why.

**HttpProofs**, the client: `DownloaderTypes`, `FileWhole`, `CancelledQuiet`, on the premise
`NoDownloadRuns`. `OneTransfer` is the strengthening: one thread at most transfers, the one
the object knows, while the status is that of a download; and the position is where the tail
begins exactly while the tail is fetched as a part. `NothingBeyond` says that only a tail of
another length has put anything beyond the file, until the second transfer ends.

The server: `LinesAreThoseOfTheStream` and `ExchangesAreWhole`, for every stream, every way
the kernel cuts it, any size of a chunk, of a file and of a body. Nothing in the code knows
where in the stream it is. `PlaceInv` says it: `Consumed` is what has been read less what is in
the buffer and in the body, and the buffer, the body, the line under construction, the number
of lines returned and `iLastLineEndChar` are each what the stream has at that place. A CR or LF
ends a line unless it is the second of a pair (`SecondOfPair`), which depends on the whole run
of CRs and LFs before it; `iLastLineEndChar` is shown to be enough to tell. `HeaderInv`
relates the lines of the header to those that `receiveLine` has returned, and `ResponseInv`
what is sent and what is left to send to the response. That `LineEnds` is the increasing
sequence of the line ends is an induction over data; such ones are made with least
counterexamples (a set of naturals that is not empty has a least element, which
`WellFoundedInduction` provides), as the library's rules of induction take an operator, which
the provers cannot instantiate.

**LibraryProofs**: `PortsAreAccounted`, inductive once it is known that nothing is handed
out before the constructor is through. `LogsAreKept`: a log that belongs to a process which
counts is there and fresh (`OwnLog`); and what another process is about to remove, on a time
it read earlier, belongs to none of those, nor will it, for its name is a second that has
passed (`RemovesOld`). `TextsComeBack`, for any number of arguments and texts of any length:
`Reads` says that the reader of a command line has before it what `CommandLines` would write
of the arguments still to come, and within an argument what `Escaped` would write of the
characters left, in quotes or without. For the URL it is enough that the text is what was
given or what it was encoded to (`UrlInv`); that this is decoded to the original, and that
each percent sign in it begins an escape, is shown for every tail of it, the shortest first.
`FlattenSeq` and the function in `Decoded` are recursive: that they exist, and that the
first sequence comes in front of the others flattened, is shown by counting up
(`CountingUp`, a rule for sets of numbers).

**HlsProofs**: `ActiveIsKept`, `EstimatesAreOwn`, `ChunksAreSent`, `OneSlotForEach`, for any
number of slots, channels and threads. `Apart` and `HomeTaken` say that, as long as no channel
is deleted, no channel has two slots and a channel lives away from home only while its home is
taken, so that the next lookup of an active channel comes to its record (`FoundAgain`);
`LookInv` that a lookup under way is alone and what it has seen is still so; `WaitInv` that
the slot of an estimate which waits is its channel's and was accessed when the wait began, so
that, the wait being shorter than the idle time (`CallsAssumption`), nobody takes it.

The advice: `AdviceIsTyped`, `SwingsUpArePatient`, `CongestionLimitsSwings`, for any list
given to `hls_init`, any positive rates that the player has and reports, and any measurements
and thresholds (`RatesAssumption`: `NUM_BITRATES` is not less than the length of the table in
the source). The lemmas before them show that what `copy_cfg_bitrates` leaves is the sorted
table of the positive rates, if there are any, and that every index and neighbour that the
advice takes of it is in range. `WaitsInv` is why the advice is patient: what waits to go up
(`incReq`) began after the last call that saw a rate below the player's, because each such
call clears it. `CongestionLimitsSwings` is about a player that has the rate it has reported,
if that is a rate of the table. `BandwidthIsWellFormed` combines both halves of `dshlsbw.c`.

Only model-checked are the liveness properties, which rest on fairness and are out of the
prover's reach: `AcceptedTaskRuns`, the two `DtorReturns`, `StopEndsLoop`,
`PostedConnHandled`, `EventFires`, `DatagramRepeated`, the repeater's `StopReturns`,
`DeathReported` and `CancelReturns`.

## What is not modelled

* Memory effects of data races (the vector that `joinAll` walks while a task pushes onto it,
  the mask copied without the lock, a record of `dshlsbw.c` written by two threads): the
  models let such a reading see one of the values written. The exception is the shell, where
  the races on its list and count are spelled out.
* Threads in `dshlsbw.c` other than those that send: every other call is one step. The
  bandwidth formulae, with their 32-bit products, are any value of a small set.
* That the local file cannot be opened: the code goes on with a null stream. The fields of a
  request, which the code under `src/` fills in and does not read. Callbacks that call back into the
  object that calls them (`Timer::connect`, `cancelDownload`), which deadlock by construction.
* System calls and formatting without state: `Application` (the name of the executable, the
  back trace on SIGSEGV), `waitUntil`, `getProtocol`, `getLocalIp`, `strToInt`, `strFormat`
  with its reuse of a `va_list`, the options of a socket, `peek`, the form of log lines and
  of pages.
* Two engines beside each other in a run: the state space is beyond a run of minutes. Their
  safety is proved for any number, with what a failed exec does to another engine's
  transcoder; `DeathReported` is checked for one.

## The plan

Done: the inventory, the models above in the order of their weight (pool and server, timer,
repeater, shell and engines, downloader, bandwidth, then the smaller parts), their runs, and
the proofs of the safety of all of them.

What is left: the liveness properties, which only TLC checks, and an abstract relay for the
repeater, which has its table's invariants but no specification above it.
