# swl-qt, specified

swl-qt wraps the Spring web lobby, a web page, in a QtWebKit window and gives
its JavaScript an object, `LobbyInterface`, for what a page cannot do: talk TCP
to the lobby server, call the unitsync library of the engine, download files,
run the engine, keep settings. This directory holds TLA+ specifications of that
object and its helpers, the TLC configurations that check them and TLAPS proofs
of theorems about them. `PROJECT.json` maps every definition to the lines it
models.

## Inventory

Line numbers are of `src/src/`.

| component | state | operations | interacts with |
|---|---|---|---|
| asynchronous unitsync handlers (`unitsynchandler_t.cpp`, `lobbyinterface.cpp:427`) | map of handlers by path; per handler a call queue, `ready`, a condition variable, the thread; one static `executionMutex` | `getUnitsyncAsync`, ~150 generated wrappers that enqueue a call, the worker loop, the destructor | JS calls; worker threads; result events to the GUI thread |
| synchronous unitsync handlers (`unitsynchandler.cpp`, `lobbyinterface.cpp:412`) | map of handlers by path | `getUnitsync`, the wrappers, run on the GUI thread | the same library as the workers |
| external commands (`processrunner.cpp`, `lobbyinterface.cpp:213`, `:451`, `:461`) | map of runners by name; per runner two threads, a child, two pipes | `runCommand`, `killCommand`, reader, waiter, exit event | JS; the OS; Qt's event queue |
| lobby connection (`networkhandler.cpp`) | resolver, socket, read buffer, one thread | `connect`, `send`, `disconnect`, read and error events | JS; the server; Qt's event queue |
| downloads (`lobbyinterface.cpp:332`, `:406`) | one thread per download, temporary file, target | `startDownload`, `downloadFile`, progress events | curl; the file system |
| start-up, SpringHome and its setting (`lobbyinterface.cpp:77`, `:97`, `:160`) | `springHome`, the `swlrc` file, prepackaged files | `init`, `move`, `readSpringHomeSetting`, `writeSpringHomeSetting` | file system; page reload |
| small file services (`lobbyinterface.cpp:256`, `:285`, `:442`, `:481`-`:517`) | files | `listFiles`, `readFileLess`, `createScript`, `writeToFile`, ... | file system |
| logger (`logger.h`) | stream, mutex, debug flag | `debug`, `info`, `warning`, `error` | every thread; error events to JS |
| page and window (`weblobbywindow.cpp`, `main.cpp`) | the page, the bridge object | reload on F5, bridge re-created per page | `init` and the handlers survive a reload |
| sound (`lobbyinterface.cpp:517`) | detached thread (Linux) | `playSound` | libmpg123, ALSA |
| text helpers (`evalJs`, `escapeJs`, `matchNewline`, `readFileLess`) | none | | |
| wrapper generator (`tools/unitsync_wrapper_gen`) | none | writes the four unitsync handler files and their JS | |
| Boost.Process 0.5 | | vendored | used by `processrunner.cpp` |

JavaScript runs on the GUI thread, which also delivers the events the other
threads post; so every slot is atomic with respect to the others except where
it calls JavaScript back or blocks. What is hard here is therefore at the edges
of that thread: the workers' hand-over of calls and results, events that name an
object which has been replaced since, joins in destructors, time-outs, and
reloads of the page that leave the C++ side as it was.

What makes each component correct: a call is executed once, alone in the
library, in order, and answered; a child process is reported once, after its
death and after its output, and is never lost; the error or the data of a
connection is reported for that connection; a download leaves either the old
file or the new; the setting and the prepackaged files are not lost; closing the
window ends. Not all of it is so, and "Disagreements" says where the code stops.

## Modules

### UnitsyncHandlerAsync, CallService, CallPool

`UnitsyncHandlerAsync` has one variable per member (`ready`, `queue`,
`queueMutex`, `executionMutex`, `thread` for `workThread`), the state of each
worker (`pc`, `func`, `owner`), and history (`submitted`, `results`, `dropped`).
The worker's loop is cut at each point where another thread can be seen:
`TestReady` (`while (ready)`, outside the mutex), `LockQueue`, `MustWait` (the
predicate fails, mutex held), `Wait` (release and sleep), `Break`, `Pop`,
`BeginCall`, `EndCall` (post the result, release `executionMutex`). The GUI
thread's `Call` is one step because it holds the mutex from push to notify;
the destructor is `ClearQueue`, `NotifyExit`, `JoinAndClose`. All 150 generated
wrappers are the one action `Call`; the arguments, the library's results and the
wrappers that find no symbol are abstracted. `Reopen` says whether the page may
ask again for a path that is open, as it does after a reload; that starts a
second worker and detaches the first. A worker of a destroyed handler has no
defined step: `UseAfterDestroy` takes the whole model to `"undefined"`.

`CallService` is what a handler promises: calls are accepted while it is open
and answered in order, one by one. The mapping takes the call a worker holds as
still pending. It is only implemented without reopening; with it, order fails,
which is why the order and join properties are stated for handlers with a single
worker. `CallPool` is what remains with it: a pool of calls in no order, of which
one at a time is begun, alone in the library, and answered, or which are discarded
before they are begun. All handlers together implement it, however often paths
are opened again, and so do the calls of `UnitsyncPage`: what that module assumes
of the workers is what this one gives. Both refinements are theorems, no run.

| run | instance | shows |
|---|---|---|
| `unitsync_reopen` | 2 paths, 3 workers, 3 calls per path, reopening | mutual exclusion, exactly-once, no lost wake-up; order and join for single workers |
| `unitsync_service` | 2 paths, 2 workers, 2 calls, no reopening, fairness | calls answered, exit ends, refinement of `CallService` with fairness |

Three workers on two paths let one path have two workers and the other one,
which is all that mutual exclusion across handlers and reopening need; three
calls let two be taken while one waits. That every call is answered with two
workers on one queue as well is asked by `page`, from the page's side.

Fairness: weak for a worker's own steps (the scheduler runs threads, library
calls return), strong for taking a mutex that is released again and again, weak
for the destructor. JavaScript and the user have none.

### ProcessRunner

One entry of `processes` per name; per runner the waiter thread
(`"execute"` before `execve()` has succeeded, `"started"` before
`terminate_func` is assigned, `"waiting"`, `"reaped"`, `"done"`, or `"failed"`),
the service thread (`"reading"`, then `"join"`, then `"done"`), the child, its
pipe as a count of unread lines, and the write ends other children have
inherited. `events` is Qt's queue; an event carries the name of the command
only, and the model keeps the runner for the properties, while its handler looks
the name up. `handling` is set while JavaScript runs inside the exit event's
`evalJs()`, where every slot is enabled again. The 100 ms of
`try_join_for` are a free choice: `RunReturns` may happen wherever the waiter
is, unless it has failed already. `Kill` takes effect at once; the pid of a
reaped child is not reused. Standard output and standard error are one pipe.

| run | instance | shows |
|---|---|---|
| `process_safety` | 2 names, 3 runners, 1 line each | a running child is always in the map under its name; exit after death and output |
| `process_progress` | 2 names, 2 runners, fairness | `killCommand()` and the exit handler always return; when every child exits, every exit is reported and closing the window ends |
| `process_early_kill` | 2 names, 2 runners | finding: `std::bad_function_call` out of `terminate()` |
| `process_stale_exit` | the same | finding: a new run is reported dead and killed |

Two runners are what inheritance and a stale event take; three let a stale
event, a running child and a child that holds a pipe meet.

Fairness: weak for each thread of a runner and for the GUI thread's own work and
its delivery of events. Nothing in the code makes children exit, and closing the
window does not kill them; so that they do is not fairness but the antecedent
`ChildrenExit` of `ExitReported` and `QuitCompletes`, and `KillReturns` has none.

### NetworkHandler

`connect()`, `disconnect()` and `send()` post to the `io_service`, whose thread
executes one completed handler after the other; the model has that queue, the
resolver's own thread (`resolving`), the one socket with its connection in the
kernel (`net`), the operations pending on it (`connOp`, `reads`) and the one read
buffer. Each handler of the code is an action that tests the error code first:
`ResolveFailed`, `ResolvedClosed`, `ResolvedOpen` and `ResolvedAgain`,
`ConnectFailed` and `Connected`, `OnRead` and `OnReadError`, `ExecuteSend`,
`ExecuteDisconnect`. `close()` puts what it aborts into the queue, with an error.
A message that arrives is cut into tokens, two to a line, the first line being
one token, so that a line can be split between two reads, whole lines can wait
in the buffer, and a connection can leave one unfinished.

A second `connect()` on an open socket fails (`ResolvedOpen`), and its handler
closes the connection of the first; or it succeeds. On Linux a socket that was
connected by a non-blocking `connect()`, as Asio does, stays in the state
`SS_CONNECTING` until `connect()` is called once more, which then returns success:
so one further `connect()` per connection passes (`ResolvedAgain`, remembered in
`confirmed`), whether the server has closed the connection meanwhile or not, and
starts a second chain of reads on the socket. Which of the two happens is a free
choice while the kernel has not been told.

A read that has to wait prepares space in the buffer, and has it until its
handler is executed (`Held`): the read may be pending, or completed with its
handler in the queue. `StartRead` takes the model to the phase `"broken"` when a
read prepares space while another one has some, for what that one gets or has
got is then lost or overwrites something else; nothing after it is modelled, and
the liveness properties end there. A read that finds a line in the buffer is
ready at once and prepares nothing: two chains may go on like this for a while,
and `OnRead` posts an empty or half a line when another `onRead()` has taken the
one its read had seen, as `std::getline()` does.

The synchronous `asio::write()` on a socket that is still connecting holds the
service thread, and so does the model (`ExecuteSend` waits while `net = "syn"`).
Left out: a write that blocks on a full send buffer for ever, which would hold
the exit too; a reset, which is taken for an end of the stream; a `connect()`
whose error a second one on the same socket has fetched before.

| run | instance | shows |
|---|---|---|
| `network` | 2 connects, 1 disconnect, 2 sends, 3 tokens for the connections together | lines and messages keep their order, also across connections and with two chains of reads; every `connect()` comes to an end, and none is answered twice; exit ends unless a name was being resolved |

Two connects give every pair of states of an old and a new connection, the
disconnect one between them; two tokens of one connection make a line and an
unfinished one, the third is of that line or of the next connection.

Fairness: weak for what the resolver, the handshake and the reactor have to do,
and for the service thread. The server and the page may be silent for ever.
`ConnectsEnd` says that again and again no `connect()` is waiting: an `ErrorEvent`
is posted for it or reading begins; of one that passed on an open socket the page
is told nothing, and it reads from the connection there was. `QuitEnds` is
stated for an exit while nothing is being resolved: `disconnect()` closes only an
open socket, and a `connect()` that is resolved afterwards opens one that nobody
closes.

### Downloads

One program counter per download thread and one for the GUI thread, which runs
the same `downloadFile()` from the slot. The steps are the ones another thread
or a crash can come between: the date of the target into the buffer of
`gmtime()`, which all threads share, its formatting, the temporary file, the
transfer, the emptying of the target, its two blocks, the last event. `Publish`
is the server's, within the same second or later, for dates have seconds;
`Crash` leaves the disk as it is. `clean` and `tainted` are the history the
properties need to say "undisturbed": a download nothing else has touched, and
a target whose date says nothing of what is in it. The global locale, which
`downloadFile()` sets and puts back around `strftime()`, is left out: it is the
classic one before, so that whatever thread puts back what, dates are in
English. What that does to the C library's locale is in `UnitsyncCalls`.

| run | instance | shows |
|---|---|---|
| `downloads` | 1 file, 2 threads and the GUI thread, 3 downloads, 1 new version, 1 crash, 1 fault | a target is whole, its date honest and "done" true, unless a copy was cut short or two went on at a time |
| `downloads_torn_cache` | 2 downloads, 1 crash | finding: what a crash leaves of the target is taken for the cached version ever after |

Three downloads let one disturb a second and a third see what is left. Progress
events are left out, and there is no liveness: a transfer may take for ever.

### UnitsyncApi, UnitsyncSlots, UnitsyncSlotsAsync, UnitsyncCalls

The unitsync header and what the generator has made of it, tabulated: the 164
functions of `unitsync_api.h` with their types (`UnitsyncApi`); of the two pairs
of generated files, per slot, its name, its result and arguments, and for both
platforms the pointers that are looked up, and those the handler's move
constructor takes along (`UnitsyncSlots`, `UnitsyncSlotsAsync`). Slots carry the
function's name with a lower-case initial; the declarations in the generated
headers repeat them and are not tabulated. `UnitsyncCalls` has the generator's
rules (`Known`, `ExternalRep`, ...) and one call: the test of the pointer,
which is set only if it is in all of the lists (`Linked`), the result, and what QtWebKit or the generated JavaScript makes of it. A NULL string
comes back as an empty one on both paths. Floats are posted by `std::to_string()`,
in six decimals and with the decimal sign of the C library's locale (`decimal`):
`QApplication` has set it to the user's, and the first conditional download,
when it puts the classic locale back, to `"C"` (`FormatDate`). With a comma what
is posted is no number to JavaScript.

| run | instance | shows |
|---|---|---|
| `unitsync_calls` | every slot, 3-bit integers, NULL, empty and other strings, the function there or not, decimal point and comma | the committed files are what the generator makes of the header, so that no generated slot calls through a pointer that is not a function's; the answer is the result, but for unsigned ones and for floats that are posted |

Three bits have both signs and numbers that wrap around. The one slot written by
hand, `jsReadFileVFS`, posts a buffer and no result, and is an action of its own;
`AnswerIsResult` is about the others.

### UnitsyncPage

The composition of the page, the workers, the synchronous calls and F5 around
one library: ids drawn from `_.uniqueId()`, promises by id, the queue, the
workers without the inside of their loop (which is `UnitsyncHandlerAsync`'s),
`executionMutex` as `Inside = {}`, the library's one buffer for results, the
posted events. What the page's own scripts do with a result is not in the
repository: `Resolved` is modelled from how the generated wrappers subscribe, and
marked external. `Reload` forgets the promises and starts ids and workers again,
and leaves queue, workers and events alone. `mixed` remembers that a synchronous
call, which takes no lock, has been in the library together with an asynchronous
one.

| run | instance | shows |
|---|---|---|
| `page` | 2 workers, 4 calls of either kind, 1 reload, fairness | who gets which result; every promise settled or gone with its page |

Two calls of the old page and two of the new, on two workers, are what it takes
to deliver stale results out of order under ids of the new page.

Fairness: weak for the event loop, the loading of a page, the return of library
calls and the workers; strong for taking `executionMutex`, which is free again
and again.

### SpringHome

`init()` on the GUI thread, step by step, with `swlrc`, the homes and the
prepackaged data as what is on disk, and the process as what is not: `Die` may
come at every step, `Start` begins anew. The recursion of `move()` is a stack of
directories with what its iterators have returned; `RenameFails` begins
`copyFile()` (`CopyTruncate`, `CopyWrite`, `CopyFails`) and `RemoveSource`, which
looks at no result.

What is asked of the file system may fail, for the moment or for good. For good:
`swlrc` cannot be opened for writing (`writable`), nothing can be renamed or
removed in the package (`locked`, a read-only medium), a directory of the package
contains something that is neither file nor directory, or a file is in a
directory's place. For the moment, counted by `faults`: `swlrc` cannot be read,
which is caught and taken for no setting (`InitReadFails`), or opened, or its
line is not written because the disk is full (`FlushFails`); `FoldersFail`; a copy
fails (`CopyFails`); or any other call in `move()` throws (`MoveFails`,
`RemoveFails`). What throws ends `move()` and is caught in `init()`. `wanted` is
the setting the page last opened `swlrc` for: if that fails the old one stays.

| run | instance | shows |
|---|---|---|
| `springhome` | 2 homes, a tree of 4 paths in 2 variants, 16 states of the homes, `swlrc` writable or not, the package locked or not, 2 calls of `init()` per process, 1 crash, 1 fault, 1 new setting | the setting survives, unless it is emptied and not written, or not read; the data survive, unless a copy fails; they arrive in the end unless obstructed |

A second `init()` is a reload, a crash makes it a first one again; the tree has a
file at the root and one in a directory, with and without a neighbour that is
neither, and homes in which a file is in a directory's place or the reverse.
`TreeAssumption` says the packaged nodes form a tree of directories, as on any
disk.

Fairness: a program that died is started again, its page calls `init()`, and the
GUI thread goes on. Without it nothing would call `move()` again.

## Proved

TLC checks the instances above; the theorems hold for any number of handlers,
workers, runs, connections, downloads, files and messages, and of crashes and
faults. Each rests on the named assumptions of the module it is about, which TLC
evaluates on every run, and on an inductive invariant `IInv` or its parts: they
hold initially, every step keeps them, one proof step per action, and they imply
the property.

`UnitsyncHandlerAsyncProofs`, with reopening, from the assumption that `None` is
no handler and no worker:

- `TypeCorrect`: `TypeOK`. It needs `ThreadInv`: a started thread has an owner,
  and a `func` exactly between `queue.pop()` and the end of the call, for
  otherwise `EndCall` might post nothing.
- `MutualExclusion`: `OneCallAtATime`, from `LockInv`, which ties the owner of
  each mutex to the `pc` of the worker.
- `WakeupsDelivered`: `NoLostWakeup`. By itself it is not inductive: a worker
  between its test and its sleep must be known to hold `queueMutex` (`LockInv`),
  so that neither `Call` nor `ClearQueue` can run, and a handler that is not
  ready must be known to be the destructor's target (`CloseInv`).
- `Joined`: `JoinedUnlessReopened`. `JoinInv` adds that a handler's only worker
  is the one `workThread` holds, which is what the destructor joins.
- `ResultsInOrder`: `FifoUnlessReopened`. `QueueInv` says the queue holds the
  last calls submitted, `ServedInv` that a single worker holds the call after
  the last answered and nothing is missing between it and the queue.

- `NoCircularWait`, `DestructorIsAwaited` and `JoinIsBounded`, the safety half of
  `ShutdownCompletes`: whoever holds a mutex moves (`Moves`), except a worker left
  behind by a handler that was destroyed after reopening; the thread a destructor
  joins does not sleep; and each of its steps takes it closer to its end
  (`StepsLeft`), because the queue stays empty and nobody wakes it for more.
  `WaitInv` is the invariants above together; `OpenedInv` adds that the thread of an
  opened handler is one of its workers, which is what there is to join.

`UnitsyncServiceProofs` goes on from there:

- `CallsKept`: `ExactlyOnce`, with any number of workers on a queue. `PlacedOf`
  adds that the sets counted are finite, and that nothing is discarded while a
  handler may be called.
- `ImplementsService`: `ServiceRefinement`, supposing `Reopen = FALSE`; with
  reopening it is false. There is a lemma for each step of the service
  (`ServiceOpens`, `ServiceSubmits`, `ServiceAnswers`, `ServiceCloses`), and the
  other steps of a worker stutter: taking a call from the queue only moves it
  from the second to the first half of what is pending (`ServiceHolds`). It needs
  that a handler has one worker (`OneWorker`), which holds one call at most.
- `ImplementsPool`: `Spec => PoolRefinement`, without that supposition. `HeldInv`
  says that no two workers hold one call and none holds a call of the queue;
  `PoolInv` is this with the invariants of `ExactlyOnce` and the locks. A call in
  a queue, or taken from it and not begun, is waiting: `Pop`, sleep and waking up
  stutter.

`ProcessRunnerProofs`, from the assumption that `None` is no name and no runner:

- `Inductive`: `IInv`. `RunnerInv` ties each position of a runner's threads to
  the state of its child, `MapInv` and `GuiInv` the map and the GUI thread to
  the runner's name, `QueueInv` says that only runners whose threads have been
  joined have a TerminateEvent in the queue.
- `NoChildLost`: `Killable`. `OwnedInv` strengthens it: the runner of a child
  that has yet to be started is in the map too, or `run()` could start one that
  nobody can kill.
- `DeadBeforeTold`: `ExitAfterDeath`, by way of the joined threads.
- `OutputFirst`: `OutputBeforeExit`. `BalanceInv` counts: what a child has
  written is in the pipe, in the queue or has been heard. `LastInv` has the
  TerminateEvent behind the lines in the queue, and `EndInv` says that a service
  thread that was not stopped has left an empty pipe and a reaped child, which
  can fill it no more.
- `TypeCorrect`: `TypeOK`; the counts of lines stay natural numbers.
- `DestructorWaitsForChildOnly`, the safety half of `KillReturns` and
  `QuitCompletes`: a destructor that joins waits for a thread of its own runner
  that goes on (`Advances`), or, at exit, for a child that nobody has killed;
  never for a pipe another child holds, or for another runner. `DestructorInv`
  says the runner was stopped and, except at exit, its child killed before;
  `StartedInv` and `ThreadInv` that it has the threads that are joined.
- `ExitOfOwnRun` and `OwnExitKillsNothing`: what `process_stale_exit` shows
  cannot happen to a run that nobody has killed. When its exit is reported the
  map still has its runner, and the child is reaped (`LiveInv`); what the
  handler then terminates and erases is that runner, whose threads have ended
  (`HandledInv`). A start that fails too late for `run()` to say so is not
  reported at all.

`NetworkHandlerProofs`, from the bounds being natural numbers:

- `TypeCorrect`: `TypeOK`. `SocketInv` says the socket is closed exactly while
  no connection has it, `CallInv` bounds the numbers of calls.
- `AnsweredOnceAlways`: `AnsweredOnce`. `DueInv` and `DueHandler` say that a
  `connect()` without an answer is with the resolver, with the socket, or in one
  handler of the queue, and in one of these only.
- `SendsAreInOrder`: `SendsInOrder`. A `send()` in the queue is newer than what
  was written (`SendHandler`), behind older ones (`Pair`), and behind no
  connection opened after it.
- `LinesAreInOrder`: `LinesInOrder`. `LineInv` orders what arrived across the
  kernel, the read buffer and the lines delivered; `ReadHandler` what is in the
  queue between the first two; `NewHandler` says that a connection that has yet
  to be opened has received nothing.
- `OneChainPerConnect` and `BrokenNeedsTwoConnects`: the reads pending on the
  socket and those in the queue (`Count`) are no more than the `connect()`s that
  succeeded (`ReaderInv`), on new connections or on an open one. A read that has
  space in the buffer is one of them (`HeldCounted`), so that the phase `"broken"`
  takes two `connect()`s that succeeded: a page that connects once never gets
  there.

`DownloadsProofs`, from `DownloadsAssumption`:

- `TypeCorrect`: `TypeOK`.
- `TargetsAreWhole`: `WholeUnlessDisturbed`, and `DatesAreHonest`:
  `DateIsHonest`, which is of targets that are not tainted, together with what
  can taint one (`PutInDoubt`, `DoubtHasCause`): a version published during the
  download or in the second of the copy, an end of the program in the copy, a
  copy that fails, a second copy onto the target, and nothing else. `WriterInv`
  says that an untainted target has one writer, and how far its copy has come;
  `TimeInv` that nothing is dated later than now.
- `DoneMeansCurrent`: `DoneIsCurrent`. `AloneInv` says that an undisturbed
  download is the only one running and has fetched the server's version;
  `AnswerInv` follows the date from the target to the request.

`UnitsyncCallsProofs`, from `WidthAssumption`, of which the part about powers of
two is arithmetic, and `HeaderAssumption`, about the table of the header:

- `AnswersAreResults`: `AnswerIsResult`, of numbers of any width, so of C++'s 32
  bits, and with the locale changing under the call. It supposes
  `TablesMatch`, a statement about tables that TLC evaluates and no prover
  would; from it follows that a slot has exactly one function (`SlotHasFunction`,
  `FunctionFound`). `ToIntWraps` is the arithmetic of the conversion to `int`.

`UnitsyncPageProofs`, with any number of reloads:

- `TypeCorrect`: `TypeOK`. It needs that a page draws no more ids than there are
  calls, and that the buffer holds some call's result while anyone is inside.
- `OwnResults`: `ResultIsOwn`. The argument is about requests in flight
  (`Flights`): one that the page in view has made carries an id that is awaited
  for it or no more, and one of an older page is older than whatever is awaited.
  `BufferInv` ties the library's buffer to the call inside, as long as the two
  kinds of call have not met.
- `PageUsesPool`: the asynchronous calls implement `CallPool`. The history
  variable `posted`, which no step reads, keeps the calls answered, for the event
  loop forgets them; `OrderInv` says that calls are queued in the order they were
  made in, and that those held are older, no two the same.

`SpringHomeProofs`, for any tree of packaged data and any homes, from
`SpringHomeAssumption`:

- `TypeCorrect`: `TypeOK`. By itself it is not inductive: a file that is being
  copied must be one of the package (`TypeInv`).
- `SettingSafe`: `SettingKept`, from what is in memory while `swlrc` is empty, and
  what is in `swlrc` when `init()` reads it.
- `NoDataLost`: `DataKept`. `CopyInv` says a file stays in the package until its
  copy is whole or has failed, `StackInv` that `move()` removes, at the end of a
  directory, nothing but directories.
- `MoveIsComplete` and `OnlyObstaclesThrow`, the safety half of `DataArrives`:
  an `init()` that returns has left neither file nor directory in the package,
  and one in which `move()` throws has met something `Obstructed` names, or a
  call that failed for the moment (`faults`), whatever earlier ones left
  half-done. `WalkInv` says that what the iterators have returned is gone,
  copied now, or a directory `move()` is in, and that nothing is left outside of
  the package's directories; `PathInv` that these are nested, so that what keeps
  a directory from being removed is not one `move()` will still remove. With
  `TreeAssumption`, a node that is left has a topmost one above it, and that has
  not been seen.

Only model-checked:

- liveness, which the prover does not reach: `CallsAnswered`,
  `ShutdownCompletes` and `ServiceProgress` (the fairness of `CallService`),
  `KillReturns`, `ExitReported`, `QuitCompletes`, `ConnectsEnd`, `QuitEnds`,
  `EveryPromiseSettles`, `DataArrives`. Of `ShutdownCompletes`, `KillReturns`,
  `QuitCompletes` and `DataArrives` the safety halves named above are proved;
- `SlotsMatchHeader`: `TablesMatch` has no variable and no parameter, so what TLC
  evaluates is all there is of it.

## Disagreements

Three runs end in a counterexample, each of something the repository says:

- `process_early_kill`: `terminate()` before the waiter has set `terminate_func`
  throws `std::bad_function_call`, where `lobbyinterface.h:35` promises
  `boost::system::system_error`.
- `process_stale_exit`: the `TerminateEvent` of a killed command is reported as
  the exit of the next one of that name, and kills it.
- `downloads_torn_cache`: after a crash during the copy a piece of a file passes
  for "the cached version".

The models also have the steps of these, which properties step around and say so:

- an exit is not reported while another child holds the pipe it inherited
  (`processrunner.cpp:31`; the antecedent of `ExitReported`);
- `run()` returns though `execve()` fails later than 100 ms
  (`processrunner.cpp:201`, against `lobbyinterface.h:33`);
- `readBuf` joins the unfinished line of one connection to the first of the next
  (`networkhandler.cpp:28`; `LinesInOrder` asks for order only), and two chains of
  reads may use it at once, but only after two `connect()`s that succeeded
  (`BrokenNeedsTwoConnects`);
- a second `connect()` may succeed on the open socket, on Linux, though it was for
  another server, and though the server has closed the connection: no event is
  posted (`networkhandler.cpp:19`; `ConnectsEnd`);
- `disconnect()` does not stop a `connect()` whose name is being resolved, and
  exit may then wait for the server (`networkhandler.cpp:58`; `QuitEnds`);
- download threads share the buffer of `gmtime()` (`lobbyinterface.cpp:342`;
  `clean`), and do not notice a disk that is full (`:384`; `tainted`), and if the
  temporary file cannot be opened the page hears nothing (`:358`);
- a result that was computed for an old page may settle a promise of the new one
  (`wrapper_gen.hs:83`; `ResultIsOwn`);
- a synchronous call may overwrite the result of an asynchronous one
  (`lobbyinterface.cpp:412`; `mixed`);
- unsigned results are made signed by the synchronous slots only
  (`wrapper_gen.hs:33`, `:62`), and floats are posted with a decimal comma until a
  conditional download has been made, in a locale that has one (`wrapper_gen.hs:27`,
  `lobbyinterface.cpp:348`; `AnswerIsResult`);
- `jsReadFileVFS` calls through a pointer it does not test
  (`unitsynchandler_t.cpp:616`; `CallReadFile` ends in `"crashed"`);
- the setting is lost if the program dies, or the disk is full, between emptying
  and writing `swlrc`, which `init()` does on every load of the page, and if
  `swlrc` once cannot be read (`lobbyinterface.cpp:179`, `:171`; `SettingKept`);
- `move()` removes a prepackaged file though its copy has failed
  (`lobbyinterface.cpp:85`; `spoiled`);
- from a package that is read-only only the first file is copied, in every
  session again, because it cannot be removed (`lobbyinterface.cpp:85`), and a
  directory that keeps something ends the move as well (`:93`; `Obstructed`);
- a worker of a handler that was opened twice goes on in a handler that has been
  destroyed (`unitsynchandler_t.cpp:24`; `UseAfterDestroy`, `JoinedUnlessReopened`).

Found by reading only, and in no model:

- the log file is not written any more after a reload, when `open()` is called on
  a stream that is open, nor after an `open()` or a write that failed
  (`logger.h:32`, `:79`);
- `terminate()` after the child was reaped sends `SIGKILL` to a pid the system may
  have given to another process (`processrunner.cpp:172`).

## Not modelled

- The small file services (`listFiles`, `readFileLess`, `createScript`, ...): one
  file operation each on the GUI thread, without state of their own.
- The text helpers: `escapeJs`, `matchNewline` and the cutting of lines are about
  characters, which the models abstract to lines and results.
- Sound: a detached thread that shares only the logger.
- Boost.Process: vendored; `ProcessRunner` has `fork`, `execve`, `wait` and the
  pipes as `processrunner.cpp` uses them. A pid that is reused after the child
  was reaped, and a fork between another waiter's `pipe()` and `fcntl()`, are
  below it, as is a child that blocks on a pipe that is full.
- The logger: whether a line gets into the file depends on the state of one
  stream, which nothing mends, and on no order of events.
- Of the window, its title, icon, size and the developer's tools; of the
  generator, the text it prints.
- Windows: the lists of pointers it looks up are in `UnitsyncSlots`, its threads
  and processes are nowhere.

## Plan

What is left to do is the text helpers, against reference definitions over
bounded strings.
