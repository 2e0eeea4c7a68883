# A TLA+ model of the Zony HTTP server

`src/` is a C++17 HTTP/1.1 server that loads its applications from shared
libraries.  Its difficulty is in its threads: an acceptor, a thread that owns a
pool, the pool's workers, and signal handlers that share four events, one flag,
one queue and two counters.  This project models that core statement by
statement, checks it with TLC and proves its safety with TLAPS.  It also models
the processes of one server name with their semaphore and shared memory, the
replacement of the application modules, a connection with its requests, bodies and
files from the first byte to the close, and the start of a server: its configuration,
the tree of its applications, its ports and their credentials.

All line numbers are those of files under `src/src/`; `server/` and `utils/`
are directories there.

## 1. Inventory

| Component | State | Operations | What makes it correct | Modelled |
|---|---|---|---|---|
| **Event** `utils/Event.cpp` | atomic `signaled`, a mutex, a condition variable, `manually` | `wait`, `notify`, `notify(n)`, `reset`, `notified` | who waits is woken by a notification | `Event.tla`; `wait_for` and `wait_until` have no caller |
| **Acceptor** `Server::run` `server/Server.cpp:300-403` | `accept_sockets`, its place in the loop | accept, enqueue, notify, check the limit, wait | no connection lost or doubled; comes back to accept; ends when told to | `ServerCore.tla` |
| **Pool owner** `Server::cycleQueue` 405-488 | `active_threads`, `notify_count` | update modules, grow the pool, wake workers, join them | never more than the maximum; no worker left when modules change | `ServerCore.tla` |
| **Worker** `threadRequestCycle` 700-792 | its local socket; `threads_working_count` | wait, pop, count, serve | one worker to a socket; the count is right | `ServerCore.tla` |
| **Server controls** `server/ServerControls.cpp` | `process_flag`, `restart_flag`, three event pointers | `stopProcess`, `setRestart`, `setUpdateModule`, `setProcessQueue`, `clear` | a stop or an update takes effect | `ServerCore.tla`; `restart_flag` in `ServerLifecycle.tla`; not the pointers |
| **Signal handlers** `SignalHandler.cpp` | a pointer to the server | SIGTERM, SIGINT, SIGUSR1 (restart), SIGUSR2 (update modules) | an interruption at any point does no harm | `ServerCore.tla`, `ServerLifecycle.tla` |
| **Listening sockets** `socket/List.cpp` | an epoll descriptor | `accept`, `receive` | every waiting connection is taken | `accept` in `ServerCore.tla` |
| **Process lifecycle** `command_*` `server/Server.cpp:906-1147`, `system/GlobalMutex.cpp`, `system/SharedMemory.cpp` | a named semaphore, a named shared memory with a pid | start, restart, kill, update, help | one server of a name; no stale lock; a server can be found | `ServerLifecycle.tla` |
| **Module update** `updateModules`, `updateModule` 491-698 | the library handles, the applications' functions, three files | compare, unload, rename, load | no function of a closed library; an update is done, and once | `ModuleUpdate.tla`; one step in `ServerCore.tla` |
| **Ports, TLS** `initAppsPorts`, `tryBindPort`, `tlsInit`, `clear` 124-298, 795-904, `Socket::bind` | listeners with their real ports, `tls_data`, the ports of each application | bind, load credentials, look a port up, free | TLS is spoken where it is configured; each credential freed once; one listener per port | `Startup.tla` |
| **HTTP/1 connection** `server/protocol/ServerHttp1.cpp` | the receive buffer, `left`, `right`, the request and its headers | receive headers, receive body, run the application, keep-alive, switch protocol | no byte of a request lost or read twice | `HttpConnection.tla` |
| **Body parsers** `server/data-variant/` | the state of the block parser | url-encoded, multipart, text | the result does not depend on how the body is cut | `RequestBody.tla` |
| **Ranges** `server/protocol/extensions/Sendfile.cpp` | none | `getRanges`, partial transfer | the parts sent are those asked for | `FileRanges.tla`; the transfer in `HttpConnection.tla` |
| **Application tree** `server/ServerApplicationsTree.cpp` | a tree of names with wildcards | add, find | `find` gives the application whose name matches | `ApplicationTree.tla` |
| **Configuration** `server/config/ConfigParser.cpp` | a text being spliced | include, parse, add an application | ends, and accepts what the samples say | `Startup.tla` |
| **Utilities** `utils/Utils.cpp` | none | `packNumber`, `unpackNumber`, trims, dates | unpack is the inverse of pack | `urlDecode` in `RequestBody.tla` |
| **Socket adapters** `socket/Adapter*.cpp`, `socket/Socket.cpp` | a socket, a TLS session | handshake, receive, send, close | socket and session are released once | their outcomes in `HttpConnection.tla` |
| **WebSocket** `server/protocol/ServerWebSocket.cpp` | none | `process` and `close` do nothing | | an outcome of `Again` in `HttpConnection.tla` |
| **HTTP/2** | | empty files | | not modelled |

How they interact.  The acceptor pushes sockets into the queue under its mutex
and notifies `eventProcessQueue`; the pool owner waits for that event, makes
workers and notifies `eventThreadCycle`; the workers pop under the mutex and
move `threads_working_count`, which the pool owner reads without a lock.  The
acceptor stops at `eventNotFullQueue` when the queue has `queue_max_length`
sockets, and the pool owner opens that event at the end of a round.  The signal
handlers run *on the acceptor's thread* between any two of its instructions and
write `process_flag` and the events, which all the others read.

Which behaviours are hard: a notification that comes while a thread is inside
`Event::wait`; a signal between a read and its use; two flags written in one
order and read in the other; the queue at its limit; the join of a thread that
sleeps; processes that die while they hold a semaphore, steps of an update that
fail half-way, bytes of two requests in one buffer, delimiters cut in two, a restart
on top of what the last run left.  `PROJECT.json` lists each of them under `hazards` with its line.

## 2. Plan

In this order; each module is written with `CONSTANTS` and named assumptions so
that it can be proved about, and none but pure algorithms uses `RECURSIVE`.

1. **Done.** `Event`, `ConnectionPool` (abstract), `ServerCore`, their runs, and
   the proofs in `ServerCoreProofs` and `PoolProofs`.
2. **Done.** `ServerLifecycle`: several processes with the named mutex and shared
   memory, and `LifecycleProofs`.  It takes `run` as the step whose outcomes
   `ServerCore` establishes.  Left: the event pointers.
3. **Done.** `ModuleUpdate` and `ModuleUpdateProofs`; it is the detail of
   `CycleUpdateModules`.
4. **Done.** `HttpConnection`, the detail of `WorkerServe`.
5. **Done.** `RequestBody` and `FileRanges`, the parsers it calls.
6. **Done.** `Startup` with `ApplicationTree`: `init`, the configuration, ports and
   credentials.
7. **Done.** The proofs about 4 to 6: `ParserProofs`, `ConnectionProofs`, `BodyProofs`,
   `StartupProofs`.
8. What section 7 names.

Every safety property that a passing run checks is proved.

## 3. What is modelled

### `Event.tla`

`Utils::Event` as operators on a record of the flag and the set of threads
blocked in `cv.wait`.  `Event::wait` is not atomic: it loads the flag without the
mutex (line 10), takes the mutex, and blocks in a `cv.wait` without predicate;
`notify` stores the flag and notifies without the mutex.  So a waiting thread has
two labels, `wait` (about to load the flag) and `gap` (it saw the flag clear and
has not blocked yet), and any step of another thread fits between the two.

### `ServerCore.tla`

One call of `run` from line 336, when its threads start, to its return.  Every
thread has a program counter; a step is what a thread does between two accesses
to state another thread may see.

| Actions | Code |
|---|---|
| `MainEnterEpoll`, `MainAccept` | the call of `accept` at 343, `socket/List.cpp:107-146`: blocks in `epoll_wait` without a timeout, takes all queued connections |
| `MainLock`, `MainEmplace`, `MainUnlock` | 345-367 |
| `MainNotifyProcess`, `MainCheckLimit`, `MainResetNotFull` | 369, 371, 373 |
| `MainWait`, `MainBlock` | 376 |
| `MainReadFlag`, `MainReadUpdate` | 379, two reads in this order |
| `MainLastNotify`, `MainJoin`, `MainClose`, `MainClear` | 381-398 |
| `CycleOuter` to `CycleResetUpdate` | 444-447, and 491-536 with the two writes of 534 and 535 apart |
| `CycleGrow`, `CycleCreate`, `CycleQueueEmpty` | 450-461 |
| `CycleCountIdle` to `CycleNotifyWorkers` | 464-470, each read of `sockets.size()` on its own |
| `CycleWait`, `CycleBlock`, `CycleConsume`, `CycleReadFlag` | 471, 473 |
| `CycleJoin`, `CycleNotifyNotFull`, `CycleAgain` | 475-485 |
| `WorkerWait` to `WorkerDecrement` | 713-790 |
| `StopFlag` to `StopClose`; `UpdateEvent` to `UpdateProcessQueue` | the handlers of SIGTERM, SIGINT and SIGUSR1, and of SIGUSR2, one step per store |

Decisions a reader should know of:

- `sockets.size()` and `empty()` are called without the mutex (371, 454, 465,
  467).  While another thread is inside the critical section this is a data
  race, and `RacySize` lets the read see any size up to the limit and one batch
  more, which the acceptor may push before it looks at the limit.
- A handler runs on the main thread: main takes no step until it has ended.  A
  signal in `epoll_wait` makes it return, a signal anywhere else does not; a
  signal just *before* it is handled in full and the block follows.
- SIGUSR1 is a stop: it also sets `restart_flag`, which only `command_start`
  reads after `run` has returned.
- `threadRequestProc` is the step `WorkerServe`, which always ends; what happens
  on the connection belongs to `HttpConnection`.
- The operators whose names are those of an action with a suffix (`MainJoinSkipped`,
  `CycleGrowEager`...) and whose comment begins with "Fault:" are not part of the
  specification.  Each is a plausible mistake in the action that follows it; they
  show that the properties tell the code from a wrong one.
- Listeners are open at the start.  At this commit several functions that lead
  there are stubs (`System::Module` never opens a library, `getFileSizeAndTimeGmt`
  always fails, `ServerSettings::addDataVariant` is empty), so that no application
  can be loaded and `run` returns `0x20` before it makes a thread.  The model takes
  `run` at its own interface, with these parts working as their declarations say.

### `ConnectionPool.tla`

The abstract specification: a line, a set of connections being served, a set of
served ones and the version of the modules.  A connection is taken from the head
of the line, by one of at most `MaxServing` servers, and the modules are replaced
only when none is being served.  `ServerCore` implements it with `waiting` the
queue, `serving` the sockets of the workers past their pop, and `MaxServing`
the number of `Workers` (`ImplementsPool`).

### `ServerLifecycle.tla`

The processes of one server name, each running one command of `Main.cpp`:
`--start`, `--start --force`, `--restart`, `--kill` or `--update-module`.

| Actions | Code |
|---|---|
| `ForceMem`, `ForceMutex` | 1034-1038 |
| `Open`, `Lock`, `OpenMem`, `Read`, `Unlock` | `getServerProcessId` 906-926, and the same steps in `command_start` 1042-1061 |
| `OpenAgain` to `UnlockAgain` | 1063-1093, with the failures of `create` and `write` |
| `ClearProcess` to `Loop` | the loop 1097-1103 around `run` |
| `EndMem`, `EndMutex` | 1105, 1106 |
| `Send` | the ends of `command_restart`, `command_terminate`, `command_update_module` |
| `Signal`, `Crash` | a SIGINT and a death at any point |

- A name (`mutexName`, `memName`) leads to an object.  Unlinking takes the name
  away; the object lives on for those who have opened it.  So two processes may be
  inside "the" mutex, each with an object of its own.  The object that a process
  makes carries the name of the process, and `"old"` is what an earlier program
  left: a memory that has room for a pid, and the pid of a `"stranger"`.
- A memory that this program makes has the size 0, because of the misplaced
  parenthesis in `SharedMemory.cpp:31`; who touches it gets SIGBUS and dies
  (`BusError`).  Servers that get as far as `run` have found the old memory, which
  is why the initial states have it or not.
- A signal during `sem_wait` ends it (the handlers are installed without
  `SA_RESTART`), `lock` returns false and every caller goes on.  `interruptions`
  counts these.
- `run` fails early (`InitRun`), or sets `process_flag`, and returns when the flag
  is down and no update is owed.  What happens in between is `ServerCore`.
- `passed`, `refused`, `holds`, `interruptions` and `accidents` are history: no
  action of the program reads them, but for the bound on accidents.

### `ModuleUpdate.tla`

`updateModules` and `updateModule`, run by the thread of `cycleQueue` while no
worker lives (`UpdateIsQuiescent`).

| Actions | Code |
|---|---|
| `Request`, `Look`, `Looked` | 491-536, one application a step |
| `Unload` | 544-572 |
| `Copy`, `Open`, `Remove`, `Rename`, `Bind` | 573-611, 614, 616, 622, 628-697; each also ends with the early return |
| `Publish`, `Tick` | the administrator and the clock |

- Of a file there is the version, which the code does not see, and the size and
  the second of its modification, which it compares.
- `applications` is an unordered set: `Look` takes any of those left, and `Copy`
  the update file of any application of the library.
- A copy that was not written to its end (line 608 is not checked) is the version
  `Broken`, which the linker refuses.
- `System::getFileSizeAndTimeGmt` and `System::Module` are stubs at this commit: the
  first always returns false, and so does every function of the second.  The module
  takes them as declared, each call free to fail; the code with its stubs takes
  those behaviours of the model in which they always do, and replaces nothing.
  Libraries that have the same path are one module, as the comparison of handles
  that `addApplication` makes will have it.

### `HttpConnection.tla`, `RequestBody.tla`, `FileRanges.tla`

One connection, from the worker that has taken its socket to the close.  A step is a
function up to the next receive, send or call of the application.

| Actions | Code |
|---|---|
| `Plain`, `HandshakeFails`, `Negotiate`, `NegotiateH2` | `threadRequestCycle`, `threadRequestProc`, `getProtocolVariant` |
| `GetRequest`, `GetRequestTimeout`, `GetRequestClosed` | `getRequest` 110-134, at the head of the loop of `process` |
| `GetRequestHeaders`, `GetApplicationSettings` | 136-300 |
| `GetRequestData`, `ReceiveData`, `ReceiveDataFails` | 302-492, each with the call of `parse` and what follows it (`Proceed`) |
| `RunApplication` | `ServerProtocol.cpp:145-188`, and the removal of the files 616-618 |
| `GetConnectionParams` | 516-577 |
| `XSendfileNone` to `TransferFilePart` | `Sendfile.cpp:155-233`, `297-389`, `434-465` |
| `SendBlock`, `SendPartBlock` | one turn of the loops 407-422 and 262-285 |
| `Again`, `Close` | 634-664 and the adapters' `close` |

- The client has a *script* of requests and sends their text one behind the other.
  A receive gets any number of units, so every cut happens; a client may stop at any
  point, which is a time-out (`GetRequestTimeout`) or an end of the data.
- Text is made of units: a token that a parser looks for, or data.  `\r\n`, `--boundary`,
  `--`, `&`, `=`, `+` and the header of a part are a token each.  Delimiters are two to
  four units, so a cut falls inside each of them, but not inside a token.  A unit remembers
  the request it belongs to; no action looks at this but to say whose `Host` header it is.
- `parse` of the multipart type is the recursive function `loop` of `ParseMultipart`, a
  turn of which is a case of the code's switch, with the missing `break`s (`Falls`).  What
  `std::string::append` does with a reversed range is an exception that nothing catches
  (`Dies`, pc `"terminated"`); what `ofstream::write` does is to set the file bad.
- `data_buf.append(buf.data(), 0, n)` (463) takes `buf` as a C string, so a zero byte cuts
  the chunk (`CString`).
- `full` says that the send buffer has no room.  A plain socket fails at once then
  (`EAGAIN` is an error to `nonblock_send_all`); a TLS send and `close` wait without limit.
  To send nothing is an error at once to a TLS adapter, and done at once to a plain socket.
- `variants` is empty or has the three types: at this commit `addDataVariant` is an empty
  function, and every body is refused; the model has that server and the one that `init` asks for.
- `handled` and the fields `cut` and `changed` of `file` are history.

`RequestBody` has the parsers as operators that return what `parse` returns with the
`DataReceiver` and the data; `FileRanges` has `getRanges` and, as its reference, the positions
that RFC 7233 gives to a range (`Asked`).

### `Startup.tla`, `ApplicationTree.tla`

`init`, `initAppsPorts` and `clear` over the runs of one process.

| Actions | Code |
|---|---|
| `LoadConfig` | `Server::init` 887-903, with the files as they are at that moment |
| `LoadParam`, `LoadBlock` | a turn of `NONE` and of `PARAM` or `BLOCK`, `ConfigParser.cpp:548-637` |
| `ServerParam`, `ServerEnd` | the loop over the parameters of a `server` block, 639-697 |
| `LoadEnd`, `ParseMimes`, `ParseMimesEnd` | 711-717 and 371-491, a line a step |
| `AddApplication`, `AddApplicationsEnd` | 70-363, one block a step |
| `InitAppPorts` | 213-247 for one application, in any order, with `tlsInit`, `tryBindPort` and `Socket::bind` |
| `SpeaksTls` | the look-up of 732-745, for a connection of a listener |
| `Start`, `Clear`, `Restart` | 309-336, 855-885, 1097-1103 |

- The text is tokens; `LoadConfig` puts a statement of the configuration into its tokens, and
  the parser works on these.  `include` splices the file into the rest of the text, as the code does,
  so a file that includes itself never ends.  After an include in a block the end of the block is
  looked for again from the place of the insertion, but `rfind('\n')` (`ConfigParser.cpp:499`) sees
  the text in front of it: the first line of the file goes on the line of the `include`, so that a
  comment there is not at the beginning of a line, and a closing brace in it ends the block.
- `Socket::bind` puts `htonl` of the port, a 32-bit number, into the 16 bits of `sin_port` (the code
  asks itself `//htons Error??`).  On a little-endian machine this is the upper half of the number:
  0 for every port, which asks the kernel for a port of its choice.  `LittleEndian` is the byte order, `SinPort`
  the conversion, `Ephemeral` the ports the kernel picks from.  A listener is a record of the port it was opened
  for and the `real` one: `accept_sockets` and `tls_data` go by the first (174-247), the worker looks `tls_data` up
  with the second, which `getsockname` gives it (732-745).
- `certified` is history: the applications whose credentials `tlsInit` has loaded in this run.
- A tree is the function from its nodes, as paths, to their applications: `addApplication` adds
  all prefixes of a path, and `find` goes down as far as it can.
- `Configs` is any set of configurations: the statements of each file, over the words of `Words`
  (`ConfigsAssumption`).  A value begins with a word and has no sign that would end it; a comment may
  have everything but the end of its line.
- Nothing empties `apps_tree`, and `clear` frees what is in `tls_data` without taking it out:
  both live on into the next run.  The applications `made` are never deleted.

### The MC modules

`MCHttpConnection` has the 31 scripts and 7 answers, `MCStartup` the 16 configurations: one for
each case that the code tells apart.  `MCServerCore`, `MCServerLifecycle` and `MCModuleUpdate` have the symmetry sets of
the runs.  Workers and connections, processes, and applications, libraries and
update files are interchangeable; the runs with liveness use no symmetry.

## 4. Runs

| Run | Instance | Checks |
|---|---|---|
| `core_safety` | 2 workers, 2 connections, limit 2, 1 stop, 1 update | every safety property, both inductive invariants, `ImplementsPool` |
| `core_pool` | 2 workers, 2 connections, limit 1, no signal | `QueuedIsTaken` |
| `core_signals` | 1 worker, 1 connection, limit 1, 1 stop, 2 updates | `UpdateIsTaken`, `StopEndsRun` |
| `core_kill` | 1 worker, 1 connection, 1 stop | violates `KillShutsDown` |
| `core_update` | 1 worker, 1 connection, 1 update | violates `UpdateKeepsServing` |
| `core_full` | 1 worker, 1 connection, limit 1 | violates `AcceptorComesBack` |
| `life_safety` | 3 processes, every command, 1 accident | `MutexExcludes`, `WaitsForAHolder`, `LoneServerIsFound`, `NamesAreGone`, the inductive invariant |
| `life_one` | 2 starts, no accident | violates `OneServer` |
| `life_dies` | 1 start, no accident | violates `NobodyDies` |
| `update_safety` | 2 applications, 2 libraries, 2 update files, 3 versions of 2 sizes, 3 seconds | `FunctionsAreLoaded`, `RunningIsOnDisk`, `UpdatedUnlessAlike`, `NoNeedlessUnload`, both inductive invariants |
| `http_safety` | 31 scripts of 1 to 3 requests, 7 answers, 2 requests kept alive, a receive of 7 units, files of 0 to 3 positions in blocks of 2 | bodies, order, framing, files, keep-alive, release; `ConnectionEnds` |
| `startup_safety` | 16 configurations, 3 ports, 3 ports of the kernel's choice, little-endian, 2 runs | `ConfigurationIsKept`, `CredentialsFitPorts`, `LoadingEnds` |

Bounds.  Two workers are enough for two of them to contend for the mutex, for one
to sleep while another is made, and for the counts to differ by more than one; two
connections for a batch, for an order in the queue, and for the limit to be reached
with a connection left in the kernel; one stop and one update for every order of the
two and for each to fall at every step of the other.  `core_signals` has a second update, which
may come while the first one is carried out, and one connection, which fills its queue.  The safety part
needs no such argument: it is proved for all values, the refinement of `ConnectionPool` included.
Bounds in the model: `MaxStops` and `MaxUpdates` cap the signals, and one handler
runs at a time (the handlers' mask does not forbid two nested ones).

Three processes let two servers of one name meet and a third look for them; in
`life_safety` an accident is a SIGINT, a death or a refused system call, and one of
them falls at every step of every process.  With two processes and two accidents the
run was made by hand, with the same result; the safety is proved for any number of
processes and accidents.  `update_safety` has every assignment of
applications to libraries and to update files, so that two applications share a
library with and without sharing the update file; three versions allow a second
update on top of a first one, and three seconds a copy before, in and after the second
of its source.  Its safety is proved for all values.

In `http_safety` a receive of seven units takes more than a small request and less than two,
so that a request is cut, and comes with the beginning of the next one; three small requests are
one more than may be kept alive; a limit of 26 units takes the largest body and refuses one that claims 27; three positions are a whole block
and a short one.  The file may be written to once while it is sent.  Two runs in `startup_safety`
show what the first one leaves to the second; with two ports an application has one, both, or
disagrees with another one about a port, and a third number, `5242880`, is larger than a port, so that
its upper half is the port 80, which another application lists.  One of the kernel's three ports, 40000, is
configured, so that a listener may get a port that stands in `tls_data` for another one.  With
`LittleEndian = FALSE` the run was made by hand, with the same result; the proof is for both.

Deadlock is checked in `update_safety`, `http_safety` and `startup_safety`, where nothing waits
for an event.  It is not checked in the other runs: the program really may stop, and commands end.  The main thread blocks in
`epoll_wait` for as long as no client comes.

Fairness.  Weak fairness of each thread and of a running handler: the operating
system schedules runnable threads, and an application returns from a request.  The
mutex of the queue needs no strong fairness in these instances because no thread
takes it in a loop without waiting for an event or for work in between, and work is
finite.  Nothing is assumed of clients, of signals, or of spurious wake-ups.  In
`HttpConnection` and `Startup` weak fairness is that of the one thread that runs: a receive ends
after five seconds at most and an application returns.  `WorkerServe` in `ServerCore` has the
fairness that `ConnectionEnds` gives it, except for a client that stops reading for good.

What the runs show:

- Connections are neither lost nor doubled, the counts agree with the threads, the
  modules are replaced only when the pool is empty, and the teardown comes last.
- Liveness holds only with exceptions, and the properties name all of them.
  `QueuedIsTaken` and `UpdateIsTaken` fail only when a thread *oversleeps*: the
  notification fell into the gap of `Event::wait`, and the thread sleeps on an event
  that is set.  `StopEndsRun` has three more.  The main thread misses the signal and stays in
  `epoll_wait`, which nothing interrupts any more; `MissesStop` names the three ways there: it was past
  line 379 when the signal came; it reads `process_flag` after `updateModules` has set it again (534);
  or it reads the flag in time but finds the update requested, which is reset only afterwards (535).
  It waits in `join` for `cycleQueue`, which goes on because of the flag that 534 has set.  And it had seen the queue
  full and resets `eventNotFullQueue` after the last notification of it.  Without any one of the
  exceptions, or of the three ways, TLC finds a run that does not end.

- The named semaphore excludes unless a signal has ended a `sem_wait`; who waits for
  it waits for a process that is inside or has died there.  A server that alone
  passed the check can be found by the other commands, and the last server to end
  leaves no name behind.
- No failure in `updateModule` leaves an application with a function of a library that
  was closed, or with functions other than those of the file on the disk.  An update
  is missed only when the file has the size of the old one and was published not
  later than the second of the last copy; and none is done twice, as long as the
  applications of a library agree on the update file.

- Requests of a connection reach their applications in order, each once, and bodies as they
  were sent, wherever the text is cut.  The properties name what they leave out, each of which
  TLC shows to be necessary: a request with a body but no `Content-Type` (its body is read as the next
  request), a wrong `Content-Length` or anything after the end of a multipart body (`Framed`);
  a zero byte in a chunk that does not come with the headers (`ZeroFree`); the signs of a form that
  the client has to escape (`Escaped`); a file block of which
  less than a delimiter has come when the chunk ends, which makes the file bad (`good`), and a field
  block in the same case, which ends the process (`WholeBodiesAreTaken`).
- The temporary files of a request are removed with it, but for the file of a block that was being
  received when the body was refused.
- An answer with a file has the announced length unless the client broke off, the file was written to, or a
  range ends at or behind the end of the file: getRanges then counts one position too many, the connection is
  kept alive, and the client waits for it.  A suffix range gets the wrong positions (`EndsInside`).
- The worker leaves no socket behind but for one that negotiated `h2`, which the adapter
  offers, and comes back from every client but one that stops reading and stays.
- The server knows what its configuration says (`TextIsKept`), with the exceptions that `Readable` names:
  a comment with a closing brace that is indented, or on the first line of a file included in a block, which ends
  its block; a block of nothing but comments; and, in a
  block, a file of anything but parameters and comments.  A file that is included by an included
  one is read by the code, but what it then says is not stated, as `Expand` goes one level deep.  Loading ends
  but for files that include themselves or each other and a comment in the file of MIME types (`Ending`).  A `server_name` with white space at its end ends the process (`AddApplication`).
- `tls_data` has the port of a listener exactly when an application with loaded credentials lists it as a TLS
  port -- in the first run, and as long as two applications do not disagree; an application with two TLS ports
  has its credentials freed twice, and so has every one after a restart.  A worker speaks TLS where the *real* port
  of the listener stands there.  Where the conversion in `Socket::bind` keeps the number, these are the
  listeners that are configured so; on a little-endian machine every listener has a port of the kernel's choice, and
  TLS is spoken only where this happens to be a TLS port of the configuration (`CredentialsFitPorts`).
  With `samples/apps.conf` a server listens on some port other than 2280.

## 5. Findings

- **`core_kill`**: `--kill` is documented to shut the server down; a signal between
  the read at 379 and `epoll_wait` leaves the process blocked, with its listeners
  closed.
- **`core_update`**: `--update-module` is documented to update the modules; the
  writes of 534 and 535 may both fall between the two reads of 379, and the acceptor
  then leaves its loop for good while `cycleQueue` goes on.
- **`core_full`**: when the queue has reached its limit the acceptor waits for an
  event that the workers never notify; the server accepts nothing more until it is
  stopped or updated, with an empty queue.
- **`life_one`**: `--start` is meant to refuse when a server of the name runs; the
  check and the registration are two critical sections (and without a mutex the
  first one is none), so that two starts at once both serve.
- **`life_dies`**: the shared memory that `--start` creates has the size 0, and the
  write of the pid kills the process with the semaphore taken; a later start without
  `--force` waits for ever.

## 6. Proofs

Assumptions, in `ServerCore.tla`: `Workers` is finite, not empty, and does not
contain the names of the other two threads; `Conns` is finite and `NoConn` is not in
it; the limit is a positive number and the bounds are numbers.  Both invariants were
first checked by TLC as invariants of `core_safety`.

**`ServerCoreProofs`.**  `CoreInv` is inductive.  Its target is that
`threads_working_count` counts the workers between 730 and 789 (`WorkingCountsBusy`),
hence that the unsigned subtraction at 464 never wraps, and that no thread of the pool
lives when the modules are replaced or the server is torn down.  None of these is
inductive alone.  The count rests on the threads that exist being those of
`active_threads` (`LiveIsActive`), for only they can be busy; and the type of the queue
on the pop finding what the worker read (`PopsWhatItRead`), which rests on mutual
exclusion (`LockIsHeld`).  `CoreInit` is the base; `MainTypes`, `CycleTypes`,
`WorkerTypes` and `OtherTypes` prove the types for the steps of each thread, one step
per action; the lemmas whose names end in `Keeps` prove the other conjuncts, and
`CoreStep` puts them together.  Theorems: `CoreCorrect`, `TypeCorrect`,
`WorkingCorrect`, `UpdateQuiescent`, `TeardownCorrect`.

In the same module `EventInv` is inductive relative to `CoreInv`.  The join at
479 waits for workers that may sleep on `eventThreadCycle`, and nothing notifies it
there.  The argument that at most one worker can be in that state: the event is
manual and never reset, so whoever blocks on it loaded the flag before the first
notification; before that no worker has gone past its wait, `threads_working_count` is
0, so the pool grows only from empty to one; and while that one sleeps the count cannot
equal the size of the pool, so no other is made (`FirstNotification`).  The update
event and `eventNotFullQueue` need only their own small invariants (`UpdateIsOwed`,
`ClearOnlyInWait`).  Theorems: `EventsCorrect`, `SleeperAlone`, `UpdatesRequested`,
`AcceptsNotFull`.

**`PoolProofs`.**  `PlaceInv` is inductive relative to `CoreInv`: the six places a
connection can be in do not overlap (`Apart`) and hold all connections (`Together`),
nothing is twice in the queue and no two workers have one socket (`NoTwice`), and
`accept_sockets` is empty but between the accept and the last push
(`BatchIsPassedOn`).  Five actions move a connection (`Moves`) and each has a lemma
ending in `Moves`; all others leave the places as they are (`OthersMoveNone`).
`QueuePushed` and `QueuePopped` say what a push and a pop do to the set of the queue.
The refinement `PoolImplemented` maps every step to one of `ConnectionPool` or to a
stutter (`PoolStep`); the abstract pool serves no more connections than it has workers,
because a worker outside `Serving` leaves room for one more (`AWorkerIsLeft`).  Theorems: `PlacesCorrect`, `ConnectionsConserved`,
`PoolImplemented`.

**`ModuleUpdateProofs`.**  Assumptions, in `ModuleUpdate.tla`: no update path is a
library's or `"absent"`, sizes are numbers, there is at least one.  `UpdateInv` is
inductive: `FunctionsAreLoaded` and `RunningIsOnDisk` need that between the close and
the end of `updateModule` no application has a function of the library
(`DroppedWhileReplaced`), and that what was opened under the temporary name is what is
put in place (`OpenedIsPlaced`).  `AgeInv` is inductive relative to the types and
carries `NoNeedlessUnload`: a version is published once (`PublishedOnce`), a copy is as
large as its source and never older (`CopiesAreLater`), so that the comparison of 522 is
true only of another version (`UnloadIsDue`).  `MissInv` carries `UpdatedUnlessAlike`: a library
that was looked at is settled, which means that its applications run the new file or the new file looks
like the old one (`LookedIsSettled`); `updateModules` passes over an application only
when its library was looked at for another one (`NoneIsPassedOver`); and from the copy on
`updateModule` has the version of the update file in its hands (`NewIsTaken`).  Theorems:
`UpdateCorrect`, `NoDanglingFunctions`, `DiskAgrees`, `AgesCorrect`, `UpdatesOnce`,
`MissesCorrect`, `UpdatesAreDone`, `ModuleTypes`.

**`LifecycleProofs`.**  Assumptions, in `ServerLifecycle.tla`: no process is named as one
of the three other names, and the commands are the five.  `LockInv` is inductive and
carries `MutexExcludes` and `WaitsForAHolder`.  A holder is inside or died there
(`HoldersAreInside`), so an unlock posts what its process took; without interruptions a
semaphore is at most 1 and 0 while it is held (`HeldByOne`), so that nobody takes it
twice; and one that is 0 is held (`ZeroIsHeld`), with or without interruptions.  The
lemmas `LockUnmoved`, `LockOpened`, `LockTaken`, `LockPosted` and `LockSignalled` prove
these for the five things a step can do to the semaphore, and `LockStep` assigns each
action to one of them.  Theorems: `LockCorrect`, `LifecycleTypes`, `MutualExclusion`,
`WaitersWaitForAHolder`.

`NamesInv` is inductive relative to `LockInv` and carries the two properties about what
other commands find.  Who goes towards serving has passed the check
(`RunningHasPassed`); a name that exists is owed its removal by somebody who has not
ended of itself (`NamesAreOwed`); the names of a server that alone passed exist, and the memory has its
pid from the write on (`LoneServerNames`); only a `--force` removes names before the check (`ForcedOnly`).  A step
either leaves the names and a process on its way (`NamesUnmoved`), or checks them
(`CheckNames`), or makes or removes them (`MakerNames`).  Theorems: `NamesCorrect`,
`LoneServerFound`, `NamesRemoved`.

**`ParserProofs`** is about the pure functions of `FileRanges` and `RequestBody`.  A range
that ends inside the file gives the positions asked for, and so does one without
an end; one that ends at or behind the end of the file is announced with one position more
than there is; and no part is larger than that (`EndsInsideIsAsked`, `OpenRangeIsAsked`,
`PastTheEndIsOneMore`, `PartsFitTheFile`).  When all ranges of a header end inside the file, the
list has what was asked for, in its order, and the content length counts it (`RangesAreAsked`).
`MultipartIsParsed`: on every chunk that a receiver may be handed (`Parsable`) the loop of
`ParseMultipart` ends, because each of its turns raises `Place`, which the length of the chunk bounds, and it returns with the files
numbered one after the other, none open when the body is complete, and a delimiter in front of
what it wants to see again when it is not (`ParsedWell`).  One lemma to a case of the code's
switch, each of which keeps `LoopInv`.

**`ConnectionProofs`.**  Assumption, in `HttpConnection.tla`: `ConnectionAssumption`: the
sizes of the buffer and the blocks and the number of requests kept alive are positive, and the
scripts are sequences of requests.  Each of its invariants is inductive relative to those before it.

- `ConnInv`: the shapes of the records (`Shapes`), that the requests handled and those
  that may still come are `keep_alive_count` together (`Counted`), that an answer says what the
  parameters of the request are (`Announced`), and what a worker has released when it leaves a
  connection (`Released`).  Theorems: `ConnCorrect`, `AnnouncedIsKept`, `SocketsAreReleased`.
- `RecvInv`: the buffers hold units of the script (`Texted`); between two chunks the
  receiver holds what `parse` may be called with again (`Received`, by `MultipartIsParsed`); and the
  temporary files that exist are those of the request, from the `parse` that makes them
  to the return of the application (`Disked`).  They go because what the application is handed lists
  every file that was made, which is true of a body that was parsed to its end and not of one that
  was refused.  Theorems: `RecvCorrect`, `FilesRemoved`.
- `Typed` and `AnswerInv`: what was sent of a whole file, and what was sent and is
  left of the parts, is the answer that was promised (`WholeSent`, `PartsSent`), as long as nothing
  cuts it short, the file stays as it is and no range reaches its end.  Theorems:
  `AnswersCorrect`, `ConnectionTyped`, `FramesAreKept`, `AskedPartsAreSent`.
- `OrderInv` says where in the stream of the script the server stands.  A `Piece` is what the
  stream has between two places, and `Start` the place behind a number of requests.
  Between two requests `str_buf` is the piece from the next one on (`Rested`); behind the
  empty line the head is that of the next request (`Headed`); while a body is received, `str_buf` is
  empty and as much was taken as the receiver counts (`Bodied`).  Two things could make the server lose its place.
  The empty line it looks for might be another one; it is the first in the piece, which begins
  with a head.  And `left`, the rest that `parse` reports, replaces `str_buf`: it has to be
  0 at the end of a body.  So it has to be known of the *text* of a body that
  `--boundary--` ends it and stands nowhere before (`Bounded`, from `WellFramed`), and of what is in
  `data_buf` that it was drawn from that text in order and with nothing missing but what follows
  a zero byte in its chunk (`Drawn`).  That is enough because a chunk that was cut can bring the two units of a
  delimiter together only where they already are.  Theorems: `OrderCorrect`, `RequestsInOrder`.

**`BodyProofs`** proves that a body arrives as it was sent, wherever it is cut.  It
needs no further assumption.  The parsers come first, and no variable of the connection is in that part.
`Laid` says where the parts of a multipart body stand in its text, and that no boundary stands
in the content of one; `LaidExists` shows that the text of a framed body is laid out so.  `Where`
says for each of the parser's five states which part it is in and which parts were stored by then, and
`Within`, of an open part, that what was copied of it is the content behind its header (of a file, unless it went
bad).  Every case of the switch takes one such place to the next (`Stored`, one lemma to a case), and at the
end of the chunk to the place of what `parse` reports as left over (`ChunkParsed`).  A delimiter cut in two is
the difficult one: the parser leaves the last two units of a block for the next chunk, which so begins
in front of the delimiter (`MultipartChunksJoin`).  For forms and plain texts the same is said of pairs
(`Paired`, `AtPair`, `FieldChunksJoin`): only an `&` behind a whole pair ends one, because an escaped form has no
other, and an unfinished pair is left over.  That the process ends only in one place needs no more than the
shape of the chunk (`Careful`, `MultipartSurvives`).

`BodyInv` carries this through the connection and is inductive relative to `ConnInv`, `RecvInv`,
`AnswerInv` and `OrderInv`.  Between two chunks `data_buf` ends with what `parse` left over, that is the piece of
the body from the place where the parser stands to what was received (`Standing`); the next `recv` puts
its units behind it.  Behind the last chunk the place is the end of the text, so that what the application is handed is
everything (`Delivered`).  A complete body is refused only by a branch that looks at what it is (`RefusedWell`), a block of a
field goes on with a whole delimiter in the buffer (`Spared`), and no body is received on the
other ways to an answer (`Unread`).  Theorems: `MultipartChunksJoin`, `FieldChunksJoin`, `MultipartSurvives`,
`BodiesCorrect`, `BodiesAreWhole`, `WholeBodiesTaken`.

**`StartupProofs`.**  Assumptions, in `Startup.tla`: `StartupAssumption`: the bounds are
numbers and the dotted names are sequences; `PortsAssumption`: finitely many tokens are numbers, none of
them 0; `MachineAssumption`: the machine has one of the two byte orders, and the kernel picks ports (no proof uses it);
`ConfigsAssumption`: no word is a sign, a file is a sequence of statements, and there is a `main.conf`.  About the tree of applications alone: a name
without empty parts is found after it was added (`FoundWhenAdded`), and a host that is in the
tree keeps its application when another is added (`OthersAreKept`).  `StartInv` is inductive.  What is
in the tree is an application that was made (`TreeHoldsMade`), and a name leads to the application it
belongs to or to a later one of the same name (`NamesLead`), from which every host is found; hosts
with an empty part or a `*` are left out (`NoWildcard`), because `find` takes such a part for any
name.  The pairs of credentials belong to TLS ports (`PairsTyped`).  As long as no
application of an earlier run had a TLS port, a port that listens has a pair that was not freed
(`PairsFresh`), and if none has two of them, no two ports share a pair and none is freed twice
(`PairsApart`); without these two conditions both are false, as `CredentialsFitPorts`
says.  A listener has a real port that `BoundTo` allows and is there for a pair or for a plain port, and the
pairs of a first run are those of applications whose credentials it loaded (`PairsFit`): together with
`agreed` this gives both directions, and nothing is assumed of the conversion in `Socket::bind` but what
`SinPort` says.  Theorems: `StartCorrect`, `CredentialsFit`, `HostsFound`; the last is the second half of `ConfigurationIsKept`.

The first half, `TextIsKept`, is about the text, and the parser has no state of its own: it cuts off the
front of `text`, with `after` what follows the block.  So the invariant is about what is left.  `TextInv` says that
it is the text of a list of statements, white space in front, and that what was kept so far and
what these statements say is together what the configuration says (`LoadLeft` and `Kept`; in a block
`ServerLeft` and `KeptIn`, with the statements left of the block and those behind it).  One lemma for each action
takes it a step on.  A parameter, a comment or a block gives up one statement, an include puts those of its file in
front, and a comment that was found because of a brace in it leaves an empty line, which counts as a statement that
says nothing (`Items`).  What makes a step hard is that a search runs over everything that is left: the
first `;` may belong to a parameter or to any comment in front of it, and a turn that begins at a comment must take it
for one whatever sign was found (`Marked`, `Mute`).  The block's end is where `Readable` is
needed: the first closing brace whose line does not begin with `#` is that of the block because of what a
block may hold (`Quiet`, `InBlock`), and stays it when an include is put in: what the code searches there
is the line of the include and the statements behind it joined (`Joined`), in which only a comment on the first
line of the file is no line of its own (`JoinedOpen`).
Theorem: `ConfigurationKept`.

Recursion is written as recursive functions throughout.  That such a function is there, and what its
values are, is proved by induction over a set of naturals (`NatSetInduction`, a
consequence of the well-foundedness of `<`): a theorem with an operator parameter cannot be
instantiated by the provers, but a set can.

Only model-checked: liveness (`QueuedIsTaken`, `UpdateIsTaken`, `StopEndsRun`, `ConnectionEnds`,
`LoadingEnds`), which is out of the prover's reach.

## 7. What is not modelled

HTTP/2, of which there is nothing at this commit but a header.  The functions of `Utils.cpp` other than
`urlDecode`: pure conversions.  Of the modelled components: the event
pointers, which a signal during `Server::clear` may find deleted, and the event that
`ServerControls::clear` forgets; two nested handlers, `accept` failing with anything but the end of
the queue, `List::receive` (no caller), an allocation or a thread creation that throws,
and an application that never returns.  In `ServerLifecycle`: the parsing of
arguments, two servers of different names, and a pid that is given to another process
of the same program; in `ModuleUpdate`: an application that throws in
`application_final`, which the code catches.
In `HttpConnection`: what the text of a request line and of the headers is parsed into, a
connection beside others (they share nothing but what `ServerCore` models), the rest of a TLS record that
GnuTLS keeps while the socket is polled (the receive then times out, which may happen at any time in the model),
and an application that writes to the socket or keeps it.
In `Startup`: the parameters that no property tells apart, and that the configured limit of threads is
looked for under a key that ends in a space (`server/Server.cpp:408`), which no configuration can have.
