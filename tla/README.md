# whispercast: TLA+ models, model checking and proofs

whispercast is a media streaming server in C++. `whisperlib` is its foundation
(threads, queues, event loop, connections, HTTP, RPC, logs and checkpoints),
`whisperstreamlib` holds the streaming elements and protocols, `whispercast`
the server. This directory models the parts whose correctness depends on
interleavings, callbacks, failures and crashes, checks them with TLC on small
instances, and proves the safety of eleven components for every size with TLAPS.

All paths below are relative to `src/`.

## 1. Inventory

The server is a few event-loop threads, each running a `net::Selector`, and
some helper threads behind queues (DNS, asynchronous files, the writer of the
state logs, thread pools). Everything a connection or a streaming element does
happens in callbacks of its selector; other threads reach it only by
`RunInSelectLoop`.

| Part | State | Operations | Interacts with | What is hard |
|---|---|---|---|---|
| Event loop, `whisperlib/net/base/selector.cc` | closure queue `to_run_`, `event_fd_`, `alarms_` / `reverse_alarms_`, `now_`, `should_end_` | Loop, RunInSelectLoop, RegisterAlarm, UnregisterAlarm, MakeLoopExit | everything | unlocked reads, lost wake-ups, callbacks that change what is being iterated, shutdown |
| Descriptor table, `whisperlib/net/base/selector_base.cc` and Register/Unregister/UpdateDesire | `fds_`, `fd_data_`, `indices_to_compact_`, `registered_` | Add, Update, Delete, Compact, LoopStep | event loop, connections | descriptor numbers reused inside a batch, lazy compaction |
| Bounded queue, `whisperlib/common/sync/producer_consumer_queue.h` | deque, two condition variables | Put, Get (blocking, timed, immediate) | thread pool, DNS, files, state keeper | signals lost or stolen, spurious wake-ups |
| Thread pool, `whisperlib/common/sync/thread_pool.cc` | jobs, threads | Start, Stop, Stop(true), ThreadRun | queue | one NULL job has to end every worker |
| DNS resolver, `whisperlib/net/base/dns_resolver.cc` | query queue, query map, cache, one solver thread | DnsResolve, DnsCancel, Start, Stop | queue, selector, connections | cancelled and deleted queries, lock held while waiting |
| TCP connection, `whisperlib/net/base/connection.cc` | state, descriptor, buffers, timeouts, DNS query | Connect, Wrap, Write, FlushAndClose, ForceClose, Handle{Read,Write,Error}Event | selector, DNS, application handlers | re-entrancy, half-closed peers, late answers |
| Durable state, `whisperlib/common/io/checkpoint`, `common/io/logio` | map in memory, log files, checkpoint files, writer thread | SetValue, DeleteValue, DeletePrefix, transactions, Checkpoint, Initialize | queue, disk | crash at any point, failed writes, removal of old files |
| HTTP client, `net/http/http_client_protocol.cc`, with `net/base/timeouter.cc` | waiting and active requests, callbacks, the reply being read, timeouts | SendRequest, Clear, the connection's handlers, timeouts | TCP connection, selector | late and partial replies, completion on every path |
| Fail-safe HTTP client, `net/http/failsafe_http_client.cc` | clients, queue of requests without a server | StartRequest, completion, the requeue alarm | HTTP clients | completions that nest, retries, an endless loop |
| HTTP server, `net/http/http_server_protocol.cc` | connection, requests, the one received and the one sent, timers | ProcessMoreData, replies, streams, closing | TCP connection, handlers | deferred deletions, handlers that outlive the connection |
| RPC client, `net/rpc/lib/client` | callbacks by transaction, timeouts, open state, send queue | Query, AsyncQuery, CancelQuery, CancelAllQueries, Open, Shutdown | any thread, selector | callback against cancel, lock held while waiting, late handshake |
| Switching element, `whisperstreamlib/elements/standard_library/switching`, `base/tag_distributor.h`, `base/bootstrapper.cc`, the on-command policy | current media, alarms, clients and the sources open for each | AddRequest, RemoveRequest, ProcessTag, SwitchCurrentMedia, Close | policy, mapper, upstream | nesting of sources across switches, closing while things still come |
| File element, `elements/standard_library/aio_file`, `common/io/file/buffer_manager.cc`, `aio_file.cc` | readers, shared buffers, reads under way | AddRequest, RemoveRequest, Pause, Seek, reads, Close | disk threads, clients | buffers shared by readers that leave, seek and fail |
| Alarm, `common/base/alarm.cc` | one alarm over the selector's | Set, Start, Stop, Clear, Fire | event loop | callbacks that stop or replace their own alarm |
| Cache, `common/base/cache.h` | three indexes over the items | Add, Get, Del, Clear, expiry | DNS resolver, elements | the indexes may disagree |
| RTMP, RTSP, formats, statistics, the server program | decoded messages, files | | | mostly byte work and wiring |

`PROJECT.json` lists these parts with their status and, under `hazards`, the
places where this code can go wrong in a way a test hardly reaches, each with
the properties that cover it.

## 2. Modules and the code

| Module | Models |
|---|---|
| `Selector` | the loop thread step by step, posters, callbacks, alarms, time, shutdown |
| `SelectorBase` | the descriptor table (poll(2) build), registration, one batch of events with handlers that open and close |
| `SelectorProof` | theorems about `Selector` and `SelectorBase` |
| `ProducerConsumerQueue` | the queue; `ThreadPool` extends it |
| `ThreadPool` | workers, the owner's Start and Stop, producers |
| `ThreadPoolProof` | theorems about `ProducerConsumerQueue` and `ThreadPool` |
| `DnsService` | abstract: what the resolver promises to a result handler |
| `DnsResolver` | the resolver; refines `DnsService` |
| `TcpConnection` | one connection, its loop, the application's handlers, the peer; uses `DnsService` (INSTANCE) as its resolver |
| `TcpConnectionProof` | theorems about `TcpConnection` |
| `RecordLog` | blocks, files and records of the logs, as operators |
| `StateKeeper` | the map, the writer thread, checkpoints, crash and restart |
| `HttpClient` | one client connection with its requests, timeouts and a server that answers in any order |
| `FailSafeClient` | several clients, seen through what `HttpClient` promises, with retries and the queue |
| `HttpClientProof` | theorems about `FailSafeClient` and `HttpClient` |
| `HttpServer` | one server connection with its requests, replies, streams and the handlers |
| `HttpServerProof` | theorems about `HttpServer` |
| `RpcClient` | the threads that call, the selector thread, the connection |
| `RpcClientProof` | theorems about `RpcClient` |
| `SwitchingElement` | the element with its distributor, bootstrapper, alarms, policy, and its removal by the mapper |
| `SwitchingElementProof` | theorems about `SwitchingElement` |
| `BufferManager` | the pool of file buffers, as operators on a pool; `AioFileElement` extends it |
| `AioFileElement` | the element, its readers, their clients, reads that complete in any order |
| `AsyncProof` | theorems about `DnsResolver`, its refinement of `DnsService` among them, and about `AioFileElement` with `BufferManager` |
| `MC*` | instances for TLC: symmetry sets and values that a configuration cannot write |

How the modules follow the code:

* **Selector.** `pc` is the place of the loop thread between two points where
  another thread or a callback can matter: `top` (the unlocked read of
  `to_run_` and the computation of the sleep), `poll` (LoopStep), `events`,
  `drain`/`pop`/`closure` (RunClosures), `alarms`/`alarm`, then the shutdown
  `closing` … `ended`. RunInSelectLoop is two steps, the push under the mutex
  and SendWakeSignal. While a callback runs (`UserCode`), every call of the
  class may be made, any number of times. A failed CHECK is the state
  `aborted`. `posted` and `ran` are histories. Time is `clock`; `now_` is the
  value the loop caches. Closures may be posted again and again, and alarms may
  register alarms that are due at once.
* **SelectorBase.** `fds_` keeps its real layout, compaction included, for any
  number of closes between two polls; the kernel may hand out any free number.
  Compact's CHECK is a step to `aborted`.
* **ProducerConsumerQueue.** A call is an invocation and one or more turns
  inside the mutex; sleepers are the sets `cond_full_`, `cond_empty_`; a timed
  wait may end at any time, a signal wakes any one sleeper, and wake-ups may be
  spurious. GetAll and Clear have no caller in the repository and are left out.
* **DnsResolver.** Resolve is split where it takes the mutex, waits in Put and
  enters the map; the solver where it reads the query without and then with
  the mutex. A query is named by the number of its allocation. A Cancel that
  finds an entry of a deleted query writes into freed memory: it sets
  `corrupted`, and may clear the handler of any query that lives there now.
* **TcpConnection.** `stack` holds the application handlers that are running,
  `todo` the part of the event the loop has still to dispatch: a handler may
  write, flush or close in the middle of an event. `Situations` names what may
  happen beyond ordinary use; see section 3.
* **StateKeeper.** A change is named by its number and the map is the sequence
  of changes it has seen, so "which changes survived, in which order" is
  visible without keys and values. `writer` is the place of the writer thread;
  `logs` and `checkpoints` are the disk. A crash may come at any step and in
  the middle of a write, after any number of whole blocks (the truncation in
  OpenNextLog removes a partial one). A write may fail before its first byte,
  within a block or between two (`Failures`): File::Write works in 512-byte
  chunks, nothing is truncated, and buf_ is kept. A file cut within a block is
  `"bad"`, and every later write to it is refused until a restart; between
  blocks, the retry writes again what is there already. OpenNextLog may fail
  (`"closed"`), and a record refused is in `dropped`. BeginCheckpoint may find
  that it cannot open its file; AddRecord's failure leaves that file open and the
  next BeginCheckpoint aborts, as in the code.
* **HttpClient.** An action is one event of the loop with every call it makes.
  A reply travels in two pieces and a read finds any number of those that have
  arrived; one read event parses one reply at most. A request's `answer` is the
  request whose reply was parsed into it. The name of the server is resolved
  before the connection exists, and a SendRequest may come meanwhile. Requests
  with and without a timeout (`Untimed`) share the line. A failed CHECK is the
  state `failed`.
* **FailSafeClient.** The completions nest; `work` is the stack of calls that
  are still to be made before the event is over. A client is what HttpClient
  promises: every request given to it is completed once. Clients connect, fail
  and open again. The inner loop of RequeuePending is a step of its own
  (`MoveOthers`), with its timeout branch, which completes the front request
  again and again without popping it (the model follows it for two completions
  and `MaxQueue` places); `Spinning` says that the loop does not end. The
  destructor may fail the CHECK_NE of its clients (`DestroyFails`).
* **HttpServer.** The calls nest and call back (a reply may close the
  connection, which wakes the handlers, which reply), so the state is one
  record, every function of the code is an operator from records to records,
  and an action is one event. `obj` says of each request whether it is alive,
  waiting to be deleted by the loop, or freed. The handlers are the ones of the
  streaming server (`whispercast/stream_request.cc`, and the upload importer).
* **RpcClient.** The selector's turn is one step except for what it does under
  the mutex and for the callbacks it runs. `mutex` is held from one step to the
  next only by CancelAllQueries, the one call that waits with it locked. The
  destructor runs in the selector thread when no thread is in a call (`Destroy`),
  with its own Shutdown and its CHECKs.
* **SwitchingElement.** A turn of the loop is a function from states of the
  element to states. Clients are followed by the sources they were told of.
  Several alarms may go off in one round, with the closures that the first one
  posted still to be run, as in `Selector`; `late` remembers a registration in
  that situation. `Debug` is a build with its DCHECKs.
* **AioFileElement.** A turn is a stack of calls (`work`), because a tag sent to
  a client may come back as Pause or RemoveRequest before the call that sent it
  goes on. Every client may leave inside a tag, one that pauses included:
  `ClearedInAlarm` and `left` are what the code makes of it. The file is a
  sequence of tags, some to a block, after a tag with cue points. A reader
  deleted while its read is under way counts as a failed CHECK: the callback
  would find it gone.

## 3. Runs

| Run | Instance | States | Shows |
|---|---|---|---|
| `selector` | 2 posters, 2 closures, 2 alarms, timeouts 0 and 1, batches of 1, times 0..1, fair | 251,824 | no wake-up is lost, closures run in order and each one posted runs, no CHECK fails, every alarm that stays fires, but for alarms registered due at once for ever |
| `descriptor_table` | 3 objects, 3 numbers, table of 3, any number of closes between polls | 25,024 | table, index and desires agree up to the one abort that several closes bring about, events reach their descriptor only |
| `pool` | 2 workers, 1 producer, 4 jobs, 3 places, spurious wake-ups, fair | 218,050 | jobs run or are deleted once and none is left, Stop's CHECKs pass, nobody sleeps in vain, Stop returns |
| `dns` | 2 loops, 2 handlers, 4 calls, queue of 2, fair | 176,023 | the solver never touches a deleted query and a cancel finds its query, nobody is forgotten unless a stale entry was written through, the resolver implements DnsService, with its liveness up to the deadlock over the last place |
| `connection` | 2 chunks each way, close inside the read handler, fair | 6,912 | no CHECK fails, resources match the state, handlers in order, FlushAndClose and Connect end |
| `state_keeper` | 3 records, 3 checkpoints (2 kept), 2 blocks per file, 1 crash, 1 failed write or open, fair | 294,342 | every kept checkpoint leads to all flushed changes in order and to nothing uncommitted; orderly ends lose nothing that was taken; changes reach the disk until a file is cut within a block |
| `http_client` | 3 requests, one without a timeout, 2 at a time, 1 or 2 waiting, 3 sends, fair | 57,847 | a callback once per request, each gets its own reply, requests on the line end |
| `failsafe` | 2 requests, 2 servers, 4 retries, queue of up to 3, fair | 108,906 | a request is in one place until its completion ran, once, but for the one the loop spins on; every request ends unless the loop spins |
| `http_server` | 3 requests, one of them an upload, 1 handler at a time, fair | 1,298 | nothing dangles and no CHECK fails, idle connections are timed, waiting handlers are told, the protocol is deleted |
| `switching` | 2 clients, 2 media, sources nested twice, fair | 18,423 | sources nest for every client, the chosen media is not lost, no CHECK fails but in one order of alarms, closing completes |
| `aio` | 2 readers, 1 buffer, 3 tags in 2 blocks, 1 pause, 1 seek, clients that leave inside media tags, fair | 478,829 | one CHECK can fail and no other, buffers are accounted for, streams in order, readers and element end but for those left paused |
| `rpc` | 1 thread that calls, 1 that closes, 2 queries, 1 in the send queue, deletion, fair | 161,192 | a callback at most once and not after a cancel, no CHECK fails, every call, query and open ends |

**Why the bounds are enough.** Each instance is the smallest one in which the
case the property is about can happen, with one more of something: more closures
than a batch and more posters than one; more threads than places in the queue,
and more jobs than places; handlers on two loops with four calls, so that two
queries race for the last place with the solver at the mutex; an alarm due at
once beside one that waits; three closes between two polls; three checkpoints
with two kept so that a checkpoint and log files are removed; records that end
in the middle of the second block of a file; a queue of three, the two that are
pending and the one the loop appends again; more requests than the line takes
and one more than may wait; more readers than buffers and a file of more blocks
than buffers, so that a buffer is shared, given another key and missing; a
second client that is bootstrapped when the first one runs. Where a mutant
(`PROJECT.json`, "mutants") of the mapped code breaks a property, the instance
is large enough to see it.

**What the passing runs leave out on purpose.** They describe the use the code
supports. Each of the following is one constant of a configuration; the other
value describes behaviour the code also has, and TLC then finds the property
violated.

| Module | Constant | Left out | Violated |
|---|---|---|---|
| `Selector` | `PostsDuringExit = TRUE` | a thread posts while Loop() is past its last RunClosures; selector.h:108 calls it legal | `NoCheckFails` |
| `Selector` | `HighPrecision = TRUE` | the flag selector_high_alarm_precission: a negative sleep blocks without limit | `EveryAlarmFires` |
| `SelectorBase` | `ReopenInBatch = TRUE` | an object closed and opened again within a batch | `EventReachesItsDescriptor` |
| `ThreadPool` | `PutsDuringStop = TRUE` | a job put while Stop works | `RunOrDeletedOnce` |
| `DnsResolver` | `ReusesEarly = TRUE` | a handler asks again while an answer to its former query is posted | `QueriesAlive`, `ImplementsService` |
| `TcpConnection` | `Situations`: `late_close` | close with the DNS answer already posted | `NoCheckFails` |
| `TcpConnection` | `early_peer` | the peer half-closes before the connect is seen | `HandlersInOrder` |
| `TcpConnection` | `close_in_write`, `flush_early`, `no_register` | close inside the write handler; FlushAndClose while resolving; epoll refuses the descriptor | `NoCheckFails` |
| `TcpConnection` | `no_socket` | socket() fails after the name was resolved | `ResourcesMatchState` |
| `TcpConnection` | `connect_in_close` | the close handler calls Connect | `NoCheckFails` |
| `StateKeeper` | `Failures` with `"between"` | a write fails between two blocks and is retried: blocks are in the log twice | `Recoverable` |
| `HttpClient` | `MaxConcurrent = 1` | replies are read into the active request without a look at their id | `OwnReply` |
| `HttpServer` | `Pipelining = TRUE` | a second request while the first one is streamed | `NothingDangles` |
| `HttpServer` | `BadUploads = TRUE` | an upload that turns out malformed in the middle | `NothingDangles` |
| `SwitchingElement` | `Debug = TRUE` | the DCHECKs of the distributor, with clients that were told an EOS that was not forced (tag_distributor.h:213) | `NoCheckFails` |
| `AioFileElement` | `RemovesIn = {"eos"}` | a client leaves inside its EOS: the orphan is never cleared | `EveryReaderEnds` |
| `AioFileElement` | `RemovesIn = {"started"}` | a client leaves inside SourceStarted: tags go on | `StreamInOrder` |
| `AioFileElement` | `AddsWhenExhausted = TRUE` | a request added when no buffer is left | `NoCheckFails` |
| `RpcClient` | `CancelAllRaces = TRUE` | CancelAllQueries waits with the map locked while the selector needs the lock | `EveryCallEnds` |
| `RpcClient` | `ShutsWhileOpening = TRUE` | Shutdown and the destructor during an open return early: the caller is not signalled, and queued packets meet the destructor's CHECK | `EveryCallEnds`, `NoCheckFails` |
| `RpcClient` | `LateHandshake = TRUE` | the handshake completes after the open timeout | `NoCheckFails` |

**Statements with exceptions.** Where the code fails inside the instance that is
run, the property names the situation and holds everywhere else; the situations
are states of the runs, not excluded by them.

* `EveryAlarmFires` and `EveryClosureRuns` of `Selector`: up to a callback that,
  time and again, registers an alarm due at once. The loop does not leave
  selector.cc:195 then, and the property says that nothing else keeps it there.
* `TableConsistent` of `SelectorBase`: until Compact's CHECK (selector_base.cc:223)
  fails, which it does only when the last slot of the table was closed among
  others since the last poll (`LastSlotClosed`).
* `NobodyForgotten` of `DnsResolver`: up to `corrupted`, a Cancel through the stale
  map entry of a deleted query (dns_resolver.cc:135). `QueriesAlive` says that it
  takes a second Cancel of the same handler. The liveness of `ImplementsService`
  is up to `Deadlocked`: Put waits for a place with the mutex that the solver
  needs (dns_resolver.cc:126).
* `Recoverable` of `StateKeeper` excuses exactly the record that follows a torn
  one (`AfterTorn`, recordio.cc:314); `FlushedIsRead` is the statement without
  the excuse, and TLC finds it violated. `EventuallyDurable` and `CloseKeepsAll`:
  up to a file cut within a block (logio.cc:206, :229) and records refused
  because the next file could not be opened (logio.cc:250).
* `OnePlace` of `FailSafeClient` exempts the request at the front of the queue
  while RequeuePending goes round for ever (failsafe_http_client.cc:121): its
  timeout branch completes that request and leaves it in the queue, so it is
  completed twice. `EveryRequestEnds` is up to the same loop and to the
  destructor's CHECK (http_client_protocol.cc:823). `RequeueReturns` says that the
  loop ends; TLC finds it violated in the instance of the run.
* `CallbackOnce` and `ActiveEnds` of `HttpClient`: up to the CHECKs at
  http_client_protocol.cc:715 (a request that times out with half of its reply
  read), :823, and selector.cc:438 (a second SendRequest while the name is being
  resolved). `ActiveEnds` is about requests with a timeout.
* `MediaNotLost` of `SwitchingElement` is stated for elements that keep their
  media and whose registration is not refused: with `media_only_when_used_`, a
  last client that leaves while the registration is still an alarm makes the
  element forget what to play. `NoCheckFails` allows for `late`: one alarm posts
  ElementClosed, another one due in the same round registers again, and the
  element is deleted registered (switching_element.cc:417, :123).
* `NoCheckFails` of `AioFileElement` allows for `ClearedInAlarm`: an unpause alarm
  fires, the client leaves inside a tag, and the reader is deleted with its alarm
  firing (aio_file_element.cc:369, alarm.cc:50). `EveryReaderEnds` is up to that
  and to a client that is paused when it leaves (`left`, aio_file_element.cc:489).

**Deadlock** is checked in `connection`. The others may stop: loops, pools and
elements end, CHECKs abort, and the calls of bounded clients run out.

**Fairness.** Weak fairness of a thread's own next step: the operating system
schedules every thread (the loop, each worker, the solver, the writer, the
callers), and a thread that pushed goes on to signal. Time passes (`Tick`), and
the loop runs its closures and the timeouts that are due. Beyond that:

* `TcpConnection`: the network ends a connect attempt one way or the other,
  and polls that report an event and the linger timeout are strongly fair:
  epoll is level-triggered, and a timeout that is due fires in one of the
  loop's next rounds although other events come in between.
* `FailSafeClient`: the alarm, the clock, the end of a connect and a client's own
  end of a request (`HttpClient!ActiveEnds`) are strongly fair, because each is
  off while another event's calls are under way.
* `HttpServer`: TCP ends a connection that is being flushed, by the linger
  timeout of `TcpConnection`.
* `RpcClient`: the mutex is not kept for ever from the thread that waits for it
  in CancelQuery by those that come and go (strong fairness of `CancelPop`).
* `SwitchingElement`: a client whose connection was closed by a forced EOS
  takes itself out. `AioFileElement`: reads complete, a paused client resumes in
  the end, and one that was told EOS takes its request out. Both are what the
  request classes of the servers do.

Nothing is assumed of peers, of other threads' posting, of the application, of
policies or of crashes.

## 4. Proofs

Eleven components are proved safe for every value of their constants. A
hypothesis in the tables excludes one of the behaviours that the second table of
section 3 lists (where the code breaks its own promise); the runs exclude at
least as much. The exceptions that section 3 lists are part of the properties
and so of the theorems. (`SeveralAtOnce` also says that the two values of
`HttpClient` that stand for no request are none.) Nothing else is assumed but
the named assumptions of the modules: the types of the constants, distinct model
values, and that the sets of threads (`QueueAssumption`) and of clients
(`SwitchingAssumption`) are finite, as they are in a process.

| Module | Theorem | Statement | Hypothesis |
|---|---|---|---|
| `SelectorProof` | `TypeCorrect` | `[]TypeOK` | |
| | `NeverLosesAWakeup` | `[]NoLostWakeup` | |
| | `ClosuresInOrder` | `[]RunInPostOrder` | |
| | `AlarmIndexes` | `[]AlarmIndexesAgree` | |
| | `BoundedBatches` | `[]ClosuresPerIteration` | |
| | `NoAbort` | `[](~PostsDuringExit => NoCheckFails)` | |
| | `EventsReachTheirDescriptor` | `EventReachesItsDescriptor`, an action property | `~ReopenInBatch` |
| | `TableStaysConsistent` | `[]TableConsistent` |  |
| | `BaseTypeCorrect` | `[]BaseTypeOK` |  |
| `ThreadPoolProof` | `SleepersAreWoken` | `[]NobodySleepsInVain` | |
| | `JobsRunOrDeletedOnce` | `[]RunOrDeletedOnce` | `~PutsDuringStop` |
| | `TypeCorrect` | `[]PoolTypeOK` | `~PutsDuringStop` |
| `AsyncProof` | `QueriesStayAlive` | `[]QueriesAlive` | `~ReusesEarly` |
| | `NobodyIsForgotten` | `[]NobodyForgotten` | the same |
| | `ResolverRefinesService` | `Spec => Service!Spec` | the same |
| | `TypeCorrect` | `[]TypeOK` | the same |
| | `BuffersAreAccounted` | `[]BuffersAccounted` | |
| | `OnlyTwoChecksFail` | `[](NoCheckFails \/ Exhausted)` | |
| | `NoReadCheckFails` | `[](~AddsWhenExhausted => NoCheckFails)` | |
| `TcpConnectionProof` | `ResourcesFit` | `[]ResourcesMatchState` | `Tame`: no situation but `close_in_read`, `early_peer` |
| | `ChecksHold` | `[]NoCheckFails` | `Tame` |
| | `HandlersComeInOrder` | `[]HandlersInOrder` | `Orderly`: no situation but `close_in_read` |
| | `TypeCorrect` | `[]TypeOK` | `Tame` |
| `RpcClientProof` | `CalledOnce` | `[]CallbackOnce` | |
| | `ChecksHold` | `[](NoCheckFails \/ (ShutsWhileOpening /\ conn.deleted))` | `~LateHandshake` |
| | `TypeCorrect` | `[]TypeOK` | |
| `SwitchingElementProof` | `SourcesNest` | `[]WellNested` | |
| | `MediaKept` | `[]MediaNotLost` | |
| | `ChecksHold` | `[]NoCheckFails` | `~Debug` |
| | `TypeCorrect` | `[]TypeOK` | |
| `HttpClientProof` | `FailSafeTypeCorrect` | `[]FailSafeTypeOK` | |
| | `FailSafeOnePlace` | `[]OnePlace` | |
| | `ClientCallbackOnce` | `[]CallbackOnce` | |
| | `ClientOwnReply` | `[]OwnReply` | `SeveralAtOnce`: `MaxConcurrent > 1` |
| `HttpServerProof` | `ServerNothingDangles` | `[]NothingDangles` | `~Pipelining`, `~BadUploads` |
| | `ServerIdleIsTimed` | `[]IdleIsTimed` | the same |
| | `ServerReadyComes` | `[]ReadyComes` | the same |

Three modules prove about two components each and extend both, so `SelectorBase`,
`FailSafeClient` and `AioFileElement` have names of their own for what every
component has (`BaseSpec`, `FailSafeSpec`, `AioSpec`, ...).

Each rests on an inductive invariant, which TLC checked on the instance of the
run before it was proved. A proof has a lemma per action or per function of the
code; the last step is temporal logic.

* **Selector.** `Inv` is the conjunction of the properties with
  `ShutdownOrder`. `NoLostWakeup` is inductive with the types: the loop goes to
  `poll` with a sleep only when it read an empty queue, and from then on a push
  leaves its thread in `posting` until the descriptor is readable.
  `RunInPostOrder` needs two facts on sequences (`AppendConcat`,
  `HeadTailConcat`). `NoAbort` needs `AlarmIndexesAgree` and `ShutdownOrder`:
  the phases of the loop and of the shutdown do not mix, and after the last
  RunClosures nothing refills the queue.
* **SelectorBase.** Two invariants. `OwnerInv` says to whom an entry and an
  event belong; it survives every compaction, so the dispatch is right for any
  number of closes between two polls. `TableInv` adds, as long as nothing has
  failed, that entries and live slots lead to each other (`Linked`), that the
  holes are the slots to compact, never the wake-up's (`Holes`), and that the
  interest in writes is the object's (`Desires`), with any number of holes; once
  Compact's CHECK has failed, that the last slot was one of those closed.
* **ProducerConsumerQueue.** `NobodySleepsInVain` counts sleepers and signalled
  threads against elements and free places; it is inductive with the types, so
  the proof is arithmetic on cardinalities of finite sets.
* **ThreadPool.** `CallsMatch` ties the place of a thread to the call it has
  made to the queue, `JobsOnce` and `JobsKept` say where a job is (with its
  producer, in the queue, with a worker, run, deleted), `NullOnce` that there
  is one NULL job from Stop on, so that it follows every job in the queue.
* **DnsResolver.** `Places`: a query that is not deleted is with Resolve, in the
  queue or with the solver, and in one of them. `Mapped`: the map leads to a
  query of the handler, or to a deleted one, which then was cancelled. `Answers`:
  a handler has one query or one answer, and the answer is on its own loop.
  `Asked`, that who asked is served, holds up to `corrupted`. The refinement
  maps `pending` to the queries that still have their handler and `posted` to
  the closures of the loops; each of the resolver's actions is shown to be one
  step of the service or to leave both unchanged. A Cancel through a stale entry
  may be the service's Cancel of another handler.
* **TcpConnection.** `ConnInv`: `Dispatched` describes the handlers that can be
  running and the part of the event that is left, and which states of the
  connection go with them; `NoSocket` and `DnsOnce` do the same for kernel and
  resolver. With it the CHECKs in the middle of an event hold although a
  handler may have closed the connection. `OrderInv` adds what the application
  has been told in each state.
* **RpcClient.** `OnePlace`: the callback is in the map, on its way to be run,
  run or deleted. `CancelsOwn` is needed for the last part of `CallbackOnce`:
  who waits for the selector thread in CancelQuery has not found its callback.
  `OpenInOrder`: the open is the first closure, its callback lives until it
  ends, and there is no handshake without a connection. `Gone` and
  `OnlyDestroyFails`: after the destructor nothing runs, and the one CHECK that
  can fail is the destructor's, in the middle of an open.
* **SwitchingElement.** A turn is a function on states, and so is the
  invariant. `Core` holds between the functions a turn is made of: `Nested`
  (bootstrapper, upstream and clients agree), `Registration`, and `Closing`, the
  order of the closures of Close and the one place where an alarm can come
  between them (`late`). `Kept` holds between turns only.
* **FailSafeClient.** `FInv` counts where a request is (`FCounted`): with a
  server, in the queue, in the queue that RequeuePending has taken aside, in a
  frame of the stack of completions, or completed; the sum is one from
  StartRequest on. `FStack` is why nothing is lost when completions nest in
  RequeuePending: completions lie on top of its frame, and the queue taken aside
  is empty when it is not there. While the loop spins nothing but it goes on,
  and `FSafe` is `FInv` with the request at the front left out of the count. The
  lemmas count how often a sequence has an element of a set (`Hits`) under
  Append, Tail and concatenation.
* **HttpClient.** `CInv`: a request is waiting, active or in the loop's queue,
  in one of them at most, and was sent once more than its callback ran exactly
  when it is in one (`CPlaces`); ids are handed out upwards (`CIds`).
  `CReplies` is needed for `OwnReply`: every id on its way to the server, at it
  and back belongs to the request it was given to, or to nobody any more when
  that was sent again (`CNet`); the pieces of a reply come header first, and
  what is half read is the request of the next piece or is ignored (`CStream`).
  The hypothesis is needed: with one request at a time the code reads whatever
  comes into the active one.
* **HttpServer.** An event is a composition of functions from states to
  states. `HCore` holds before and after each event and each closure of the
  loop: one request is alive (`HOne`), who may point to it and who is told of
  its end (`HHeld`), the loop will delete what is doomed, each once and the
  protocol after CloseAllActiveRequests (`HPosted`), and what the end of the
  connection leaves (`HGone`). In the middle of an event it does not hold: there
  the lemmas say how the state a function returns differs from the one it was
  given (`Alike`, `Forgotten`, `Over`), through replies that close the
  connection, which wakes the handler, which replies. `HStream` relates the
  bytes under way to the requests: without pipelining they are of the last
  request the client sent, and they find it live and being read, or ended early.

* **AioFileElement.** `AioInv` has four layers. `Accounts`: a buffer counts the
  readers that hold it, one of them has the read of a buffer that is looked up,
  the others are in `done`, and keys are unique. `Turns`: a reader has one call
  on the stack to go on with, one posted answer or one read under way, or it
  waits for an alarm or its client, never two of these. `Ends` follows the
  element's own closing. The last part, `failed => Exhausted \/ ClearedInAlarm`,
  is the theorem about the CHECKs: each of them is shown to hold in the step that
  makes it, except AddRequest's and the alarm's own. The calls of a turn
  are a sequence, and the lemmas say when a call is in it (`In`) and that no two
  carry one reader on (`Lone`) under Tail and concatenation; that a buffer's
  clients are called in any order (`SetToSeqs`) needs only that each is called
  once. None of this depends on what clients do inside a tag.

Only model-checked:

* all liveness, and the fairness part of the refinement of `DnsService`: TLAPS
  does not handle fairness and ENABLED here;
* `Recoverable` of `StateKeeper`: what reading a log back returns is a fold
  over its pieces, and what it returns for every log needs induction over
  sequences, which the installed provers cannot do;
* `StreamInOrder` of `AioFileElement`;
* that the histories of `HttpClient` stay below the bound on its sends, a sum
  over the requests (`MaxSends` in its `TypeOK`); the proof has the types
  without that bound (`CTyped`). Likewise for the output buffer's bound in the
  `TypeOK` of `HttpServer` (`ServerState`).

## 5. Where code and comments disagree

Met while modelling; the first group can be seen with TLC by the constants and
definitions named in section 3, the second was read in the code only.

* `selector.cc:195`, `:244` and `:438`, `selector_base.cc:223`,
  `dns_resolver.cc:126` and `:135`, `connection.cc:965` and `:1116`,
  `logio.cc:229` and `:250`, `recordio.cc:314`, `http_client_protocol.cc:680`,
  `:715` and `:823`, `failsafe_http_client.cc:121`,
  `http_server_protocol.cc:819`, `switching_element.cc:409` and `:417`,
  `tag_distributor.h:213`, `aio_file_element.cc:369`, `:489`, `:876` and `:896`,
  `irpc_client_connection.cc:366`, `rpc_client_connection_tcp.cc:92`, `:169` and
  `:254`.
* `common/base/alarm.cc:129`: a repeating alarm stopped by its own callback is
  started again when the callback returns.
* `common/base/cache.h:243`: Clear leaves `items_by_exp_` with pointers to
  deleted items.
* `producer_consumer_queue.h:127`: GetAll and Clear free many places with a
  single signal.
* `selector.cc:246`: alarms due at the shutdown are erased, although the comment
  says "Run remaining alarms".
* `aio_file.cc`: the opcode of a batch is chosen by a comparison that every
  block type passes, so that writes would be issued as reads.
* `http_client_protocol.cc:749`: after a request timed out, the waiting ones
  are not written until the next reply or request.
* `irpc_client_connection.cc:363`: CancelAllQueries deletes the callback of a
  synchronous Query, which then waits for ever.

## 6. Not modelled, and the plan

Most of the tree is not state machines: media codecs and containers, header
and RPC codecs, the RPC compiler and what it generates, callback templates,
vendored libraries and the web front end. They are byte work, text or wiring,
which unit tests reach better than a model, and the models cover a small share
of the repository's lines for that reason. SSL follows OpenSSL's state machine.
The epoll build of `SelectorBase` keeps no table of its own. Of the modelled
parts, DetachFromFd of the HTTP server, the streaming HTTP clients, the other
policies and elements, and the disk threads of AioManager are left out.

Next, in this order:

1. Proofs: `StreamInOrder` of `AioFileElement`, over `AioInv`: where a reader's
   data comes from, and what its client has been told in each phase.
2. The callbacks managers of `whisperstreamlib/base`, which share one upstream
   request between clients; the load-balancing and time-shifting elements.
3. `Cache` (three indexes, Clear, expiry) and `Alarm` (callbacks that stop, set
   or clear their alarm) as modules of their own.
4. `TcpAcceptor` with the connections it hands to other loops; the disk threads
   of `AioManager` on `ProducerConsumerQueue`; the sessions of the RTMP server.
