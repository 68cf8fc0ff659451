# YTSvrLib: a TLA+ model of the server library

YTSvrLib is a C++ library for single-process game servers: one main thread that
runs every game handler, and a set of library threads (asio network threads,
timers, database workers, HTTP requests) that hand it messages through queues.
The modules here model the concurrent core of the library, check it with TLC on
small instances, and prove the main results with TLAPS for any instance. Paths
are relative to the repository.

## 1. The system

### 1.1 How the parts interact

```
 asio thread            main thread (CServerApplication::Run)        worker threads
 ----------             ------------------------------------         --------------
 ITCPBASE read/write    pops an event index, calls its Proc:          CMysqlDBClient
 handlers, acceptor,      CMessageQueue::MessageConsumer               (one per DB conn)
 UDP receive, KCP tick    CMYSQLManagerBase::OnDataReceive            CURLWriter
        |                 ITIMERHANDLER::CheckTimer                        |
        | AddNewMessage         |  Send / SafeClose / AddSQLRequest       | ParseResponse
        v                       v                                          v
   message queue ----SetEvent---> event list + semaphore <----SetEvent--- response queue
```

* A library thread never calls game code. It appends to a queue; if the queue
  was empty it calls the queue's `SetEvent`, which appends an event index to the
  application's list and, if that list was empty, posts a semaphore.
* The main thread waits on the semaphore, drains the event list, and each event
  drains one queue. Its handlers call back into the library: they send, close
  connections, add timers and database requests.
* Objects that cross threads (messages, connections, buffer blocks, requests)
  come from `CPool` free lists.

### 1.2 Inventory

| Component (source under `src/src/`) | State | Operations | What makes it correct | Hard part |
|---|---|---|---|---|
| Event loop: `CServerApplication` (`Service/Application.*`) | handler table, event list, semaphore | RegisterEvent, SetEvent, Run | no event waits for a sleeping main thread; a popped list is never empty | any thread signals, the signal is made after the lock is released, the size test is made outside it |
| Message queues: `CMessageQueue` (`Socket/MessageQueue.hpp`) | list of messages, pool | AddNewMessage, MessageConsumer | FIFO, once each, nothing stranded; other events not starved | empty-to-non-empty signalling, two levels of it |
| Semaphore, locks (`Service/SyncObj.*`) | count, mutex | Create, Lock(timeout), UnLock | tokens match what is listed | a post on a full semaphore |
| Object pool: `CPool` (`Service/Pool.h`) | free list, in-use flags, total | ApplyObj, ReclaimObj, growth and trimming | one user per object, trimming never deletes a live object, the count is right | the in-use test of ReclaimObj is outside the lock |
| Linked queue: `CWQueue` (`stl/wqueue.h`) | head, tail, length, nodes | push_front, push_back, pop_front, erase | implements a sequence | pointer surgery at the ends |
| Send buffer: `CSendBuffer` (`Socket/SendBuffer.*`) | block being sent, queue of blocks | AddBuffer, OnSend, Clear | bytes leave in the order they were accepted; the queue stays near its limit | limit test, blocks that cannot be allocated or queued |
| TCP connection: `ITCPBASE` (`Socket/TCPSocket/`) | socket, buffers, sending flag | DoRead, DoSend, Send, Close, OnError | one write in flight, no stalled data | main thread and asio thread share the socket and buffer |
| TCP server/client: `ITCPSERVER`, `ITCPCLIENT` | acceptor, connectors, connecting/connected flags | StartListen, onAccept, Connect, SafeClose, ProcessDisconnectEvent | one connect at a time, event order per connection, connectors released | stale completions, duplicated disconnects |
| asio thread: `IASIOTHREAD` (`Socket/YTSocketThread.*`) | m_bRun, io_service | CreateThread, StopThread, EventLoop | one loop per service | an exception of a handler ends the loop |
| Timer thread: `ITIMERTHREAD` (`Service/TimerThread.*`) | steady timer | CreateTimer, OnTimer | one tick re-armed per tick | ticks while the main thread is busy |
| Timers: `ITIMERHANDLER` (`Service/TimerHandler.*`) | near set, far list, high set | AddNewTimer, SetNewTimer, RemoveTimer, UpdateTimer, ArrangeTimer, CheckTimer | fires once, not early, in order; none forgotten | callbacks that add, move and remove timers; the near/far boundary moves |
| UDP/KCP: `IUDPSERVER`, `IUDPCLIENT` (`Socket/RUDP/UDPSocket.*`) | conversation map, control blocks | handshake, data, KCP tick, expiry | one control block per live connector | expiry while iterating, release without unmapping |
| WebSocket: `IWSSERVER`, `IWSCONNECTOR` (`Socket/WebSocket/`) | context map, send buffer | connect, close, receive, Send | one sender loop at a time | sends from any thread |
| HTTP server: `IHTTPSERVER` (`Socket/HTTPSocket/HTTPSocket.hpp`) | request queue | request, consume | each request answered | items never reclaimed |
| Worker threads: `CThread`, `CThreadPool` (`Service/YTThread.*`) | id, terminated flag | Start, Terminate, WaitFor, ShutDown | no use after delete | detached threads are joined |
| MySQL workers: `CMYSQLClient`, `CMYSQLDBSystem`, `CMYSQLManagerBase` (`mysql/`) | request queue, semaphore, retry count, response queue | AddSQLRequest, AddSyncSQLRequest, Execute, ParseResponse, OnDataReceive | each request answered once, in order per connection | retries, failures, shutdown |
| HTTP requests: `CURLWriter` (`urlwriter/`) | request queue, handle | AddURLRequest, Execute | each request called back once | never-ending loop, reused handle |
| Redis pool (`redis/RedisConnector*`) | connectors | connect, dispatch by key | key to connector is total | NULL key function |
| Log (`Service/Log.*`) | buffers, writer thread | write, flush, roll over | no record lost at shutdown | asynchronous writer |
| Weighted choice (`dice/dice.h`) | item list, sum | AddItem, GetRandom | each item in proportion to its weight | boundaries |
| Config, utilities, filter, performance counters (`Service/AutoCloseFile.*`, `Service/Utility.*`, `Filter/`, `Global/`) | | parsing, conversion | | pure data |
| Vendored: asio, websocketpp, SimpleWeb, KCP, protobuf, OpenSSL, jsoncpp, curl, lz4, zlib, iconv, tinyxml, mysql++, cpp_redis, JPS, md5/sha/base64, BugReport, XCPTHLR | | | | |

### 1.3 What is hard

* **Two levels of empty-to-non-empty signalling.** A producer signals a queue's
  event only if it found the queue empty; `SetEvent` posts the semaphore only if
  it found the event list empty. Both signals are made after the lock is
  released, and the main thread tests both lists without a lock. One wrong order
  anywhere and a message waits for ever, on an idle server, with no error.
* **One buffer, several senders.** `Send` may be called on any thread, the
  completion of a write runs on the asio thread, and `SafeClose` may come from a
  third. Who starts the next write is decided by whether the front block is set.
* **Objects that change hands.** A message is applied on one thread and reclaimed
  on another; a pool trims itself while others use it; the heap may fail half way
  through a growth step, between an object and the list node that is to hold it,
  and as an object comes back.
* **Retries.** A refused database request goes back to the front of a queue that
  two other parties use, and the decision to retry and the decision to report
  are taken in two functions.
* **Objects with a past.** A connection object is closed, released and given to
  the next session while aborted operations of the last one have still to
  complete, and their handlers know the object, not the socket.
* **Callbacks that change what is being walked.** `OnTimer` sets, moves and
  removes timers in the middle of the loop that called it, and the hour that
  decides where a timer is moves on.
* **Two ways into one connection.** A synchronous database request runs on the
  main thread, on the connection a worker uses.
* **Failures that are not told.** A block that gets no queue node is dropped, and
  `AddBuffer` returns TRUE; the message leaves with a hole in it.
* **Shutdown.** Waits that look at a queue and not at the worker; threads that are
  deleted while they run.

The file `PROJECT.json` lists each of these at its line, with the properties that
would catch it, or with the reason why none does yet.

## 2. Plan

### 2.1 Modules and order

| # | Module | Component | Composes | State |
|---|---|---|---|---|
| 1 | `ServerApplication` | event list, semaphore, `Run`, `SetEvent` | | done |
| 2 | `MessageQueue` | `CMessageQueue` and its consumer | extends 1 | done |
| 3 | `Executor` | abstract: what 1 and 2 promise together | refined by 2 | done |
| 4 | `ObjectPool`, `Allocator` | `CPool`; abstract: objects are lent to one user at a time | `ObjectPool` refines `Allocator` | done |
| 5 | `WQueue`, `Deque` | `CWQueue`; abstract: a double-ended queue | `WQueue` refines `Deque` | done |
| 6 | `TcpConnection`, `ByteStream` | `ITCPBASE` with `CSendBuffer`; abstract: a first in, first out channel of bytes | `TcpConnection` refines `ByteStream` | done |
| 7 | `MysqlSystem`, `RequestService` | database workers, requests and responses; abstract: one row of requests per connection | `MysqlSystem` refines `RequestService` | done |
| 8 | `TcpEndpoints` | `ITCPSERVER`, `ITCPCLIENT`: accept, connect, stale completions, release and reuse of connectors after DISCONNECT | 6, reduced to its reports | done |
| 9 | `TimerHandler`, `AlarmClock` | near set, far list, high set, callbacks that change timers; abstract: alarms that ring in order | `TimerHandler` refines `AlarmClock` | done |
| 10 | `Threads` | `CThread`, `CThreadPool`, `IASIOTHREAD` start and stop | | left |
| 11 | `UdpServer` | handshake, conversation map, expiry, release | | left |
| 12 | `UrlWriter`, `WSConnector` | request worker; send loop after a fatal error | | left |

The order is by how much of the library rests on a component: every handler runs
through 1 and 2, every object comes from 4, every buffer and request waits in 5.

10 to 12 are left: threads are started once and stopped at exit, and most of what
UDP, WebSocket and HTTP requests do is decided in vendored code.

Abstract specifications: the executor, the double-ended queue, the alarm clock, the
allocator, the byte stream and the request service. Each says what a component
promises its users without the threads, locks, lists, events and flags it is made
of. `TcpEndpoints` has none: what it promises is that ends are found and told, and
its properties say that directly.

### 2.2 Theorems

Done: the inductive invariants of 2 and 4 to 9, with the properties that follow
from them, and six refinements (section 6). Every invariant and every refinement the
runs check is proved; left is liveness, which the prover cannot do.

## 3. The modules and the code

In every module a critical section is one action, and everything the code reads
or writes outside a lock is an action of its own. Local control is a program
counter per thread (`pc`, `pcMain`, `pcSet`). Names of variables and actions are
the source's. Operators with a suffix, as `SetEventPush_TestAfterPush`, are
variants of the action below them with a plausible bug: putting one in the place
of the original must break a property, which keeps the properties honest. They
are not part of any specification.

### 3.1 `ServerApplication`, `MessageQueue`, `Executor`

`ServerApplication` is `CServerApplication` (`Service/Application.cpp`).
`ayEventHandle` is the handler table, `listEventQueue` the event list and
`semQueue` the semaphore's count. `SetEvent` is two actions: `SetEventPush`, the
locked append that decides whether to post, and `SetEventPost`, the post that
follows the unlock. `Run` is `RunWait` (the semaphore), `RunCheck` (the unlocked
`size()` test) and `RunPop`. `Create` leaves the count 0 on Windows and 1 on
POSIX (`SyncObj.cpp`), so the initial count is any member of `InitTokens`.

`MessageQueue` adds the queues. `AddNewMessage` is the locked append with the
emptiness test, and the beginning of `SetEvent`; `ConsumerCheck` is the unlocked
`empty()` at the head of `MessageConsumer`, `ConsumerTake` one locked pop,
`HandlerReturn` the end of the handler. While a handler runs, the main thread
itself may add messages, as a handler that closes a connection does. The counter
`nCount` with its limit of 128 is never incremented in the code, so its two
branches have no action.

`Executor` is what users of the library may rely on: messages of a queue are
handled once each, in order, one at a time, and the executor does not stop while
a message waits. It has no events, locks or semaphores. The refinement maps
`pending` to the queues and `running` to the message in hand.

Assumed of the host, as every host in `src/Sample` does: handlers are registered
before `Run`, by one thread, and at least one is. A second registration of an event
is refused (`CheckEventIndex`), as happens in the run. A message that cannot be allocated is dropped
by `AddNewMessage` with a log line; this is left out.

### 3.2 `ObjectPool`, `Allocator`

`CPool` (`Service/Pool.h`). Objects are addresses; `alive` is what the heap has
given and not got back, `out` what the program holds, `reclaiming[t]` the object
of a thread between the unlocked in-use test of `ReclaimObj` and its critical
section. `ApplyFromList` and `ApplyGrowing` are `ApplyObj`; `ReclaimLocked` clears
the flag, appends and trims.

The heap may fail at every allocation. A growth step makes `SIZE` objects, or as
many as the heap gives (`GrowthRuns`), and raises the count only when it was
complete. `push_back(Construct())` allocates twice: when the object is made and the
list node is not, `catch (...)` leaves the object in no list (`Unlisted`, `leaked`).
`ReclaimThrows` is the `push_back` of `ReclaimObj` that gets no node: the object is in
no list and the exception leaves with the lock held. `m_Lock` says who holds it after
that; the lock is recursive, so that thread goes on and all others wait. Critical
sections that end properly are one action and need no variable.

The program reclaims each object once: reclaiming one object twice, or by two
threads at once, is a caller's error, on which the model is silent.

`Allocator` is what users rely on: an object is idle, lent to one user, or on its way
back. The free list maps to the set `idle`, `out` to `lent`, the objects between the
test and the critical section of `ReclaimObj` to `returning`; the order of the list,
the flags, the count and the heap are not seen. `ApplyFromList` is a `Lend`,
`ApplyGrowing` a `Grow`, also of fewer than `SIZE` objects (of none, with none lost, it
is a stutter: `ApplyObj` gives NULL), `ReclaimTest` a `GiveBack`, which must not refuse,
`ReclaimLocked` a `Restock`, with or without the trimming, and `ReclaimThrows` a `Lose`.
What was lost (`gone`) never comes back and is lent to nobody.

### 3.3 `WQueue`, `Deque`

`CWQueue` (`stl/wqueue.h`): head, tail, length and the links of the nodes, each
operation one action because every user holds a lock around it (`Lock`/`UnLock`
of the queue, or `m_sendLock`). `erase` is split by where the value is:
`erase_head`, `erase_inner`; `WalksTo(v)` is the walk of its loop. A push that
gets no node changes nothing, so it is a stuttering step. `Deque` is the
sequence it promises. The mapping reads the values along the links
(`Chain`, `Contents`).

### 3.4 `TcpConnection`, `ByteStream`

`ITCPBASE` (`Socket/TCPSocket/TCPSocket.cpp`) and `CSendBuffer`
(`Socket/SendBuffer.cpp`), one session until it is closed. Bytes are numbered in
the order given, so "the right bytes, in order, once" can be said of `wire`.

| Code | Actions |
|---|---|
| `Send` | `SendTest` (socket test), `SendAppend` (the locked part: cut into blocks, queue, decide), then `DoSendTest`, `DoSendStart` if this call starts the write |
| `DoSend` | `DoSendTest`, `DoSendStart`: `m_Socket` is tested, then used |
| write handler | `WriteDone` (the locked `OnSend`: next block or none), `ClearSending` (after the lock), `WriteFailed` |
| `DoRead` and read handler | `ReadDone`, `DoRead`, `ReadFailed` |
| `SafeClose` | `SafeClose` (close), `Reset` (the pointer) |
| `OnError` | `Close`, `Report` (the pointer, and the DISCONNECT message) |
| `EventLoop` | `IoThrows`: an exception leaves a handler and ends the asio thread |

`SendAppend` covers the outcomes of `AddBuffer`: the queue full (the whole message is
refused), an allocation that fails after some blocks (the end of the message is
refused, and `Send` calls `OnError`), and all blocks allocated. Independently, each
block but one that becomes the front block needs a node of the queue, and one that
gets none is dropped while `AddBuffer` goes on and returns TRUE
(`SendBuffer.cpp:126`, `wqueue.h:104`): `Joining` chooses the blocks that do get one.
The ghosts `refused` and `lost` keep the two kinds of missing bytes apart.

Where the code would dereference a NULL `m_Socket` the model sets `crashed` and stops,
and so it does when an exception of a completion, as of a pool that gets no list node,
ends the asio thread. A read completion may be that of data which had arrived before
another thread closed the socket; a read started on a closed socket is *doomed* to
fail. The buffer is empty at first: `InitSvr` clears a connector's, and for a client,
whose `Connect` does not, the hosts do (`OnConnected`, `OnConnectFailed` and `OnClosed`
of the samples' `CServerSocket`).

`ByteStream` is what senders rely on: a channel of bytes, first in, first out, that
of a message given (`Give`) may refuse an end and lose parts, but not the byte that an
empty channel is given first, and that reports its end after it has ended. What was
refused or lost never leaves. The mapping forgets blocks and writes: `channel` is the
set of the bytes in the front block and the queue (`Unsent`), a message is in it as
soon as `SendAppend` has run, and `WriteDone` takes the bytes of one block from its
beginning (`Leave`). A block that was cut wrongly, put behind another one's, sent twice
or taken out again would be no step of it. The first step that closes the socket is
`End`; `Report` may come more than once.

### 3.5 `MysqlSystem`, `RequestService`

`CMYSQLDBSystem`, `CMYSQLClient` and `CMYSQLManagerBase` (`mysql/`). Requests are
numbered in the order the main thread makes them; `client[r]` is where
`GetClientHash` sent one.

| Code | Actions |
|---|---|
| `AddSQLRequest`, `RecvSQLRequest` | `AddSQLRequest` (locked append), `PostRequest` (semaphore, after the lock) |
| `AddSyncSQLRequest`, `RecvSyncSQLRequest` | `AddSyncSQLRequest`, `SyncLock`, then `SyncOk` or `SyncFail` |
| `Execute` | `StartConnect`, `ConnectEnds`, `WaitToken`, `PopRequest`, `LockRequest`, `ExecuteOk` or `ExecuteFail`, `Retry`, `Repost` |
| `ParseResponse` (worker) | `ParseResponse` (locked append), `SignalResponse` (`SetEvent`, after the lock) |
| `OnDataReceive` | `Dispatch`, `OnDataReceive` |
| shutdown | `WaitForAllDBReqIdle`, `WaitForAllDBRespIdle` |
| `Reset` | `Reset`; the worker disconnects in `StartConnect` and clears the flag in `ConnectEnds`, after a reconnect only (*reconnecting*) |

A query may be refused at any time (`BadQuery`), a connection attempt may fail at
any time. The database's data is left out. An event is a number of calls of
`OnDataReceive` to come: what happens between `SetEvent` and the call is
`MessageQueue`, which proves that such a call does come. The host makes requests
from its loop and from response handlers, on the main thread only, as the
samples do.

`RequestService` is what the host relies on: each connection works off one row of
requests, from its head; a request is tried until it succeeds or has been refused
`m_nRetryCount + 1` times, and its one outcome is queued and told. The mapping gives a
connection's row as the request in its worker's hands, if there is one, followed by
its queue (`Row`): taking a request out and putting it back for a retry change nothing
that the host could see, nor do tokens, events, locks, resets and reconnects.
`AddSQLRequest` is a `Submit`, `ExecuteOk` and `ExecuteFail` are a `Perform`,
`ParseResponse` an `Answer`, `OnDataReceive` a `Tell`. A synchronous request is a `Call`
that ends with one attempt and, since the code does not retry it (section 7), may end
with no outcome at all.

### 3.6 `TimerHandler`, `AlarmClock`

`ITIMERHANDLER` (`Service/TimerHandler.cpp`) and the tick of the host that derives
from it (`CTimerMgr::OnTimerCheckQueue`, `src/Sample/Sample/timer/TimerMgr.cpp`). All
of it runs on the main thread; what interleaves is the loops of the check with
what `OnTimer` does in the middle of them.

| Code | Actions |
|---|---|
| `SetNewTimer`, `AddNewTimer` | `SetNewTimer`; `Place` is the choice of container |
| `RemoveTimer` | `RemoveTimer`, for any pointer, also of a timer that has gone back to the pool; nothing when it is calling |
| `UpdateTimer` | `UpdateTimer`; a timer that is not in the list is added to it with its old end, as in the code, where the two sets return |
| `CheckHighTimer`, `CheckTimer` | `Fire` (a round up to `OnTimer`), `OnTimerReturns` (the release after it), `CheckHighTimerEnds`, `CheckTimerEnds` |
| `OnTimerCheckQueue` | `Tick` (the clock is read), the checks, `HourStep` with `ArrangeTimer` |

`held` maps each container to its timers. The sets are sorted by end, then
address; `First` is what `begin()` may be, so timers with the same end fire in
any order. Taking the first timer out of its set and putting it back, at the end of
the loops, changes nothing. The sample's test of the minute around that of the
hour is left out: `m_tNextMinute` never passes `m_tNextHour`, so it is passed
whenever the test of the hour is. No sample calls `CheckHighTimer`; the model calls
it first in a tick. The clock is the wall clock: it may jump ahead over several
hours, of which each tick makes up one, and it may be set back.

`AlarmClock` is what users may rely on: an alarm is off or has a level and an end,
it rings once, not before its end, and after all of its level that end earlier.
Across levels there is no order. The mapping reads level and end of the timers that
some container holds; the others are off.

### 3.7 `TcpEndpoints`

`ITCPSERVER` with its connectors and `ITCPCLIENTMGR` with its clients
(`Socket/TCPSocket/TCPSocket.cpp`). A manager has an asio thread and a message queue
of its own and shares nothing with others, so the module is one manager, of either
kind. `ops` counts, per endpoint, the operations that asio has still to complete:
on the socket the object holds *now*, and on sockets it held before (*old*). A
completion captures `this`, so an old one acts on the present session. `m_sendBuf`
holds the endpoints whose buffer has a block to send, which is what `Send` tests
before it starts a write; a buffer that was cleared while its write was in flight
makes the next `Send` start a second one.

| Code | Actions |
|---|---|
| read and write handlers | `OldReadOk`, `WriteOk`, `Fails`. Data on the present socket starts the next read and changes nothing here |
| `Connect` | `Connect`; its handler with `OnConnecting` is `ConnectOk`, `ConnectFails`, for a present or an old attempt |
| `onAccept`'s handler | `AcceptApply` (`AllocateConnector`), then `AcceptInit` or `AcceptInitThrows`; `AcceptRefused` when there is no connector: the handler returns and accepts no more |
| `SafeClose`, `Send` | `SafeClose`; `Send`, and `SendRefused`, which calls `OnError` on the main thread |
| `MessageConsumer`, `ProcessDisconnectEvent` | `HandleOpened`, `HandleConnectFailed`, `HandleDisconnect`, which releases a connector and closes a client |

The host is what the samples do: it calls `Connect` for a client it does not believe
connected, sends and closes what it believes connected, clears a client's send
buffer when it handles one of the client's messages, takes connectors from a
`CPool` and gives them back in `ReleaseConnector`. `Close` and `OnError` are one step
each here; the races inside them are `TcpConnection`. Where `DoRead` would
dereference a NULL `m_Socket` the model sets `crashed` and stops.

## 4. Runs

All bounds are constants of the configuration, named in the modules.

| Run | Checks | Bounds |
|---|---|---|
| `queue` | `TypeOK`, `NoLostWakeup`, `EventCovered`, `TokenCovered`, `PopFindsEvent`, `ImplementsExecutor` | main and two library threads, three queues of which two ask for the same event, one kind of message, at most 2 messages per queue and 3 listed events; 421 387 states |
| `queue_blocked` | violation of `NoQueueBlocked` | main and one thread |
| `pool` | `TypeOK`, `FlagMeansOut`, `NothingLostNothingDangling`, `FreeBounded`, `ImplementsAllocator` | three threads, growth step 2, a heap of 5 objects; 9 632 states |
| `pool_total` | violation of `TotalIsAlive` | the same |
| `wqueue` | `TypeOK`, `Linked`, `NodesOwned`, `ImplementsDeque` | four nodes, two values |
| `tcp_connection` | `TypeOK`, `OneWriteInFlight`, `NoStall`, `WireFaithful`, `QueueBounded`, `BufferDrains`, `EndIsReported`, `ImplementsStream` | two sending threads and the asio thread, three calls of `Send`, blocks of 2 bytes, messages of 1 and 3 bytes, queue limit 1; 503 127 states |
| `mysql` | `TypeOK`, `NoneLostNoneTwice`, `EnoughTokens`, `ResponseSignalled`, `OneQueryAtATime`, `EveryRequestHandled`, `ImplementsService` | two connections, two requests, one retry, one reset; 646 118 states |
| `mysql_sync_retry` | violation of `FailedMeansRetried` | one connection, one request, one retry |
| `mysql_idle` | violation of `IdleMeansIdle` | one connection, one request |
| `timers` | `TypeOK`, `FoundWhereSought`, `UsedMeansHeld`, `RingsInOrder`, `NoneForgotten` | three timers, an hour of 2, clock and ends in {0, 1, 2, 4}, one callback that sets a timer to a time already reached; 60 708 states |
| `tcp_endpoints` | `TypeOK`, `NoConnectorLost`, `ClientWillLearn`, `ClosedIsForgotten`, `ConnectEnds` | one connector or one client, a session begins with fewer than 4 old operations and 3 queued messages; 36 974 states |
| `tcp_client_twice` | violation of `NoDuplicateConnect` | the same, 3 old operations |

`OnePlace`, `NoneOvertaken` and `ErrorMeansExhausted` are in no run: the refinements
`ImplementsAllocator` and `ImplementsService` say as much and more (an object that is
idle is lent to one user; the head of a row is answered first; an error is the outcome
of exactly all tries), and all three are proved (section 6).

Why the bounds are enough for what they look for:

* **queue**: a lost wake-up takes two producers (one that finds the queue
  non-empty and so does not signal, one that did not signal yet) and a consumer
  that has just looked. Two messages per queue let the consumer loop, leave and
  meet a new first message. `SEM_VALUE_MAX = 2` makes the post on a full
  semaphore happen. Messages are all alike since the queues do not look inside.
  Deadlock is checked: the main thread with nothing to do still has producers.
* **pool**: growth step 2 makes the trim threshold 4 and its target 1, both
  reached with 5 objects; a growth step may fail at each of its allocations, and
  must where one address is left.
  The addresses are interchangeable, hence the symmetry.
* **wqueue**: four nodes give an erase at the head, inside and at the tail of
  lists of every length, each followed by pushes at both ends.
* **tcp_connection**: a message of 3 bytes is two blocks, so a message can be cut
  by an allocation failure, lose its first or its second block behind a block that is
  being written, and be interleaved with another; with limit 1 the queue holds two
  blocks before a message is refused. Deadlock is not
  checked: a closed connection stops.
* **mysql**: two requests on one connection show order, on two connections show
  racing responses; one retry separates the first refusal from the last. Deadlock
  is not checked: the host ends.
* **timers**: three timers are a first one, one behind it and one that `OnTimer`
  sets, moves or removes meanwhile. The times lie in three hours: 0 and 1 in the
  one that the clock may begin in, 2 on the boundary, 4 on the next, so that the
  clock can jump over an hour and back.
* **tcp_endpoints**: sessions of different objects meet only in the queue, which
  the order of messages of one object does not depend on; what is looked for are
  sessions of *one* object. With up to 3 operations left over and 2 messages
  queued at the beginning of a session, a read and a write of the last session fail
  into the next one, and both reports of a session reach later ones. Only the
  beginning of a session is bounded: what is outstanding may go beyond the bound.
  Deadlock is not checked: a server that accepts no more, or has crashed, stops.

## 5. Fairness

Liveness is checked under these assumptions and no others.

* `MessageQueue`: weak fairness of the main thread's loop and consumer, and of
  each thread inside `SetEvent`. These are plain code between blocking points,
  which the operating system's scheduler runs. Nothing obliges a host to register,
  to enter `Run` or to add messages. A handler returns.
* `TcpConnection`: weak fairness of a thread inside a library call; the read on a
  closed socket completes (asio completes aborted operations); *strong* fairness of
  the completion of a write, because asio runs completions in the order they
  arrive, so that a stream of arriving data cannot hold a write's completion back
  for ever. Data may never arrive, and nobody need call `Send` or `SafeClose`. An
  exception may end the asio thread at any completion (`crashed`), and then nothing
  is promised.
* `MysqlSystem`: weak fairness of the main thread inside a request or a handler, of
  each worker, and of its wait for a token; strong fairness of a successful
  connection attempt, which says that a database that is asked again and again
  accepts in the end. A query ends, with a result or refused. Without the last
  two no request need ever be answered, and the code promises nothing else.
  Resets are bounded (`MaxResets`), so that they cannot keep a worker busy for ever.
* `TimerHandler`: weak fairness of the tick, whose event is handled again and again
  (`ImplementsExecutor`), of the loops, and of the return of `OnTimer`. A callback
  that sets a timer to a time already reached adds a round to the loop it runs in,
  and one that always does so keeps `CheckTimer` from ending, in the code as in the
  model; `MaxLate` bounds such calls. Handlers between ticks are not bounded.
* `TcpEndpoints`: weak fairness of the main thread's handling of messages and of the
  accept handler that has its connector; strong fairness of the completion of old
  reads, since asio runs handlers in the order of completion and operations of a
  closed socket are complete; weak fairness of the end of connection attempts,
  which time out at last. Nobody need call `Connect`, `Send` or `SafeClose`, no
  peer need send or close, and a read on an open socket need never complete.

## 6. Proofs

TLAPS checks, for every value of the constants that the named assumptions allow:

| Module | Theorem | States |
|---|---|---|
| `MessageQueueProofs` | `TypeCorrect` | `Spec => []TypeOK` |
| | `NoMessageStranded` | `Spec => []NoLostWakeup` |
| | `PopIsSafe` | `Spec => []PopFindsEvent` |
| | `EveryQueueCovered`, `EveryEventHasToken` | `Spec => []EventCovered`, `Spec => []TokenCovered` |
| | `QueuesRefineExecutor` | `Spec` implements the safety part of `Executor` |
| `ObjectPoolProofs` | `TypeCorrect`, `OneUserPerObject`, `FlagIsRight`, `OnlyAFailedNodeLoses` | the four parts of the invariant, any heap, wherever it fails, any number of threads |
| | `IdleStockBounded` | `Spec => []FreeBounded` |
| | `PoolIsAllocator` | `Spec => ImplementsAllocator` |
| `WQueueProofs` | `TypeCorrect`, `AlwaysLinked`, `AlwaysNodesOwned` | the parts of the invariant, any set of nodes |
| | `WQueueIsDeque` | `Spec => ImplementsDeque` |
| `TcpConnectionProofs` | `TypeCorrect`, `NeverTwoWrites`, `OneWriter`, `NeverStalls`, `NothingOvertakes` | the parts of the invariant, any number of sending threads, block size and queue limit |
| | `BytesInOrder`, `QueueStaysBounded` | `Spec => []WireFaithful`, `Spec => []QueueBounded` |
| | `ConnectionIsStream` | `Spec => ImplementsStream` |
| `TimerHandlerProofs` | `TypeCorrect`, `NeverMissed`, `PoolIsRight` | the parts of the invariant, any set of timers, any clock, any hour |
| | `HandlerIsAlarmClock` | `Spec => RingsInOrder` |
| `TcpEndpointsProofs` | `TypeCorrect`, `ConnectorsComeBack`, `ClientsLearn` | the parts of the invariant, any number of connectors and clients, any bounds |
| `MysqlProofs` | `TypeCorrect`, `RequestsAccounted`, `AnswersInOrder` | `TypeOK`, `NoneLostNoneTwice`, `NoneOvertaken`, any number of connections, requests, retries and resets |
| | `RequestsHaveTokens`, `ResponsesAnnounced` | `Spec => []EnoughTokens`, `Spec => []ResponseSignalled` |
| | `ErrorsAfterRetries`, `ConnectionExclusive` | `Spec => []ErrorMeansExhausted`, `Spec => []OneQueryAtATime` |
| | `WorkersAreService` | `Spec => ImplementsService` |

Assumptions: `ApplicationAssumption`, `QueueAssumption`, `PoolAssumption`,
`WQueueAssumption`, `ConnectionAssumption`, `TimerAssumption`,
`EndpointAssumption`, `MysqlAssumption`. They say that bounds are natural
numbers, that NULL is none of the objects, that there is a database connection,
that no connector is a client, that an hour is not empty, that the main or asio
thread is a thread, and that `size_t` counts beyond two growth steps. TLC
evaluates them.

**The message queues.** `NoLostWakeup` speaks of the state in which the main
thread sleeps and is not inductive: it has to be known how a queue's message
leads to a token. `IInv` says it in two links, one per level of signalling:
`EventCovered` (a non-empty queue is being signalled, has its event in the list,
or is being drained) and `TokenCovered` (a non-empty event list has a token,
somebody about to post one, or an awake main thread). The step that needs care
is the consumer that leaves: it does so only after it has seen its own queue
empty, and then nothing is owed to that queue. `OnlyRegistered` excludes events
of other queues in the handler table, and `QuietBeforeRun` and
`ItemWhileHandling` tie the program counter to the data. The refinement follows:
an append is `Enqueue`, `ConsumerTake` is `Start`, `HandlerReturn` is `Finish`,
all other steps leave the two mapped variables alone.

**The pool.** The invariant is the four properties together. Without
`FlagMeansOut` the test in `ReclaimObj` might refuse an object for ever, and without
`OnePlace` a trim might delete an object that the list names twice. The lemmas are
about what happens to the set of a sequence's elements when it is appended to,
cut at the front and cut at the back. `FreeBounded` is a second, simpler induction
on top of it: a growth step gives at most `SIZE`, taking shortens, trimming cuts.
The refinement needs nothing more, but sizes: `Allocator` counts a set where the code
counts a list, so `DistinctCount` says that a list without repetitions has as many
elements as its set (the list itself is a bijection from its indices).
`FlagMeansOut` is what makes a step of `ApplyFromList` lend the *first* object of the
list, and a `ReclaimTest` give back rather than drop.

**The linked queue.** The invariant says that *some* sequence of nodes is a walk
from the head along the links, ends at the tail and owns its nodes; `RepIsChain`
shows that it is unique, so each operation can be proved by giving the new walk:
prepend, append, drop the first, leave out the i-th.

**The connection.** The right to start a write is a token that nobody stores: a
sender has it when it found the front block unset, the write handler when it has
put a next block there. `WriterRight` says that at most one party is between the
decision and the write and that the front block is set meanwhile, so that no
second sender can get it; `OneWriteInFlight`, `NoStall` and `FrontFirst` close the
induction. `FrontFirst` (the queue is used only behind a front block) is what the
code relies on when it tests the front block alone.

It is also half of why bytes keep their order. `RowInv` says of the blocks in the buffer,
the front block first, that they are runs of consecutive numbers, that each ends before
*every* later one begins, and that all lie in `1..given`. It says so of every pair, not
of neighbours: that the first block lies before all others is what makes it the
beginning of the channel. Lost blocks do not disturb it, since a choice in ascending
order from a row is a row (`PickRow`); it is preserved by putting what joins of a
message at the end (`RowConcat`) and by taking off the first (`RowTail`). `EndedFirst`
(a thread about to reset the pointer or to report has closed the socket) makes `End`
come before `Report`. Then a `SendAppend` is a `Give`, and a `WriteDone` the `Leave` of
the front block's numbers, which needs `OneWriteInFlight`.

`WireFaithful` then needs nothing of threads and blocks: `StreamFaithful` shows that the
steps of `ByteStream` keep it, and the connection takes only those. `QueueStaysBounded`
is a separate induction: only a `SendAppend` lengthens the queue, it does so by the
blocks of one message at most, and the full queue is tested before.

**The timers.** `FoundWhereSought` is the heart: every container holds only timers
whose level and end lead there. It is what makes the search of `RemoveTimer` exact
and, for the refinement, what makes the first of the near set the first of *all*
normal timers: whatever is in the far list ends no earlier than the hour, and
whatever is in the near set ends before it. The hour step preserves it because
`ArrangeTimer` runs in the same call as the move of the hour. It needs
`UsedMeansHeld`: a timer set by a callback must be in no container yet, and the
one released after `OnTimer` must be the one called. In the refinement a move of a
timer to an unchanged place is a `Change`, `Fire` a `Ring`, `OnTimerReturns` a
`RingingEnds`, `Tick` a `ReadClock`, and the ends of the loops, the hour step
included, leave the alarms alone.

**The endpoints.** A session's end is found by its reads. `NoConnectorLost` says
that a connector in use has a read outstanding, of whichever session, or its
DISCONNECT queued; `ClientWillLearn` says the same of a client from every CONNECTED
message on, in the order of the queue. They are inductive together with `TypeOK`,
whose last part ties operations to open sockets. Lemmas count what starting,
completing and closing does to an endpoint's operations, and what appending to and
taking from the queue does to "follows"; `Quiet` and the *aside* lemmas reduce each
action to the endpoint it is about. Strikingly the argument needs no distinction of
sessions: a stale completion that closes the new session also reports it, and a
second DISCONNECT that releases a connector in its next session leaves it released.

**The database workers.** Here the invariant is built in layers, each proved from
the ones before. `Base` says that a worker has a request exactly where it needs one,
and that its queue and its hands hold only requests routed to it; the token count
(`Tokens`), the event of the responses and the lock (`LockHeld`) need nothing more.
`Placed` is the heart: a client's queue ascends, its worker holds something earlier
than all of it, and its requests are exactly the queued, the held and the answered
ones. Order follows, because a request can be answered only when everything before it
has been, and so does the rule that nothing is twice, because an ascending queue
repeats nothing. A synchronous request, which the main thread puts among the answers
between two responses, is kept apart by `~async`. `Counts` comes last: until its end
is known a request was refused as often as it was retried, and once more while its
worker puts it back; that only the worker's own request changes is `Placed` again.

The refinement adds `Decision`: a worker about to answer holds a request whose outcome
is known, which `Answer` requires. With `Placed` an outcome of one worker is never
another one's, and with `Counts` the refusal that reports the error is exactly the
last of `m_nRetryCount + 1`, so that `ExecuteFail` is a `Perform` in both its branches.
`PopRequest` and `Retry` leave `Row` as it is, which is the reason for putting a request
back at the *front*.

Each of the other proof modules has one lemma per action, then `InitIInv`, `NextIInv` and
`InvariantHolds`, from which the theorems above follow.

**Only model-checked**: all liveness (the fairness part of `ImplementsExecutor`,
`BufferDrains`, `EndIsReported`, `EveryRequestHandled`, `NoneForgotten`,
`ClosedIsForgotten`, `ConnectEnds`), which is out of the prover's reach.

## 7. Where code and comments disagree

1. `Socket/MessageQueue.hpp:110`. The comment at line 111 says that a queue
   leaves after 128 messages so as not to block others; `nCount` is never
   incremented. Run `queue_blocked`: a queue that is filled as fast as it is
   drained keeps the main thread, and the other queue's event is never taken.
2. `Service/Pool.h:135`. The comment at line 235 calls the count the number of
   objects the pool has allocated; after a growth step that fails half way it is
   smaller. Run `pool_total`.
3. `mysql/MYSQLDBClient.cpp:358`. `MYSQLDBSys.h:70` calls `nRetryCount` the number
   of times a failed command is retried. A synchronous request is run once; if it
   is refused while retries are left, its callback is not called either, and
   `AddSyncSQLRequest` returns TRUE. Run `mysql_sync_retry`. (With a retry count of
   0, the default, the callback does get the error.)
4. `mysql/MYSQLManagerBase.cpp:184`. The comment at line 183 says that
   `WaitForAllDBReqIdle` waits until all database threads have finished. It waits
   for empty queues; the request in a worker's hands is not in its queue. Run
   `mysql_idle`: the host exits with a response still to come, or with a request
   about to be put back for a retry.
5. `Socket/TCPSocket/TCPSocket.cpp:203`. The comment at line 204 says that while
   connecting a second connect is forbidden. The test is of `m_bIsConnecting`, which
   the handler of an aborted attempt clears (line 229) although the next attempt is
   under way. Run `tcp_client_twice`: `Connect`, `SafeClose`, `Connect`, the aborted
   handler, and a third `Connect` starts a second attempt on the same socket.

Also met, and described rather than claimed, because no comment or test promises
otherwise:

* `TcpConnection`: `m_Socket` may be reset by another thread between the test in
  `DoSend` and its use, and by a handler before the read handler goes on to
  `DoRead`. The steps are in the model as `crashed`.
* `TcpConnection`: a block for which the queue has no node is dropped, and
  `AddBuffer` returns TRUE (`SendBuffer.cpp:126`): the message leaves with a hole in it,
  on a connection that stays open (`lost`).
* `ObjectPool`: an object whose list node cannot be allocated is leaked (`Pool.h:133`
  as it is made, 206 as it comes back), and in `ReclaimObj` the exception leaves with
  `m_Lock` held, after which every other thread waits for that pool for ever.
* `ITCPBASE::DoSend` clears `m_bIsSending` after the lock and can overwrite the TRUE
  of a write just started. Nothing in the repository reads the flag.
* Both the read and the write of a connection may fail and queue a DISCONNECT each.
  When the first has released the connector and it was given to a new session, the
  second releases it again: the new session is closed, its ACCEPTED message is
  handled after or before, and the host may go on taking the connector for
  connected while it is in the pool. (`TcpEndpoints`; the connector is not lost.)
* An aborted completion that runs after its object began a new session closes that
  session and reports it (`Fails` with an old operation); data of the old socket
  starts a second read on the new one (`OldReadOk`), or on none (`crashed`).
* `onAccept` returns when `AllocateConnector` gives NULL and accepts no more
  (`AcceptRefused`). The sample's `AllocateConnector` gives NULL for an address on its
  list.
* When `InitSvr` throws, because the peer has gone, the handler passes a DISCONNECT
  to the host but does not release the connector; a host that does not either loses
  it (`abandoned`).
* `Connect` tests `m_bIsConnecting` only. Called between the establishment of a
  connection and the handling of its CONNECTED message, it starts an attempt on a
  connected socket, which fails and clears `m_bConnected`.
* A timer whose `OnTimer` always sets another one to a time already reached keeps the
  main thread in `CheckTimer`.
* `MysqlSystem`: requests of one hash keep their order on one connection; when a
  connection goes up or down the hash moves to another one, and a later request
  may overtake an earlier one. `NoneOvertaken` and the rows of `RequestService` are per
  connection.
* `Send` on a client in whose buffer a block is left over from its last session only
  queues; the samples' hosts clear the buffer, `Connect` does not.
* A worker resets and reconnects without `m_RequestLock`, so that a synchronous
  request may run on a connection that is being made (`SyncFail` is possible then).

## 8. Not modelled

* Rows 10 to 12 of the plan. What reading shows of them: `WaitFor` joins a thread that has detached itself
  (`YTThread.cpp:156`), and `ShutDown` deletes threads that may run (206);
  `CreateTimer` called twice on one `ITIMERTHREAD` leaves two chains of waits that
  cancel each other (`TimerThread.cpp:44`); options of a POST stay set on a worker's
  curl handle for later requests (`urlwriter.cpp:56`); the UDP map may name a
  connector that was released.
* `StartListen`, `StopListen`, exceptions of `socket.open` in `Connect`, and objects
  that the host's pool deletes while operations of theirs are outstanding.
* The timed wait of the semaphore: its one caller treats a timeout and an error alike.
* In the modules above: the text of log lines. Of the failures of the heap, `ObjectPool`
  has all of its own, `WQueue` and `TcpConnection` those of blocks and queue nodes and
  an exception on the asio thread. Left out are a message that cannot be allocated or
  appended in `AddNewMessage` (a DISCONNECT among them, which is then never handled), an
  exception on a thread other than the asio thread, the memory asio takes for its
  handlers, and the nodes of the timers' sets and lists. In `MysqlSystem` all allocation failures, exceptions other than
  `BadQuery` (which would leave `m_RequestLock` held), a request without a key,
  `Ping`, `EscapeString` and the termination of workers.
* Configuration files, string and date helpers, performance counters, MySQL record
  sets and commands, which are conversion of data; the word filter, the weighted
  choice and the redis pool, which keep hardly any state; the log, whose records
  nothing in the library reads. The vendored libraries (asio, websocketpp,
  SimpleWeb, KCP, curl, mysql++, cpp_redis and the rest) are modelled only by the
  effects the library relies on: completions of asio, refusals of the database.
