# TLA+ models of KimRpc

KimRpc is an RPC framework in C++20: a server over io_uring and one over muduo,
a client channel that multiplexes calls over one connection and one that makes a
connection per call over io_uring, a small coroutine library, a logger, and
service discovery over etcd. This
directory holds TLA+ models of its concurrent parts, TLC configurations that
check them on small instances, and TLAPS proofs about the servers, both client
channels, registration, discovery and the coroutines for instances of every
size. `PROJECT.json` maps every definition to the lines it models. Paths below
are relative to the repository root (`src/channel.cc`); in `PROJECT.json` they
carry one more `src/`.

## 1. Inventory

| Part | State it keeps | Operations | Model |
|---|---|---|---|
| `ConnectionManager` (`src/connectionmanager.cc`) | contexts, `m_active`, `m_idlePool`, `nextId`; per context the input, the send queue, `inflight`, `closing`, `pendingReqs`, `readPaused` | acquire, find, onSubmit, onComplete, close, recycle | `ConnectionManager` |
| `UringRpcProvider` (`src/uringrpcprovider.cc`) | the ring, deferred submissions, task queue, ready coroutines, eventfd | event loop, accept/recv/send/notify handlers, request parsing, coroutine per request, worker threads | `UringProvider` |
| io_uring, sockets, eventfd | SQ, CQ, descriptor table, provided buffers | submit, accept, recv, send, read | `IoUring` (external) |
| `KimRpcChannel` (`src/channel.cc`, async build) | one connection, receive thread, timer thread, table of waiting slots | CallMethod, ensureConnected, sendLocked, recvLoop, timerLoop, failAllPending, teardown | `KimRpcChannel`, promise in `RpcCalls` |
| `EtcdClient`, provider side (`src/etcdclient.cc`) | lease, keepalive thread | LeaseGrant, Put, StartKeepAlive, keepAliveLoop | `Registration` |
| `GetRpcAddress` (`src/rpcaddresscache.cc`) and the watch of `EtcdClient` | instances per method, round-robin cursor, revision to resume from | seed by RangePrefix, watch thread, reconnect, pick | `Discovery` |
| the JSON gateway of `EtcdClient` (`src/etcdclient.cc`) | buffer of the watch stream | base64, prefixEnd, watchWrite | `EtcdGateway` (pure operators) |
| `RpcProvider` (`src/provider.cc`) | per connection the input buffer (in muduo), requests with the services | Run, onConnection, onMessage, sendRpcResponse | `MuduoProvider` |
| `Logger`, `LockQueue` (`src/logger.cc`, `include/lockqueue.h`) | the level, the queue, the file | LOG_INFO/LOG_ERROR, Push, Pop, write thread | `Logger` |
| `UringTcpClient` (`src/uringtcpclient.cc`) | a socket, a ring | Connect, WriteAll, ReadExact, ReadSome, Close; AsyncConnect, AsyncWrite, AsyncRead, EventLoop | `UringTcpClient` |
| `KimRpcUringChannel` (`src/uringchannel.cc`) | none between calls | CallMethod | `KimRpcUringChannel` |
| coroutine library (`include/coroutine/`) | frames, continuations, requests in a ring | Task, DetachedTask, co_await, sync_wait | `Coroutines` |
| configuration, controller, examples, generated and vendored code | | | not modelled |

How they interact: a provider registers `<method>/<ip:port>` under a lease; a
client's `GetRpcAddress` seeds its list from etcd, follows a watch and names
one instance per call; `KimRpcChannel` connects there, writes a request frame
and waits for the response with its `request_id`; on the server the reactor
parses the frame, a coroutine hands the method to a worker, and the worker
brings it back to the reactor through an eventfd to send the response.

What is hard here, and which properties make each part correct:

* *Server.* The kernel holds raw pointers to contexts and to the bytes of a
  response while connections are closed, contexts reused and descriptor numbers
  handed out again. Correct means: a context is reused only when no operation
  refers to it, a handler never runs on a closed one, a response reaches only
  the connection that asked, buffers and descriptors do not leak, a connection
  paused by back pressure reads again, every request is settled.
* *Channel.* Four kinds of thread compete for one waiting slot under three
  locks. Correct means: each `done` runs exactly once, one receive thread reads
  the socket, the destructor leaves nothing behind.
* *Discovery.* Processes crash, requests get lost, streams break. Correct
  means: who serves is listed, who is dead disappears, the client's list is a
  state etcd really had, and converges.

* *Muduo server and logger.* Frames arrive in arbitrary pieces and `done` may
  run on any thread. Correct means: a stream is cut exactly into its frames, a
  valid request is answered once, and one that is dropped leaves its line in the
  log.
* *io_uring client.* A method that gives up leaves its operation in the ring.
  Correct means: results go to the method or the callback they belong to, no
  descriptor is lost, a call ends unless the server is silent.
* *Coroutines.* Frames are destroyed by their owners and woken by the ring or by
  the task they wait for. Correct means: every suspended frame has exactly one
  way back, no freed one has any, `sync_wait` returns.

The full list of hazards, each at its line, is in `PROJECT.json`.

## 2. Modules

```
IoUring <- ConnectionManager <- UringProvider <- UringProviderProps <- UringProviderInv
                    UringProviderInv <- UringProviderProofs <- UringProviderFlowProofs
                    UringProviderInv <- MCUringProvider
RpcCalls (INSTANCE) KimRpcChannelProps; KimRpcChannel <- KimRpcChannelProps
                    KimRpcChannelProps <- KimRpcChannelProofs, MCKimRpcChannel
Registration <- RegistrationProps <- RegistrationProofs, MCRegistration
Registration <- Discovery <- DiscoveryProps <- DiscoveryProofs, MCDiscovery
                             EtcdGateway <- MCDiscovery
Logger <- MuduoProvider <- MuduoProviderProps <- MuduoProviderProofs, MCMuduoProvider
UringTcpClient <- KimRpcUringChannel <- KimRpcUringChannelProps
                    KimRpcUringChannelProps <- KimRpcUringChannelProofs, MCKimRpcUringChannel
Coroutines <- CoroutinesProps <- CoroutinesProofs, MCCoroutines
```

`...Props` modules hold the properties and the parts of the inductive
invariants; `...Proofs` modules hold the theorems; `MC...` modules only add the symmetry
of the model values, and for muduo the streams that clients send. Operators called `X_Something` and commented *Mutant* are
plausible bugs of `X`: replacing `X` by one of them must break a property, which
shows that the property can fail. They are not used otherwise.

### The io_uring server

`IoUring` keeps the operations between `submit*` and the reactor's peek as a set
of records that go through the stages `sq` (prepared), `kernel` (submitted, the
descriptor resolved to a socket) and `cq` (completed, not yet seen). That the
descriptor is resolved at submission, not when the SQE is filled in, is what
makes descriptor reuse visible. Completions come in any order. A socket has a
number of its own, never reused, next to the descriptor number, which is.

`ConnectionManager` has one record per context and one operator per method.
`UringProvider` has one action per handler: `HandleAccept`, `HandleAcceptError`,
`HandleRecv` (with its alternatives `RecvFailed`, `RecvNoBufs`, `RecvReject`,
`RecvDrained`), `HandleSend` (`SendFailed`, `SendPartial`, `SendWhole`),
`HandleNotify` followed by one `ResumeCoro` per coroutine and `NotifyDone`,
`ReapLast` (a completion for which `onComplete` recycled the context),
`SubmitOne`/`WaitReturns`/`PeekEmpty` for the loop itself, and `WorkerTake`,
`PoolDone`, `WorkerWake` for a worker. A handler is one step because only the
reactor thread touches what it touches; a worker appends to `m_readyCoros` and
writes to the eventfd in two steps, because that order matters. Bytes are
counted, not stored: a request is `FrameUnits` units and one recv brings at most
`ChunkUnits`, so requests arrive in pieces and several at once. Whether a
request parses, and whether its service exists, is open: `RecvReject` may happen
as soon as something is buffered.

### The client channel

A call is named by its `request_id`. `pc[c]` is where `callAsync` of call `c`
is: resolving, waiting for `m_connMtx`, joining the old receive thread,
connecting, registering, writing part after part, undoing. A section under
`m_pendingMtx` is one step; `m_connMtx` and `m_sendMtx` are variables, since
they are held across several. A connection number stands for `m_clientfd` (0 is
-1). `send` reads `m_clientfd` again for every part, as the code does. The
synchronous form of `CallMethod` is `callAsync` with a closure that wakes the
caller, so it is the same call. A frame that arrives and the lookup of its slot
are one step of the receive thread. `PeerGoes` also stands for a frame shorter
than a `request_id`. `SendFails` may happen at any time (EINTR and the like).
With `MayReenter`, a closure may itself make a call (`pc[d]` goes to
`"resolve"`, as in `CallStarts`); then `thread[d]` says on which thread.

`RpcCalls` is the promise in `include/channel.h`: every call made gets exactly
one `done`. `KimRpcChannelProps!KeepsPromise` is that specification with
`made` as the set of calls that left `"new"`. Since a closure may call, the step
in which `done` runs may also add one call to `made`.

### Registration and discovery

`Registration` keeps etcd's history as a sequence whose index is the revision,
leases with the seconds they have left, and the providers. Time passes only
where the code waits: between keepalives and during a request, for at most
`HttpTimeout` (the 3 s of `httpPost`), whether it is answered or not. A round of
`keepAliveLoop` ends in `KeepAliveRenews`, in `KeepAliveFails` (the request or
only its answer was lost), in `KeepAliveLate` (the time of the lease is up before
the request is there) or in `KeepAliveExpired`. `kept` remembers how the last
rounds went, for the properties only. The two-second lease by which `Start`
probes etcd holds no key and is left out. `Discovery` adds
a client process: `ensureEtcd`, `RangePrefix`, `GetRpcAddress`, and the watch,
whose frames carry all events up to the revision in their header and are applied
event by event (`WatchEvent`, `FrameDone`). Streams break between frames, etcd
may compact, and it cancels a watch that lags behind (`WatchCancelled`) or starts
behind what is compacted. `Erased`, the erase in the watch callback, keeps the other
addresses in their order; it is written without recursion so that it can be
proved about, and `ErasedSelects` (an `ASSUME` of `MCDiscovery`) has TLC compare
it with `SelectSeq`.

`EtcdGateway` has no state. Its functions translate `b64Encode`, `b64Decode`,
`prefixEnd` and `watchWrite` byte for byte, and four `ASSUME`s say what they are
for: decoding undoes encoding although `val` overflows (`Base64RoundTrip`,
`Base64Table`), a key is in the range of a prefix exactly when it has the prefix
(`PrefixRange`), and the lines of a stream do not depend on how curl cuts it
(`LinesWhole`). TLC evaluates them over all byte strings of small length from
the bytes at which something changes, when it starts the run `discovery`.

### The muduo server and the logger

A stream is a sequence of frames, each with a size field, a header and args of
no or one unit; a frame is good, has a header that does not parse, names an
unknown method or has args that do not parse. `HandleRead` brings any number of
units, and `onMessage` then works through the buffer: `NeedsMore` (both places
where it breaks off), `BadHeader` followed by `Shutdown`, `Drop` (its three
`continue`s), `CallMethod`. A method runs its `done` inside `CallMethod`, which
keeps the IO thread at `"done"`, or leaves it to a worker. `SendResponse` and
`SerializeFails` are `sendRpcResponse`; what `conn->send` does, at once on the
IO thread and through a queue elsewhere, is muduo's.

A log macro is two steps, `SetLogLevel` (taken together with the step that
logs) and `Push`; a thread between them does nothing else. The writer opens the
file, sleeps in `Pop`, and stamps the line with the level as it is then. If the
file cannot be opened it ends the process (`Up` is false from then on).

### The io_uring client

`UringTcpClient` keeps every operation ever prepared with its stage (`sq`,
`kernel`, `cq`, `seen`). A blocking method is a record: what it is to transfer,
how much it has, and whether it is about to submit or waits. Its steps are
`SubmitRound`, then `TakeFailure`, `TakePart` or `TakeLast` on the oldest
completion, whatever operation that is of, as `waitUringResult` does. A failing
submit and an interrupted wait return with the operation still in the ring. The
descriptor number is resolved at submission, as in `IoUring`. The `Async`
methods prepare and submit; `EventLoop` runs a callback while the CQE is still
queued (`RunCallback`) and then frees it (`CallbackReturns`); callbacks start
further operations.

`KimRpcUringChannel` has three users, one of which is chosen at the start:
`CallMethod`, step by step with its early returns; a program that uses the
blocking methods in any order; one that uses the `Async` methods. The response
is what both servers send, `[size][request_id][body]`, in any pieces.

### The coroutine library

A frame is `free`, `created` (a `Task` not yet awaited), `running`, waiting for
`io`, waiting for a task (`await`) or `final`, and a freed frame is allocated
again, so that a stale handle would name somebody else's coroutine. `stack` is
the nesting of `resume()` on the one thread: symmetric transfer (`AwaitTask`,
`FinalTransfer`) replaces its top, a `DetachedTask` goes on top. Bodies are
arbitrary: they create, await and drop tasks, start detached ones, await I/O and
end. `sync_wait` is `SyncWait`, `SubmitAndWait`, `WaitReturns`, one `ResumeCqe`
per completion of the batch, `DrainEnds`, `SyncReturns`. Completions stay in the
queue until the batch ends: `drainCqes` advances after the resumes
(`include/coroutine/sync_wait.h:48`), although the comment at
`include/coroutine/io_uring_awaiter.h:61` asks for the opposite order. On a ring
with one driver this makes no difference, which is what the run checks.

## 3. Runs that pass

`uring_life` has two connections over two descriptor numbers, a submission
queue of two entries and one provided buffer. Every "SQ full" and `ENOBUFS` path
happens, contexts and descriptors are reused while requests of the old
connection are with a worker. Two connections are the smallest number that
shows reuse; two entries the smallest queue in which the accept and the
eventfd read can be displaced by connection traffic. Properties:

* `InflightExact`: `inflight` is the number of outstanding operations.
* `ContextPartition`: a context is active, closing or pooled, once.
* `HandlersOnLiveContexts`: `handleSend`, which does not look at `closing`, is
  never reached for a closed connection.
* `DescriptorsOwned`, `LiveOpsOnOwnSocket`: an open connection's descriptor and
  operations belong to the socket it was accepted with, and none leaks.
* `ResponsesToAsker`: the comparison of `connId` keeps responses apart.
* `PermanentOps`: accept and eventfd read are armed or remembered.
* `BuffersConserved`: every provided buffer comes back.
* `RecycledUntouched` (an action property): nobody writes a pooled context.
* `IInv`: the inductive invariant of section 6.

`uring_flow` has one connection, two workers, requests of two units that come in
chunks of three, responses sent in two pieces, and the back-pressure threshold
at one, so that a connection is paused, overshoots and resumes several times.

* `SendBufferStable`: the bytes a SEND reads stay where they are.
* `PendingExact`, `PendingBounded`: the back-pressure counter is exact, and
  the bound it really keeps.
* `ConnectionsNotDeaf`: never paused with nothing left to resume it.
* `NoLostWakeup`: a ready coroutine always has a wake-up on its way.
* `RequestsSettle` (liveness): every request is answered or its connection
  closed. With `ConnectionsNotDeaf` it also says that a paused connection reads
  again.

`channel_owner` has three calls to one provider, two connections, closures that
call again, failed sends, timeouts and the destructor. Three calls are needed
for one in flight, one reconnecting and one made by a closure. The run may stop
(`CHECK_DEADLOCK FALSE`): with closures that call, threads can block each other
for ever, which is a finding of its own.

* `PendingOwned`: a slot has exactly one owner, and `done` runs at most once.
* `OneReceiver`: one receive thread, that of the current connection.
* `DestructorSettles`: at its end every call is settled and no thread is left.

`channel_promise` has two calls and two providers between which the connection
moves.

* `KeepsPromise` (liveness and refinement), with the fairness of section 5.
* `ConnectionGivenUp` (an action property): the connection to a server that is
  still there is closed only by the destructor or by a call that was given the
  other server. It fails as soon as `m_running` or `m_connectedHost` is stale
  when `ensureConnected` looks at it. That a second provider makes round robin
  close the connection under calls in flight is a finding (`channel_hosts`).

`registration` uses the code's own numbers (TTL 10 s, a keepalive every 3 s,
requests given up after 3 s) and two methods. All processes may have ended, so
the run may stop.

* `ServingListed`: who serves under a live lease is listed for each method, also
  after a restart before the old lease ran out and after a registration that
  failed between two puts.
* `RenewedLeaseLives`: a lease that was renewed does not run out while no
  keepalive fails, however slow the answers. It does not cover the first
  interval: a start whose requests all take close to 3 s may use up the lease
  before the first keepalive; nor a failed keepalive, which may cost the lease
  when it runs into its timeout (section 4).

`discovery`: two providers, reconnects, compaction. The lease is three ticks
long and a keepalive comes every tick, so that a provider may be renewed for
ever, and its requests take no time: here the order is the point.

* `ViewIsSnapshot`: the client's list is what etcd listed at one revision, the
  one its watch reached.
* `ConvergesUnlessStranded`, `DeadLeave` (liveness): once registrations settle,
  with providers that live or are gone, the list becomes right, and a dead
  provider leaves it, unless compaction overtook the watch while it was
  disconnected or lagged; the code does not recover from that (section 4), and
  the properties say that nothing else goes wrong.

`coroutines`: three frames, a submission queue of one entry and one failing or
interrupted call. Three frames give a root that awaits a task while a detached
coroutine has I/O in the same batch; the queue of one makes every second
`co_await` meet it full.

* `WakersExact`: a frame waiting for I/O has exactly one request in the ring, a
  frame waiting for a task is the continuation of exactly one that is under way,
  a running one is on the stack once, and any other frame has no way to be
  resumed. It covers resuming a freed or reused frame, twice, or never, and
  `~Task`, which destroys a frame without looking at what it is doing.
* `NoLeak`: when `sync_wait` is through and the ring is empty, all is freed.
* `SyncWaitReturns` (liveness): the only thread never waits for an operation
  that nobody submitted.

`muduo`: two connections on one IO thread, one worker, two frames in all, in
streams that put a good frame behind each kind of bad one. Clients may stop in
the middle of a frame, so the run may stop.

* `FramesExact`: the buffer always starts at a frame boundary, each frame met
  the fate it deserves, none behind a bad header was looked at.
* `AnsweredOnce`: at most one response, after the method ran.
* `DropsReported`: a request that gets no answer leaves exactly one message, in
  the order of the frames.
* `ValidAnswered`, `AllWritten` (liveness): a valid request that arrived is
  answered while its connection is up; every message reaches the file.

`uring_client`: the three users, two descriptors, requests of two units, one
fault. `MaxBlocking` is enough for a connection, a failure and a second
connection over the reused descriptor. A user may stop, so the run may stop.

* `NothingLeftBehind`: only a failing submit or an interrupted wait leaves an
  operation in the ring.
* `SocketsClosed`: no descriptor is lost by the blocking methods.
* `ResponseWhole`: what `CallMethod` parses is the whole response behind the
  size, and nothing else, whatever pieces it came in.
* `CalledBackOnce`: a callback runs once (a second time only after a failing
  submit, which already ran it with the error).
* `CallReturns` (liveness): a call ends unless the server neither answers nor
  closes.

`uring_life` checks `TypeOK` by itself; `PendingOwned`, `ServingListed`,
`ViewIsSnapshot`, `WakersExact`, `FramesExact` and `NothingLeftBehind` have the
type invariant of their module as first conjunct.

All bounds are constants: `MaxConns` (connections accepted or opened),
`MaxUnits` (data per client), `MaxLeases`, `MaxPicks`, `MaxSteps` (what bodies
do before they end), `MaxFaults`, `MaxFrames`, `MaxBlocking`, `MaxAsync`, and
the sizes of the sets. Symmetry is used for safety only.

## 4. Known divergences

Runs that TLC must find violated; each finding in `PROJECT.json` quotes the line
it contradicts.

| Run | Property | What happens |
|---|---|---|
| `uring_fd_reuse` | `OpsOnOwnSocket` | an SQE prepared before its connection is closed in the same batch reaches the kernel after the number belongs to another connection |
| `channel_reenter` | `ClosuresMayCall` | a closure that calls meets a join of its own thread, or of a thread waiting for `m_connMtx` |
| `uring_frame` | `AnsweredSucceeds` | `KimRpcUringChannel` parses the `request_id` as part of the message, so that every answered call fails |

Ten more configurations are kept for the same purpose and are run by hand
(`tlc -config X.cfg MCY`):

| Configuration | Property | What happens |
|---|---|---|
| `channel_frames` | `FramesWhole` | after a send that failed half-way the next frame follows a truncated one (`src/channel.cc:245`; `include/channel.h:88`) |
| `channel_no_timeout` | `BrokenCallsSettle` | a slot registered after the receive thread's last `failAllPending` waits for ever when no timeout is set (`src/channel.cc:476`; comment at `:411`) |
| `registration_timeout` | `OneFailureTolerated` | a renewal answered late, then one keepalive that runs into its timeout, then the interval: the lease is gone before the retry (`src/etcdclient.cc:350-364`, comment at `:364`; `include/etcdclient.h:79`) |
| `keepalive_lost` | `Reregisters` | a lease that expired is only logged: the provider serves unlisted for ever (`src/etcdclient.cc:372-375`; comment at `:366`) |
| `muduo_levels` | `LevelsRight` | a line carries the level of the last macro of any thread, not its own (`src/logger.cc:39`) |
| `uring_limit` | `InflightWithinLimit` | `handleRecv` parses the whole chunk before it looks at the limit (`src/uringrpcprovider.cc:602`, the constant's comment at `:50`) |
| `uring_serialize` | `PendingExact` | a response that does not serialise is never counted off (`:778`; `include/connectionmanager.h:23`) |
| `uring_notify_full` | `RequestsSettle` | an eventfd read put off because the SQ is full is retried only after another completion (`:300-315`; `README.md:10`) |
| `channel_hosts`, with the other invariant | `SentWhereResolved` | `m_clientfd` is read without `m_connMtx`: the request goes to the host another call connected to (`src/channel.cc:245`; `include/channel.h:81`) |
| `channel_hosts` | `ConnectionPersists` | round robin over two providers closes the connection under the calls in flight (`src/channel.cc:188`; `README.md:26`) |
| `discovery_compact` | `ViewConverges` | the cancellation for a compacted revision is ignored and the same revision asked for again (`src/etcdclient.cc:137-143`; comment at `:161`) |

## 5. Fairness

* Server: the reactor and each worker are running threads (weak fairness); a
  method returns and runs its closure; the kernel completes a SEND, because the
  client reads or the connection breaks, and the read of a signalled eventfd.
  Nothing is assumed of clients: they need not connect, send or close.
* Channel: threads run, `connect` returns, time passes. Strong fairness for a
  caller, because it competes for mutexes that others take again and again.
  A `send` may block for ever and has no fairness; servers need not answer.
  `KeepsPromise` is checked with timeouts on, the default of the code, and
  without closures that call.
* Discovery: etcd expires leases; the watch thread runs; a stream opened again
  and again delivers a frame in the end (strong fairness), without which no
  client could learn anything. No keepalive need succeed.
* Coroutines and the io_uring client: the thread runs, a body does not loop for
  ever, the kernel completes what can complete. A signal or a failing call is
  never owed; neither is anything by the server, not even a close.
* Muduo and the logger: every thread runs, a method comes to its `done`. Clients
  owe nothing, neither the rest of a frame nor a close.

## 6. Proofs

Eight modules hold theorems. Each proves `Spec => []Inv` for an inductive
invariant `Inv` and derives the properties from it, for every value of the
constants that the named assumptions of the modules allow (sets are finite where
they are counted, sizes are positive, a name such as `None` or `NoHost` is not a
member of the set it stands beside). All invariants were checked by TLC on the
runs above before they were proved; the properties themselves are what the runs
check.

| Module | Theorem | Property |
|---|---|---|
| `UringProviderProofs` | `Invariance`, `TypeCorrect`, `InflightIsExact`, `LiveHandlers`, `Partition`, `DescriptorOwnership`, `OwnSocket` | `IInv`, `TypeOK`, `InflightExact`, `HandlersOnLiveContexts`, `ContextPartition`, `DescriptorsOwned`, `LiveOpsOnOwnSocket` |
| `UringProviderFlowProofs` | `FlowInvariance`, `SendBuffers`, `BackPressure`, `PermanentlyArmed`, `BufferRing`, `WakeupsKept`, `RecycledLeftAlone`, `RequestInvariance`, `AnswersToAsker`, `PendingCounts`, `NoneDeaf` | `FlowInv`, `SendBufferStable`, `PendingBounded`, `PermanentOps`, `BuffersConserved`, `NoLostWakeup`, `RecycledUntouched`, `RequestInv`, `ResponsesToAsker`, `PendingExact`, `ConnectionsNotDeaf` |
| `KimRpcChannelProofs` | `ChannelInvariant`, `PendingIsOwned`, `OneReceiverAlways`, `DestructorLeavesNothing`, `ConnectionIsGivenUp`, `ChannelImplementsCalls` | `ChannelInv`, `PendingOwned`, `OneReceiver`, `DestructorSettles`, `ConnectionGivenUp`, the safety part of `KeepsPromise` |
| `RegistrationProofs` | `ServingIsListed`, `RenewedLives` | `ServingListed`, `RenewedLeaseLives` |
| `DiscoveryProofs` | `ViewAlwaysSnapshot` | `ViewIsSnapshot` |
| `CoroutinesProofs` | `CoroutinesInvariant`, `WakersAreExact`, `NothingLeaks` | `CoroutinesInv`, `WakersExact`, `NoLeak` |
| `MuduoProviderProofs` | `MuduoInvariant`, `FramesAreExact`, `AnsweredAtMostOnce`, `DropsAreReported` | `MuduoInv`, `FramesExact`, `AnsweredOnce`, `DropsReported` |
| `KimRpcUringChannelProofs` | `UringChannelInvariant`, `MethodsLeaveNothing`, `NoSocketIsLost`, `ResponseIsWhole`, `CallbacksRunOnce` | `UringChannelInv`, `NothingLeftBehind`, `SocketsClosed`, `ResponseWhole`, `CalledBackOnce` |

Three theorems have a hypothesis of their own. `RenewedLives` assumes
`TimelyEtcd`: an interval and two requests fit into the TTL, which the code's
numbers meet (3 + 3 + 3 < 10); without it the property is false.
`PendingCounts` and `NoneDeaf` assume that responses serialize
(`~MaySerializeFail`): one that does not is never counted off
(`uring_serialize`).

### The io_uring server: contexts

None of the properties of `uring_life` is inductive alone.
`HandlersOnLiveContexts` needs that
a context is never closed while both a RECV and a SEND are outstanding. Each
`close` happens in a handler whose own completion was just counted, or in
`deliverResponse` when no SEND is in flight; that the latter is so follows from
`sending` being right (`FlagInv`), and that at most two operations exist from
`readPaused` being right (a paused connection has no RECV). `InflightExact` then
gives that the next completion is the last one. Ownership of sockets needs that
the number of connections handled follows the number of sockets accepted, and
that only one accept can be on its way (`SockInv`). `IInv` is the conjunction of
these parts: `OpsInv`, `LifeInv`, `PoolInv`, `FlagInv`, `SockInv`, `PermInv`,
`RangeInv` and `TypeOK`.

A handler changes its context several times within one step. The parts of
`IInv` are therefore operators on values rather than on variables, and the proof
carries `Mid(c, cx, os)`, "the values computed so far satisfy the invariant
except for the flags of `c`", through the calls the handler makes: counting the
completion (`ReapOK`), touching fields (`TouchOK`), submitting (`AddOK`),
closing (`CloseOK`), and ending with the flags right again (`DoneOK`).

### The io_uring server: flow

`FlowInv` stands on `IInv`. `BufferInv` counts the buffers in completions not
yet reaped; `ArmedInv` says the accept and the eventfd read are armed or
remembered. `FlowOf(c, cx, os)` relates the fields of a context to each other
and to its operations: a SEND is of the head of `outQueue` behind `written`; a
connection that does not send has nothing queued; no whole request stays in
`input`, so that a recv completes at most `Burst` requests; and reading is paused
exactly when `pendingReqs` has reached the threshold. The last one is what bounds
`pendingReqs`: a RECV was armed below the threshold, so the burst it brings goes
beyond `kMaxInflightPerConn - 1` by at most `Burst`. It is carried through a
handler by four lemmas on how handlers end (`EndClosed`, `EndKept`, `EndRecv`,
`EndSend`). `RecycledUntouched` additionally needs that `connId`s are below
`nextId`, so that a late coroutine never matches a context that was reused.

### The io_uring server: requests

`RequestInv` stands on both and follows each request. A request on its way is in
`m_taskQueue`, with a worker, in `m_readyCoros` or in the reactor's batch, in one
of them and once (`PlaceInv`); the batch is empty outside of `handleNotify`
(`BatchInv`). `AskInv` says that the requests of a connection are numbered up to
`dispatched`, so that those `tryHandleRequest` reads are new; that a `connId`
names one open connection and its requests carry the descriptor it has, so that
`deliverResponse` drops a response only when the asker is closed; and that what
is queued for sending is no longer on its way. `CountInv` is then inductive:
`pendingReqs` is the number of requests on their way or queued, a handler adds
what it dispatches and takes off what was sent. Neither `ResponsesToAsker`
("each one once") nor `PendingExact` is inductive without `PlaceInv`: a request
in two places would be answered twice. `ConnectionsNotDeaf` follows with
`FlowOf`, which ties `readPaused` to `pendingReqs`.

### The client channel

`ChannelInv` says which thread holds what at each program point: `OwnerInv`
(a `Pending` is in the table, with the receive thread, the timer, the
destructor, or done, exclusively), `HolderInv` (a thread holds slots only where
it is about to run their `done`), `CallerInv` (what a caller has done where it
is; it joins and connects only under `m_connMtx`), `OneReceiver`, `DtorInv`.
`PendingOwned` is not inductive without `HolderInv`: a receive thread that had
ended with a slot in its hand would keep it for ever. `ChannelImplementsCalls`
maps each step to a step of `RpcCalls` or to a stutter; that a step settles a
call whose `nDone` is 0 is `OwnerInv`. `LinkInv` adds that at most one connection
is open, `m_clientfd`, that it is the one of the receive thread, and that while
its server is there `m_running` is set and `m_connectedHost` is that server; so
`ensureConnected` closes it only for another host (`ConnectionGivenUp`).

### Registration and discovery

`RegInv` adds to `ServingListed` that a lease belongs to one process and that
only this process put keys under it (`LeaseInv`), so that an expiry removes
nobody else's keys, and what a starting process has put so far (`StartInv`).
`TimeInv` says that a renewed lease has lost at most the time its answer took.

`DiscoveryInv` says that a client's list is what the log lists at `pos`.
One event names at most one provider of a method (`LogInv`, from `RegInv`), so
that applying it once changes one address; between frames `pos` is
`lastRevision`, and a stream is opened right behind it (`WatchInv`), so that a
reconnect leaves no gap; a list has no address twice (`EntryInv`). `Applied` is
idempotent, hence a replay is harmless.

### Coroutines

`RingInv`, `StackInv` and `AwaitInv` give the one way back of each suspended
frame. They are preserved only if no frame is destroyed while another waits for
it: `OwnerInv` (the owner of a task under way is the frame that awaits it) and
`NoCircle` (no set of frames waits within itself), which makes sure that the
chain of continuations ends at a frame that runs or waits for I/O.

### The muduo server and the logger

`FramesExact` is inductive with lemmas on where a frame ends in the stream
(`EndOf`). For the log, `Justified` says what a message may be about,
`PlaceInv` that the message about a lost frame is in one place, a thread's hand
or the queue or the file, and `OrderInv` that messages of a connection follow its
frames, which needs that only the connection's IO thread holds the message of a
dropped frame (`HolderInv`).

### The io_uring client

`UringChannelInv` has the counting behind `NothingLeftBehind` (at most one
operation more than faults while a method waits), `RoleInv` (each user keeps to
its own methods), `CallRingInv` (in a call in which nothing failed, only the
operation it waits for is under way, on its own socket), and `StreamInv` and
`CountInv`: what was read, what is in the completion and what is still on its
way are consecutive pieces of the one response. `ResponseWhole` follows when
nothing is left to read.

### Only model-checked

Every safety property of the passing runs is proved. What stays with TLC:

* Liveness, which needs fairness and `ENABLED` and is out of the prover's reach:
  `RequestsSettle`, the liveness part of `KeepsPromise`,
  `ConvergesUnlessStranded`, `DeadLeave`, `SyncWaitReturns`, `ValidAnswered`,
  `AllWritten`, `CallReturns`.
* The encodings of `EtcdGateway`: what a recursively defined function computes
  for every byte string needs induction over data.

## 7. What the models leave out

* Servers: the constructor and destructor of the providers, `NotifyService` and
  the set-up of the listening socket, which run before any concurrency; muduo's
  output buffer and its high-water marks.
* Channel: the blocking build (`include/channel.h:5` selects the asynchronous
  one); the reuse by unrelated code of a descriptor number the channel has
  closed; `SIGPIPE` (`send` has no `MSG_NOSIGNAL`); calls made while the channel
  is being destroyed, or by a closure that runs inside `CallMethod`.
* io_uring client: a server that never reads, so that a send never completes (it
  would hang `CallMethod` like a silent one); a ring or a socket that cannot be created; a method called
  from a callback that a refused `Async` call runs at once; overflow of the
  completion queue.
* Coroutines: moving a `Task` to another owner; `sync_wait` nested inside a
  coroutine on the same ring, where the inner loop would see the outer batch
  again; completions without the coroutine tag, which `drainCqes` ignores.
* etcd: the probe lease of `Start`, fractions of a second, `jint` and JSON
  parsing.
* The bytes inside the fields of a frame, the texts and times of log lines,
  configuration (read once at the start), the controller (a flag and a text; the
  models record how a call ended instead), examples, generated and vendored code.

## 8. Plan

1. done: the io_uring server, its invariant and the proof.
2. done: the channel and its promise.
3. done: registration and discovery.
4. done: `EtcdGateway`, `Coroutines`, `Logger` and `MuduoProvider`,
   `UringTcpClient` and `KimRpcUringChannel`.
5. done: proofs of the safety properties of every component (section 6).
