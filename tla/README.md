# A verification project for nmid

nmid is an RPC system in Go. *Workers* connect to a *server* and announce the
functions they offer; *clients* send the server the name of a function and its
parameters and get the result back. This directory holds TLA+ modules that model the
concurrent core of the server, of both kinds of client and their users, of the worker
and of two registry clients, configurations that check them with TLC, and proofs that
TLAPS checks of every safety property of theirs. Line numbers refer to the Go files
under `src/pkg/`.

## 1. Inventory

### The request path of the server: `server/optimize.go`, `server/worker.go`

State: `DispatchPool.jobCh` and its 512 goroutines; for every worker connection
(`SWorker`) one job channel per function, holding `JobData` with its status
(INIT, DOING, DONE), `WorkerId` and `Response`; `ResultRouter.resultCh` and its
256 goroutines.

Operations: `doJobAsync` (refuse, submit, answer RATELIMIT), the dispatch
function of the pool (choose a worker, push the job with a timeout, `doWork`),
`returnData` (pop the head of the channel with a timeout, test the status,
compare, answer), the synchronous fallback of `RunWorkerOptimized` when the
router is full, opening and closing of connections.

Hard: a job is handed out by one goroutine and completed by another; it is in the
channel before it is sent and its `Response` is set after it is sent; a result is
matched to a job by *position in the channel* and not by job id; every queue may
be full; a worker comes back under a new `SWorker` while its old jobs are around.

Correct means: no request is answered twice, refused and executed, or held by two
goroutines; data reaches only requests it may be meant for; no goroutine of the
pools is lost for good.

### The function registry: `server/function.go`

State: `FuncMap` (a `sync.Map` of `*Func`, `FuncNum`), and in each `Func` the
slice `Workers` and the count `WorkerNum`. Operations: `AddFunc`,
`DelWorkerFunc`, `DelAllFunc`, `CleanWorkerFunc`, `DelWorker`, `GetBestWorker`.
Hard: the mutex covers single increments only; slice, count and map are updated
separately; `GetBestWorker` removes the dead worker it meets and starts again.
A worker may announce a function twice, and a withdrawal takes out one entry.
Correct means: count, slice and map agree; a live worker is listed exactly as often
as it announced itself; a selection ends and gives a live worker.

### A server connection: `server/connect.go`

State: `writeCh`, `pendingBytes`, `closed`, `closeCh`, the socket, `RunWorker`.
Operations: `Write`, `writeLoop` with its drain, `DoIO`, `CloseConnect` and
`CloseWorkerConnect`. Hard: writers, the write loop and the reader all may close
the connection while the others go on. Correct means: the byte budget is exact,
frames keep their order, a connection that starts to close is closed whole.

### The RPC client and its pool: `client/client.go`, `client/pool_client.go`

State: the connection, `ResQueue`, `RespHandlers`; in the pool the channel of
idle clients and the number `created`. Operations: `Do`, `ProcessResp`,
`ClientRead` with its reconnection, `Close`; `getOrCreate`, `put`, `Close`. Hard:
a response after the timeout, `Close` against the reader, a reconnection that
replaces the queue; places in the pool on failing paths. Correct means: a
callback runs once and with the bytes the worker returned, calls return, the pool neither
leaks nor exceeds its places and gives a client to one caller at a time.

### Clients for a single call: `server/gateway.go`, `ClientCall` in `worker/response.go`

State: a `Client` of their own, made for one request and closed by a `defer`.
Operations: `HTTPDoWorkByClientHandle`, and `ClientCall`, with which a worker's
function calls another worker. Hard: the deferred `Close` races the response that came
too late and the tests of `conn` in the goroutine that reads; a panic in the
handler is recovered by `net/http`, one in that goroutine is not. Correct
means: the handler ends, and so does the goroutine it started for its client.

### The direct client, its server and its pool: `direct/client.go`, `direct/server.go`, `direct/proto.go`, `direct/pool_client.go`

State: one connection and its deadline; in the pool the channel of connections,
`created` and the remembered `dialErr`. Operations: `Connect`, `Call`, `Close`;
`dial`, `getConn`, `putConn`, `Call`, `Close`. The server keeps a table of handlers,
to which `Register` may add while connections are served, and answers each frame
before it reads the next. Hard: late replies, shared sockets, failed dials, the
offsets of two layouts. Correct means: a call gets what the handler of its service
makes of its own payload, and returns.

### The worker: `worker/worker.go`, `worker/agent.go`, `worker/request.go`

State: per server one `Agent` with a lock, a connection and *one* `Request`, whose
header and packed bytes all goroutines share; the worker's `running`, `stop` and
`Resps`. Operations: `DoFunction`, the heartbeat loop, `AddFunction` on a running
worker, `WorkerReConnect`, `WorkerClose`. Hard: the header is written before the
lock is taken, announcements are packed without it; `WorkerClose` sends one `stop`
to three receivers, makes `conn` nil and closes `Resps` under goroutines that use
them. Correct means: a result is sent once under the header of its job, functions
are announced on every connection, and a worker that is closed stays closed: no
goroutine and no connection is left.

### The frames: `server/io.go`, `client/request.go`, `client/response.go`, `worker/request.go`, `worker/response.go`

No state: functions from fields to bytes and back. A call is written in one layout,
handed to the worker in a second, returned in a third and answered in a fourth;
they differ in the order of the fields and in where the lengths stand. Hard: every
writer and reader keeps its own running offsets; a connection may end inside a
frame. Correct means: what the function returned is what the callback gets.

### The discovery client: `registry/discovery/discovery.go`

State: the watched applications with their watchers, their last timestamp and
instances; the list of discovery nodes with `nodeIdx`, and `lastHost`; the cancel
function of the poll in progress; the registered services. Operations: `Build`,
`Watch`, `Fetch` and `Close` of a watcher; `serverproc`, which polls, broadcasts,
switches nodes and appends the seeds; `selfproc`, which follows the list of nodes;
`Register` with its renewing goroutine; `Set`; `Close`. Hard: a new watcher against
the poll in progress and against the broadcast, timestamps of a node the client has
left, a list of nodes that is replaced while it is used, goroutines that must end.
Correct means: a poll asks for all that is watched, a watcher misses nothing that
is stored, the client finds back to its seeds, `Close` ends everything.

### The registry client: `registry/nmidr/nmidr.go`

State: the services this process has registered, the mutex, the context. Operations:
`Register`, which starts a goroutine that renews the lease and logs off when its
context is done; the returned `cancelFunc`; `Close`; `Build`. Hard: a request that
is given up may still be applied by the registry, leases expire, the process ends
and comes back while its old requests are on their way, `Build` panics with the
mutex locked. Correct means: one goroutine renews a service, a cancelled service
goes off and stays off, a lost lease is taken again.

### How they interact

Clients and workers talk to the server through `Connect`. A client frame makes
`doJobAsync` submit to the pool; the pool asks `FuncMap` for an `SWorker`, whose
connection carries the job. The worker's result goes through `DoIO` to the router
and `returnData`, which writes to the client's `Connect`. The close paths of
`Connect` call into `FuncMap`. The direct client and server are a second, simpler
protocol beside this one, without a server in between. The discovery client talks
to discovery nodes over HTTP and to its watchers by a channel of one signal; the
`nmidr` client talks to its registry over HTTP. The gateway is a client of the server
it runs in, and a worker's function may be a client of another worker.

The remaining parts (job lists, the etcd client, breaker, limiters, sidecar, metrics,
dashboard, configuration, logging, SDKs in other languages) are listed in
`PROJECT.json` with the reason why they are not modelled, and the hazards of the code
with their lines.

## 2. Modules

| module | code | depends on |
| --- | --- | --- |
| `Dispatch` | `optimize.go`, `worker.go`: the request path | `RpcService` |
| `RpcService` | abstract: what the server promises a client | |
| `DispatchInv` | the inductive invariant `IInv` | `Dispatch` |
| `QueueLemmas` | Go channels as sequences: `Append`, `Head`, `Tail`, number of entries; fields of a frame | |
| `DispatchProofs` | theorems about `Dispatch` | `DispatchInv`, `QueueLemmas` |
| `FuncMap` | `function.go` | |
| `Connect` | `connect.go` | |
| `Codec` | frames: `server/io.go`, request and response of client and worker | |
| `RpcClient` | `client/client.go` | `Codec` |
| `Gateway` | `server/gateway.go`, `ClientCall` of `worker/response.go` | `RpcClient` |
| `ClientPool` | `client/pool_client.go` | |
| `DirectCodec` | `direct/proto.go` | `Codec`, for its slices |
| `DirectClient` | `direct/client.go`, `direct/server.go` | `DirectCodec` |
| `DirectPool` | `direct/pool_client.go` | |
| `Discovery` | `registry/discovery/discovery.go` | |
| `Nmidr` | `registry/nmidr/nmidr.go` | |
| `WorkerAgent` | `worker/worker.go`, `worker/agent.go`, `worker/request.go`: the frames | |
| `WorkerLife` | `worker/worker.go`, `worker/agent.go`: the goroutines and `WorkerClose` | |
| `ServerProofs` | theorems about `Connect` and `FuncMap` | both, `QueueLemmas` |
| `ClientProofs` | theorems about `Codec`, `RpcClient` with `Gateway`, `ClientPool` | these, `QueueLemmas` |
| `DirectPoolProofs` | theorems about `DirectPool` | `DirectPool`, `QueueLemmas` |
| `ServiceProofs` | theorems about `Discovery` and `DirectClient` | both, `QueueLemmas` |
| `NmidrProofs` | theorems about `Nmidr` | `Nmidr` |
| `WorkerProofs` | theorems about `WorkerAgent` and `WorkerLife` | both |
| `MC...` | the instance TLC checks, with history variables where named below | its component |

In all modules an action is what a goroutine does between two points at which
another goroutine can see a difference. A definition whose comment says "Mutant of
..." is a plausible wrong version of the one that follows it; it is used to see
that a property notices the mistake and plays no part in the specification.

**Dispatch.** A request keeps its name as the job it becomes. `pc[r]` is the place
of its dispatch: `queued` in `jobCh`, `running` in a goroutine of the pool,
`pushing` and `pushed` around `PushJobToChannelWithTimeout`, `doing` and `written`
inside `doWork`, `gone`. `chan[w][f]` is `SWorker.JobChannels`. `rpc[r]` is the
place of `returnData` with the *result* of `r`, `retJob[r]` the job it popped, and
these two need not be the same request. A worker process executes what it is sent
in any order, may fail a job without an answer, and returns a result on the
connection it then has (`via`). `registry` stands for `FuncMap` at the level of
sets: what happens below that level is the subject of module `FuncMap`. Parameters
are reduced to the function they name and their length, because `returnData`
compares nothing else. `ClientWrite` may fail at any time, as `Connect.Write` may
on a full queue; module `Connect` says what happens inside.

**RpcService** is the specification a caller would want to know: a request is
refused or handed to a worker, not both; it is answered at most once; its data is
the result of one finished execution of an alike request (same function, same
parameter length) that answered nothing else. It does *not* say that the execution
is the request's own, since the code does not ensure it.

**FuncMap.** One action per load or store of the map, a count or a slice. Reading or
writing a slice header is one step. A panic (index out of range, division by zero) ends
the process. A worker may announce a function again and withdraw one it has not announced;
the history `added` counts its announcements less its withdrawals on the open connection,
and `MaxListed` bounds the list to which `AddFunc` appends. `AddFunc` always sets
`LOADBLANCE_HASH`, so the branch of `GetBestWorker` that picks by `rand.Int() % WorkerNum`
is the only one reached.

**Connect.** Frames are model values with a length. `Write` tests `closed`, adds
to `pendingBytes`, sends and takes back on a limit, in separate steps. `ReadFrame`
succeeds or fails. A connection keeps one type, worker or client, for its life.

**Codec.** Operators without state. A frame is a sequence of cells: a byte is one
cell and so is a `uint32`, since no code looks inside one. Offsets are computed as
the code computes them, and a copy into a buffer cuts off or leaves zeros as
`copy` does. `AtWorker` and `Answer` carry a call's frame through server and worker to the
frame of its answer.

**RpcClient.** One caller, whose calls are numbered; the server answers any call it
has received, in any order, with data (through `Answer` of `Codec`) or an error, as
cells on a stream from which `ReadFrame` takes a frame when it is complete; a link
may end in an orderly way or by a reset, also inside a frame. `ResQueue` belongs to
a connection and is an unbuffered channel. `ClientRead` tests `conn` twice without a
lock, at the head of its loop (`LoopTest`) and at that of `ReadFrame` (`FrameTest`), and
`Close` may come between the two.

**Gateway** composes `RpcClient` with its users: an application, for which every
action of `RpcClient` is open, or a handler that makes one client for one call.
`hpc` is the place in the handler. The handler's steps in `Do` are those of
`RpcClient`; the panics in it, which only the gateway survives, are actions of their
own.

**ClientPool, DirectPool.** A client or connection is a model value used once by a
dial. After `Close` the count is not claimed to be exact. The branches of `put` and
`putConn` for a full channel cannot be reached before `Close`; `ExclusiveUse`, a part
of `PlacesExact`, shows that, and the models therefore do not contain them.

**DirectCodec, DirectClient.** The frames are cells as in `Codec`, with the offsets of
`proto.go`. A reply is read in two steps, header and content, so that two callers can
divide one reply between them; `want` is the length that the header announced. The
deadline is a step that may come at any time while a call reads. `handlers` is the
server's table; `ReplyTo` has the five answers of `handleConn` (health, unknown type,
bad request, no such service, what the handler returned).

**Discovery.** The discovery nodes are external: each has the same versioned lists
(`view`), and a timestamp is a version together with the node that issued it. `ctx`
is the context of `serverproc` and whether its cancel is in `cancelPolls`; `asked`
is the request of the poll in progress; `pend` and `noting` are what `broadcast` has
still to store and to signal. `nodeIdx` is kept modulo `Cycle`, a number that every
length of the list divides. A request succeeds or fails, and its effect on `nodeIdx` is the
only one it has. The ticker of `serverproc` may fire in any round. `gpc` is the place of
a call of `Register` and then of its goroutine. A `cancelFunc` may be called by any
goroutine, at any time and again: `callers` wait on its channel `ch`, which gets one
value.

**WorkerAgent.** `head` is the header in the shared `Request`, `packed` its bytes.
The assignments that fill a header are one step, and so is packing a frame; the
wire records results and announcements. A write is assumed to return.

**WorkerLife.** One place for each goroutine: `mpc` the main loop, `vpc` the watcher of
the server's silence with `WorkerReConnect`, `hbpc` the heartbeats, `wpc` `Agent.Work`,
`hpc` the `handleResponse` that has the Agent's lock, `cpc` each `WorkerClose`. `stop`
is unbuffered, so a receiver and the `WorkerClose` it meets move in one step. A test
of `conn` and its use are two steps, because `Agent.Close` makes it nil without the
lock. A dial that succeeds ends the silence, as `ReConnect` sets `lastTime`.

**Nmidr.** `pc[k]` is the place of a call of `Register` and then of the goroutine it
started; `at[k]` its HTTP request. The registry is external: the set `lease`, and the
requests in `late`, which the client has given up and the registry may still apply.
The context of a request decides whether it fails at once, and `doLogOff` has one of
its own. `Restart` ends the process at any point and starts it with a new `Nmidr`.

## 3. Runs

`dispatch_main` (`MCDispatch_main.cfg`). Two requests of different lengths from two
clients, one worker process with two successive connections, the first of which may
break; one client may leave; two pool goroutines, one router goroutine, every queue
of one entry. With that, every full queue, both timeouts, the synchronous fallback, a
result that pops a job it does not fit and a job left in the channel of a dead
connection occur. Shown: `IInv`, `AtMostOneReply`, `ReturnConfined`,
`ImplementsService`, and under fairness `PoolDrains` and `RouterDrains`.

`dispatch_one_client`. One client that keeps one request in flight, as `Client.Do`
without a timeout does; four requests, one with an empty handle; two router
goroutines; one lost connection. Shown: `OwnResult`. Position in the channel is
enough to match results as long as requests do not overlap.

`funcmap` (history `met`: the calls begun since two calls first overlapped, at most
`MaxMet`). Two workers, one caller, one function, adds, removals, both close paths. As
long as calls do not overlap, counts, slices and map agree and nothing panics
(`CountersAgreeAlone`), a live worker is listed as often as it announced a function and
did not withdraw it (`RegistryExactAlone`), and the pick is a live worker that announced
the function more often than it withdrew it (`PickIsServedAlone`). Announcements may be
repeated, up to three entries of a list (`MaxListed`). Up to three calls at once: the
selection ends or the process panics (`SelectionEnds`).

`connect`. Three frames of lengths 2, 1, 1 with a budget of 2 and a queue of 1, so
that both limits are hit and taken back while the connection breaks at any point:
`PendingExact`, `WireInOrder`, `AcceptedIsWritten`,
`ClosedGoesDown`.

`rpcclient` (the composition `Gateway`). An application with three calls of two
functions, or a handler with one, two connections, late answers, timeouts, ends and
resets also inside a frame, `Close`; a function name that begins another, parameters
of different lengths: `CallbackOnce`, `IntactAnswer` (the callback gets exactly what
the function computes from the parameters of some call), `OwnResponse` (until the
first timeout), `NoPanic` (with resets and late answers only, nothing but a failed
dial panics; a single call takes the process down only after a timeout or an orderly
end), `DoReturns`, `OneShotEnds` (the handler ends, and the goroutine of its client
too, unless that dials once the deferred `Close` is over).

`clientpool` (history `failed`). Five calls of three callers on a pool of two,
five clients to dial, so that a place is lost and given back several times:
`PlacesExact` always; `CallsReturn` until the first failure.

`directclient` (histories `shared`: two callers have been in `Call` at once, and
`knew`: the calls begun when their service had its handler). Two callers with two
calls each, two connections, a service that echoes, one that fails and one that is
registered late, payloads of different lengths: `OwnReplyAlone` while calls do not
overlap, `CallReturns` always, also when callers take each other's bytes.

`directpool`. Three callers with two calls each on a pool of two: `PlacesExact`,
`OwnReply` (a late reply never reaches a later call).

`discovery`. Two nodes, one of them the seed, the list of nodes replaced once; one watcher
that comes and goes beside the client's own; a service that is registered and cancelled,
with two calls of its `cancelFunc` (`MaxCancels`); one publication for each application,
one of which may be empty. That is enough for a poll to be cancelled between any two
steps, for the list to hold no seed, and for a store to fall between the two halves of
`Build`: `PollIsCurrent`, `NoLostUpdate`, `SeedsRejoin`, `StopsAll` (every goroutine ends,
and of the calls of a `cancelFunc` one returns).

`workeragent` (histories `crowd`: two jobs have been in `DoFunction` at once, and
`clash`: a frame was packed over one still to be written). Two jobs, one heartbeat,
one function added late, one reconnection: `ResultOnce`, `OwnHeaderAlone`,
`AnnouncedUnlessOverwritten`.

`workerlife` (history `midway`: the watcher was in a pass of its loop during a
`WorkerClose`). Two goroutines that call `WorkerClose`, one frame of the server, one
reconnection: `ClosedForGood` (no connection is left once `WorkerClose` has returned)
and `WindsDown` (it returns and every goroutine ends, whichever of them takes the one
`stop`), both unless `midway`, the second also unless two `WorkerClose` overlap or the
process dies.

`nmidr` (history `gaveUp`: services with a register request that was given up). Two
calls for one service, two runs of the process; every request may be refused, given
up, lost, or applied late; leases expire; `Build` may panic: `OneRenewer`,
`OffUnlessLate`, and under fairness `Stops` and `Rejoins`.

The histories only record; they divide what is true of all behaviours from what is
true until two actors meet or something fails. The instances end, since calls,
requests and connections are finitely many; deadlock is therefore not an error in
them (`discovery` goes on for ever, and there it is one), and that nothing waits for
ever is stated by the liveness properties.

### Seen in the models

The properties are stated so that they hold exactly up to the cases of this section.

Two cases disagree with a comment. `returnData` completes whatever job is at the head
of the function's channel: the test that `server/worker.go:210` calls "任务完成判断"
(judging that the task is complete) compares the function and the lengths and never
the job id, so that a job is marked DONE and answered with the result of another while
its own is still being worked on (`RpcService` is weak in just this point).
`client/client.go:166` announces "断开重连" (reconnect after a disconnection), and
`ClientRead` dials again and makes a new `ResQueue`, but `Close` has set
`RespHandlers` to nil and nothing makes it again: the next `Do` panics at line 276.

The others no comment speaks of.
Overlapping `AddFunc` of a new function lose a registration; a selection between a
count and its slice panics (`FuncMap` without `Alone`). A worker that announces a
function twice on one connection, as `AddFunction` on a running worker beside
`WorkerReConnect` makes it do (`worker/worker.go:143`, `399`), is listed twice; one
withdrawal then takes out one entry (`server/function.go:105-113`), and the worker goes
on being picked for a function it no longer offers. A caller whose dial failed
waits for a client that nobody may put back, and a direct pool remembers one failed
dial for ever. After a reset the pool goes on handing out a client whose reader has
ended. Two jobs at once in a worker send a result under the header of the other,
and an announcement can be packed over before it is written. Two concurrent calls of
one `direct.Client` exchange replies (`OwnReply` in `DirectClient` without `Alone`):
`Client.Call` releases its mutex before it writes, although a comment on the pool
says "Unlike Client which locks a single connection for the entire Call duration"
(`direct/pool_client.go:13`).

In the discovery client: `newSelf` keeps nodes that were removed when all nodes of
the new list are known; `tryAppendSeedNodes` can overwrite a list that `newSelf`
stored meanwhile; the entry of a cancelled service stays in `registry`, so that
registering it again gives `ErrDuplication`; a second call of the `cancelFunc` waits for
ever, since its channel gets one value, although it is returned as a
`context.CancelFunc`, whose later calls do nothing; a list without instances is passed over
without its timestamp, so that the next poll is answered at once with the same;
`selfproc` never ends, as nobody closes its channel.

Around the single calls: when the dial fails the client is nil and the next line stores
into it, which ends a worker and is recovered in the gateway; when the deferred `Close`
comes between the two tests of `conn` (`client/client.go:149`, `110`), the error of
`ReadFrame` is no `net.OpError`, and `ClientRead` dials and reads for ever on a connection
that nobody closes; a response that comes while the
deferred `Close` runs panics in `ClientRead`. `ClientDiscovery` calls a method of a nil
`*Consumer` and never returns.

In a worker that is closed: `Agent.Work` may send a response it holds on the closed
`Resps`; a write may meet a `conn` that was made nil after its test; a second
`WorkerClose` waits for ever or closes `Resps` twice; a watcher that is reconnecting
dials and announces the functions on a connection that nobody reads.

In the `nmidr` client: `Build` stores into a map that is never made and panics with the
mutex locked; a request to register that was given up may be applied after the
log-off; the entry of a cancelled service is never deleted, so that registering it
again is a duplicate.

### Bounds

Two of each actor give all pairs that can interfere; the third frame, caller or
request is there where a queue of one must be full while another actor comes.
Capacities of one reach "full" and "empty" with the fewest actors; the real
capacities (1024, 256, 512) differ in how often these cases occur, not in which
exist. `WorkerLife` has one frame, since a second one only queues behind the first at
`Resps`, whose capacity of one the frame fills, and two connections, since every
reconnection leaves the state it found but for the number. `Nmidr` has two calls of
one service, because services share only the mutex; of the requests given up at most
one of a kind is remembered, since applying it twice is applying it once; the second
run of the process is the one that meets requests of the first. The proofs of section
4 remove the bounds from all invariants and action properties of the runs and from the
refinement; what TLC alone answers for is liveness. The bounds are the constants named
`Max...`, `Cycle`, the capacities, and in `Dispatch` the set of requests.

### Fairness

Weak fairness, unless said otherwise, and only for goroutines of the process in question.
`Dispatch`: the pool's and the router's goroutines, whose waits all have timers; clients,
workers and connections owe nothing. `FuncMap`: a goroutine inside the registry goes on,
as nothing there blocks for long. `Connect`: the write loop (its writes have a deadline),
the close paths, and a read on a socket that is shut or broken, which returns.
`RpcClient`: the steps of `Do`, whose wait has a timer; neither the server nor
`ClientRead` owes anything. `Gateway`: in addition the steps of the handler and those of
`ClientRead`, whose dial has a time limit and whose read fails at once on a connection
that is shut; a read that waits for the server is no step. `ClientPool`: the steps of a
caller, with `Client.Do` returning as shown in `RpcClient`. `DirectClient`: the steps of a
caller, whose reads have a deadline. `Discovery`: `serverproc` and the goroutines of
`Register`, whose requests end by the timeout of the HTTP client (40 s); and, beyond weak
fairness, strong fairness of the `Done` cases of their selects, since Go chooses at random
among the cases that are ready. The discovery nodes, the watchers and `selfproc` owe
nothing. `WorkerLife`: the goroutines of the worker and of `WorkerClose`, with strong
fairness for the two that take the Agent's lock, which Go's mutex gives to a waiter before
it starves; the server owes nothing. `Nmidr`: the goroutines of `Register`, whose requests
end by the timeout of the HTTP client (40 s); strong fairness of the `Done` case as above;
and, for `Rejoins` only, that the registry answers some of the renewals and some of the
registrations that follow, as a client can find back only to a registry that can be
reached.

## 4. Proofs

Every theorem is of the form `Spec => []P` or `Spec => Refinement`, where `Spec` is the
specification that the run checks, in most cases without its fairness, and holds for every
value of the constants that the module's named assumption admits. The section of a
component begins with its inductive invariant as a conjunction of named parts, goes on
with one lemma per action or per group of actions that do the same, and ends with the
theorem that the invariant holds and the theorems that follow from it. The invariants were
tried with TLC on the component's instance first, with quantifiers over all sequences
bounded or left out.

| module | theorem | property |
| --- | --- | --- |
| `DispatchProofs` | `TypeCorrectness`, `AnsweredAtMostOnce`, `HeldOnce`, `ReturnsAreConfined` | `TypeOK`, `AtMostOneReply`, `JobHeldOnce`, `ReturnConfined` |
| | `OwnResultAlone` | `OwnResult`, if `OneCaller` |
| | `ServiceRefinement` | `ImplementsService` |
| `ServerProofs` | `PendingIsExact`, `WireIsInOrder` | `PendingExact`, `WireInOrder` |
| | `CountersStayExact`, `RegistryStaysExact`, `PicksAreServed` | `CountersAgreeAlone`, `RegistryExactAlone`, `PickIsServedAlone` |
| `ClientProofs` | `CalledBackOnce`, `AnswersIntact`, `ResponseIsOwn`, `SurvivesResets` | `CallbackOnce`, `IntactAnswer`, `OwnResponse`, `NoPanic` |
| | `PlacesAreExact` | `PlacesExact` of `ClientPool` |
| `DirectPoolProofs` | `PlacesAreExact`, `OwnReplyHolds` | `PlacesExact`, `OwnReply` of `DirectPool` |
| `ServiceProofs` | `PollsAreCurrent`, `NoUpdateIsLost` | `PollIsCurrent`, `NoLostUpdate` |
| | `RepliesAreOwn` | `OwnReplyAlone` |
| `NmidrProofs` | `OneRenewerHolds`, `OffUnlessLateHolds` | `OneRenewer`, `OffUnlessLate` |
| `WorkerProofs` | `ResultSentOnce`, `HeaderIsOwn`, `FunctionsAnnounced` | `ResultOnce`, `OwnHeaderAlone`, `AnnouncedUnlessOverwritten` |
| | `ClosedStaysClosed` | `ClosedForGood` |

The assumptions are the types of the constants and that a "none" value is not a member
of the set it extends. Beyond that: the two pools have finitely many callers, because
their properties count them, and a finite supply of clients or connections that never
runs out; `FuncMap` has finitely many names, because `FuncNum` counts them, a pool with
at least one goroutine, and `*Func` objects that never run out; `WorkerAgent` has
finitely many jobs, because those in progress are counted; `Discovery` has finitely
many nodes and a non-empty list of seeds without repetition, as `Config.Nodes` gives
it. In the two protocols function names, parameters, payloads and what a function or
handler returns are arbitrary sequences of cells; the names and parameters of RPC calls
are not empty, as the server refuses those that are (`server/optimize.go:171`), and a
handler of the direct server does not report an error in the very words of "no such
service", which `OwnReply` tells apart by its text.
`Dispatch`, `Connect`, `Nmidr`, `WorkerLife` and `DirectClient` need no set to be finite.

**Dispatch.** That a request is answered once is not preserved by a step from an
arbitrary state: `returnData` answers whatever job it holds. It needs that this job is
unanswered, hence that a job in a channel is unanswered and in no second place, hence
that a job enters a channel once, hence that it is in none before. `IInv`
(`DispatchInv`) says, for each place a request can be in (pool, channel, wire, worker,
router, `returnData`), that it is there once, that it is in no place that excludes this
one, and what its status and replies are then. The parts (`InvEarly`, `InvPool`,
`InvChan`, ..., `InvReply`) are named for the places. Where an action moves a request
through a queue, `QueueLemmas` gives the effect on its entries. `ServiceRefinement` maps
`answer` to `replies`, `handed` to the requests whose status has left INIT and
`finished` to those whose result was returned on a connection; only a refusal and
`Finish` take more than a stutter or a set to show.

`OwnResult` is false in general, since a result is matched by position. `OwnResultAlone`
proves it from `OneCaller`, the case the run `dispatch_one_client` checks: one
connection, whose client sends nothing before its last request is answered. On top of
`IInv` it takes `AloneInv`: at most one request that was sent is unanswered; a refused
request was never handed out; data that answers a request is its own. A result that
`returnData` is about to match then belongs to an unanswered request (were it answered,
it would have been refused, and there would be no result, or be answered by this result,
which would be used up), the job at the head of the channel is unanswered by `IInv`,
and so they are one request.

**Connect.** `Bytes` of a set of frames is the number of pairs of a frame and one of
its bytes, so that `pendingBytes` is a cardinality and a step that takes a frame on or
off changes it by that frame's length. `IInv` adds to the account where each frame is
(`Places`: in no two of writers, queue and write loop) and that, until the write loop
leaves its select for good, what was accepted is the wire, the frame at hand and the
queue, in this order (`Order`).
Accepted frames stay within the limit although each writer adds before it tests: the
account includes the bytes that are about to be taken back.

**FuncMap.** While calls do not overlap, at most one goroutine is inside the registry
(`Solo`), but it stops after every load and store, and in between map, counts and slices
disagree in a way that depends on where it stands. `RegFor(g)` says how for the goroutine
`g` that is inside: `FuncNum` is one ahead before the function is stored and after it is
deleted (`FunctionCount`), a `WorkerNum` is one ahead before its worker is appended and
after it is cut out (`WorkerCount`), and a live worker has as many entries in a list as
`added` counts, but for the announcement or withdrawal that `g` is at (`Membership`, which
counts in `Tally` the places of a worker in `Entries`); `AddPlace`, `RemovePlace` and
`PickPlace` relate the local variables to the shared state, which is what makes the index
and the modulus safe. When `g` is idle this is what holds between two calls, and then it
holds of any other idle goroutine: that is how the next call finds it. The clean-up a
caller does after a dead worker uses the same steps as a worker's own, with a different
`Target`.

**Codec, RpcClient, Gateway.** The frames come first: a field *stands* in a sequence of
cells at an offset (`Stands`), fields packed one behind the other stand one behind the
other, and a slice from where a field stands is the field. From this follow, for every
name, parameter and result, that each of the four layouts is read back as it was
written, that a call arrives at the worker as it was made and its result at the client
as it was returned; no induction is needed, as a frame has a fixed number of fields. A
stream is a beginning of the replies that `order` lists, laid one behind the other
(`Wire`), so that whatever `ReadFrame` finds complete is one of them, also when the
connection ends inside the next. `Callbacks` says that a callback in the map is that of
a call of its name which was not called back; `CalledBackOnce` and `AnswersIntact` follow.
`ResponseIsOwn` needs to know that until a timeout only the answer `Do` waits for is
anywhere between server and client, or the client has lost its handlers and no later
call can wait (`Single`). `SurvivesResets` needs `Ended`, what has ended when
the handlers are lost, and `Handler`, which says that the client of a single call is used
for one.

**DirectClient.** The same lemmas about fields give that both layouts of `proto.go` are
read back as they were written. A reply does not name its request, so the argument is that
there is only one: while calls do not overlap, the connection in `conn` is empty between
two calls (`Still`), and during a call it carries that call's request or a reply that fits
it (`Asked`, `Answered`). After a failed read it may carry anything, but then `Close`
takes it out of `conn` and nobody reads it again; a connection that is dialled is new
(`Unused`). A reply fits that says the service is missing only if the service has no
handler from the start and had none when the call began (`Known`).

**The pools.** `created` is shown to be the number of places in use: what is idle in the
channel, and the callers that hold a client or connection or are about to dial or to
give a lost place back (`Counted`, `Account`). This needs to know where a caller has one
(`Hands`) and that it is with one caller or in the channel once (`Distinct`). In the
direct pool `Replies` says in addition that a reply is on its way only to a connection
whose caller waits for it, and is the reply to that call; `OwnReply` follows, as a call
that fails closes its connection.

**Discovery.** A new application must cancel a poll that does not ask for it, and it
does so through `cancelPolls`: `Context` says that the cancel of the context in use is
there whenever `serverproc` polls. That a node is shown only its own timestamps needs
that *all* timestamps come from the node asked last (`Issued`), and this needs that
what is not watched has none (`Entered`). For `NoLostUpdate` the interesting states are
those between the two halves of `Build`: a watcher that found its application known
will be signalled; one that did not is up to date or among the watchers that
`broadcast`, which may come in between, has to signal (`Signals`). `NodeLists` keeps the
lists of nodes free of repetition, also when the seeds are appended to a list that was
loaded before, so that `retry` stays within the number of nodes.

**Nmidr.** The entry in the map of services is the lock: `OneEntry` says that every call
past its duplicate check has an entry which is its alone, `OneRequest` that only a step
that calls the registry has a request, `OffStays` that once the log-off is answered only
a registration that was given up can make the service live again.

**WorkerAgent.** Each of the three properties holds up to a meeting of two goroutines, and
so do the parts of the invariant. Until something is packed without the lock, who is about
to write is who packed (`Locked`, `UnderLock`), so that a result on the wire is that of a
job which is done, and there is one of each. Until two jobs are in `DoFunction` at once,
the header in `Req` is that of the job that runs (`OneHeader`). Until a frame is packed
over another, an announcement that is about to be written is still what is packed, and on
a connection that is up every function is announced or still to be (`Announcing`). `Link`
says where `WorkerReConnect` stands when a connection is up or not.

**WorkerLife.** `ClosedForGood` needs that the watcher rests while `WorkerClose` runs
(`Watch`), unless `midway` has recorded the opposite, and that the one open connection is
the Agent's and none once `Agent.Close` is passed (`Lone`). `Flow` bounds what waits for
`Resps` by the frames that came, which the type of `waiting` needs.

*What stays with TLC.* Liveness and everything under fairness (`PoolDrains`,
`RouterDrains`, `AcceptedIsWritten`, `ClosedGoesDown`, `SelectionEnds`, `DoReturns`,
`OneShotEnds`, `CallsReturn`, `CallReturns`, `SeedsRejoin`, `StopsAll`, `WindsDown`,
`Stops`, `Rejoins`): the prover does not reason about fairness or `ENABLED`.

## 5. What is not modelled

The HTTP branch of `returnData`, what the gateway tells its caller, heartbeats and names
of workers in the server (they touch none of the modelled state), the superseded `doJob`,
`RunWorker` and `processResults`, and `MultiplexClient`, which has no caller; the address
lists and `ConnectPool`; `DelFunction` and several Agents of one worker; the byte layout
of announcements; `Reload` and foreign zones in the discovery client; what `nmidr` has
behind `Build`, which nothing reaches; the WebSocket handler, which is empty; the
listeners; `JobList` and `JobDataList`, whose every call is commented out; and the
components with status `not_modelled`. Memory is sequentially consistent; a torn read of a
slice header, which the Go memory model permits in `FuncMap`, is not represented.

## 6. Plan

1. The request path with its abstract specification and proofs; registry, connection,
   clients and their users, pools, worker and its closing, frames of both protocols,
   discovery and registry clients, each checked (done).
2. Proofs of all invariants, action properties and the refinement that the runs check
   (done).
3. Modelling that is left: `DelFunction` and several Agents in `WorkerAgent`; the
   `HttpResTag` branch of `returnData` in `Dispatch`; a composition of `Connect` with
   `FuncMap` for the close paths.
