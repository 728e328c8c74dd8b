# Verification of ramix

ramix is a small Go framework for event servers over TCP and WebSocket: a
client sends length-prefixed messages, each message names an event, and the
handlers registered for the event run in a worker pool. What is hard in it is
the concurrency: every connection has four goroutines of its own, the pool has
its workers, `Run` and `Shutdown` may be called from anywhere, and a graceful
shutdown has to bring all of them to an end within a timeout without losing
accepted work.

The project holds TLA+ models of these parts, TLC runs on small instances, and
TLAPS proofs of their safety properties. `PROJECT.json` maps every definition to the
lines it models.

## The system

| Component | State | Operations | Interacts with |
|---|---|---|---|
| Worker pool (`worker_pool.go`, `worker.go`) | `state`, `accepting`, one bounded channel per worker, the map `tasks` of live contexts, `done` | `start`, `submit`, `stopAccepting`, `stopAcceptingAndDrain`, `forceCancel`, the workers' loop | readers submit; the shutdown owner drains; handlers run in workers |
| Task context (`context.go`) | handler index, keys, cancellation | `Next`, `Set`, `Get`, `finish`, `cancelTask` | derives from the connection's `forceCtx` |
| Connection core (`connection.go`) | `state`, three contexts, `acceptingSends`, `outgoing`, `drainWriter`, the once-guards, the close reason, `done` | `Send`, `start`, `runWriter`, `quiesceReads`, `stopSendsAndDrain`, `requestClose`, `supervise`, `wait` | reader, writer, heartbeat and supervisor goroutines; hooks; manager; shutdown owner |
| Heartbeat (`heartbeat.go`) | time of the last activity | `refresh`, `checkHeartbeat` | closes its connection if it is open |
| TCP and WebSocket readers (`tcp_connection.go`, `ws_connection.go`) | frame decoder's buffer | `reader`, `processInput`, control handlers, `fail` | submit requests, report and close |
| Server lifecycle (`server.go`, `server_state.go`) | `state`, `stopRequested`, `startupDone`, `shutdownDone`, `shutdownErr`, `runtimeErr`, listeners, hooks and routes with their frozen copies | `Run`, `Shutdown`, `rollbackStartup`, `startShutdown`, `shutdownOwner`, registrations | everything |
| Connection manager (`manager.go`) | connection groups, the finalizing set and its change channel | `addConnection`, `removeConnection`, `markFinalized`, `snapshot`, `quiesceAll`, `forceCloseAll`, `waitAll` | acceptors add, supervisors remove, the owner snapshots and waits |
| Acceptors (`tcp_server.go`, `websocket_server.go`) | `acceptingSetups`, `setupWG`, the connection limit | accept loop, upgrade handler | manager, owner |
| Frame decoder and codec (`frame_decoder.go`, `decoder.go`, `encoder.go`) | bytes of an incomplete frame | `NewFrameDecoder`, `Decode`, `Encode` | readers, `Send` |
| Router and recovery (`router.go`, `recovery.go`) | routes, group handlers, as Go slices | `Use`, `Group`, `RegisterRoute`, `freeze`, `Recovery` | frozen by `Run`, run by workers |
| Statistics (`stats.go`, `stats_export.go`) | atomic counters and gauges | saturating add, decrement, maximum, snapshot | all of the above; scraped over HTTP |
| Options, logging, mode, errors, examples | configuration values | validation, output | - |

What makes each of them correct:

- *Pool*: no send on a closed channel; requests of a connection run in order and
  one at a time; an accepted request is dropped only when its context is
  cancelled; the registry and the gauge are exact; a drain that returns nil has
  left nothing behind, and one that times out has cancelled everything.
- *Connection*: the state never goes back; a graceful drain writes every message
  whose `Send` returned nil; the close hook comes after the open hook and after
  all goroutines; failures this side provokes are not reported; every close ends.
- *Lifecycle*: a stop requested at any moment wins; a stopped server holds
  nothing and never changes again; every caller gets the same result; a service
  failure reaches the result of `Run`; the configuration is frozen.
- *Manager and acceptors*: nobody is missed between the groups and the finalizing
  set; `waitAll` misses no wake-up; the connection limit is exceeded only by setups
  that decide at the same time.
- *Decoder*: the frames do not depend on how the stream is cut; the decoder holds
  back less than the frame limit and always makes progress; well-formed options are
  refused exactly when every frame would be refused for its length (more bytes to strip
  than the frame limit are not refused, although then every frame is).
- *Codec and TCP stream*: what arrives is what was sent, in order, and how the
  reader ends tells what happened to the rest.
- *Router and chain*: a route keeps the handlers it was registered with; the
  handlers of a request run once each and in order whatever calls of `Next`,
  panics and recoveries happen; a panic is contained by `Recovery`.
- *Statistics*: no update is lost, none overflows, and nothing exported as a
  counter ever goes down.

## Modules

`TaskDispatch` - what the pool promises, with neither workers nor queues.

`WorkerPool` - the pool. `submitMu` is a read-write lock: a reader holds the read
side from `SubmitRegister` to `SubmitQueue` or `SubmitFull` (`readerPc` is
`sending`), and every write-locked section is one action guarded by
`WriteLockFree`. A task is the pair of its connection and its request number.
`stopAcceptingAndDrain` is `DrainCall`, then `DrainNew`, `DrainStarted` or
`DrainAgain` (what `drainOnce` finds once it has the write lock), then `DrainReturns`, or `DrainTimeout` (the snapshot) and one
`CancelTask` per task. A worker receives, dequeues (`Begin`, which also skips a
cancelled task), runs the handler chain, and settles. `ForceConnection` is the
close of a connection, which cancels the parent context of its tasks. The server
drains only a started pool; `DrainNew` is the branch the code has for a new one.
The owner's second `forceCancel` adds nothing: after a drain that timed out every
registered task is cancelled already (`ForceCancelReachesAll`), and after one
that did not the registry is empty (`DrainReturnsClean`).

`Connection` - one connection of either transport. `pc` holds the place of the
reader, writer, heartbeat, supervisor, opener (the goroutine that called `start`
and runs the open hook) and shutdown owner. The code repeats one pattern, report
and close: a failing goroutine records its failure in `fault` and goes through
`Report`, `CloseWon` or `CloseLost` and `CloseReturns`; `fault.report` says
whether this place in the code reports before closing, only after winning the
close, or never. The body of `closeOnce` is four actions (`CloseSends`,
`CloseRead`, `CloseForce`, `CloseSocket`) because their order matters. Input is
abstracted to what `Read` or `ReadMessage` makes the reader do (`Inputs`); the
heartbeat's clock to `fresh`. After the deadline or the close, data that was
already buffered may still be returned (`MaxLateReads`).

`ServerLifecycle` - `Run`, `Shutdown`, the rollback, the accept services and the
skeleton of the shutdown owner. A section under `stateMu` is one action. The
configuration is the number of registrations made, which is enough to see whether
the frozen copy is current. `OwnerWork` stands for the owner's calls on the pool
and on the connections, whose detail is in the other modules: here they only
take time and may exceed the timeout.

`ConnectionManager` - every connection of the server from its setup to its end:
the manager, the TCP accept loop, the upgrade handlers with the setup gate, the
supervisors, and the shutdown owner's phases in their order. A group's lock covers
one group, so `CountGroup` and `Snapshot` read one group per step while the others
change. A connection is its stage in `life` plus whether it was closed, quiesced or
drained; what happens inside it is `Connection`. `change` counts the closed
`finalizingChange` channels, so that a stale channel can be told from a fresh one.
`peak` is a history variable, read by no action: the largest number of setups that were
ever between the start of their count and their `addConnection` (`Deciding`) at once.
The pool's drain is one step that may time out.

`FrameDecoder` - the options with their validation, and `Decode`. It holds the
decoder's lock throughout, so the only process is its loop: `DecodeBegin` appends
the input, `DecodeFrame` is one round, `DecodeReturns` and `DecodeFails` are its two
ends. The machine is scaled: a byte has `Base` values, a word has 8 bytes as in the
code, so with `Base = 2` `int` is -128 .. 127, `uint64` is 0 .. 255, and length fields
of 1, 2, 3, 4 and 8 bytes stay below, at and above what they are in the code.
`WrapInt` is the wrap-around of `int`. `Reading`, the definition the decoder is checked
against, reads the stream as a whole in plain integers.

`MessageStream` - extends `FrameDecoder` with `Send` and `Encode`, the writer with
`writeFull`, the socket, and the TCP reader with `processInput` and `Decoder.Decode`.
A write takes any part of what is left and may fail having done so; a read returns any
part of what is in the socket, or fails (`ReadFails`), and the rest is lost. What
`handleRequest` answers (stopping, queue full), queue limits, contexts and closing are `Connection`'s:
here the writer ends by a failure or when it has drained.

`RouteTable` - what the router promises, with sequences as values. `Router` - the
router with slices as in Go: a backing array and a length, `append` in place when there
is room and otherwise into a new array with any spare capacity (`MaxSpare`). Each
operation is one step: `router.mu` and `stateMu` cover it. `HandlerChain` - extends
`Router` with one request on the frozen routes: the stack of active `Next` loops and
handlers, the shared `step`, panics and `Recovery`. A handler other than `Recovery`
calls `Next` up to `MaxNext` times and may return or panic between any two calls;
`Logger` behaves as one of them.

`Metrics` - the operations of `serverMetrics` as the sequence of updates they make,
each update a loop of `Load` and `CompareAndSwap`, and the snapshot, one load per step.
`uint64` and `int64` are scaled to `MaxUint64` and `MaxInt64`.

`MC...` - the instances (`ConnectionManager` and `HandlerChain` need none: their
constants are plain values).

`...Proofs` - the inductive invariants and the theorems, one module for each component
(`WorkerPoolProofs` also holds the refinement of `TaskDispatch`, `HandlerChainProofs` what
is proved of `Router`; `MessageStreamProofs` extends `FrameDecoderProofs`, as its component
extends the decoder). No run uses them.

The definitions named `Bug...` are plausible mistakes, each with the parameters of
the definition it is named after. They are not part of any next-state relation;
`PROJECT.json` ("mutants") says which one breaks which property.

## Runs

| Run | Instance | Shows |
|---|---|---|
| `worker_pool` | connections 1 and 3, which share one of two workers, queues of 1, two requests each, two drainers | all safety properties, that the pool implements `TaskDispatch`, and `DrainTerminates` |
| `connection` | both transports: frames, bad input, control frames, EOF, failing writes, silence; one sender; both hooks may panic | report, hook, state and heartbeat properties |
| `connection_sends` | TCP, a failing or silent peer, two senders on a buffer of one | the drain loses nothing, no `Send` stays blocked |
| `connection_ends` | both transports: frames, bad input, control frames, failing reads and writes; one sender | `CloseCompletes`, `ShutdownCompletes` |
| `heartbeat_report` | TCP, silence | **violated**: an expired heartbeat is not reported |
| `server_lifecycle` | two transports, two callers each of `Run` and `Shutdown`, one registration | all properties of the lifecycle, liveness included |
| `connection_manager` | two accepted sockets and one upgrade, two groups, limit 1 | a clean shutdown misses nobody; its waits need no timer; the limit's overshoot |
| `late_setup` | one upgrade | **violated**: a late setup leaves a connection open on a stopped server |
| `frame_decoder` | 160 options and the numeric edges of others, streams of up to 10 bytes in inputs of up to 4 | decoding does not depend on the cuts; validation, progress and buffer bounds |
| `message_stream` | three messages of two events, four bodies (one longer than a length field can say), frame limits 7 and 10 | `Delivery`, `EndClassified` |
| `handler_chain` | two groups, two events, three calls of `Use` or `RegisterRoute`, chains of up to 4 with `Recovery` anywhere | chain properties; the router implements `RouteTable` |
| `metrics` | two callers, three calls, two scrapes; new counters and nearly full ones | `CountersExact`, `ExportedCountersMonotone` |

*Bounds.* Two connections on one worker are needed for order under sharing and for
a full queue, and leave the second worker idle, so that a drain also waits for a worker
that holds nothing; with queues of one, two requests fill a queue while one is executing.
A connection with a worker to itself behaves as one that shares it with nobody else
active, and every safety property of that run is proved for any number of both. Two senders on a buffer of one give a queued
message, a blocked `Send` and a message in the writer's hands at the same time.
One late read is enough for data that arrives after the deadline. A pong does to a
connection what a ping does except for the answer, so `connection` leaves it out;
a failing read reports and closes as bad input does, and is in `connection_sends` and
`connection_ends`. In the latter the reader can leave because the pool takes no more tasks,
without closing, so that only the owner is left to end the connection; silence adds to it
only one more reason to close, and is in `connection`. Two callers of
`Run` and of `Shutdown` give every pair of races; two transports give a partial
bind. Two groups make snapshots and counts non-atomic; three connections with a
limit of 1 are enough for a setup that decides alone, one that decides beside another, and
a third that must be refused. Ten bytes hold up to ten frames of the smallest options and cut every larger
one at every place; both edges of `int`, a limit above it and the least `int` are among
the options. Three messages give one before and one after the message that is cut off
or too large. Three operations on two groups are the fewest in which two routes could
share a group's array (`Use`, then two registrations); `MaxNext = 2` covers a handler
that calls `Next` again after the chain has ended. `metrics` uses one field of every
kind (gauge, counter, saturated sum, maximum): the others are updated in the same way.
All runs set `CHECK_DEADLOCK FALSE`: pool, connection and server end for good.

*Fairness.* Goroutines that can run are scheduled (weak fairness of each
goroutine's own steps), timers fire, hooks and callbacks return, and a closed or
expired socket ends a blocked read or write (Go's `net.Conn` contract). The
heartbeat's loop gets strong fairness for its exit: its `select` chooses among ready
cases at random, so ticks cannot hide the cancellation for ever. A drain gets strong
fairness for the write lock: a waiting writer of a `sync.RWMutex` keeps new readers out,
so it gets the lock once those inside leave; that they do leave is not assumed but follows
from `submit` (`BugSubmitFullBlocks`, an offer that waits for room, breaks
`DrainTerminates`). Handlers are
assumed to return only *after* their context is cancelled (`CooperativeReturn`);
a handler that ignores its context can hold its worker for ever, and then the
shutdown ends by its timeout. Nothing is assumed of peers, of clients or of whoever
may call `Run`, `Shutdown` or cancel a context. In `ConnectionManager` the timer is
*not* fair: setups, hooks and writes are assumed to end, and then the shutdown ends
without it. The four runs about data and handlers check safety only; the progress of
`Decode` is the action property `EveryFrameTakesBytes`.

*What the runs say that is worth knowing.* A `Send` that began before a close may
return nil although the message is never written: `GracefulDrainWritesAll` is about
the drained writer, and nothing stronger holds after a forced close.
`MaxConnectionsCount` is not a hard limit: the TCP loop and every upgrade handler
count before they register, so two that decide at the same time can both pass. With at
most n that ever decide at once, at most n - 1 connections are above the limit
(`LimitOvershootBounded`), and none when setups decide one at a time.

A malformed frame costs the well-formed frames before it in the same read: `Decode`
returns none of them (the message stream's `Delivery` is a prefix for that reason).
`Encode` does not know the peer's frame limit: a message larger than it is sent, and the
reader closes the connection (`EndClassified`). After a recovered panic the remaining
handlers do run, but outside the `Recovery` that recovered: a second panic ends the
process unless another `Recovery` in front of it is still active (`PanicContained` is
what holds). `CountersExact` is about gauges that never reach the limit of `uint64`; one
that did would lose what it could not count.

## Findings

*Heartbeat.* The design document
(`docs/superpowers/specs/2026-06-10-stability-test-baseline-design.md`, lines
372-373) says that "An expired heartbeat closes the connection once and reports a
timeout-classified connection error." `checkHeartbeat` closes the connection
(`requestCloseIfOpen`) and nothing reports it: the error callback is not called
and `ConnectionErrors` does not count it. The reason is kept in `closeOp` and
`closeErr`, which only tests read. Run `heartbeat_report` has the shortest trace.

*Late setup.* Of a shutdown whose deadline expires the same document says (lines
217-221) that the server "force-closes every connection" and that "Framework
goroutines exit after their owned resources are released". The setup gate is
checked once, when a setup begins; the owner waits for setups only until the
timeout, and `openWebSocketConnection` and `openTCPConnection` look at nothing
before `addConnection` and `open`. A setup that is still between the gate and
`addConnection` when the owner ends (`late_setup`) opens a connection on a stopped
server, whose goroutines run until the peer closes it or the heartbeat finds it
silent; a peer that keeps sending pings holds it for ever. It takes a
setup stalled for longer than `ShutdownTimeout`; after a shutdown without timeout
it cannot happen (`CleanShutdownIsComplete`).

## Proofs

Eight modules prove, for every value of the constants, all the safety properties that the
passing runs check on small instances: invariants, action properties and both refinements.
In each of them `Inductive` is `Spec => []IInv` (`StreamInductive` and `StreamInv` in
`MessageStreamProofs`), the properties follow from `IInv`, and the action properties from
`IInv` and one step. Before it was proved every `IInv` was checked with TLC on the
component's instance.

| Module | Theorem | Property |
|---|---|---|
| `WorkerPoolProofs` | `TypeCorrect`, `NeverSendsOnClosed`, `RegistryIsExact` | `TypeOK`, `NoSendOnClosedChannel`, `RegistryExact` |
| | `DrainIsClean`, `GaugeIsExact`, `ForceCancelIsComplete` | `DrainReturnsClean`, `GaugeExact`, `ForceCancelReachesAll` |
| | `IntakeStaysClosed` | `NeverReopens` |
| | `ImplementsTaskDispatch` | `Dispatch` (refinement) |
| `ServerLifecycleProofs` | `ShutdownReportsTheEnd`, `NothingLeftOpen` | `ShutdownIsFinal`, `StoppedReleasesAll` |
| | `FailuresReachRun`, `ConfigStaysFrozen` | `RuntimeErrorSurfaces`, `RunningConfigFrozen` |
| | `LifecycleInOrder` | `LifecycleSteps` |
| `ConnectionManagerProofs` | `CleanShutdown`, `LimitHolds` | `CleanShutdownIsComplete`, `LimitOvershootBounded` |
| `ConnectionProofs` | `OwnFailuresAreSilent`, `HooksRunInOrder` | `NoSelfInflictedReport`, `HooksOrdered` |
| | `OneReportOfTheClose`, `DrainLosesNothing` | `WebSocketReportsTheClose`, `GracefulDrainWritesAll` |
| | `StateOnlyAdvances`, `DoneIsSilent`, `HeartbeatSparesDrain` | `StateMonotone`, `NothingAfterDone`, `DrainSparedByHeartbeat` |
| `HandlerChainProofs` | `HandlersRunOnce`, `RecoveryContainsPanics` | `RunsOnceInOrder`, `PanicContained` |
| | `ImplementsRouteTable` | `RoutesAsRegistered` (refinement) |
| `FrameDecoderProofs` | `HoldsLessThanAFrame`, `AcceptsTheFeasible` | `ResidueBounded`, `AcceptsExactlyFeasible` |
| | `RoundsTakeBytes`, `DecodesTheStream` | `EveryFrameTakesBytes`, `StreamDecoding` |
| | `FramesFit` | no returned frame exceeds the limit less the stripped bytes |
| `MessageStreamProofs` | `DeliversInOrder`, `EndTellsWhatHappened` | `Delivery`, `EndClassified` |
| `MetricsProofs` | `NoUpdateIsLost`, `ExportsOnlyGrow` | `CountersExact`, `ExportedCountersMonotone` |

The type invariants of `Connection`, `ConnectionManager` and `ServerLifecycle` are in no
run; they are proved as well (`TypeCorrect`).

*Worker pool* (`WorkerPoolAssumption`: connection IDs are naturals, workers and capacity
are positive, which `newWorkerPool` enforces; the set of connections may be infinite).
None of the invariants is inductive alone. `NoSendOnClosedChannel` needs to know that
whoever is inside `submit` saw `accepting`, that `accepting` means a started pool that was
not drained, and that `closed` means drained (`LockInv`). `RegistryExact` needs more:
removing a settled task from the registry is right only if no other worker holds it and it
is not queued any more, which follows from the order of request numbers (`OrderInv`: a
connection's tasks are with its own worker, increasing, the executing one the smallest,
none beyond the last accepted) and from `HandInv` (a worker holds a task exactly between
receive and settlement). `DrainReturnsClean` follows from `DrainedInv` (the caller saw
`done`), from `HandInv` (a worker exits only from a closed and empty channel, and all have
exited when a started pool is done) and from `RegistryExact`. The gauge is a cardinality,
so `GaugeInv` carries along that what it counts is finite. `ForceInv` says what the
snapshot of `forceCancel` is good for: intake was closed before it was taken, so a
registered task that is not in the rest of the snapshot has been cancelled. The refinement
maps the queues to sets; the order that `TaskDispatch` demands is `OrderInv`.

*Server lifecycle* (finitely many transports, at least one; any callers). At most one
caller of `Run` is past the claim (`RunInv`), the two channels and `stopRequested` tell the
state (`StateInv`), the owner runs exactly while the server is stopping and what it has
undone stays undone (`OwnerInv`), and a failure is in the channel or in the hands of the
caller that will return it (`FailureInv`): together they leave no second path to a stop.

*Connection manager* (finitely many upgrades, at least one group, a positive limit). The
groups and the finalizing set together hold each connection from its registration to its
end (`LifeInv`, `OpeningInv`). `WaitInv` is the argument for the non-atomic snapshot: once
the setups have ended the groups only shrink, so a snapshot misses nothing that is still in
them. `LimitInv` speaks of every subset S of the members, because connections leave while
others count: S and the setups that would still pass if S were all that is left
(`Passing(S)`, by what they have counted so far and the part of S in groups still ahead of
them) are together below the limit plus `peak`. A setup that registers moves from the second
to the first; one that starts to count is covered by `peak` or finds S at the limit; S = the
members gives the bound. `BudgetInv` shows that the modelled IDs do not run
out.

*Connection* (any senders, any buffer, any choice of the peer's inputs). `EndInv` and
`HookInv` place the supervisor after everything it waits for; `CloseInv` and `OwnerInv` are
the order of cancellation, deadline and close, from which `InputInv` and `FaultInv` know
that a failure provoked by this side meets a cancelled context; `WinnerInv` says that the
winner of the close is one, owns the reason, and is gone once it has reported. `QueueInv`
is the writer's account: what `Send` accepted is what was written, then the message in the
writer's hands, then the channel; `DrainInv` says that no `Send` is under way once
`drainWriter` is closed.

*Router and chain* (any events, handlers, and lengths). `SliceInv` is the reason why `append`
in place does no harm: the arrays of different groups are apart, and those of the routes
are apart from those of groups, so nothing a route can see is overwritten. `RanInv` ties the
shared `step` to the handlers that ran, also while a panic unwinds; `DepthInv` says that the
active handlers are nested in order, and `ShieldInv` that a `Recovery` in front of an active
handler is active or has recovered.

*Frame decoder* (`FrameDecoderAssumption`: the options have the types that Go gives them;
any base and any length of stream). That validation accepts exactly the feasible options,
and that no sum of `decodeOne` wraps for accepted ones, is arithmetic. `ParseInv` is the
argument for `StreamDecoding`: the bytes taken so far are a chain of cuts (`Chain`), each
cut is what `decodeOne` makes of the rest of the stream, and appending input changes no cut
that was made; the recursive `Reading` follows the same chain. This is an induction over
data. The library's induction theorems take an operator as a parameter and cannot be used
with the provers at hand; `LeastNumber` and `SetInduction` state induction for sets
instead and are proved from the well-foundedness of strict inclusion.

*Message stream* (`MessageStreamAssumption`: the decoder has the options that the server
gives it with any frame limit, events are `uint32`, bodies are bytes; any base, any number
and size of messages, any short writes and reads). `DecodeInvertsEncode` says that `Decode`
of what `Encode` made is the message: quotient and remainder are unique, so the four digits
of `PutUint32` put together are the number, and the limit on bodies keeps the length within
four digits. `ServerDecodesOne` says what `decodeOne` makes of bytes that begin with a
message's header. The invariant speaks of one sequence, `Stream`: the bytes fed to the
decoder and then those still on the wire, so that a read moves the border and changes
nothing. `WireInv` says that there are cuts (`Layout`), one for each message that the
writer took, between which the stream holds the encodings, the last one possibly cut off;
that what `writeFull` has left is exactly the missing end (`WriterAt`); and that the
decoder stands at the cut after the messages it has handled (`ReaderAt`). `NextMessage`
follows: the next frame is the next message, an error means one above the limit, and an
unfinished rest means that the stream ends before the next cut. The last is why the end of
the reader tells the end of the writer (`EndOfStream`). That the reader is never ahead of
the complete messages, which `Delivery` asks for, is not inductive without the cuts.

*Statistics* (`MetricsAssumption`: the two transports, calls that update counters which
exist, counters that start within their limits, and gauges that start so low that the calls
made cannot fill them, since 2^64 connections or tasks are never open at once). What the
calls under way have still to add is a set of units (`Ups`), and the callers that have still
to decrement another (`Downs`), so that the sums over callers are sizes of sets and need no
induction. `GaugeIs`: a gauge is what was counted and no decrement has claimed, plus the
decrements under way, so a decrement never meets zero. `SumIs`: a sum, and the units under
way, cut once to the limit, are what the calls demand. `MaximumIs`: the maximum demanded is
in the counter or is the candidate of a call under way. A compare-and-swap that succeeds on
a value read long ago does no harm because the value is the same (`LoopInv`: it is one that
the loop had reason to change). `ScrapeInv` keeps what was exported at most what is loaded,
and that at most what the counters hold; the saturated totals are monotone in their parts.

*Only model-checked.* Liveness (`DrainTerminates`, `BlockedSendReleased`, `CloseCompletes`,
`ShutdownCompletes`, `StopCompletes`, `ShutdownReturnsToAll`, `ShutdownNeedsNoTimer`):
fairness and `ENABLED` are out of the prover's reach. The two violated properties have
their traces from TLC.

## Not modelled

- Options and TLS (`option.go`): setters and range checks of single values before
  anything runs, with neither state nor order. A failed validation is the rollback
  after `Prepare`; the frame decoder's own options are modelled.
- The frame decoder's option setters (a choice of `Options` in `Init` stands for them), the
  error for a nil option (`frame_decoder.go`, lines 70-72), and byte orders other than
  little and big endian, which `readLengthField` takes for big endian at width 3 (line 235).
- Which service failed: `failed` and `cause` of `ServerLifecycle` are booleans, so
  `RuntimeErrorSurfaces` says that a failure is in the result of `Run`. When two services
  fail the code returns the first error and drops the second (`server.go`, lines 169-189).
- `Context.Set` and `Context.Get`: a map under one lock.
- HTTP methods, headers and text formats of the statistics export; logging, mode and
  error values; the examples.
- TLS and the details of the HTTP upgrade, which succeeds or fails.
- Statistics of transports other than the two (`forTransport` returns nil): such calls
  change nothing.

## Plan

The components that carry the logic are modelled, and every safety property of the passing
runs is proved. What a prover with fairness and `ENABLED` could add is the liveness of the
drain, of the close and of the shutdown. When the code changes, the order of work is that of
this document: the model against the source, the runs, then the invariants.
