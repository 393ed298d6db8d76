# TLA+ models of mcpox

`mcpox` is a Rust implementation of the Model Context Protocol. Its core is
`mcpox-jsonrpc`: symmetric JSON-RPC peers, each connection served by one tokio event loop that
owns the transport, the outbound requests that wait for a response, and the tasks that handle
inbound messages. These modules model that event loop, the handles that talk to it, the transport
below it, the clients and servers that own it, the router above it, and the MCP client that launches
a server and shakes hands with it.
File names below are relative to `src/mcpox-jsonrpc/src/` unless they start with `mcpox-`.

## The system

| Part | State it keeps | Operations | What makes it correct | Modelled by |
|---|---|---|---|---|
| Event loop (`service/connection.rs`) | `pending_outbound_requests`, `pending_inbound_operations` (a `JoinSet`) and its two maps, two channel receivers, the connection's token | arms of `select!`: command, outbound message, inbound message, joined task, custom loop, cancellation; then close, ignore commands, drain, graceful wait, abort, last sweep | every caller told exactly one outcome; every single request answered once; maps agree; shutdown ends | `OutboundCalls`, `InboundOperations`, `Connection` |
| Connection handle (`service/connection_handle.rs`) | two channel senders, the token, a shared future of the loop | `start_call_raw`, `raise_raw`, `start_batch`, `shutdown`, `cancel_server_request` | a submission is accepted or refused; futures complete; `shutdown()` returns when nothing runs | `OutboundCalls`, `Lifecycle` |
| Request handles and batches (same file) | a oneshot receiver; `batch_sent` | poll, `cancel`, `BatchBuilder::call`, `send` | a batch's report agrees with its calls' results; each future resolves | `BatchFutures` |
| Message types (`types.rs`, `InboundMessage::try_from`) | none | parse, classify, flatten and split batches | every part of a batch is handled once, in the right way | `Classification` |
| Router and handlers (`router.rs`, `handler.rs`) | handler table | `register_handler`, `handle_invocation`, panic boundary | one response per request, none per notification; a panic disturbs nobody else | `Dispatch` |
| Service, client, server (`service.rs`, `client.rs`, `server.rs`) | token tree, drop guards | bind, serve, clone, drop | dropping the last owner closes what it owns, and nothing else does | `Lifecycle` |
| Transport (`transport.rs`) | a framed stream behind a mutex | send, receive | no line is lost when a receive is dropped | `Wire` |
| MCP client (`mcpox-client`) | one connection, a child process | launch, `initialize`, calls | a client exists only after an agreed handshake; no orphan | `McpClient` |
| `mcpox-core`, `mcpox-macros`, `mcpox-server`, `mcpox` | none | generated types, stubs | | not modelled |

How they interact. Callers and the loop share two bounded channels (`CONNECTION_CHANNEL_BOUNDS`, 16 places each): outbound
messages and commands. Each outbound message carries a oneshot sender for its result. The loop
keeps the sender of a request in `pending_outbound_requests` from the moment the request is sent
until a response, a cancel command or the last sweep takes it. Inbound requests are spawned as
tasks; a task may hold a handle to the connection that spawned it, so callers can be inside the
loop's own tasks. The loop awaits a send to the transport inside the arm that took the message, so
nothing else of the loop runs meanwhile. A token cancelled by a handle, a service or a client ends
the loop; so do the peer's disconnection, an I/O error and an error of the custom loop.

What is hard: the order of the two channels, which `select!` polls in random order; a response, a
cancel and the shutdown that want the same entry; callers that enqueue while the channels close; a
batch that is partly on the wire when its send fails; request IDs that come back; tasks that panic
or are aborted and so lose the request they were for; a timeout that fires as a task completes;
handlers that wait for the loop that waits for them. `PROJECT.json` lists these at their lines,
with the properties that would catch them.

## Modules

* `CallContract`: what a connection promises to the callers of outbound requests, with no
  channels, maps or phases. The requests of a unit are sent together; an answer or a cancellation
  is only for what was sent while the connection was served; after that the only news is that the
  connection is closed; an outcome, once given, stays.
* `OutboundCalls`: the outbound half. `caller`, `response`, `confirm` and `cancelling` are the
  callers' side: where the future of each message is, and what its oneshots hold. `outbound` and
  `commands` are the two channels, `pending` the map of pending requests, `phase` the position in
  `event_loop`, `token` the connection's token. `atPeer` is the peer: requests it may have seen
  and so may answer, once or repeatedly, in batches or singly. Single calls, notifications and
  batches differ only in which oneshots they carry (`Reqs`, `Confirmed`). `Submit`, `Enqueue`,
  `EnqueueRefused` and `DropSubmission` are the parts between awaits of `start_call_raw`,
  `raise_raw` and `BatchBuilder::send`; `HandleOutboundMessage`, `HandleCommand` and
  `ReceiveResponses` are the arms of `select!`; `BeginShutdown` to `FinishShutdown` are the code
  after the loop in its order; `LoopPanics` is the `catch_unwind` of `service_connection`.
* `InboundOperations`: the inbound half. An operation is an inbound message and its task: `kind`
  and `ids` say what it asked, `task` is the life of its task, `reply` what the loop has tried to
  send for it. `byTask` and `byId` are the two maps (an entry of `byTask` is the ID of the request
  the task serves, an entry of `byId` the task). `signalled` are requests whose own token was
  cancelled by `cancel_server_request`.
* `Connection`: both halves under one loop, and handlers that call the peer back through a handle
  to their own connection (`MadeBy`). `Out` and `In` are instances of the halves; each step of the
  connection is a step of one of them, of both (shutdown, cancellation, a hybrid batch), and a
  handler does not end while it awaits a call. The code has one channel for both kinds of command;
  here each half has its own. The halves never read each other's commands, so only the point at
  which one kind fills the channel for the other is lost, which the halves' own runs cover by
  capacities of one place.
* `BatchFutures` extends `OutboundCalls` with what its callers see. `batchSent` is `batch_sent`, `future`
  what the poll of each future has yielded. A call whose parameters do not serialize never joins its
  batch and has a flag and a oneshot of its own (`BadCalls`). `Send` sets the flag in the step that
  submits the batch, as no await lies between them; the poll of a batch future reads the flag first.
  A poll that finds nothing is no step.
* `LoopContract`: what an event loop promises whoever runs it: it serves, closes, and has closed; no
  handler begins unless it serves; it closes when none of its handlers is left, or by a panic.
* `Lifecycle`: owners (clients and servers) with the clones that share a drop guard, handles, and
  calls of `shutdown()`, which may be made by a handler of the connection they end or of another
  one. `cancelled` is the set of connections whose token is; `result` is what the loop's shared
  future yields. `Client::bind` drops its service at once, so a client is its guard and its one
  connection. A handler that is aborted drops the `shutdown()` it awaits.
* `MessageStream`: a stream promises whole messages in the order in which they were handed over, of
  which only a cut leaves a part.
* `Wire`: two event loops over two bounded pipes. A message is two chunks, so that it may be half
  written and half read; `wbuf` and `rbuf` are the buffers of `Framed`, `lock` the mutex of `Peer`.
  A send is several steps inside one arm, during which the loop does nothing else; `ArmCompletes` is
  what `select!` does to the other arms. `Die` is a panic of the loop or the death of its process;
  `Stall` stops it for good with its pipes open, which the peer cannot see. The custom event loop is an
  arm that may complete at any time.
* `Dispatch`: the task of each inbound message, message by message and part by part: `stage` is where
  the invocation of a part is, `reply` what it has produced, `sent` the parts whose responses the
  loop sends when it joins the task. Handlers may be registered while the router serves. Extraction
  that fails, a result that does not serialize and a panic are outcomes of their own.
* `Classification`: `Parse` is serde's untagged choice among the forms of `Message` (request,
  notification, response, invalid request, batch, with `deny_unknown_fields` on those that have it);
  `Flatten`, `Split` and `Classify` are `InboundMessage::try_from`. A value is an object given by the
  members that decide, an array, or a scalar; an array may also be what serde reads as the members of
  a struct in their order (`ParseStruct`). The properties restate from the text alone what ought
  to become of each member.
* `McpClient`: `ChildProcess::run` and the task that reads stderr, `JsonRpcClient::initialize`, calls
  that return something or nothing, and the handlers that the client registers. A message to the server
  is queued, then written: while it is, the loop is in `send_message` and sees neither its cancellation
  nor the end of the server's stdout. The server is anything that speaks JSON-RPC; it may exit at any
  time, ask without end, and need not do anything, reading included. The end of its process is taken to
  be the end of its stdout, as nothing else of it is looked at (a grandchild that keeps the pipe open
  delays it).
* `OutboundCallsProofs`, `InboundOperationsProofs`, `ConnectionProofs`, `LifecycleProofs`,
  `DispatchProofs`, `McpClientProofs`, `WireProofs`, `ClassificationProofs`: the theorems below.
  Those of `BatchFutures` are in `OutboundCallsProofs`.
* `MC*`: constants for TLC. Definitions whose names begin with `Mut` are plausible mistakes in the
  definition that follows them; each property is checked to fail when one of them takes its place.

Abstractions common to all: payloads, serialization, tracing and error texts are left out; two
errors are different outcomes only if the code tells them apart. A send to the transport is one
step that succeeds, or fails with or without having reached the peer. A panic inside a handler is
caught by the router and is a result like any other; `TaskPanics` is one that escapes it. Answers
of the loop to the peer ignore send errors in the code, so `reply` is what the loop tried to send.

## Runs

| Run | What it shows | Instance |
|---|---|---|
| `outbound_safety` | the sender of each unsettled oneshot in exactly one place; a batch's report agrees with its calls; nobody left waiting at exit; refinement of `CallContract`, outcomes being final among what it says | two calls, a notification, a batch of two, channels of two places; about 230 000 states |
| `outbound_cancel_race` | violated: `cancel()` returns | one call |
| `batch_futures` | futures agree with what `send` reports and the peer was sent; `BatchNotSentYet` is true; submissions are decided, confirmations arrive without the peer, and a shutdown tells whoever awaits a call that was not sent, though its wait for handlers need not end | a call, a notification, a batch of one with a call that does not serialize, channels of one place; about 230 000 states |
| `inbound` | maps agree; live IDs unique; every request answered, once; aborts only as a last resort; finished work is sent; shutdown completes; a cancel command reaches its handler; refinement of `LoopContract` | two messages over two IDs, a channel of one place, a graceful timeout; about 37 000 states |
| `inbound_batch_token` | violated: shutdown signals every running request | one message |
| `connection` | shutdown settles calls in flight | one caller outside, one handler that calls back, a graceful timeout; about 44 600 states |
| `connection_deadlock` | violated, without a timeout: shutdown settles calls in flight | one handler that calls back |
| `wire` | the mutex follows the loop; each direction refines `MessageStream`; sends end and a shutdown ends, unless a send into a full pipe is held by a reader that has stalled or is blocked the same way | a call from one end and two from the other, pipes of three chunks, one end may die or stall; about 83 200 states |
| `lifecycle` | nothing runs after `shutdown()`; with an owner only shutdown cancels; refinement of `LoopContract`; shutdown ends; dropping the last owner closes | a connection of a server and a client whose handlers shut each other down, a caller outside who may drop its `shutdown()`, two clones; about 153 000 states |
| `dispatch` | messages answered whole; panics contained; ended messages answered | a batch of a call, a notification and an invalid part, and a single call, two names; about 29 600 states |
| `classification` | well formed; every member handled, or all refused | all objects; arrays of up to two of seven values, nested twice; all arrays of three and four scalars, alone and beside each of the seven; about 28 700 states |
| `mcp_client` | ready means agreed; no orphan, if writes to the server end; the server's exit is noticed | three versions of which two are supported, one call, two requests of the server, two lines on stderr; about 62 700 states |

Five more configurations reproduce what the code does not keep. They are not part of the runs above;
TLC finds each of their properties violated: `MCInboundBatchIds.cfg` (`PendingIdsUnique`),
`MCBatchFuturesError.cfg` (`SendFailureIsShared`), `MCWireTimeout.cfg` (`TimeoutAbortsHandlers`),
`MCMcpClientStderr.cfg` (`StderrIsLogged`) and `MCMcpClientEmpty.cfg` (`CarriedOutCallsSucceed`).

Properties that no run lists are theorems about all values of the constants: type correctness
(`TypeOK` of each module), `ConfirmHeldOnce`, `OutcomeIsFinal`, `ExitIsClean`,
`OwnerGoneMeansCancelled`, `RepliesFollowIds`, `ChildHasAnOwner` and `ClosedLeavesNobodyWaiting`.

Bounds. Each message is sent once and each operation arrives once; IDs are fresh for outbound
requests and reused for inbound ones. Two messages in a channel are enough for one to be behind
another; one place is enough for callers to wait. Two inbound messages over two IDs give a live
duplicate, an ID used again after its first request ended, and a batch beside a single request; the
theorems cover any number of them. `SYMMETRY` is used only in `outbound_safety`, which has no liveness
property, over calls and over a batch's calls.
A pipe of one chunk cannot hold a message and one of three holds a message and a half, so a write may
stop inside a message and a read may end inside the next. Two handlers that shut down each other's
connection are the smallest cycle. A batch with one part of each kind has every combination of parts
that produce a response and parts that do not. Arrays of two values nested twice have empty batches
at each depth and beside others.
All runs have `CHECK_DEADLOCK FALSE`: a connection that has exited, with all its callers settled,
stops; so do a loop that sends into a full pipe nobody reads (`wire`) and one that writes to a server
that does not read (`mcp_client`), which the properties of these runs name.

Fairness. `select!` polls its arms in random order, so an arm that stays ready is taken (weak
fairness on each arm); the loop's shutdown code is sequential; tokio runs the tasks of callers that
are ready. The graceful wait ends (`FinishShutdown`, or `GracefulTimeout` if there is a timeout,
which like `timeout_at` looks at the deadline only when no finished task is at hand), and an aborted
task stops at its next await. In `OutboundCalls` the wait for inbound tasks is assumed to end; that
this is an assumption is what `connection_deadlock` shows. In `InboundOperations` no handler need
ever finish. In `Connection` a handler that awaits nothing finishes. Nothing is asked of the peer, of
callers that have not begun, or of the transport beyond each send ending.

`BatchFutures` assumes nothing of the wait for inbound tasks. It adds that a future that is awaited is
polled again when it can yield, and that a
`cancel()` returns once its receiver is ready. In `Wire` sends
do not always end: the loops are polled and arms that stay ready complete, a pipe is read only by its
loop, handlers need not finish and nobody need cancel, die or stall. A receive that has nothing to read is not asked to happen. In `Lifecycle` loops are spawned, so they are polled
whoever holds handles. In `Dispatch` tasks are scheduled and joined, and handlers need not return. In
`McpClient` the tasks of the client are scheduled and nothing is asked of the server. The arms of its
loop that see the cancellation and the end of stdout are strongly fair: they are ready each time the
loop is back in `select!`, but a write takes it away in between, and a server that asks without end may
cause one after each, so weak fairness would not say that `select!`, which polls in random order, takes
them at last. A write ends if the pipe is broken. While the server lives nothing makes it end, so
`NoOrphans` has that as its premise (`WritesEnd`): a server that stops reading with the pipe full keeps
the loop in `send_message`, and outlives a client that is dropped meanwhile.

## Where the code and its comments disagree

* `RawRequestHandle::cancel` says that the error response "will be placed in the receiver"
  (`connection_handle.rs:423`). The command may be handled before the call is taken from the other
  channel: it finds nothing pending, is ignored, and `cancel()` waits for the peer.
* `event_loop` says that all per-request tokens are children of the connection's
  (`connection.rs:631`). Those of the requests of a batch are not: shutdown does not signal them.
* `shutdown` says that pending outgoing requests "will produce immediate results"
  (`connection_handle.rs:90`). They are settled after the wait for inbound tasks: after the graceful
  timeout (five seconds by default) if a handler awaits one of them, and never if the timeout is
  `None`.
* `shutdown` says that after the graceful timeout "all remaining handler async tasks will be forcibly
  aborted" (`connection_handle.rs:94`). The deadline bounds the wait for a task, not the sending of
  the reply of one that is joined: with a peer that does not read, the loop stays in that send
  (`MCWireTimeout.cfg`).
* `start_batch` says that if sending fails "all method futures will fail with the same error"
  (`connection_handle.rs:365`). They fail with `BatchSendFailed`, and `send()` with the transport's
  error (`MCBatchFuturesError.cfg`).
* `handle_inbound_message_async` says that it enforces that a request ID is not in use by a pending
  operation (`connection.rs:1099`). It looks up single requests only, not those of a batch
  (`MCInboundBatchIds.cfg`).
* `ChildProcess::run` is to log whatever the child writes to stderr
  (`mcpox-client/src/transport/child_process.rs:73`). The task unwraps `next_line()`, so it panics at
  a line that is not UTF-8 and logs nothing after it (`MCMcpClientStderr.cfg`).
* `subscribe`, `unsubscribe` and `set_level` (`mcpox-client/src/jsonrpc.rs:168`) expect `()`. The
  schema in `docs/` answers them with an `EmptyResult`, an object, which does not deserialize to `()`:
  the call fails although the server has carried it out (`MCMcpClientEmpty.cfg`).

## Proofs

For every value of the constants that satisfies the named assumptions: `MessageKinds` (the three
kinds of message are disjoint), `FreshRequestIds` (each call has an ID of its own, as
`Uuid::now_v7` gives it), `BoundIsPositive`, `NoneIsNeither` and `InboundConfig`, and those that say
what the constants of each other module are (`HalvesConfig` are the assumptions of both halves about
the constants a connection gives them; `VersionsAreNoOutcomes` only keeps the names of outcomes apart
from versions), and for the classification that an array's items are of the domain themselves and less
deep than it (`TextsAssumption`, `DepthAssumption`: serde_json follows no value deeper than its limit).

* Outbound. The inductive invariant is `OutboundInv`: the types, `SenderHeldOnce`,
  `ConfirmHeldOnce` and `ClosedIsEmpty`. `SenderHeldOnce` says that an unsettled request's sender is
  with the caller, in the queue or in the map, in one of them only, and a settled one's in none; it
  needs its first part, that a message is in the queue at most once. `ClosedIsEmpty` (the queue is
  empty after the drain, the map after the sweep) makes `ExitLeavesNobodyWaiting` follow. The steps
  that dequeue share one lemma (`HandlingKeepsSenders`) and those that settle pending requests
  another (`SettlingKeepsSenders`). Finality of outcomes (`OutcomesAreFinal`) and the agreement of a
  batch's report (`SendReportIsAlwaysTrue`) are then one step each from the invariant: what a step
  settles was open. `ContractIsKept` is the refinement: every step of `OutboundCalls` is, under the
  mapping of its `Contract` instance, a step of `CallContract` or a stutter. It needs one more
  invariant, `UnsentIsUnknown` (the peer knows nothing of a request still with its caller or in the
  queue), and `SendReportIsTrue`.
* Inbound. `TrackingInv` is the types, `MapsAgree` and `OperationLife` (a task's life and its answer
  go together). Uniqueness of live IDs follows from the maps being inverse to each other; that every
  request is answered, from the maps holding exactly the requests of the `JoinSet`, so that a failed
  task still finds its ID. `AbortsAreTheLastResort` rests on `ShutdownInv`: the token is cancelled in
  every phase after the loop, and the phase that aborts is reached only with a timeout configured.
  `FinishedResultsAreKept` is about the race of a task's end with the deadline and the abort: the
  result of a finished task is sent as it is unless the loop panics.

* The contract of the loop. `LoopContractIsKept` shows that each step of `InboundOperations` is a step
  of `LoopContract` for its one loop, and `LifecycleKeepsLoopContract` the same of every loop of
  `Lifecycle`: what `Lifecycle` reduces an event loop to is what the detailed one also does.
* Connection. Every step of `Connection` is written as a step of each half or leaves it as it is (the
  lemma `HalvesAreAlwaysImplemented`, which is no claim about the code). The proofs of the halves,
  instantiated, then give their invariants of a connection, from which `ExitsAreClean` follows. No
  invariant of the composition's own is needed. `ContractsAreKept`: the refinements carry over the same
  way, so a connection keeps `CallContract` to its callers, handlers of its own among them, and
  `LoopContract` to its owners.
* Lifecycle. `Inv` ties clones, tokens, states and waiters together: a cancelled token has a reason
  (the owner is gone, the loop is over, or somebody called shutdown), a `shutdown()` that has returned
  has seen the loop's result, a loop with a result other than a panic runs nothing.
* Dispatch. `DispatchInv` adds to the properties that a task that has ended has parts that have ended:
  it is what makes the answer of a joined task whole.
* McpClient. `HandshakeInv` adds that the version of a ready client is the one the server named;
  `ChildHasAnOwner` is inductive by itself: whoever holds the child kills it on leaving. `ClosingInv` adds
  to `ClosedLeavesNobodyWaiting` that a loop that closes has emptied its queue, and that there is no loop
  before the client is bound.
* Wire. `WireInv` is the types, where the chunks in the buffers come from, and `LockFollowsLoop`, for
  any number of calls and any room in the pipes. `StreamsAlwaysStayWhole` is the refinement of
  `MessageStream` (`StreamsStayWhole`). Its invariant, `StreamInv`, says of each direction whose receiver lives that what
  is in flight (the receiver's read buffer, the pipe and the sender's write buffer, joined) is the
  chunks of the messages handed over after those that have arrived, complete unless the sender is
  gone (`Intact`). A write or a receive that is dropped in the middle of a line moves chunks between
  the three and leaves their join alone (`NothingMoves`); handing over a message adds its chunks at
  the end, taking a line removes those of one message at the front, an exit cuts the end off. The
  lemmas on `Join` and `Carries` say that each of these keeps the chunks those of whole messages. `Join`
  is concatenation under a name that the provers do not expand.
* Batch futures. `FuturesInv` adds four things to the invariants of the outbound half, which carry over
  because a poll changes nothing of `OutboundCalls`: what was answered had been sent
  (`AnsweredWasSent`); the peer knows nothing of a batch that was dropped before it was enqueued
  (`DroppedIsUnknown`); `batch_sent` is down only before the batch is handed over
  (`FlagFollowsSend`); and a future that has yielded anything but `BatchNotSentYet` has yielded what
  its oneshot still holds (`FuturesFollowOneshots`). From these follow `FuturesAgreeWithSend`,
  `NotSentIsTrue` and, by the theorems of `OutboundCallsProofs`, that `CallContract` is still kept.
* Classification. For arrays of any length and any nesting that serde_json follows. `Parse`, `Flatten`
  and `Members` are recursive functions, which are to the provers a `CHOOSE` of some function with the
  given equation; that there is one is shown first (`ParseEquation`, `FlattenEquation`,
  `MembersEquation`), by functions that have the equation up to a depth. The induction theorems of the
  library take operators, which the provers cannot instantiate; `NumbersInduction` and `TextInduction`
  are about sets and are derived from the well-foundedness of `<` on the naturals. `Agrees` is what is
  proved of each value by induction: if it parses, the flattened messages fit its members one by one
  (`Matched`), and if it does not, it has a member. The three properties then follow in one step from
  `IInv`, which says that each step works on the value that came in.

Only model-checked:

* Liveness under fairness, and so the absence of deadlock, which is out of the prover's reach. What a
  step may never do to get there is proved where it can be: `FinishedResultsAreKept` for
  `FinishedWorkIsSent`, the contracts, `ExitsAreClean`.

## Not modelled

* Payloads, spans, logging, the wording of errors, transport metadata and the type map.
* `sandbox.rs`, which the crate does not build; `testing.rs`; the macros and the facade.
* The MCP server, a stub, and the generated MCP types of `mcpox-core`.
* What an extractor yields, beyond that it may refuse; a fallback handler that is replaced (it needs
  `&mut Router`, and so happens before the router serves).
* `choose_best_version`, which no code calls, and `ServiceConfig::max_concurrent_requests` and
  `inbound_request_timeout`, which no code reads.
* Whether the custom event loop makes progress. `select!` drops its future whenever another arm
  completes (`connection.rs:597`), so under traffic that lasts an iteration of more than one await may
  never end; nothing in the code or its docs promises that it does.
* The early return of `service_connection` for a token that is cancelled before it opens: clients and
  servers hold their token's guard while they open a connection, so neither can reach it.
* The client raises no `initialized` notification and has no `ping` of its own, so neither is in
  `McpClient`.

## What is left

* `Wire` below `Connection`: a send of the connection that takes several steps, so that the deadlocks
  of handlers and those of pipes can meet.
