---------------------------- MODULE OutboundCalls ----------------------------
(***************************************************************************)
(* The outbound half of one connection: the callers that hold a            *)
(* ServiceConnectionHandle, the two bounded channels into the event loop,  *)
(* and the loop's own steps on outbound messages, cancel commands,         *)
(* responses and shutdown (service/connection_handle.rs and                *)
(* service/connection.rs).                                                 *)
(*                                                                         *)
(* A oneshot channel is the entry of "response" (a method call) or         *)
(* "confirm" (a notification or a batch) for it: "open" until the one      *)
(* value is sent or the sender is dropped.  Payloads are left out.  Send   *)
(* is one step with the loop's bookkeeping, since the loop awaits it       *)
(* inside the arm that took the message.  A receiver the caller drops      *)
(* after its message was queued changes nothing in the loop (every send    *)
(* on a oneshot ignores its result), so there is no step for it.  The      *)
(* inbound half is only the wait for its tasks, in phases "waiting" and    *)
(* "aborting".                                                             *)
(***************************************************************************)
EXTENDS Naturals, Sequences, Functions

CONSTANTS
    Methods,       \* single method calls (start_call_raw), each with its own ID
    Notes,         \* notifications (raise_raw)
    Batches,       \* batches (BatchBuilder::send)
    BatchReqs,     \* the method calls each batch carries, by request ID
    BatchNotes,    \* the batches that carry a notification
    ChannelBound   \* CONNECTION_CHANNEL_BOUNDS

Messages == Methods \cup Notes \cup Batches

Requests == Methods \cup UNION {BatchReqs[b] : b \in Batches}

\* Request IDs are fresh UUIDs: no two calls share one.
ASSUME MessageKinds ==
    /\ Methods \cap Notes = {} /\ Methods \cap Batches = {} /\ Notes \cap Batches = {}
    /\ BatchNotes \subseteq Batches

ASSUME FreshRequestIds ==
    \A b \in Batches :
        /\ BatchReqs[b] \cap Messages = {}
        /\ \A c \in Batches : b # c => BatchReqs[b] \cap BatchReqs[c] = {}

ASSUME BoundIsPositive == ChannelBound \in Nat \ {0}

Reqs(m) ==
    IF m \in Methods THEN {m} ELSE IF m \in Batches THEN BatchReqs[m] ELSE {}

Confirmed == Notes \cup Batches

IsEmptyBatch(m) == m \in Batches /\ BatchReqs[m] = {} /\ m \notin BatchNotes

VARIABLES
    caller,      \* where each message's caller is
    response,    \* the oneshot of each request
    confirm,     \* the oneshot of each notification's or batch's confirmation
    cancelling,  \* where the cancel() of each single call is
    outbound,    \* the outbound_messages channel
    commands,    \* the commands channel: IDs to cancel
    pending,     \* pending_outbound_requests
    atPeer,      \* requests the peer has seen and may answer, even repeatedly
    phase,       \* where the event loop is
    token        \* the connection's cancellation token is cancelled

handleVars == <<caller, cancelling>>
loopVars == <<pending, atPeer, phase>>
vars == <<caller, response, confirm, cancelling, outbound, commands,
          pending, atPeer, phase, token>>

RequestOutcomes == {"Response", "Cancelled", "ConnectionClosed", "TransportError",
                    "BatchSendFailed", "SenderDropped"}
ConfirmOutcomes == {"Ok", "ConnectionClosed", "TransportError", "SenderDropped"}

TypeOK ==
    /\ caller \in [Messages -> {"idle", "sending", "sent", "refused", "dropped"}]
    /\ response \in [Requests -> {"open"} \cup RequestOutcomes]
    /\ confirm \in [Confirmed -> {"open"} \cup ConfirmOutcomes]
    /\ cancelling \in [Methods -> {"no", "sending", "waiting", "returned"}]
    /\ outbound \in Seq(Messages) /\ Len(outbound) <= ChannelBound
    /\ commands \in Seq(Methods) /\ Len(commands) <= ChannelBound
    /\ pending \subseteq Requests
    /\ atPeer \subseteq Requests
    /\ phase \in {"running", "draining", "waiting", "aborting", "exited", "crashed"}
    /\ token \in BOOLEAN

Init ==
    /\ caller = [m \in Messages |-> "idle"]
    /\ response = [r \in Requests |-> "open"]
    /\ confirm = [m \in Confirmed |-> "open"]
    /\ cancelling = [r \in Methods |-> "no"]
    /\ outbound = <<>> /\ commands = <<>>
    /\ pending = {} /\ atPeer = {}
    /\ phase = "running" /\ token = FALSE

ChannelsOpen == phase = "running"

Stopped == phase \in {"exited", "crashed"}

Queued == Range(outbound)

Settle(S, outcome) ==
    response' = [r \in Requests |-> IF r \in S THEN outcome ELSE response[r]]

Confirm(S, outcome) ==
    confirm' = [m \in Confirmed |-> IF m \in S THEN outcome ELSE confirm[m]]

-----------------------------------------------------------------------------
(* The callers.                                                            *)

\* start_call_raw, raise_raw or BatchBuilder::send reaches the send on the
\* outbound channel; an empty batch returns before that.
Submit(m) ==
    /\ caller[m] = "idle"
    /\ IF IsEmptyBatch(m)
       THEN caller' = [caller EXCEPT ![m] = "sent"] /\ Confirm({m}, "Ok")
       ELSE caller' = [caller EXCEPT ![m] = "sending"] /\ UNCHANGED confirm
    /\ UNCHANGED <<response, cancelling, outbound, commands, loopVars, token>>

MutEnqueue(m) ==
    /\ caller[m] = "sending" /\ ChannelsOpen
    /\ outbound' = Append(outbound, m)
    /\ caller' = [caller EXCEPT ![m] = "sent"]
    /\ UNCHANGED <<response, confirm, cancelling, commands, loopVars, token>>

\* The send finds room in the channel.
Enqueue(m) ==
    /\ caller[m] = "sending" /\ ChannelsOpen /\ Len(outbound) < ChannelBound
    /\ outbound' = Append(outbound, m)
    /\ caller' = [caller EXCEPT ![m] = "sent"]
    /\ UNCHANGED <<response, confirm, cancelling, commands, loopVars, token>>

MutEnqueueRefused(m) ==
    /\ caller[m] = "sending" /\ phase = "exited"
    /\ caller' = [caller EXCEPT ![m] = "refused"]
    /\ Settle(Reqs(m), "ConnectionClosed")
    /\ Confirm({m}, "ConnectionClosed")
    /\ UNCHANGED <<cancelling, outbound, commands, loopVars, token>>

\* The channel is closed: the caller is told, and so is each call of a batch.
EnqueueRefused(m) ==
    /\ caller[m] = "sending" /\ ~ChannelsOpen
    /\ caller' = [caller EXCEPT ![m] = "refused"]
    /\ Settle(Reqs(m), "ConnectionClosed")
    /\ Confirm({m}, "ConnectionClosed")
    /\ UNCHANGED <<cancelling, outbound, commands, loopVars, token>>

\* The caller drops its future while it waits for room in the channel.
DropSubmission(m) ==
    /\ caller[m] = "sending"
    /\ caller' = [caller EXCEPT ![m] = "dropped"]
    /\ Settle(Reqs(m), "SenderDropped")
    /\ Confirm({m}, "SenderDropped")
    /\ UNCHANGED <<cancelling, outbound, commands, loopVars, token>>

\* RequestHandle::cancel is called on the handle that start_call returned.
StartCancel(r) ==
    /\ caller[r] = "sent" /\ cancelling[r] = "no"
    /\ cancelling' = [cancelling EXCEPT ![r] = "sending"]
    /\ UNCHANGED <<caller, response, confirm, outbound, commands, loopVars, token>>

\* cancel_client_request sends the command, or ignores that the channel is
\* closed; either way cancel() goes on to await the response.
SendCancel(r) ==
    /\ cancelling[r] = "sending"
    /\ \/ ChannelsOpen /\ Len(commands) < ChannelBound /\ commands' = Append(commands, r)
       \/ ~ChannelsOpen /\ UNCHANGED commands
    /\ cancelling' = [cancelling EXCEPT ![r] = "waiting"]
    /\ UNCHANGED <<caller, response, confirm, outbound, loopVars, token>>

CancelReturns(r) ==
    /\ cancelling[r] = "waiting" /\ response[r] # "open"
    /\ cancelling' = [cancelling EXCEPT ![r] = "returned"]
    /\ UNCHANGED <<caller, response, confirm, outbound, commands, loopVars, token>>

\* ServiceConnectionHandle::shutdown, or any ancestor token.
CancelToken ==
    /\ ~token /\ token' = TRUE
    /\ UNCHANGED <<handleVars, response, confirm, outbound, commands, loopVars>>

-----------------------------------------------------------------------------
(* The event loop.                                                         *)

MutTransmit(m) ==
    /\ pending' = pending \cup Reqs(m)
    /\ atPeer' = atPeer \cup Reqs(m)
    /\ UNCHANGED <<response, confirm>>

Transmit(m) ==
    /\ pending' = pending \cup Reqs(m)
    /\ atPeer' = atPeer \cup Reqs(m)
    /\ Confirm({m}, "Ok")
    /\ UNCHANGED response

MutTransmitFails(m) ==
    /\ Settle(Reqs(m) \cap Methods, "TransportError")
    /\ Confirm({m}, "TransportError")
    /\ atPeer' \in {atPeer, atPeer \cup Reqs(m)}
    /\ UNCHANGED pending

\* The peer may have received a message whose send reports an error.
TransmitFails(m) ==
    /\ Settle(Reqs(m), IF m \in Methods THEN "TransportError" ELSE "BatchSendFailed")
    /\ Confirm({m}, "TransportError")
    /\ atPeer' \in {atPeer, atPeer \cup Reqs(m)}
    /\ UNCHANGED pending

MutHandleOutboundMessage ==
    /\ phase \in {"running", "draining"} /\ outbound # <<>>
    /\ outbound' = Tail(outbound)
    /\ Transmit(Head(outbound)) \/ TransmitFails(Head(outbound))
    /\ UNCHANGED <<handleVars, commands, phase, token>>

HandleOutboundMessage ==
    /\ phase = "running" /\ outbound # <<>>
    /\ outbound' = Tail(outbound)
    /\ Transmit(Head(outbound)) \/ TransmitFails(Head(outbound))
    /\ UNCHANGED <<handleVars, commands, phase, token>>

MutHandleCommand ==
    /\ phase = "running" /\ commands # <<>>
    /\ commands' = Tail(commands)
    /\ Settle({Head(commands)} \cap pending, "Cancelled")
    /\ UNCHANGED <<handleVars, confirm, outbound, pending, atPeer, phase, token>>

\* CancelPendingOutboundRequest, which ignores an ID that is not pending.
HandleCommand ==
    /\ phase = "running" /\ commands # <<>>
    /\ commands' = Tail(commands)
    /\ Settle({Head(commands)} \cap pending, "Cancelled")
    /\ pending' = pending \ {Head(commands)}
    /\ UNCHANGED <<handleVars, confirm, outbound, atPeer, phase, token>>

\* A response, or a batch of them; one for an ID not pending is dropped.
ReceiveResponses(S) ==
    /\ phase = "running"
    /\ Settle(S \cap pending, "Response")
    /\ pending' = pending \ S
    /\ UNCHANGED <<handleVars, confirm, outbound, commands, atPeer, phase, token>>

\* The loop breaks: both channels are closed and the token is cancelled.
BeginShutdown ==
    /\ phase = "running" /\ phase' = "draining"
    /\ token' = TRUE
    /\ UNCHANGED <<handleVars, response, confirm, outbound, commands, pending, atPeer>>

StopOnCancellation == token /\ BeginShutdown

\* The peer closed the connection, receive_message failed, or the custom event
\* loop returned an error.
StopOnPeerOrError == BeginShutdown

IgnoreCommands ==
    /\ phase = "draining" /\ commands # <<>>
    /\ commands' = <<>>
    /\ UNCHANGED <<handleVars, response, confirm, outbound, loopVars, token>>

\* Whoever queued a message that was not handled learns of the closure.
DrainOutbound ==
    /\ phase = "draining" /\ commands = <<>> /\ outbound # <<>>
    /\ outbound' = Tail(outbound)
    /\ Settle(Reqs(Head(outbound)), "ConnectionClosed")
    /\ Confirm({Head(outbound)}, "ConnectionClosed")
    /\ UNCHANGED <<handleVars, commands, loopVars, token>>

MutEndDrain ==
    /\ phase = "draining" /\ commands = <<>>
    /\ phase' = "waiting"
    /\ UNCHANGED <<handleVars, response, confirm, outbound, commands, pending, atPeer, token>>

EndDrain ==
    /\ phase = "draining" /\ commands = <<>> /\ outbound = <<>>
    /\ phase' = "waiting"
    /\ UNCHANGED <<handleVars, response, confirm, outbound, commands, pending, atPeer, token>>

\* The inbound tasks that are still running are aborted.
GracefulTimeout ==
    /\ phase = "waiting" /\ phase' = "aborting"
    /\ UNCHANGED <<handleVars, response, confirm, outbound, commands, pending, atPeer, token>>

MutFinishShutdown ==
    /\ phase \in {"waiting", "aborting"} /\ phase' = "exited"
    /\ pending' = {}
    /\ UNCHANGED <<handleVars, response, confirm, outbound, commands, atPeer, token>>

\* No inbound task is left: what still waits for a response will not get one.
FinishShutdown ==
    /\ phase \in {"waiting", "aborting"} /\ phase' = "exited"
    /\ Settle(pending, "ConnectionClosed")
    /\ pending' = {}
    /\ UNCHANGED <<handleVars, confirm, outbound, commands, atPeer, token>>

\* A panic of the custom event loop unwinds the whole loop: the receivers close
\* and every oneshot sender it held is dropped.  The token is not cancelled.
LoopPanics ==
    /\ phase = "running" /\ phase' = "crashed"
    /\ Settle(pending \cup UNION {Reqs(m) : m \in Queued}, "SenderDropped")
    /\ Confirm(Queued, "SenderDropped")
    /\ outbound' = <<>> /\ commands' = <<>> /\ pending' = {}
    /\ UNCHANGED <<handleVars, atPeer, token>>

-----------------------------------------------------------------------------
CallerStep(m) == Submit(m) \/ Enqueue(m) \/ EnqueueRefused(m) \/ DropSubmission(m)

CancelStep(r) == StartCancel(r) \/ SendCancel(r) \/ CancelReturns(r)

Next ==
    \/ \E m \in Messages : CallerStep(m)
    \/ \E r \in Methods : CancelStep(r)
    \/ CancelToken
    \/ HandleOutboundMessage
    \/ HandleCommand
    \/ \E S \in SUBSET atPeer \ {{}} : ReceiveResponses(S)
    \/ StopOnCancellation
    \/ StopOnPeerOrError
    \/ IgnoreCommands
    \/ DrainOutbound
    \/ EndDrain
    \/ GracefulTimeout
    \/ FinishShutdown
    \/ LoopPanics

(***************************************************************************)
(* Fairness.  select! polls its arms in random order, so an arm that stays *)
(* ready is taken; the tasks of the callers are scheduled.  The graceful   *)
(* wait ends: by the configured timeout, or because the handlers do.       *)
(* Nothing is asked of the peer, nor of callers that have not begun.       *)
(***************************************************************************)
Fairness ==
    /\ WF_vars(HandleOutboundMessage) /\ WF_vars(HandleCommand)
    /\ WF_vars(StopOnCancellation)
    /\ WF_vars(IgnoreCommands) /\ WF_vars(DrainOutbound) /\ WF_vars(EndDrain)
    /\ WF_vars(FinishShutdown)
    /\ \A m \in Messages : WF_vars(Enqueue(m)) /\ WF_vars(EnqueueRefused(m))
    /\ \A r \in Methods : WF_vars(SendCancel(r)) /\ WF_vars(CancelReturns(r))

Spec == Init /\ [][Next]_vars

FairSpec == Spec /\ Fairness

-----------------------------------------------------------------------------
(* Properties.                                                             *)

\* Where the sender of an unsettled request can be: with the caller, in the
\* queue, or in the map of pending requests.
WithCaller(m) == caller[m] \in {"idle", "sending"}

\* A message is in the queue once at most, and only if its caller put it there.
\* (A part of SenderHeldOnce.)
QueueIsExact ==
    /\ IsInjective(outbound)
    /\ \A m \in Queued : caller[m] = "sent"

\* Every unsettled oneshot has its sender in exactly one place, and a settled
\* one in none: the loop neither forgets a caller nor answers one twice,
\* whatever the order of responses, cancellations, failed sends and shutdown.
SenderHeldOnce ==
    /\ QueueIsExact
    /\ \A m \in Messages : \A r \in Reqs(m) :
           /\ ~(r \in pending /\ (WithCaller(m) \/ m \in Queued))
           /\ response[r] = "open" <=> (WithCaller(m) \/ m \in Queued \/ r \in pending)

\* The same for the confirmation of a notification or a batch.
ConfirmHeldOnce ==
    \A m \in Confirmed : confirm[m] = "open" <=> (WithCaller(m) \/ m \in Queued)

\* What send() tells the caller of a batch agrees with what the batch's calls
\* are told, and a call waits for an answer only if the peer was sent it.
SendReportIsTrue ==
    /\ pending \subseteq atPeer
    /\ \A b \in Batches : \A r \in BatchReqs[b] :
        /\ confirm[b] = "Ok" => r \in atPeer /\ response[r] # "BatchSendFailed"
        /\ confirm[b] = "TransportError" <=> response[r] = "BatchSendFailed"
        /\ confirm[b] = "ConnectionClosed" => response[r] = "ConnectionClosed"

\* Once the loop has exited, normally or by a panic, no caller that handed over
\* a message is left waiting, and the channels hold nothing.
ExitLeavesNobodyWaiting ==
    Stopped =>
        /\ outbound = <<>> /\ pending = {}
        /\ \A m \in Messages : caller[m] = "sent" =>
            /\ \A r \in Reqs(m) : response[r] # "open"
            /\ m \in Confirmed => confirm[m] # "open"

\* A caller's outcome never changes: a late or repeated response, a cancel that
\* lost the race and the final sweep leave it alone.
OutcomesStay ==
    /\ \A r \in Requests : response[r] # "open" => response'[r] = response[r]
    /\ \A m \in Confirmed : confirm[m] # "open" => confirm'[m] = confirm[m]

OutcomeIsFinal == [][OutcomesStay]_vars

Contract == INSTANCE CallContract WITH
    Units <- Messages,
    UnitReqs <- [m \in Messages |-> Reqs(m)],
    delivered <- atPeer,
    serving <- phase = "running"

\* The connection keeps the contract of CallContract.
KeepsCallContract == Contract!Spec

\* A submission is accepted or refused: backpressure never becomes a hang.
SubmissionIsDecided ==
    \A m \in Messages : caller[m] = "sending" ~> caller[m] # "sending"

\* raise() and BatchBuilder::send() return even if the peer never says anything.
ConfirmationArrives ==
    \A m \in Confirmed : caller[m] = "sending" ~> confirm[m] # "open"

\* "At some point that cancellation will happen and an error response will be
\* placed in the receiver" (RawRequestHandle::cancel): cancel() returns.
CancelReturnsEventually ==
    \A r \in Methods : cancelling[r] = "sending" ~> cancelling[r] = "returned"
=============================================================================
