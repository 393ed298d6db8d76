----------------------------- MODULE BatchFutures -----------------------------
(***************************************************************************)
(* What the callers of OutboundCalls see: the builder of a batch, the      *)
(* batch_sent flag its futures share, and what each future yields when it  *)
(* is polled (service/connection_handle.rs).                               *)
(*                                                                         *)
(* A batch is built before it is sent: a call whose parameters fail to     *)
(* serialize never joins it, and its future has a flag and a oneshot of    *)
(* its own.  (A notification whose parameters fail to serialize is added   *)
(* without them, which makes no difference here.)  The futures may be      *)
(* given to other tasks, so any of them may be polled at any time.  What a *)
(* response carries is chosen when it is decoded.                          *)
(***************************************************************************)
EXTENDS OutboundCalls

CONSTANTS
    BadCalls,   \* batch calls whose parameters fail to serialize
    BatchOfBad  \* the batch each of them was meant for

ASSUME BadCallsAssumption ==
    BadCalls \cap (Messages \cup Requests) = {} /\ BatchOfBad \in [BadCalls -> Batches]

BatchCalls == UNION {BatchReqs[b] : b \in Batches}

Futures == Requests \cup BadCalls

BatchOf(c) ==
    IF c \in BadCalls THEN BatchOfBad[c] ELSE CHOOSE b \in Batches : c \in BatchReqs[b]

VARIABLES
    batchSent,  \* the flag shared by a builder and its futures
    future      \* what the holder of each future has seen

futureVars == <<batchSent, future>>
allVars == <<vars, futureVars>>

Decodings == {"Value", "MethodError", "DeserResponse"}

Unresolved == {"none", "held", "awaiting"}

FuturesTypeOK ==
    /\ TypeOK
    /\ batchSent \in [Batches -> BOOLEAN]
    /\ future \in [Futures -> Unresolved \cup Decodings \cup
           {"Cancelled", "ConnectionClosed", "TransportError", "BatchSendFailed",
            "BatchNotSentYet", "SerRequest"}]

FuturesInit ==
    /\ Init
    /\ batchSent = [b \in Batches |-> FALSE]
    /\ future = [c \in Futures |-> "none"]

Yield(c, outcome) ==
    /\ future' = [future EXCEPT ![c] = outcome]
    /\ UNCHANGED <<vars, batchSent>>

MutDecoded(outcome) ==
    CASE outcome = "Response" -> Decodings
      [] outcome = "SenderDropped" -> {"BatchSendFailed"}
      [] OTHER -> {outcome}

\* A oneshot whose sender is gone reads as the closure of the connection; a
\* response is a value, an error of the method, or a value of another type.
Decoded(outcome) ==
    CASE outcome = "Response" -> Decodings
      [] outcome = "SenderDropped" -> {"ConnectionClosed"}
      [] OTHER -> {outcome}

-----------------------------------------------------------------------------
(* The builder.                                                            *)

\* call or call_with_params: the call joins the batch, unless its parameters
\* fail to serialize.
AddCall(b, c) ==
    /\ caller[b] = "idle" /\ future[c] = "none" /\ BatchOf(c) = b
    /\ Yield(c, "held")

MutSend(b) ==
    /\ \A c \in BatchReqs[b] : future[c] # "none"
    /\ Submit(b)
    /\ UNCHANGED futureVars

\* send sets the flag first, whatever becomes of the batch.
Send(b) ==
    /\ \A c \in BatchReqs[b] : future[c] # "none"
    /\ Submit(b)
    /\ batchSent' = [batchSent EXCEPT ![b] = TRUE]
    /\ UNCHANGED future

\* The builder is dropped with all its senders.
DropBuilder(b) ==
    /\ caller[b] = "idle" /\ \A c \in BatchReqs[b] : future[c] # "none"
    /\ caller' = [caller EXCEPT ![b] = "dropped"]
    /\ Settle(BatchReqs[b], "SenderDropped") /\ Confirm({b}, "SenderDropped")
    /\ UNCHANGED <<cancelling, outbound, commands, loopVars, token, futureVars>>

-----------------------------------------------------------------------------
(* The futures.                                                            *)

\* The flag is read before the receiver; a future that is ready is spent.
PollTooEarly(c) ==
    /\ future[c] = "held" /\ ~batchSent[BatchOf(c)]
    /\ Yield(c, "BatchNotSentYet")

PollBatchFuture(c) ==
    /\ future[c] \in {"held", "awaiting"} /\ batchSent[BatchOf(c)]
    /\ IF response[c] = "open"
       THEN Yield(c, "awaiting")
       ELSE \E outcome \in Decoded(response[c]) : Yield(c, outcome)

\* The future of a call that never joined the batch need not wait for it.
PollBadCall(c) ==
    /\ future[c] = "held"
    /\ Yield(c, "SerRequest")

\* start_call returned a RequestHandle, which is awaited unless it was given to
\* cancel(); a refused call has no handle.
PollRequestHandle(m) ==
    /\ future[m] \in {"none", "awaiting"} /\ cancelling[m] = "no"
    /\ \/ /\ caller[m] = "sent" /\ response[m] = "open"
          /\ Yield(m, "awaiting")
       \/ /\ caller[m] \in {"sent", "refused"} /\ response[m] # "open"
          /\ \E outcome \in Decoded(response[m]) : Yield(m, outcome)

\* Both awaiting a handle and cancelling it consume it.
StartCancelOf(m) == future[m] = "none" /\ StartCancel(m)

-----------------------------------------------------------------------------
Poll(c) ==
    \/ c \in BatchCalls /\ (PollTooEarly(c) \/ PollBatchFuture(c))
    \/ c \in BadCalls /\ PollBadCall(c)
    \/ c \in Methods /\ PollRequestHandle(c)

HandOver(m) == Enqueue(m) \/ EnqueueRefused(m) \/ DropSubmission(m)

LoopStep ==
    \/ CancelToken
    \/ HandleOutboundMessage
    \/ HandleCommand
    \/ \E S \in SUBSET atPeer \ {{}} : ReceiveResponses(S)
    \/ StopOnCancellation \/ StopOnPeerOrError
    \/ IgnoreCommands \/ DrainOutbound \/ EndDrain
    \/ GracefulTimeout \/ FinishShutdown
    \/ LoopPanics

FuturesNext ==
    \/ \E b \in Batches : (\E c \in Futures \ Methods : AddCall(b, c)) \/ Send(b) \/ DropBuilder(b)
    \/ \E c \in Futures : Poll(c)
    \/ (\E m \in Methods \cup Notes : Submit(m)) /\ UNCHANGED futureVars
    \/ (\E m \in Methods : StartCancelOf(m) \/ SendCancel(m) \/ CancelReturns(m)) /\ UNCHANGED futureVars
    \/ (\E m \in Messages : HandOver(m)) /\ UNCHANGED futureVars
    \/ LoopStep /\ UNCHANGED futureVars

\* As for OutboundCalls, but nothing is asked of the handlers that the shutdown
\* waits for; a task that awaits a future is woken by its oneshot.
FuturesFairness ==
    /\ WF_allVars(HandleOutboundMessage /\ UNCHANGED futureVars)
    /\ WF_allVars(StopOnCancellation /\ UNCHANGED futureVars)
    /\ WF_allVars((IgnoreCommands \/ DrainOutbound \/ EndDrain) /\ UNCHANGED futureVars)
    /\ \A m \in Messages : WF_allVars((Enqueue(m) \/ EnqueueRefused(m)) /\ UNCHANGED futureVars)
    /\ \A c \in Futures : WF_allVars(future[c] = "awaiting" /\ Poll(c))
    /\ \A m \in Methods : WF_allVars(CancelReturns(m) /\ UNCHANGED futureVars)

FuturesSpec == FuturesInit /\ [][FuturesNext]_allVars

FuturesFairSpec == FuturesSpec /\ FuturesFairness

-----------------------------------------------------------------------------
(* Properties.                                                             *)

\* What the calls of a batch report agrees with what send() reported and with
\* what the peer was sent, whatever the order of polls, sends and failures.
FuturesAgreeWithSend ==
    \A b \in Batches : \A c \in BatchReqs[b] :
        /\ future[c] \in Decodings => c \in atPeer
        /\ confirm[b] = "Ok" => future[c] # "BatchSendFailed"
        /\ confirm[b] = "TransportError" =>
               future[c] \in Unresolved \cup {"BatchSendFailed", "BatchNotSentYet"}
        /\ confirm[b] = "ConnectionClosed" \/ caller[b] = "dropped" =>
               future[c] \in Unresolved \cup {"ConnectionClosed", "BatchNotSentYet"}

\* BatchNotSentYet is the truth when it is said: the batch has not been handed
\* to the loop, and while it is not it may still be dropped.
NotSentIsSaid ==
    \A c \in BatchCalls : future'[c] = "BatchNotSentYet" /\ future[c] = "held" =>
        c \notin atPeer \cup pending \cup UNION {Reqs(m) : m \in Queued}

NotSentIsTrue == [][NotSentIsSaid]_allVars

\* A shutdown tells every future that is awaited, and every cancel(), whose call
\* it has not sent, also if the call still waits for room in the channel, and
\* whether or not the wait for the handlers ever ends.  Only a call that was sent
\* may have to wait as long as that.
UnsentCallsAreTold ==
    /\ \A c \in Futures :
        (token /\ future[c] = "awaiting") ~> (future[c] \notin Unresolved \/ c \in pending)
    /\ \A m \in Methods :
        (token /\ cancelling[m] = "waiting") ~> (cancelling[m] = "returned" \/ m \in pending)

\* "If sending the batch fails, all method futures will fail with the same error
\* when awaited" (start_batch): they do not, see MCBatchFuturesError.cfg.
SendFailureIsShared ==
    \A b \in Batches : \A c \in BatchReqs[b] :
        confirm[b] = "TransportError" => future[c] \in Unresolved \cup {"BatchNotSentYet", "TransportError"}
=============================================================================
