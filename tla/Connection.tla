------------------------------ MODULE Connection ------------------------------
(***************************************************************************)
(* One connection: OutboundCalls and InboundOperations run by the same     *)
(* event loop (service/connection.rs, event_loop), and joined a second way *)
(* by handlers that call the peer back through a handle to the connection  *)
(* they are invoked from.  Such a handler awaits each call it makes.       *)
(*                                                                         *)
(* A step of one half leaves the other alone; a step of the shutdown is    *)
(* one step of both.  The two kinds of command share one channel in the    *)
(* code; here each half has its own, of the same capacity.                 *)
(***************************************************************************)
EXTENDS Naturals, Sequences

CONSTANTS Methods, Notes, Batches, BatchReqs, BatchNotes, ChannelBound
CONSTANTS Ops, Ids, None, HasTimeout
CONSTANT MadeBy   \* the operation whose handler sends each message, or None

VARIABLES caller, response, confirm, cancelling, outbound, cancels, pending, atPeer
VARIABLES kind, ids, task, byTask, byId, signalled, reply, inboundCancels
VARIABLES phase, token

outVars == <<caller, response, confirm, cancelling, outbound, cancels, pending, atPeer>>
inVars == <<kind, ids, task, byTask, byId, signalled, reply, inboundCancels>>
vars == <<outVars, inVars, phase, token>>

Out == INSTANCE OutboundCalls WITH commands <- cancels

In == INSTANCE InboundOperations WITH
    commands <- inboundCancels, CommandBound <- ChannelBound

ASSUME EveryMessageHasASource == MadeBy \in [Out!Messages -> Ops \cup {None}]

ASSUME HalvesConfig ==
    /\ Methods \cap Notes = {} /\ Methods \cap Batches = {} /\ Notes \cap Batches = {}
    /\ BatchNotes \subseteq Batches
    /\ \A b \in Batches :
        /\ BatchReqs[b] \cap Out!Messages = {}
        /\ \A c \in Batches : b # c => BatchReqs[b] \cap BatchReqs[c] = {}
    /\ ChannelBound \in Nat \ {0}
    /\ None \notin Ops \cup Ids
    /\ HasTimeout \in BOOLEAN

Init == Out!Init /\ In!Init

-----------------------------------------------------------------------------
Settled(m) ==
    /\ \A r \in Out!Reqs(m) : response[r] # "open"
    /\ m \in Out!Confirmed => confirm[m] # "open"

CallsOf(o) == {m \in Out!Messages : MadeBy[m] = o}

\* The handler of o is inside an await on one of its own calls.
Awaits(o, m) == m \in CallsOf(o) /\ caller[m] \in {"sending", "sent"} /\ ~Settled(m)

HandlerWaits(o) == \E m \in CallsOf(o) : Awaits(o, m)

HandlerRuns(o) == o # None => task[o] = "running"

\* A message is sent by a running handler, or by a caller outside the loop.
Send(m) ==
    /\ HandlerRuns(MadeBy[m])
    /\ \/ Out!Submit(m) /\ (MadeBy[m] # None => ~HandlerWaits(MadeBy[m]))
       \/ Out!Enqueue(m)
       \/ Out!EnqueueRefused(m)
    /\ UNCHANGED inVars

\* A caller outside the loop gives up waiting for room in the channel; a
\* handler's send ends like this when its task is dropped with the loop.
GiveUp(m) ==
    /\ MadeBy[m] # None => task[MadeBy[m]] = "discarded"
    /\ Out!DropSubmission(m)
    /\ UNCHANGED inVars

Cancel(r) ==
    /\ MadeBy[r] = None
    /\ Out!CancelStep(r)
    /\ UNCHANGED inVars

HandlerFinishes(o) ==
    /\ ~HandlerWaits(o)
    /\ In!TaskFinishes(o)
    /\ UNCHANGED outVars

HandlerPanics(o) ==
    /\ ~HandlerWaits(o)
    /\ In!TaskPanics(o)
    /\ UNCHANGED outVars

\* Aborting a task drops the future in which its handler is sending.
HandlerAborts(o) ==
    /\ In!TaskAborts(o)
    /\ LET unsent == {m \in CallsOf(o) : caller[m] = "sending"} IN
       \/ \E m \in unsent : Out!DropSubmission(m)
       \/ unsent = {} /\ UNCHANGED outVars

-----------------------------------------------------------------------------
(* The event loop.                                                         *)

HandleOutboundMessage == Out!HandleOutboundMessage /\ UNCHANGED inVars

HandleCommand ==
    \/ Out!HandleCommand /\ UNCHANGED inVars
    \/ In!HandleCancel /\ UNCHANGED outVars

ReceiveResponses ==
    /\ \E S \in SUBSET atPeer \ {{}} : Out!ReceiveResponses(S)
    /\ UNCHANGED inVars

ReceiveOperation(o) == In!ReceiveStep(o) /\ UNCHANGED outVars

\* A batch with both: its responses are dispatched before its task is spawned.
ReceiveHybrid(o) ==
    /\ \E S \in SUBSET atPeer \ {{}} : Out!ReceiveResponses(S)
    /\ In!ReceiveUntracked(o) /\ kind'[o] = "batch"

Join(o) == In!Join(o) /\ UNCHANGED outVars

CancelRequest(i) == In!SendCancel(i) /\ UNCHANGED outVars

CancelToken == Out!CancelToken /\ In!CancelToken

StopOnCancellation == Out!StopOnCancellation /\ In!StopOnCancellation

StopOnPeerOrError == Out!StopOnPeerOrError /\ In!StopOnPeerOrError

Drain == (Out!IgnoreCommands \/ Out!DrainOutbound) /\ UNCHANGED inVars

EndDrain == Out!EndDrain /\ In!EndDrain

GracefulTimeout == Out!GracefulTimeout /\ In!GracefulTimeout

FinishShutdown == Out!FinishShutdown /\ In!FinishShutdown

LoopPanics == Out!LoopPanics /\ In!LoopPanics

-----------------------------------------------------------------------------
Next ==
    \/ \E m \in Out!Messages : Send(m) \/ GiveUp(m)
    \/ \E r \in Methods : Cancel(r)
    \/ \E o \in Ops : HandlerFinishes(o) \/ HandlerPanics(o) \/ HandlerAborts(o)
    \/ \E o \in Ops : ReceiveOperation(o) \/ ReceiveHybrid(o) \/ Join(o)
    \/ \E i \in Ids : CancelRequest(i)
    \/ HandleOutboundMessage
    \/ HandleCommand
    \/ ReceiveResponses
    \/ CancelToken
    \/ StopOnCancellation
    \/ StopOnPeerOrError
    \/ Drain
    \/ EndDrain
    \/ GracefulTimeout
    \/ FinishShutdown
    \/ LoopPanics

(***************************************************************************)
(* The loop is fair as in its halves, and a handler that waits for nothing *)
(* finishes.  The peer owes nothing.                                       *)
(***************************************************************************)
Fairness ==
    /\ WF_vars(HandleOutboundMessage) /\ WF_vars(HandleCommand)
    /\ WF_vars(StopOnCancellation) /\ WF_vars(Drain) /\ WF_vars(EndDrain)
    /\ WF_vars(GracefulTimeout) /\ WF_vars(FinishShutdown)
    /\ \A m \in Out!Messages : WF_vars(Send(m) /\ caller[m] = "sending")
    /\ \A r \in Methods : WF_vars(Cancel(r) /\ cancelling[r] # "no")
    /\ \A o \in Ops :
        WF_vars(Join(o)) /\ WF_vars(HandlerFinishes(o)) /\ WF_vars(HandlerAborts(o))

Spec == Init /\ [][Next]_vars

FairSpec == Spec /\ Fairness

-----------------------------------------------------------------------------
(* Properties.                                                             *)

TypeOK == Out!TypeOK /\ In!TypeOK

\* When the loop has exited no handler of the connection still runs, and no
\* caller, inside a handler or outside, waits for a message it handed over.
ExitIsClean ==
    phase = "exited" =>
        /\ \A o \in Ops : task[o] # "running"
        /\ \A m \in Out!Messages : caller[m] = "sent" => Settled(m)

\* "Any pending outgoing requests will produce immediate results"
\* (ServiceConnectionHandle::shutdown): a call in flight when the token is
\* cancelled is settled.
ShutdownSettlesPendingCalls ==
    \A m \in Out!Messages : (token /\ caller[m] = "sent") ~> Settled(m)
=============================================================================
