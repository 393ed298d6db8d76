-------------------------- MODULE ConnectionProofs --------------------------
(***************************************************************************)
(* For any handlers, any messages, any channel capacity and any peer: each *)
(* half of a connection behaves, inside the whole, as it does alone.  What *)
(* OutboundCallsProofs and InboundOperationsProofs show of the halves is   *)
(* therefore true of the connection.                                       *)
(***************************************************************************)
EXTENDS Connection, TLAPS

\* The futures of batches, which OutboundCallsProofs is also about, are no part of
\* a connection: here there are none, and nobody looks at them.
OutProofs == INSTANCE OutboundCallsProofs WITH
    commands <- cancels, BadCalls <- {}, BatchOfBad <- [c \in {} |-> c],
    batchSent <- [b \in Batches |-> FALSE], future <- [c \in Methods |-> "none"]

InProofs == INSTANCE InboundOperationsProofs WITH
    commands <- inboundCancels, CommandBound <- ChannelBound

\* A caller's step and a step of a handler's task leave the other half alone.
LEMMA SourcesKeepHalves ==
    ASSUME \/ \E m \in Out!Messages : Send(m) \/ GiveUp(m)
           \/ \E r \in Methods : Cancel(r)
           \/ \E o \in Ops : HandlerFinishes(o) \/ HandlerPanics(o) \/ HandlerAborts(o)
    PROVE  [Out!Next]_(Out!vars) /\ [In!Next]_(In!vars)
<1>1. CASE \E m \in Out!Messages : Send(m) \/ GiveUp(m)
  <2> PICK m \in Out!Messages : Send(m) \/ GiveUp(m)
    BY <1>1
  <2>1. Out!CallerStep(m)
    BY DEF Send, GiveUp, Out!CallerStep
  <2>2. Out!Next
    BY <2>1 DEF Out!Next
  <2>3. UNCHANGED <<phase, token>>
    BY <2>1 DEF Out!CallerStep, Out!Submit, Out!Enqueue, Out!EnqueueRefused,
                Out!DropSubmission, Out!loopVars
  <2>4. UNCHANGED In!vars
    BY <2>3 DEF Send, GiveUp, inVars, In!vars
  <2> QED BY <2>2, <2>4
<1>2. CASE \E r \in Methods : Cancel(r)
  <2> PICK r \in Methods : Cancel(r)
    BY <1>2
  <2>1. Out!CancelStep(r) /\ Out!Next
    BY DEF Cancel, Out!Next
  <2>2. UNCHANGED In!vars
    BY <2>1 DEF Cancel, Out!CancelStep, Out!StartCancel, Out!SendCancel,
                Out!CancelReturns, Out!loopVars, inVars, In!vars
  <2> QED BY <2>1, <2>2
<1>3. CASE \E o \in Ops : HandlerFinishes(o) \/ HandlerPanics(o) \/ HandlerAborts(o)
  <2> PICK o \in Ops : HandlerFinishes(o) \/ HandlerPanics(o) \/ HandlerAborts(o)
    BY <1>3
  <2>1. In!TaskStep(o) /\ In!Next
    BY DEF HandlerFinishes, HandlerPanics, HandlerAborts, In!TaskStep, In!Next
  <2>2. UNCHANGED <<phase, token>>
    BY <2>1 DEF In!TaskStep, In!TaskFinishes, In!TaskPanics, In!TaskAborts, In!TaskEnds
  <2>3. (\E m \in Out!Messages : Out!DropSubmission(m)) \/ UNCHANGED outVars
    BY DEF HandlerFinishes, HandlerPanics, HandlerAborts, CallsOf
  <2>4. [Out!Next]_(Out!vars)
    BY <2>2, <2>3 DEF Out!Next, Out!CallerStep, outVars, Out!vars
  <2> QED BY <2>1, <2>4
<1> QED BY <1>1, <1>2, <1>3

\* What the loop receives, takes from a channel or joins is a step of one half,
\* except a batch of both kinds, which is one step of each.
LEMMA LoopKeepsHalves ==
    ASSUME \/ \E o \in Ops : ReceiveOperation(o) \/ ReceiveHybrid(o) \/ Join(o)
           \/ \E i \in Ids : CancelRequest(i)
           \/ HandleOutboundMessage \/ HandleCommand \/ ReceiveResponses
    PROVE  [Out!Next]_(Out!vars) /\ [In!Next]_(In!vars)
<1>1. CASE \E o \in Ops : ReceiveOperation(o) \/ Join(o)
  <2> PICK o \in Ops : ReceiveOperation(o) \/ Join(o)
    BY <1>1
  <2>1. (In!ReceiveStep(o) \/ In!Join(o)) /\ In!Next
    BY DEF ReceiveOperation, Join, In!Next
  <2>2. UNCHANGED <<phase, token>>
    BY <2>1 DEF In!ReceiveStep, In!Join, In!ReceiveUnusable, In!ReceiveUntracked,
                In!ReceiveRequest
  <2>3. UNCHANGED Out!vars
    BY <2>2 DEF ReceiveOperation, Join, outVars, Out!vars
  <2> QED BY <2>1, <2>3
<1>2. CASE \E o \in Ops : ReceiveHybrid(o)
  BY <1>2 DEF ReceiveHybrid, Out!Next, In!Next, In!ReceiveStep
<1>3. CASE \E i \in Ids : CancelRequest(i)
  <2> PICK i \in Ids : In!SendCancel(i) /\ UNCHANGED outVars
    BY <1>3 DEF CancelRequest
  <2>1. UNCHANGED Out!vars
    BY DEF In!SendCancel, outVars, Out!vars
  <2> QED BY <2>1 DEF In!Next
<1>4. CASE HandleOutboundMessage
  BY <1>4 DEF HandleOutboundMessage, Out!HandleOutboundMessage, Out!Next, inVars, In!vars
<1>5. CASE Out!HandleCommand /\ UNCHANGED inVars
  BY <1>5 DEF Out!HandleCommand, Out!Next, inVars, In!vars
<1>6. CASE In!HandleCancel /\ UNCHANGED outVars
  BY <1>6 DEF In!HandleCancel, In!Next, outVars, Out!vars
<1>7. CASE ReceiveResponses
  BY <1>7 DEF ReceiveResponses, Out!ReceiveResponses, Out!Next, inVars, In!vars
<1> QED BY <1>1, <1>2, <1>3, <1>4, <1>5, <1>6, <1>7 DEF HandleCommand

\* The steps of the shutdown are a step of each half, but for the drain.
LEMMA ShutdownKeepsHalves ==
    ASSUME \/ CancelToken \/ StopOnCancellation \/ StopOnPeerOrError \/ Drain
           \/ EndDrain \/ GracefulTimeout \/ FinishShutdown \/ LoopPanics
    PROVE  [Out!Next]_(Out!vars) /\ [In!Next]_(In!vars)
<1>1. CASE Drain
  <2>1. UNCHANGED <<phase, token>>
    BY <1>1 DEF Drain, Out!IgnoreCommands, Out!DrainOutbound, Out!loopVars
  <2> QED BY <1>1, <2>1 DEF Drain, Out!Next, inVars, In!vars
<1>2. CASE ~Drain
  BY <1>2 DEF CancelToken, StopOnCancellation, StopOnPeerOrError, EndDrain, GracefulTimeout,
              FinishShutdown, LoopPanics, Out!Next, In!Next
<1> QED BY <1>1, <1>2

\* Each half takes steps of its own only.
HalvesAreImplemented == Out!Spec /\ In!Spec

\* A connection is two halves, by the way its steps are written: no claim about
\* the code, but what lets the theorems below use what is proved of each half.
LEMMA HalvesAreAlwaysImplemented == Spec => HalvesAreImplemented
<1>1. [Next]_vars => [Out!Next]_(Out!vars) /\ [In!Next]_(In!vars)
  <2>1. CASE UNCHANGED vars
    BY <2>1 DEF vars, outVars, inVars, Out!vars, In!vars
  <2>2. CASE Next
    BY <2>2, SourcesKeepHalves, LoopKeepsHalves, ShutdownKeepsHalves DEF Next
  <2> QED BY <2>1, <2>2
<1>2. Init => Out!Init /\ In!Init
  BY DEF Init
<1> QED BY <1>1, <1>2, PTL DEF Spec, HalvesAreImplemented, Out!Spec, In!Spec

LEMMA NoBadCalls ==
    /\ {} \cap (OutProofs!Messages \cup OutProofs!Requests) = {}
    /\ [c \in {} |-> c] \in [{} -> Batches]
OBVIOUS

\* OutProofs repeats the definitions of Out: the two are one specification.
LEMMA SameOutbound ==
    /\ Out!Spec <=> OutProofs!Spec
    /\ Out!TypeOK <=> OutProofs!TypeOK
    /\ Out!ExitLeavesNobodyWaiting <=> OutProofs!ExitLeavesNobodyWaiting
<1>1. \A m : Out!CallerStep(m) <=> OutProofs!CallerStep(m)
  BY DEF Out!Requests, OutProofs!Requests, Out!Reqs, OutProofs!Reqs,
         Out!Confirmed, OutProofs!Confirmed, Out!loopVars, OutProofs!loopVars,
         Out!ChannelsOpen, OutProofs!ChannelsOpen, Out!Settle, OutProofs!Settle,
         Out!Confirm, OutProofs!Confirm, Out!CallerStep, OutProofs!CallerStep,
         Out!Submit, OutProofs!Submit, Out!Enqueue, OutProofs!Enqueue,
         Out!EnqueueRefused, OutProofs!EnqueueRefused, Out!DropSubmission,
         OutProofs!DropSubmission, Out!IsEmptyBatch, OutProofs!IsEmptyBatch
<1>2. \A r : Out!CancelStep(r) <=> OutProofs!CancelStep(r)
  BY DEF Out!ChannelsOpen, OutProofs!ChannelsOpen, Out!loopVars,
         OutProofs!loopVars, Out!CancelStep, OutProofs!CancelStep,
         Out!StartCancel, OutProofs!StartCancel, Out!SendCancel,
         OutProofs!SendCancel, Out!CancelReturns, OutProofs!CancelReturns
<1>3. /\ Out!HandleOutboundMessage <=> OutProofs!HandleOutboundMessage
      /\ Out!HandleCommand <=> OutProofs!HandleCommand
  BY DEF Out!Requests, OutProofs!Requests, Out!Reqs, OutProofs!Reqs,
         Out!Confirmed, OutProofs!Confirmed, Out!handleVars,
         OutProofs!handleVars, Out!Settle, OutProofs!Settle, Out!Confirm,
         OutProofs!Confirm, Out!Transmit, OutProofs!Transmit, Out!TransmitFails,
         OutProofs!TransmitFails, Out!HandleOutboundMessage,
         OutProofs!HandleOutboundMessage, Out!HandleCommand,
         OutProofs!HandleCommand
<1>4. \A S : Out!ReceiveResponses(S) <=> OutProofs!ReceiveResponses(S)
  BY DEF Out!Requests, OutProofs!Requests, Out!handleVars, OutProofs!handleVars,
         Out!Settle, OutProofs!Settle, Out!ReceiveResponses,
         OutProofs!ReceiveResponses
<1>5. /\ Out!CancelToken <=> OutProofs!CancelToken
      /\ Out!StopOnCancellation <=> OutProofs!StopOnCancellation
      /\ Out!StopOnPeerOrError <=> OutProofs!StopOnPeerOrError
  BY DEF Out!CancelToken, OutProofs!CancelToken, Out!BeginShutdown,
         OutProofs!BeginShutdown, Out!StopOnCancellation,
         OutProofs!StopOnCancellation, Out!StopOnPeerOrError,
         OutProofs!StopOnPeerOrError, Out!handleVars, OutProofs!handleVars,
         Out!loopVars, OutProofs!loopVars
<1>6. /\ Out!IgnoreCommands <=> OutProofs!IgnoreCommands
      /\ Out!DrainOutbound <=> OutProofs!DrainOutbound
      /\ Out!EndDrain <=> OutProofs!EndDrain
  BY DEF Out!Requests, OutProofs!Requests, Out!Reqs, OutProofs!Reqs,
         Out!Confirmed, OutProofs!Confirmed, Out!handleVars,
         OutProofs!handleVars, Out!loopVars, OutProofs!loopVars, Out!Settle,
         OutProofs!Settle, Out!Confirm, OutProofs!Confirm, Out!IgnoreCommands,
         OutProofs!IgnoreCommands, Out!DrainOutbound, OutProofs!DrainOutbound,
         Out!EndDrain, OutProofs!EndDrain
<1>7. /\ Out!GracefulTimeout <=> OutProofs!GracefulTimeout
      /\ Out!FinishShutdown <=> OutProofs!FinishShutdown
      /\ Out!LoopPanics <=> OutProofs!LoopPanics
  BY DEF Out!Requests, OutProofs!Requests, Out!Reqs, OutProofs!Reqs,
         Out!Confirmed, OutProofs!Confirmed, Out!handleVars,
         OutProofs!handleVars, Out!Settle, OutProofs!Settle, Out!Confirm,
         OutProofs!Confirm, Out!GracefulTimeout, OutProofs!GracefulTimeout,
         Out!FinishShutdown, OutProofs!FinishShutdown, Out!LoopPanics,
         OutProofs!LoopPanics, Out!Queued, OutProofs!Queued, Out!Range,
         OutProofs!Range
<1>8. Out!Next <=> OutProofs!Next
  BY <1>1, <1>2, <1>3, <1>4, <1>5, <1>6, <1>7
     DEF Out!Next, OutProofs!Next, Out!Messages, OutProofs!Messages
<1>9. Out!Init <=> OutProofs!Init
  BY DEF Out!Init, OutProofs!Init, Out!Messages, OutProofs!Messages,
         Out!Requests, OutProofs!Requests, Out!Confirmed, OutProofs!Confirmed
<1>10. [Out!Next]_(Out!vars) <=> [OutProofs!Next]_(OutProofs!vars)
  BY <1>8 DEF Out!vars, OutProofs!vars
<1>11. Out!Spec <=> OutProofs!Spec
  BY <1>9, <1>10, PTL DEF Out!Spec, OutProofs!Spec
<1>12. Out!TypeOK <=> OutProofs!TypeOK
  BY DEF Out!TypeOK, OutProofs!TypeOK, Out!RequestOutcomes,
         OutProofs!RequestOutcomes, Out!ConfirmOutcomes,
         OutProofs!ConfirmOutcomes, Out!Messages, OutProofs!Messages,
         Out!Requests, OutProofs!Requests, Out!Confirmed, OutProofs!Confirmed
<1>13. Out!ExitLeavesNobodyWaiting <=> OutProofs!ExitLeavesNobodyWaiting
  BY DEF Out!ExitLeavesNobodyWaiting, OutProofs!ExitLeavesNobodyWaiting,
         Out!Stopped, OutProofs!Stopped, Out!Messages, OutProofs!Messages,
         Out!Reqs, OutProofs!Reqs, Out!Confirmed, OutProofs!Confirmed
<1> QED BY <1>11, <1>12, <1>13

\* The same of InProofs and In.
LEMMA SameInbound ==
    /\ In!Spec <=> InProofs!Spec
    /\ In!TypeOK <=> InProofs!TypeOK
    /\ In!EveryRequestAnswered <=> InProofs!EveryRequestAnswered
<1>1. \A o : In!ReceiveStep(o) <=> InProofs!ReceiveStep(o)
  BY DEF In!ReceiveStep, InProofs!ReceiveStep, In!ReceiveUnusable,
         InProofs!ReceiveUnusable, In!ReceiveUntracked,
         InProofs!ReceiveUntracked, In!ReceiveRequest, InProofs!ReceiveRequest
<1>2. \A o : In!TaskStep(o) <=> InProofs!TaskStep(o)
  BY DEF In!TaskStep, InProofs!TaskStep, In!TaskFinishes, InProofs!TaskFinishes,
         In!TaskPanics, InProofs!TaskPanics, In!TaskAborts, InProofs!TaskAborts,
         In!TaskEnds, InProofs!TaskEnds
<1>3. \A o : In!Join(o) <=> InProofs!Join(o)
  BY DEF In!Join, InProofs!Join, In!JoinFinished, InProofs!JoinFinished,
         In!JoinFailed, InProofs!JoinFailed, In!Untrack, InProofs!Untrack,
         In!Answer, InProofs!Answer
<1>4. /\ \A i : In!SendCancel(i) <=> InProofs!SendCancel(i)
      /\ In!HandleCancel <=> InProofs!HandleCancel
  BY DEF In!SendCancel, InProofs!SendCancel, In!HandleCancel,
         InProofs!HandleCancel, In!opVars, InProofs!opVars
<1>5. /\ In!CancelToken <=> InProofs!CancelToken
      /\ In!StopOnCancellation <=> InProofs!StopOnCancellation
      /\ In!StopOnPeerOrError <=> InProofs!StopOnPeerOrError
      /\ In!EndDrain <=> InProofs!EndDrain
  BY DEF In!CancelToken, InProofs!CancelToken, In!BeginShutdown,
         InProofs!BeginShutdown, In!StopOnCancellation,
         InProofs!StopOnCancellation, In!StopOnPeerOrError,
         InProofs!StopOnPeerOrError, In!EndDrain, InProofs!EndDrain, In!opVars,
         InProofs!opVars
<1>6. /\ In!GracefulTimeout <=> InProofs!GracefulTimeout
      /\ In!FinishShutdown <=> InProofs!FinishShutdown
      /\ In!LoopPanics <=> InProofs!LoopPanics
  BY DEF In!GracefulTimeout, InProofs!GracefulTimeout, In!FinishShutdown,
         InProofs!FinishShutdown, In!LoopPanics, InProofs!LoopPanics, In!JoinSet,
         InProofs!JoinSet, In!Completed, InProofs!Completed, In!opVars,
         InProofs!opVars
<1>7. In!Next <=> InProofs!Next
  BY <1>1, <1>2, <1>3, <1>4, <1>5, <1>6
     DEF In!Next, InProofs!Next
<1>8. In!Init <=> InProofs!Init
  BY DEF In!Init, InProofs!Init
<1>9. [In!Next]_(In!vars) <=> [InProofs!Next]_(InProofs!vars)
  BY <1>7 DEF In!vars, InProofs!vars, In!opVars, InProofs!opVars
<1>10. In!Spec <=> InProofs!Spec
  BY <1>8, <1>9, PTL DEF In!Spec, InProofs!Spec
<1>11. In!TypeOK <=> InProofs!TypeOK
  BY DEF In!TypeOK, InProofs!TypeOK, In!Kinds, InProofs!Kinds, In!Completed,
         InProofs!Completed
<1>12. In!EveryRequestAnswered <=> InProofs!EveryRequestAnswered
  BY DEF In!EveryRequestAnswered, InProofs!EveryRequestAnswered, In!JoinSet,
         InProofs!JoinSet, In!Completed, InProofs!Completed
<1> QED BY <1>10, <1>11, <1>12

\* The state of both halves stays well formed: TypeOK.
THEOREM TypeCorrect == Spec => []TypeOK
<1>1. Spec => OutProofs!Spec /\ InProofs!Spec
  BY HalvesAreAlwaysImplemented, SameOutbound, SameInbound, PTL DEF HalvesAreImplemented
<1>2. OutProofs!Spec => []OutProofs!TypeOK
  BY HalvesConfig, NoBadCalls, OutProofs!TypeCorrect, PTL DEF Out!Messages, OutProofs!Messages
<1>3. InProofs!Spec => []InProofs!TypeOK
  BY HalvesConfig, InProofs!TypeCorrect, PTL
<1>4. OutProofs!TypeOK /\ InProofs!TypeOK => TypeOK
  BY SameOutbound, SameInbound DEF TypeOK
<1> QED BY <1>1, <1>2, <1>3, <1>4, PTL

\* ExitIsClean: once the loop has exited no handler runs and nobody waits, which
\* takes what is proved of both halves.
THEOREM ExitsAreClean == Spec => []ExitIsClean
<1>1. Spec => OutProofs!Spec /\ InProofs!Spec
  BY HalvesAreAlwaysImplemented, SameOutbound, SameInbound, PTL DEF HalvesAreImplemented
<1>2. OutProofs!Spec => []OutProofs!ExitLeavesNobodyWaiting
  BY HalvesConfig, NoBadCalls, OutProofs!NobodyWaitsAfterExit, PTL DEF Out!Messages, OutProofs!Messages
<1>3. InProofs!Spec => []InProofs!EveryRequestAnswered
  BY HalvesConfig, InProofs!EveryRequestIsAnswered, PTL
<1>4. Out!ExitLeavesNobodyWaiting /\ In!EveryRequestAnswered => ExitIsClean
  BY DEF Out!ExitLeavesNobodyWaiting, Out!Stopped, In!EveryRequestAnswered, In!JoinSet,
         ExitIsClean, Settled
<1>5. OutProofs!ExitLeavesNobodyWaiting /\ InProofs!EveryRequestAnswered => ExitIsClean
  BY <1>4, SameOutbound, SameInbound
<1> QED BY <1>1, <1>2, <1>3, <1>5, PTL

\* The connection keeps both contracts: to its callers, whose outcomes, order
\* and delivery CallContract limits, though some of them are handlers of its own
\* (KeepsCallContract), and to its owners, who rely on LoopContract, though its
\* handlers call back (KeepsLoopContract).
THEOREM ContractsAreKept == Spec => Out!KeepsCallContract /\ In!KeepsLoopContract
<1>1. Spec => OutProofs!Spec /\ InProofs!Spec
  BY HalvesAreAlwaysImplemented, SameOutbound, SameInbound, PTL DEF HalvesAreImplemented
<1>2. OutProofs!Spec => OutProofs!KeepsCallContract
  BY HalvesConfig, NoBadCalls, OutProofs!ContractIsKept, PTL DEF Out!Messages, OutProofs!Messages
<1>3. InProofs!Spec => InProofs!KeepsLoopContract
  BY HalvesConfig, InProofs!LoopContractIsKept, PTL
<1>4. OutProofs!KeepsCallContract => Out!KeepsCallContract
  <2>1. OutProofs!Contract!Init <=> Out!Contract!Init
    BY DEF OutProofs!Contract!Init, Out!Contract!Init, Out!Requests, OutProofs!Requests
  <2>2. [OutProofs!Contract!Next]_(OutProofs!Contract!vars)
            <=> [Out!Contract!Next]_(Out!Contract!vars)
    BY DEF Out!Contract!Open, OutProofs!Contract!Open, Out!Contract!Tell,
           OutProofs!Contract!Tell, Out!Contract!Transmit, OutProofs!Contract!Transmit,
           Out!Contract!Lose, OutProofs!Contract!Lose, Out!Contract!Answer,
           OutProofs!Contract!Answer, Out!Contract!Withdraw,
           OutProofs!Contract!Withdraw, Out!Contract!Disconnect,
           OutProofs!Contract!Disconnect, Out!Contract!Refuse,
           OutProofs!Contract!Refuse, Out!Contract!Abandon, OutProofs!Contract!Abandon,
           Out!Contract!Crash, OutProofs!Contract!Crash, Out!Contract!Next,
           OutProofs!Contract!Next, Out!Contract!vars, OutProofs!Contract!vars,
           Out!Requests, OutProofs!Requests, Out!Messages, OutProofs!Messages,
           Out!Reqs, OutProofs!Reqs
  <2> QED BY <2>1, <2>2, PTL DEF OutProofs!KeepsCallContract, Out!KeepsCallContract,
                                 OutProofs!Contract!Spec, Out!Contract!Spec
<1>5. InProofs!KeepsLoopContract => In!KeepsLoopContract
  <2>1. InProofs!Contract!Init <=> In!Contract!Init
    BY DEF InProofs!Contract!Init, In!Contract!Init, InProofs!Running, In!Running
  <2>2. [InProofs!Contract!Next]_(InProofs!Contract!vars)
            <=> [In!Contract!Next]_(In!Contract!vars)
    BY DEF In!Contract!Moves, InProofs!Contract!Moves, In!Contract!Open,
           InProofs!Contract!Open, In!Contract!Signal, InProofs!Contract!Signal,
           In!Contract!Begin, InProofs!Contract!Begin, In!Contract!End,
           InProofs!Contract!End, In!Contract!Stop, InProofs!Contract!Stop,
           In!Contract!Close, InProofs!Contract!Close, In!Contract!Crash,
           InProofs!Contract!Crash, In!Contract!Next, InProofs!Contract!Next,
           In!Contract!vars, InProofs!Contract!vars, In!Running, InProofs!Running
  <2> QED BY <2>1, <2>2, PTL DEF InProofs!KeepsLoopContract, In!KeepsLoopContract,
                                 InProofs!Contract!Spec, In!Contract!Spec
<1> QED BY <1>1, <1>2, <1>3, <1>4, <1>5, PTL
=============================================================================
