------------------------- MODULE OutboundCallsProofs -------------------------
(***************************************************************************)
(* For any set of calls, notifications and batches, and channels of any    *)
(* capacity: the types, that the sender of every unsettled oneshot is held *)
(* in exactly one place, that an outcome never changes, and that the loop  *)
(* exits with nobody waiting.                                              *)
(*                                                                         *)
(* The second half is about BatchFutures: builders and futures leave the   *)
(* contract of the connection as it is, and what a future yields, whenever *)
(* it is polled, agrees with what the send of its batch reported and with  *)
(* what the peer was sent.                                                 *)
(***************************************************************************)
EXTENDS BatchFutures, SequenceTheorems, TLAPS

\* The requests of a message are requests, and no two messages share one.
LEMMA RequestsOfMessages ==
    /\ \A m \in Messages : Reqs(m) \subseteq Requests
    /\ \A m, n \in Messages : m # n => Reqs(m) \cap Reqs(n) = {}
  BY MessageKinds, FreshRequestIds DEF Messages, Requests, Reqs

\* Appending a new element keeps a sequence without repetitions so.
LEMMA AppendNew ==
    ASSUME NEW S, NEW q \in Seq(S), NEW e \in S, IsInjective(q), e \notin Range(q)
    PROVE  /\ IsInjective(Append(q, e))
           /\ Range(Append(q, e)) = Range(q) \cup {e}
<1>1. /\ Append(q, e) \in Seq(S) /\ Len(Append(q, e)) = Len(q) + 1
      /\ \A i \in 1..Len(q) : Append(q, e)[i] = q[i]
      /\ Append(q, e)[Len(q) + 1] = e
  BY AppendProperties
<1>2. DOMAIN q = 1..Len(q) /\ DOMAIN Append(q, e) = 1..(Len(q) + 1) /\ Len(q) \in Nat
  BY <1>1
<1>3. DOMAIN Append(q, e) = DOMAIN q \cup {Len(q) + 1}
  BY <1>2
<1>4. Range(Append(q, e)) = Range(q) \cup {e}
  BY <1>1, <1>2, <1>3 DEF Range
<1>5. IsInjective(Append(q, e))
  BY <1>1, <1>2, <1>3 DEF IsInjective, Range
<1> QED
  BY <1>4, <1>5

\* Taking the head of a sequence without repetitions removes it altogether.
LEMMA TailOfInjective ==
    ASSUME NEW S, NEW q \in Seq(S), q # <<>>, IsInjective(q)
    PROVE  /\ IsInjective(Tail(q))
           /\ Head(q) \in Range(q)
           /\ Range(Tail(q)) = Range(q) \ {Head(q)}
<1>1. /\ Tail(q) \in Seq(S) /\ Len(Tail(q)) = Len(q) - 1
      /\ \A i \in 1..Len(Tail(q)) : Tail(q)[i] = q[i + 1]
  BY HeadTailProperties
<1>2. /\ DOMAIN q = 1..Len(q) /\ Len(q) \in Nat /\ Len(q) # 0
      /\ DOMAIN Tail(q) = 1..(Len(q) - 1) /\ Head(q) = q[1]
  BY <1>1, EmptySeq
<1>3. \A i \in DOMAIN Tail(q) : i + 1 \in DOMAIN q /\ i + 1 # 1 /\ Tail(q)[i] = q[i + 1]
  BY <1>1, <1>2
<1>4. \A j \in DOMAIN q : j # 1 => j - 1 \in DOMAIN Tail(q) /\ Tail(q)[j - 1] = q[j]
  BY <1>1, <1>2
<1>5. 1 \in DOMAIN q
  BY <1>2
<1>6. IsInjective(Tail(q))
  BY <1>2, <1>3 DEF IsInjective
<1>7. Range(Tail(q)) = Range(q) \ {Head(q)}
  BY <1>2, <1>3, <1>4, <1>5 DEF IsInjective, Range
<1> QED
  BY <1>2, <1>5, <1>6, <1>7 DEF Range

\* Settling requests or confirmations keeps the oneshots well formed.
LEMMA SettleType ==
    ASSUME TypeOK, NEW S, NEW outcome \in RequestOutcomes, Settle(S, outcome)
    PROVE  response' \in [Requests -> {"open"} \cup RequestOutcomes]
  BY DEF TypeOK, Settle

LEMMA ConfirmType ==
    ASSUME TypeOK, NEW S, NEW outcome \in ConfirmOutcomes, Confirm(S, outcome)
    PROVE  confirm' \in [Confirmed -> {"open"} \cup ConfirmOutcomes]
  BY DEF TypeOK, Confirm

\* What is taken from a channel, and what is left, is well formed.
LEMMA DequeueType ==
    ASSUME NEW S, NEW q \in Seq(S), q # <<>>, Len(q) <= ChannelBound
    PROVE  Head(q) \in S /\ Tail(q) \in Seq(S) /\ Len(Tail(q)) <= ChannelBound
<1>1. Head(q) \in S /\ Tail(q) \in Seq(S) /\ Len(Tail(q)) = Len(q) - 1 /\ Len(q) \in Nat
  BY HeadTailProperties
<1> QED
  BY <1>1, BoundIsPositive

LEMMA EnqueueType ==
    ASSUME NEW S, NEW q \in Seq(S), NEW e \in S, Len(q) < ChannelBound
    PROVE  Append(q, e) \in Seq(S) /\ Len(Append(q, e)) <= ChannelBound
<1>1. Append(q, e) \in Seq(S) /\ Len(Append(q, e)) = Len(q) + 1 /\ Len(q) \in Nat
  BY AppendProperties
<1> QED
  BY <1>1, BoundIsPositive

LEMMA EmptyType ==
    ASSUME NEW S PROVE <<>> \in Seq(S) /\ Len(<<>>) <= ChannelBound
  BY EmptySeq, BoundIsPositive

\* The initial state is well formed.
LEMMA TypeCorrectInit == Init => TypeOK
<1> SUFFICES ASSUME Init PROVE TypeOK
  OBVIOUS
<1>1. /\ outbound \in Seq(Messages) /\ Len(outbound) <= ChannelBound
      /\ commands \in Seq(Methods) /\ Len(commands) <= ChannelBound
  BY EmptyType DEF Init
<1> QED
  BY <1>1 DEF Init, TypeOK

\* A caller's step keeps the state well formed.
LEMMA CallerKeepsTypes ==
    ASSUME TypeOK, NEW m \in Messages, CallerStep(m)
    PROVE  TypeOK'
<1> USE DEF handleVars, loopVars
<1>1. CASE Submit(m)
  <2>1. confirm' \in [Confirmed -> {"open"} \cup ConfirmOutcomes]
    BY <1>1, ConfirmType DEF Submit, TypeOK, ConfirmOutcomes
  <2>2. caller' \in [Messages -> {"idle", "sending", "sent", "refused", "dropped"}]
    BY <1>1 DEF Submit, TypeOK
  <2> QED
    BY <1>1, <2>1, <2>2 DEF Submit, TypeOK
<1>2. CASE Enqueue(m)
  <2>1. outbound' \in Seq(Messages) /\ Len(outbound') <= ChannelBound
    BY <1>2, EnqueueType DEF Enqueue, TypeOK
  <2> QED
    BY <1>2, <2>1 DEF Enqueue, TypeOK
<1>3. CASE EnqueueRefused(m)
  <2>1. response' \in [Requests -> {"open"} \cup RequestOutcomes]
    BY <1>3, SettleType DEF EnqueueRefused, RequestOutcomes
  <2>2. confirm' \in [Confirmed -> {"open"} \cup ConfirmOutcomes]
    BY <1>3, ConfirmType DEF EnqueueRefused, ConfirmOutcomes
  <2> QED
    BY <1>3, <2>1, <2>2 DEF EnqueueRefused, TypeOK
<1>4. CASE DropSubmission(m)
  <2>1. response' \in [Requests -> {"open"} \cup RequestOutcomes]
    BY <1>4, SettleType DEF DropSubmission, RequestOutcomes
  <2>2. confirm' \in [Confirmed -> {"open"} \cup ConfirmOutcomes]
    BY <1>4, ConfirmType DEF DropSubmission, ConfirmOutcomes
  <2> QED
    BY <1>4, <2>1, <2>2 DEF DropSubmission, TypeOK
<1> QED
  BY <1>1, <1>2, <1>3, <1>4 DEF CallerStep

\* So does a step of a cancel() call.
LEMMA CancelKeepsTypes ==
    ASSUME TypeOK, NEW r \in Methods, CancelStep(r)
    PROVE  TypeOK'
<1> USE DEF handleVars, loopVars
<1>1. CASE StartCancel(r)
  BY <1>1 DEF StartCancel, TypeOK
<1>2. CASE SendCancel(r)
  <2>1. CASE commands' = Append(commands, r) /\ Len(commands) < ChannelBound
    <3>1. commands' \in Seq(Methods) /\ Len(commands') <= ChannelBound
      BY <2>1, EnqueueType DEF TypeOK
    <3> QED
      BY <1>2, <3>1 DEF SendCancel, TypeOK
  <2>2. CASE commands' = commands
    BY <1>2, <2>2 DEF SendCancel, TypeOK
  <2> QED
    BY <1>2, <2>1, <2>2 DEF SendCancel
<1>3. CASE CancelReturns(r)
  BY <1>3 DEF CancelReturns, TypeOK
<1> QED
  BY <1>1, <1>2, <1>3 DEF CancelStep

\* Every step keeps the state well formed.
LEMMA TypeCorrectNext == TypeOK /\ [Next]_vars => TypeOK'
<1> SUFFICES ASSUME TypeOK, [Next]_vars PROVE TypeOK'
  OBVIOUS
<1> USE DEF handleVars, loopVars
<1>1. CASE CancelToken
  BY <1>1 DEF CancelToken, TypeOK
<1>2. CASE HandleOutboundMessage
  <2>1. /\ outbound' \in Seq(Messages) /\ Len(outbound') <= ChannelBound
        /\ Head(outbound) \in Messages
    BY <1>2, DequeueType DEF HandleOutboundMessage, TypeOK
  <2>2. Reqs(Head(outbound)) \subseteq Requests
    BY <2>1, RequestsOfMessages
  <2>3. CASE Transmit(Head(outbound))
    <3>1. confirm' \in [Confirmed -> {"open"} \cup ConfirmOutcomes]
      BY <2>3, ConfirmType DEF Transmit, ConfirmOutcomes
    <3> QED
      BY <1>2, <2>1, <2>2, <2>3, <3>1 DEF HandleOutboundMessage, Transmit, TypeOK
  <2>4. CASE TransmitFails(Head(outbound))
    <3>1. confirm' \in [Confirmed -> {"open"} \cup ConfirmOutcomes]
      BY <2>4, ConfirmType DEF TransmitFails, ConfirmOutcomes
    <3>2. response' \in [Requests -> {"open"} \cup RequestOutcomes]
      BY <2>4, SettleType DEF TransmitFails, RequestOutcomes
    <3> QED
      BY <1>2, <2>1, <2>2, <2>4, <3>1, <3>2 DEF HandleOutboundMessage, TransmitFails, TypeOK
  <2> QED
    BY <1>2, <2>3, <2>4 DEF HandleOutboundMessage
<1>3. CASE HandleCommand
  <2>1. commands' \in Seq(Methods) /\ Len(commands') <= ChannelBound
    BY <1>3, DequeueType DEF HandleCommand, TypeOK
  <2>2. response' \in [Requests -> {"open"} \cup RequestOutcomes]
    BY <1>3, SettleType DEF HandleCommand, RequestOutcomes
  <2> QED
    BY <1>3, <2>1, <2>2 DEF HandleCommand, TypeOK
<1>4. ASSUME NEW S, ReceiveResponses(S) PROVE TypeOK'
  <2>1. response' \in [Requests -> {"open"} \cup RequestOutcomes]
    BY <1>4, SettleType DEF ReceiveResponses, RequestOutcomes
  <2> QED
    BY <1>4, <2>1 DEF ReceiveResponses, TypeOK
<1>5. CASE BeginShutdown
  BY <1>5 DEF BeginShutdown, TypeOK
<1>6. CASE IgnoreCommands
  BY <1>6, EmptyType DEF IgnoreCommands, TypeOK
<1>7. CASE DrainOutbound
  <2>1. outbound' \in Seq(Messages) /\ Len(outbound') <= ChannelBound
    BY <1>7, DequeueType DEF DrainOutbound, TypeOK
  <2>2. confirm' \in [Confirmed -> {"open"} \cup ConfirmOutcomes]
    BY <1>7, ConfirmType DEF DrainOutbound, ConfirmOutcomes
  <2>3. response' \in [Requests -> {"open"} \cup RequestOutcomes]
    BY <1>7, SettleType DEF DrainOutbound, RequestOutcomes
  <2> QED
    BY <1>7, <2>1, <2>2, <2>3 DEF DrainOutbound, TypeOK
<1>8. CASE EndDrain
  BY <1>8 DEF EndDrain, TypeOK
<1>9. CASE GracefulTimeout
  BY <1>9 DEF GracefulTimeout, TypeOK
<1>10. CASE FinishShutdown
  <2>1. response' \in [Requests -> {"open"} \cup RequestOutcomes]
    BY <1>10, SettleType DEF FinishShutdown, RequestOutcomes
  <2> QED
    BY <1>10, <2>1 DEF FinishShutdown, TypeOK
<1>11. CASE LoopPanics
  <2>1. confirm' \in [Confirmed -> {"open"} \cup ConfirmOutcomes]
    BY <1>11, ConfirmType DEF LoopPanics, ConfirmOutcomes
  <2>2. response' \in [Requests -> {"open"} \cup RequestOutcomes]
    BY <1>11, SettleType DEF LoopPanics, RequestOutcomes
  <2> QED
    BY <1>11, <2>1, <2>2, EmptyType DEF LoopPanics, TypeOK
<1>12. CASE UNCHANGED vars
  BY <1>12 DEF vars, TypeOK
<1> QED
  BY <1>1, <1>2, <1>3, <1>4, <1>5, <1>6, <1>7, <1>8, <1>9, <1>10, <1>11, <1>12,
     CallerKeepsTypes, CancelKeepsTypes
     DEF Next, StopOnCancellation, StopOnPeerOrError

\* The type invariant: every step of a caller or of the loop keeps the state
\* well formed, and neither channel exceeds its bound.
THEOREM TypeCorrect == Spec => []TypeOK
  BY TypeCorrectInit, TypeCorrectNext, PTL DEF Spec

-----------------------------------------------------------------------------
\* What ExitLeavesNobodyWaiting needs to be inductive: past the drain nothing
\* enters the queue, and past the last sweep nothing is pending.
ClosedIsEmpty ==
    /\ phase \notin {"running", "draining"} => outbound = <<>>
    /\ Stopped => pending = {}

\* The inductive invariant, and what it says beyond the types.
Senders == SenderHeldOnce /\ ConfirmHeldOnce /\ ClosedIsEmpty

OutboundInv == TypeOK /\ Senders

\* Only messages are queued.
LEMMA QueuedMessages == TypeOK => Queued \subseteq Messages
<1> SUFFICES ASSUME TypeOK PROVE \A i \in DOMAIN outbound : outbound[i] \in Messages
  BY DEF Queued, Range
<1>1. outbound \in Seq(Messages) /\ DOMAIN outbound = 1..Len(outbound)
  BY DEF TypeOK
<1> QED
  BY <1>1, ElementOfSeq

\* A caller holds its senders until it hands them over or loses them.
LEMMA CallerKeepsSenders ==
    ASSUME OutboundInv, NEW m \in Messages, CallerStep(m)
    PROVE  Senders'
<1> USE DEF OutboundInv, handleVars, loopVars
<1>1. Reqs(m) \subseteq Requests /\ \A n \in Messages : m # n => Reqs(m) \cap Reqs(n) = {}
  BY RequestsOfMessages
<1>2. caller \in [Messages -> {"idle", "sending", "sent", "refused", "dropped"}]
  BY DEF TypeOK
<1>3. WithCaller(m) /\ m \notin Queued /\ Reqs(m) \cap pending = {}
  BY DEF CallerStep, Submit, Enqueue, EnqueueRefused, DropSubmission, WithCaller,
     Senders, SenderHeldOnce, QueueIsExact
<1>4. ASSUME outbound' = outbound, pending' = pending, phase' = phase,
             \A n \in Messages : n # m => caller'[n] = caller[n],
             ~WithCaller(m)',
             \A r \in Requests : IF r \in Reqs(m) THEN response'[r] # "open"
                                                  ELSE response'[r] = response[r],
             \A n \in Confirmed : IF n = m THEN confirm'[n] # "open"
                                            ELSE confirm'[n] = confirm[n]
      PROVE  Senders'
  <2>1. QueueIsExact'
    BY <1>3, <1>4, QueuedMessages DEF Senders, SenderHeldOnce, QueueIsExact, Queued
  <2>2. SenderHeldOnce'
    <3> SUFFICES ASSUME NEW n \in Messages, NEW r \in Reqs(n)
                 PROVE  /\ ~(r \in pending' /\ (WithCaller(n)' \/ n \in Queued'))
                        /\ response'[r] = "open"
                              <=> (WithCaller(n)' \/ n \in Queued' \/ r \in pending')
      BY <2>1 DEF SenderHeldOnce
    <3>1. r \in Requests
      BY RequestsOfMessages
    <3>2. CASE n = m
      BY <1>3, <1>4, <3>1, <3>2 DEF Queued
    <3>3. CASE n # m
      BY <1>1, <1>4, <3>1, <3>3 DEF Senders, SenderHeldOnce, WithCaller, Queued
    <3> QED
      BY <3>2, <3>3
  <2>3. ConfirmHeldOnce'
    BY <1>3, <1>4 DEF Senders, ConfirmHeldOnce, WithCaller, Queued, Confirmed, Messages
  <2>4. ClosedIsEmpty'
    BY <1>4 DEF Senders, ClosedIsEmpty, Stopped
  <2> QED
    BY <2>2, <2>3, <2>4 DEF Senders
<1>5. CASE Submit(m)
  <2>1. CASE IsEmptyBatch(m)
    <3>1. Reqs(m) = {}
      BY <2>1, MessageKinds DEF IsEmptyBatch, Reqs
    <3>2. ~WithCaller(m)' /\ \A n \in Messages : n # m => caller'[n] = caller[n]
      BY <1>2, <1>5, <2>1 DEF Submit, WithCaller
    <3> QED
      BY <1>4, <1>5, <2>1, <3>1, <3>2 DEF Submit, Confirm
  <2>2. CASE ~IsEmptyBatch(m)
    <3>1. \A n \in Messages : WithCaller(n)' <=> WithCaller(n)
      BY <1>2, <1>5, <2>2 DEF Submit, WithCaller
    <3>2. \A n \in Messages : caller[n] = "sent" => caller'[n] = "sent"
      BY <1>2, <1>5, <2>2 DEF Submit
    <3>3. UNCHANGED <<response, confirm, outbound, pending, phase>>
      BY <1>5, <2>2 DEF Submit
    <3>4. SenderHeldOnce'
      BY <3>1, <3>2, <3>3 DEF Senders, SenderHeldOnce, QueueIsExact, Queued, TypeOK, Range
    <3>5. ConfirmHeldOnce'
      BY <3>1, <3>3 DEF Senders, ConfirmHeldOnce, Queued, Confirmed, Messages
    <3> QED
      BY <3>3, <3>4, <3>5 DEF Senders, ClosedIsEmpty, Stopped
  <2> QED
    BY <2>1, <2>2
<1>6. CASE Enqueue(m)
  <2>1. IsInjective(outbound)' /\ Queued' = Queued \cup {m}
    BY <1>3, <1>6, AppendNew DEF Enqueue, TypeOK, Senders, SenderHeldOnce, QueueIsExact, Queued
  <2>2. /\ \A n \in Messages : n # m => caller'[n] = caller[n]
        /\ caller'[m] = "sent" /\ ~WithCaller(m)'
        /\ UNCHANGED <<response, confirm, pending, phase>> /\ phase = "running"
    BY <1>2, <1>6 DEF Enqueue, WithCaller, ChannelsOpen
  <2>3. QueueIsExact'
    BY <2>1, <2>2, QueuedMessages DEF Senders, SenderHeldOnce, QueueIsExact
  <2>4. SenderHeldOnce'
    BY <1>3, <2>1, <2>2, <2>3 DEF Senders, SenderHeldOnce, WithCaller
  <2>5. ConfirmHeldOnce'
    BY <1>3, <2>1, <2>2 DEF Senders, ConfirmHeldOnce, WithCaller, Confirmed, Messages
  <2> QED
    BY <2>2, <2>4, <2>5 DEF Senders, ClosedIsEmpty, Stopped
<1>7. CASE EnqueueRefused(m)
  <2>1. ~WithCaller(m)' /\ \A n \in Messages : n # m => caller'[n] = caller[n]
    BY <1>2, <1>7 DEF EnqueueRefused, WithCaller
  <2> QED
    BY <1>4, <1>7, <2>1 DEF EnqueueRefused, Settle, Confirm
<1>8. CASE DropSubmission(m)
  <2>1. ~WithCaller(m)' /\ \A n \in Messages : n # m => caller'[n] = caller[n]
    BY <1>2, <1>8 DEF DropSubmission, WithCaller
  <2> QED
    BY <1>4, <1>8, <2>1 DEF DropSubmission, Settle, Confirm
<1> QED
  BY <1>5, <1>6, <1>7, <1>8 DEF CallerStep

\* The loop's handling of the head of the queue, whatever it does with it: the
\* senders of the other messages stay where they are.
LEMMA HandlingKeepsSenders ==
    ASSUME OutboundInv, outbound # <<>>, outbound' = Tail(outbound),
           UNCHANGED <<caller, phase>>, phase \in {"running", "draining"},
           \A n \in Confirmed : IF n = Head(outbound) THEN confirm'[n] # "open"
                                                     ELSE confirm'[n] = confirm[n],
           \A r \in Requests : r \notin Reqs(Head(outbound)) =>
               response'[r] = response[r] /\ (r \in pending' <=> r \in pending),
           \A r \in Reqs(Head(outbound)) : response'[r] = "open" <=> r \in pending'
    PROVE  Senders'
<1> DEFINE h == Head(outbound)
<1> USE DEF OutboundInv
<1>1. h \in Queued /\ IsInjective(outbound)' /\ Queued' = Queued \ {h}
  BY TailOfInjective DEF TypeOK, Senders, SenderHeldOnce, QueueIsExact, Queued
<1>2. h \in Messages /\ ~WithCaller(h)
  BY <1>1, QueuedMessages DEF Senders, SenderHeldOnce, QueueIsExact, WithCaller
<1>3. QueueIsExact'
  BY <1>1 DEF Senders, SenderHeldOnce, QueueIsExact
<1>4. SenderHeldOnce'
  <2> SUFFICES ASSUME NEW n \in Messages, NEW r \in Reqs(n)
               PROVE  /\ ~(r \in pending' /\ (WithCaller(n)' \/ n \in Queued'))
                      /\ response'[r] = "open"
                            <=> (WithCaller(n)' \/ n \in Queued' \/ r \in pending')
    BY <1>3 DEF SenderHeldOnce
  <2>1. WithCaller(n)' <=> WithCaller(n)
    BY DEF WithCaller
  <2>2. CASE n = h
    BY <1>1, <1>2, <2>1, <2>2
  <2>3. CASE n # h
    <3>1. r \in Requests /\ r \notin Reqs(h)
      BY <1>2, <2>3, RequestsOfMessages
    <3> QED
      BY <1>1, <2>1, <2>3, <3>1 DEF Senders, SenderHeldOnce
  <2> QED
    BY <2>2, <2>3
<1>5. ConfirmHeldOnce'
  BY <1>1, <1>2 DEF Senders, ConfirmHeldOnce, WithCaller
<1>6. ClosedIsEmpty'
  BY DEF ClosedIsEmpty, Stopped
<1> QED
  BY <1>4, <1>5, <1>6 DEF Senders

\* A response, a cancellation or the last sweep settles what it takes out of
\* the map of pending requests.
LEMMA SettlingKeepsSenders ==
    ASSUME OutboundInv, NEW S, NEW outcome \in RequestOutcomes,
           Settle(S \cap pending, outcome), pending' = pending \ S,
           UNCHANGED <<caller, confirm, outbound>>
    PROVE  SenderHeldOnce' /\ ConfirmHeldOnce'
<1> USE DEF OutboundInv
<1>1. QueueIsExact' /\ Queued' = Queued
  BY DEF Senders, SenderHeldOnce, QueueIsExact, Queued
<1>2. ConfirmHeldOnce'
  BY <1>1 DEF Senders, ConfirmHeldOnce, WithCaller
<1>3. SenderHeldOnce'
  <2> SUFFICES ASSUME NEW n \in Messages, NEW r \in Reqs(n)
               PROVE  /\ ~(r \in pending' /\ (WithCaller(n)' \/ n \in Queued'))
                      /\ response'[r] = "open"
                            <=> (WithCaller(n)' \/ n \in Queued' \/ r \in pending')
    BY <1>1 DEF SenderHeldOnce
  <2>1. r \in Requests /\ (WithCaller(n)' <=> WithCaller(n))
    BY RequestsOfMessages DEF WithCaller
  <2>2. response'[r] = IF r \in S \cap pending THEN outcome ELSE response[r]
    BY <2>1 DEF Settle
  <2>3. outcome # "open"
    BY DEF RequestOutcomes
  <2> QED
    BY <1>1, <2>1, <2>2, <2>3 DEF Senders, SenderHeldOnce
<1> QED
  BY <1>2, <1>3

\* No step of a caller or of the loop breaks the invariant.
LEMMA OutboundInvNext == OutboundInv /\ [Next]_vars => OutboundInv'
<1> SUFFICES ASSUME OutboundInv, [Next]_vars PROVE Senders'
  BY TypeCorrectNext DEF OutboundInv
<1> USE DEF handleVars, loopVars
<1>1. ASSUME UNCHANGED <<caller, response, confirm, outbound, pending>>,
             ClosedIsEmpty' PROVE Senders'
  <2>1. SenderHeldOnce'
    BY <1>1 DEF OutboundInv, Senders, SenderHeldOnce, QueueIsExact, Queued, WithCaller
  <2>2. ConfirmHeldOnce'
    BY <1>1 DEF OutboundInv, Senders, ConfirmHeldOnce, Queued, WithCaller
  <2> QED
    BY <1>1, <2>1, <2>2 DEF Senders
<1>2. ASSUME NEW r \in Methods, CancelStep(r) PROVE Senders'
  BY <1>1, <1>2 DEF CancelStep, StartCancel, SendCancel, CancelReturns,
     OutboundInv, Senders, ClosedIsEmpty, Stopped
<1>3. CASE CancelToken
  BY <1>1, <1>3 DEF CancelToken, OutboundInv, Senders, ClosedIsEmpty, Stopped
<1>4. CASE HandleOutboundMessage
  <2>1. Head(outbound) \in Messages
    BY <1>4, DequeueType DEF HandleOutboundMessage, OutboundInv, TypeOK
  <2>2. Head(outbound) \in Queued /\ Reqs(Head(outbound)) \subseteq Requests
    BY <1>4, <2>1, TailOfInjective, RequestsOfMessages DEF HandleOutboundMessage,
       OutboundInv, TypeOK, Senders, SenderHeldOnce, QueueIsExact, Queued
  <2>3. \A r \in Reqs(Head(outbound)) : response[r] = "open" /\ r \notin pending
    BY <2>1, <2>2 DEF OutboundInv, Senders, SenderHeldOnce
  <2>4. CASE Transmit(Head(outbound))
    <3>1. response' = response /\ pending' = pending \cup Reqs(Head(outbound))
      BY <2>4 DEF Transmit
    <3>2. \A n \in Confirmed : confirm'[n] = IF n = Head(outbound) THEN "Ok" ELSE confirm[n]
      BY <2>4 DEF Transmit, Confirm
    <3> QED
      BY <1>4, <2>3, <3>1, <3>2, HandlingKeepsSenders DEF HandleOutboundMessage
  <2>5. CASE TransmitFails(Head(outbound))
    <3>1. \A r \in Requests : IF r \in Reqs(Head(outbound)) THEN response'[r] # "open"
                                                          ELSE response'[r] = response[r]
      BY <2>5 DEF TransmitFails, Settle
    <3>2. \A n \in Confirmed :
              confirm'[n] = IF n = Head(outbound) THEN "TransportError" ELSE confirm[n]
      BY <2>5 DEF TransmitFails, Confirm
    <3>3. pending' = pending
      BY <2>5 DEF TransmitFails
    <3> QED
      BY <1>4, <2>2, <2>3, <3>1, <3>2, <3>3, HandlingKeepsSenders DEF HandleOutboundMessage
  <2> QED
    BY <1>4, <2>4, <2>5 DEF HandleOutboundMessage
<1>5. CASE HandleCommand
  <2>1. SenderHeldOnce' /\ ConfirmHeldOnce'
    BY <1>5, SettlingKeepsSenders DEF HandleCommand, RequestOutcomes
  <2> QED
    BY <1>5, <2>1 DEF HandleCommand, Senders, ClosedIsEmpty, Stopped
<1>6. ASSUME NEW S, ReceiveResponses(S) PROVE Senders'
  <2>1. SenderHeldOnce' /\ ConfirmHeldOnce'
    BY <1>6, SettlingKeepsSenders DEF ReceiveResponses, RequestOutcomes
  <2> QED
    BY <1>6, <2>1 DEF ReceiveResponses, Senders, ClosedIsEmpty, Stopped
<1>7. CASE BeginShutdown
  BY <1>1, <1>7 DEF BeginShutdown, ClosedIsEmpty, Stopped
<1>8. CASE IgnoreCommands
  BY <1>1, <1>8 DEF IgnoreCommands, OutboundInv, Senders, ClosedIsEmpty, Stopped
<1>9. CASE DrainOutbound
  <2>1. Head(outbound) \in Messages
    BY <1>9, DequeueType DEF DrainOutbound, OutboundInv, TypeOK
  <2>2. Head(outbound) \in Queued /\ Reqs(Head(outbound)) \subseteq Requests
    BY <1>9, <2>1, TailOfInjective, RequestsOfMessages DEF DrainOutbound,
       OutboundInv, TypeOK, Senders, SenderHeldOnce, QueueIsExact, Queued
  <2>3. \A r \in Reqs(Head(outbound)) : r \notin pending
    BY <2>1, <2>2 DEF OutboundInv, Senders, SenderHeldOnce
  <2>4. \A r \in Requests : IF r \in Reqs(Head(outbound)) THEN response'[r] # "open"
                                                        ELSE response'[r] = response[r]
    BY <1>9 DEF DrainOutbound, Settle
  <2>5. \A n \in Confirmed :
            confirm'[n] = IF n = Head(outbound) THEN "ConnectionClosed" ELSE confirm[n]
    BY <1>9 DEF DrainOutbound, Confirm
  <2> QED
    BY <1>9, <2>2, <2>3, <2>4, <2>5, HandlingKeepsSenders DEF DrainOutbound
<1>10. CASE EndDrain
  BY <1>1, <1>10 DEF EndDrain, ClosedIsEmpty, Stopped
<1>11. CASE GracefulTimeout
  BY <1>1, <1>11 DEF GracefulTimeout, OutboundInv, Senders, ClosedIsEmpty, Stopped
<1>12. CASE FinishShutdown
  <2>1. Settle(pending \cap pending, "ConnectionClosed") /\ pending' = pending \ pending
    BY <1>12 DEF FinishShutdown, Settle
  <2>2. SenderHeldOnce' /\ ConfirmHeldOnce'
    BY <1>12, <2>1, SettlingKeepsSenders DEF FinishShutdown, RequestOutcomes
  <2> QED
    BY <1>12, <2>2 DEF FinishShutdown, OutboundInv, Senders, ClosedIsEmpty, Stopped
<1>13. CASE LoopPanics
  <2>1. /\ outbound' = <<>> /\ pending' = {} /\ caller' = caller
        /\ Queued' = {} /\ IsInjective(outbound)'
    BY <1>13 DEF LoopPanics, Queued, Range, IsInjective
  <2>2. \A r \in Requests : response'[r] =
            IF r \in pending \/ \E m \in Queued : r \in Reqs(m) THEN "SenderDropped"
            ELSE response[r]
    BY <1>13 DEF LoopPanics, Settle
  <2>3. \A n \in Confirmed : confirm'[n] = IF n \in Queued THEN "SenderDropped" ELSE confirm[n]
    BY <1>13 DEF LoopPanics, Confirm
  <2>4. SenderHeldOnce'
    <3> SUFFICES ASSUME NEW n \in Messages, NEW r \in Reqs(n)
                 PROVE  response'[r] = "open" <=> WithCaller(n)
      BY <2>1 DEF SenderHeldOnce, QueueIsExact, WithCaller
    <3>1. r \in Requests /\ \A m \in Queued : r \in Reqs(m) => m = n
      BY RequestsOfMessages, QueuedMessages DEF OutboundInv
    <3>2. WithCaller(n) => n \notin Queued
      BY DEF OutboundInv, Senders, SenderHeldOnce, QueueIsExact, WithCaller
    <3> QED
      BY <2>2, <3>1, <3>2 DEF OutboundInv, Senders, SenderHeldOnce
  <2>5. ConfirmHeldOnce'
    BY <2>1, <2>3 DEF OutboundInv, Senders, SenderHeldOnce, QueueIsExact, ConfirmHeldOnce, WithCaller
  <2>6. ClosedIsEmpty'
    BY <2>1 DEF ClosedIsEmpty
  <2> QED
    BY <2>4, <2>5, <2>6 DEF Senders
<1>14. CASE UNCHANGED vars
  BY <1>1, <1>14 DEF vars, OutboundInv, Senders, ClosedIsEmpty, Stopped
<1> QED
  BY <1>2, <1>3, <1>4, <1>5, <1>6, <1>7, <1>8, <1>9, <1>10, <1>11, <1>12, <1>13,
     <1>14, CallerKeepsSenders
     DEF Next, StopOnCancellation, StopOnPeerOrError

\* At first every sender is with its caller.
LEMMA OutboundInvInit == Init => OutboundInv
<1> SUFFICES ASSUME Init PROVE Senders
  BY TypeCorrectInit DEF OutboundInv
<1>1. Queued = {} /\ IsInjective(outbound)
  BY DEF Init, Queued, Range, IsInjective
<1>2. SenderHeldOnce
  BY <1>1, RequestsOfMessages DEF Init, SenderHeldOnce, QueueIsExact, WithCaller
<1>3. ConfirmHeldOnce
  BY <1>1 DEF Init, ConfirmHeldOnce, WithCaller, Confirmed, Messages
<1>4. ClosedIsEmpty
  BY DEF Init, ClosedIsEmpty, Stopped
<1> QED
  BY <1>2, <1>3, <1>4 DEF Senders

\* The invariant holds throughout.
THEOREM OutboundInvAlways == Spec => []OutboundInv
  BY OutboundInvInit, OutboundInvNext, PTL DEF Spec

\* The sender of every unsettled request is with its caller, in the queue or in
\* the map of pending requests, and in one of them only.
THEOREM SenderAlwaysHeldOnce == Spec => []SenderHeldOnce
<1>1. OutboundInv => SenderHeldOnce
  BY DEF OutboundInv, Senders
<1> QED
  BY <1>1, OutboundInvAlways, PTL

\* The same for the confirmations of notifications and batches.
THEOREM ConfirmAlwaysHeldOnce == Spec => []ConfirmHeldOnce
<1>1. OutboundInv => ConfirmHeldOnce
  BY DEF OutboundInv, Senders
<1> QED
  BY <1>1, OutboundInvAlways, PTL

\* However the loop ends, nobody who handed it a message is left waiting.
THEOREM NobodyWaitsAfterExit == Spec => []ExitLeavesNobodyWaiting
<1>1. OutboundInv => ExitLeavesNobodyWaiting
  <2> SUFFICES ASSUME OutboundInv, Stopped PROVE ExitLeavesNobodyWaiting
    BY DEF ExitLeavesNobodyWaiting
  <2>1. outbound = <<>> /\ pending = {} /\ Queued = {}
    BY DEF OutboundInv, Senders, ClosedIsEmpty, Stopped, Queued, Range
  <2> QED
    BY <2>1 DEF OutboundInv, Senders, SenderHeldOnce, ConfirmHeldOnce, WithCaller,
       ExitLeavesNobodyWaiting
<1> QED
  BY <1>1, OutboundInvAlways, PTL

-----------------------------------------------------------------------------
\* Every request belongs to a message.
LEMMA RequestHasMessage == \A r \in Requests : \E m \in Messages : r \in Reqs(m)
  BY MessageKinds DEF Requests, Messages, Reqs

\* No step changes an outcome: what it settles was open.
LEMMA OutcomesStayNext == OutboundInv /\ [Next]_vars => [OutcomesStay]_vars
<1> SUFFICES ASSUME OutboundInv, Next PROVE OutcomesStay
  BY DEF vars
<1> USE DEF OutcomesStay
<1>1. \A m \in Messages : (WithCaller(m) \/ m \in Queued) =>
          /\ \A r \in Reqs(m) : response[r] = "open"
          /\ m \in Confirmed => confirm[m] = "open"
  BY DEF OutboundInv, Senders, SenderHeldOnce, ConfirmHeldOnce
<1>2. \A r \in pending : response[r] = "open"
  BY RequestHasMessage DEF OutboundInv, TypeOK, Senders, SenderHeldOnce
<1>3. outbound # <<>> => Head(outbound) \in Queued /\ Head(outbound) \in Messages
  BY TailOfInjective, QueuedMessages DEF OutboundInv, TypeOK, Senders, SenderHeldOnce,
     QueueIsExact, Queued
<1>4. ASSUME NEW m \in Messages, CallerStep(m) PROVE OutcomesStay
  <2>1. WithCaller(m)
    BY <1>4 DEF CallerStep, Submit, Enqueue, EnqueueRefused, DropSubmission, WithCaller
  <2> QED
    BY <1>1, <1>4, <2>1 DEF CallerStep, Submit, Enqueue, EnqueueRefused, DropSubmission,
       Settle, Confirm
<1>5. CASE HandleOutboundMessage
  BY <1>1, <1>3, <1>5 DEF HandleOutboundMessage, Transmit, TransmitFails, Settle, Confirm
<1>6. CASE HandleCommand
  BY <1>2, <1>6 DEF HandleCommand, Settle
<1>7. ASSUME NEW S, ReceiveResponses(S) PROVE OutcomesStay
  BY <1>2, <1>7 DEF ReceiveResponses, Settle
<1>8. CASE DrainOutbound
  BY <1>1, <1>3, <1>8 DEF DrainOutbound, Settle, Confirm
<1>9. CASE FinishShutdown
  BY <1>2, <1>9 DEF FinishShutdown, Settle
<1>10. CASE LoopPanics
  <2>1. \A m \in Queued : \A r \in Reqs(m) : response[r] = "open"
    BY <1>1, QueuedMessages DEF OutboundInv
  <2> QED
    BY <1>1, <1>2, <1>10, <2>1, QueuedMessages DEF OutboundInv, LoopPanics, Settle, Confirm
<1> QED
  BY <1>4, <1>5, <1>6, <1>7, <1>8, <1>9, <1>10 DEF Next, CancelStep, StartCancel,
     SendCancel, CancelReturns, CancelToken, StopOnCancellation, StopOnPeerOrError,
     BeginShutdown, IgnoreCommands, EndDrain, GracefulTimeout

\* A caller's outcome is final: a late or repeated response, a cancel that lost
\* the race and the final sweep leave it alone.
THEOREM OutcomesAreFinal == Spec => OutcomeIsFinal
  BY OutboundInvAlways, OutcomesStayNext, PTL DEF Spec, OutcomeIsFinal

-----------------------------------------------------------------------------
\* What a step may do to the report of the batches: settle the calls and the
\* confirmation of one message together, consistently, or settle calls whose
\* batch was sent, never with the error of a failed send.
ReportsOne(h) ==
    /\ \A n \in Confirmed : n # h => confirm'[n] = confirm[n]
    /\ \A r \in Requests : r \notin Reqs(h) => response'[r] = response[r]
    /\ h \in Batches => \A r \in Reqs(h) :
        /\ confirm'[h] = "Ok" => r \in atPeer' /\ response'[r] # "BatchSendFailed"
        /\ confirm'[h] = "TransportError" <=> response'[r] = "BatchSendFailed"
        /\ confirm'[h] = "ConnectionClosed" => response'[r] = "ConnectionClosed"

LEMMA ReportOfOneMessage ==
    ASSUME SendReportIsTrue, NEW h \in Messages, ReportsOne(h),
           pending' \subseteq atPeer', atPeer \subseteq atPeer'
    PROVE  SendReportIsTrue'
<1> SUFFICES ASSUME NEW b \in Batches, NEW r \in BatchReqs[b]
             PROVE  /\ confirm'[b] = "Ok" => r \in atPeer' /\ response'[r] # "BatchSendFailed"
                    /\ confirm'[b] = "TransportError" <=> response'[r] = "BatchSendFailed"
                    /\ confirm'[b] = "ConnectionClosed" => response'[r] = "ConnectionClosed"
  BY DEF SendReportIsTrue
<1>1. b \in Messages /\ b \in Confirmed /\ Reqs(b) = BatchReqs[b]
  BY MessageKinds DEF Messages, Confirmed, Reqs
<1>2. r \in Requests
  BY DEF Requests
<1>3. CASE b = h
  BY <1>1, <1>3 DEF ReportsOne
<1>4. CASE b # h
  <2>1. r \notin Reqs(h)
    BY <1>1, <1>4, RequestsOfMessages
  <2> QED
    BY <1>1, <1>2, <1>4, <2>1 DEF ReportsOne, SendReportIsTrue
<1> QED
  BY <1>3, <1>4

LEMMA ReportOfSettledCalls ==
    ASSUME OutboundInv, SendReportIsTrue, NEW S, NEW outcome, outcome # "BatchSendFailed",
           Settle(S \cap pending, outcome), UNCHANGED <<confirm, atPeer>>,
           pending' \subseteq pending
    PROVE  SendReportIsTrue'
<1> SUFFICES ASSUME NEW b \in Batches, NEW r \in BatchReqs[b]
             PROVE  /\ confirm[b] = "Ok" => r \in atPeer /\ response'[r] # "BatchSendFailed"
                    /\ confirm[b] = "TransportError" <=> response'[r] = "BatchSendFailed"
                    /\ confirm[b] = "ConnectionClosed" => response'[r] = "ConnectionClosed"
  BY DEF SendReportIsTrue
<1>1. b \in Messages /\ r \in Reqs(b) /\ r \in Requests
  BY MessageKinds DEF Messages, Requests, Reqs
<1>2. r \in pending => response[r] = "open"
  BY <1>1 DEF OutboundInv, Senders, SenderHeldOnce
<1>3. response'[r] = IF r \in S \cap pending THEN outcome ELSE response[r]
  BY <1>1 DEF Settle
<1> QED
  BY <1>2, <1>3 DEF SendReportIsTrue

\* Every step keeps the report of send() in agreement with what the calls get.
LEMMA ReportNext == OutboundInv /\ SendReportIsTrue /\ [Next]_vars => SendReportIsTrue'
<1> SUFFICES ASSUME OutboundInv, SendReportIsTrue, [Next]_vars PROVE SendReportIsTrue'
  OBVIOUS
<1> USE DEF handleVars, loopVars
<1>1. ASSUME UNCHANGED <<response, confirm, pending, atPeer>> PROVE SendReportIsTrue'
  BY <1>1 DEF SendReportIsTrue
<1>2. pending \subseteq atPeer
  BY DEF SendReportIsTrue
<1>3. outbound # <<>> =>
          /\ Head(outbound) \in Messages
          /\ \A r \in Reqs(Head(outbound)) : response[r] = "open" /\ r \in Requests
          /\ Head(outbound) \in Batches => Head(outbound) \in Confirmed
  <2> SUFFICES ASSUME outbound # <<>> PROVE
          /\ Head(outbound) \in Messages
          /\ \A r \in Reqs(Head(outbound)) : response[r] = "open" /\ r \in Requests
          /\ Head(outbound) \in Batches => Head(outbound) \in Confirmed
    OBVIOUS
  <2>1. Head(outbound) \in Queued /\ Head(outbound) \in Messages
    BY TailOfInjective, QueuedMessages DEF OutboundInv, TypeOK, Senders, SenderHeldOnce,
       QueueIsExact, Queued
  <2> QED
    BY <2>1, RequestsOfMessages DEF OutboundInv, Senders, SenderHeldOnce, Confirmed
<1>4. ASSUME NEW m \in Messages, CallerStep(m) PROVE SendReportIsTrue'
  <2>1. m \in Batches => m \in Confirmed
    BY DEF Confirmed
  <2>2. Reqs(m) \subseteq Requests
    BY RequestsOfMessages
  <2>3. CASE Submit(m)
    <3>1. CASE IsEmptyBatch(m)
      <4>1. Reqs(m) = {}
        BY <3>1, MessageKinds DEF IsEmptyBatch, Reqs
      <4>2. ReportsOne(m) /\ UNCHANGED <<pending, atPeer>>
        BY <2>3, <3>1, <4>1 DEF Submit, Confirm, ReportsOne
      <4> QED
        BY <1>2, <4>2, ReportOfOneMessage
    <3>2. CASE ~IsEmptyBatch(m)
      BY <1>1, <2>3, <3>2 DEF Submit
    <3> QED
      BY <3>1, <3>2
  <2>4. CASE Enqueue(m)
    BY <1>1, <2>4 DEF Enqueue
  <2>5. CASE EnqueueRefused(m)
    <3>1. ReportsOne(m)
      BY <2>1, <2>2, <2>5 DEF EnqueueRefused, Settle, Confirm, ReportsOne
    <3> QED
      BY <1>2, <2>5, <3>1, ReportOfOneMessage DEF EnqueueRefused
  <2>6. CASE DropSubmission(m)
    <3>1. ReportsOne(m)
      BY <2>1, <2>2, <2>6 DEF DropSubmission, Settle, Confirm, ReportsOne
    <3> QED
      BY <1>2, <2>6, <3>1, ReportOfOneMessage DEF DropSubmission
  <2> QED
    BY <1>4, <2>3, <2>4, <2>5, <2>6 DEF CallerStep
<1>5. ASSUME NEW r \in Methods, CancelStep(r) PROVE SendReportIsTrue'
  BY <1>1, <1>5 DEF CancelStep, StartCancel, SendCancel, CancelReturns
<1>6. CASE CancelToken
  BY <1>1, <1>6 DEF CancelToken
<1>7. CASE HandleOutboundMessage
  <2>1. CASE Transmit(Head(outbound))
    <3>1. ReportsOne(Head(outbound))
      BY <1>3, <1>7, <2>1 DEF HandleOutboundMessage, Transmit, Confirm, ReportsOne
    <3>2. pending' \subseteq atPeer' /\ atPeer \subseteq atPeer'
      BY <1>2, <2>1 DEF Transmit
    <3> QED
      BY <1>3, <1>7, <3>1, <3>2, ReportOfOneMessage DEF HandleOutboundMessage
  <2>2. CASE TransmitFails(Head(outbound))
    <3>1. Head(outbound) \in Batches => Head(outbound) \notin Methods
      BY MessageKinds
    <3>2. ReportsOne(Head(outbound))
      BY <1>3, <1>7, <2>2, <3>1 DEF HandleOutboundMessage, TransmitFails, Settle, Confirm,
         ReportsOne
    <3>3. pending' \subseteq atPeer' /\ atPeer \subseteq atPeer'
      BY <1>2, <2>2 DEF TransmitFails
    <3> QED
      BY <1>3, <1>7, <3>2, <3>3, ReportOfOneMessage DEF HandleOutboundMessage
  <2> QED
    BY <1>7, <2>1, <2>2 DEF HandleOutboundMessage
<1>8. CASE HandleCommand
  BY <1>8, ReportOfSettledCalls DEF HandleCommand
<1>9. ASSUME NEW S, ReceiveResponses(S) PROVE SendReportIsTrue'
  BY <1>9, ReportOfSettledCalls DEF ReceiveResponses
<1>10. CASE BeginShutdown
  BY <1>1, <1>10 DEF BeginShutdown
<1>11. CASE IgnoreCommands
  BY <1>1, <1>11 DEF IgnoreCommands
<1>12. CASE DrainOutbound
  <2>1. ReportsOne(Head(outbound))
    BY <1>3, <1>12 DEF DrainOutbound, Settle, Confirm, ReportsOne
  <2> QED
    BY <1>2, <1>3, <1>12, <2>1, ReportOfOneMessage DEF DrainOutbound
<1>13. CASE EndDrain \/ GracefulTimeout
  BY <1>1, <1>13 DEF EndDrain, GracefulTimeout
<1>14. CASE FinishShutdown
  <2>1. Settle(pending \cap pending, "ConnectionClosed") /\ pending' = {}
    BY <1>14 DEF FinishShutdown, Settle
  <2> QED
    BY <1>14, <2>1, ReportOfSettledCalls DEF FinishShutdown
<1>15. CASE LoopPanics
  <2> SUFFICES ASSUME NEW b \in Batches, NEW r \in BatchReqs[b]
               PROVE  /\ confirm'[b] = "Ok" =>
                              r \in atPeer' /\ response'[r] # "BatchSendFailed"
                      /\ confirm'[b] = "TransportError" <=> response'[r] = "BatchSendFailed"
                      /\ confirm'[b] = "ConnectionClosed" => response'[r] = "ConnectionClosed"
    BY <1>15 DEF LoopPanics, SendReportIsTrue
  <2>1. b \in Messages /\ b \in Confirmed /\ r \in Reqs(b) /\ r \in Requests
    BY MessageKinds DEF Messages, Confirmed, Requests, Reqs
  <2>2. confirm'[b] = IF b \in Queued THEN "SenderDropped" ELSE confirm[b]
    BY <1>15, <2>1 DEF LoopPanics, Confirm
  <2>3. response'[r] = IF r \in pending \/ b \in Queued THEN "SenderDropped" ELSE response[r]
    <3>1. \A m \in Queued : r \in Reqs(m) => m = b
      BY <2>1, RequestsOfMessages, QueuedMessages DEF OutboundInv
    <3> QED
      BY <1>15, <2>1, <3>1 DEF LoopPanics, Settle
  <2>4. r \in pending \/ b \in Queued => response[r] = "open"
    BY <2>1 DEF OutboundInv, Senders, SenderHeldOnce
  <2>5. atPeer' = atPeer
    BY <1>15 DEF LoopPanics
  <2> QED
    BY <2>2, <2>3, <2>4, <2>5 DEF SendReportIsTrue
<1>16. CASE UNCHANGED vars
  BY <1>1, <1>16 DEF vars
<1> QED
  BY <1>4, <1>5, <1>6, <1>7, <1>8, <1>9, <1>10, <1>11, <1>12, <1>13, <1>14, <1>15, <1>16
     DEF Next, StopOnCancellation, StopOnPeerOrError

\* What send() tells the caller of a batch agrees with what the batch's calls
\* are told, and only calls the peer was sent wait for an answer.
THEOREM SendReportIsAlwaysTrue == Spec => []SendReportIsTrue
<1>1. Init => SendReportIsTrue
  BY DEF Init, SendReportIsTrue, Confirmed, Requests
<1>2. OutboundInv /\ SendReportIsTrue /\ [Next]_vars => SendReportIsTrue'
  BY ReportNext
<1> QED
  BY <1>1, <1>2, OutboundInvAlways, PTL DEF Spec

-----------------------------------------------------------------------------
\* What the refinement needs besides: the peer knows nothing of a request that
\* was not taken from the queue.
UnsentIsUnknown ==
    \A m \in Messages : (WithCaller(m) \/ m \in Queued) => Reqs(m) \cap atPeer = {}

\* The loop takes a request from the queue before the peer sees it.
LEMMA UnsentIsUnknownNext ==
    OutboundInv /\ UnsentIsUnknown /\ [Next]_vars => UnsentIsUnknown'
<1> SUFFICES ASSUME OutboundInv, UnsentIsUnknown, [Next]_vars PROVE UnsentIsUnknown'
  OBVIOUS
<1> USE DEF handleVars, loopVars
<1>1. ASSUME NEW m \in Messages, CallerStep(m) PROVE UnsentIsUnknown'
  <2>1. caller \in [Messages -> {"idle", "sending", "sent", "refused", "dropped"}]
    BY DEF OutboundInv, TypeOK
  <2>2. WithCaller(m) /\ \A n \in Messages : WithCaller(n)' => WithCaller(n)
    BY <1>1, <2>1 DEF CallerStep, Submit, Enqueue, EnqueueRefused, DropSubmission, WithCaller
  <2>3. Queued' \subseteq Queued \cup {m} /\ atPeer' = atPeer
    <3>1. CASE Enqueue(m)
      <4>1. m \notin Queued
        BY <3>1 DEF Enqueue, OutboundInv, Senders, SenderHeldOnce, QueueIsExact
      <4> QED
        BY <3>1, <4>1, AppendNew DEF Enqueue, OutboundInv, TypeOK, Senders, SenderHeldOnce,
           QueueIsExact, Queued
    <3>2. CASE Submit(m) \/ EnqueueRefused(m) \/ DropSubmission(m)
      BY <3>2 DEF Submit, EnqueueRefused, DropSubmission, Queued
    <3> QED
      BY <1>1, <3>1, <3>2 DEF CallerStep
  <2> QED
    BY <2>2, <2>3 DEF UnsentIsUnknown
<1>2. CASE HandleOutboundMessage
  <2>1. /\ Head(outbound) \in Messages /\ Head(outbound) \in Queued
        /\ Queued' = Queued \ {Head(outbound)}
    BY <1>2, TailOfInjective, QueuedMessages DEF HandleOutboundMessage, OutboundInv, TypeOK,
       Senders, SenderHeldOnce, QueueIsExact, Queued
  <2>2. atPeer' \subseteq atPeer \cup Reqs(Head(outbound)) /\ caller' = caller
    BY <1>2 DEF HandleOutboundMessage, Transmit, TransmitFails
  <2>3. \A m \in Messages : (WithCaller(m)' \/ m \in Queued') =>
            (WithCaller(m) \/ m \in Queued) /\ m # Head(outbound)
    BY <2>1, <2>2 DEF WithCaller, OutboundInv, Senders, SenderHeldOnce, QueueIsExact
  <2> QED
    BY <2>1, <2>2, <2>3, RequestsOfMessages DEF UnsentIsUnknown
<1>3. ASSUME UNCHANGED <<caller, atPeer>>, Queued' \subseteq Queued PROVE UnsentIsUnknown'
  BY <1>3 DEF UnsentIsUnknown, WithCaller
<1>4. CASE DrainOutbound
  <2>1. Queued' \subseteq Queued
    BY <1>4, TailOfInjective DEF DrainOutbound, OutboundInv, TypeOK, Senders, SenderHeldOnce,
       QueueIsExact, Queued
  <2> QED
    BY <1>3, <1>4, <2>1 DEF DrainOutbound
<1>5. CASE LoopPanics
  <2>1. Queued' = {}
    BY <1>5 DEF LoopPanics, Queued, Range
  <2> QED
    BY <1>3, <1>5, <2>1 DEF LoopPanics
<1>6. ASSUME UNCHANGED <<caller, atPeer, outbound>> PROVE UnsentIsUnknown'
  BY <1>3, <1>6 DEF Queued
<1>7. ASSUME NEW r \in Methods, CancelStep(r) PROVE UnsentIsUnknown'
  BY <1>6, <1>7 DEF CancelStep, StartCancel, SendCancel, CancelReturns
<1>8. ASSUME NEW S, ReceiveResponses(S) PROVE UnsentIsUnknown'
  BY <1>6, <1>8 DEF ReceiveResponses
<1>9. CASE \/ CancelToken \/ HandleCommand \/ BeginShutdown \/ IgnoreCommands
           \/ EndDrain \/ GracefulTimeout \/ FinishShutdown
  BY <1>6, <1>9 DEF CancelToken, HandleCommand, BeginShutdown, IgnoreCommands, EndDrain,
     GracefulTimeout, FinishShutdown
<1>10. CASE UNCHANGED vars
  BY <1>6, <1>10 DEF vars
<1> QED
  BY <1>1, <1>2, <1>4, <1>5, <1>7, <1>8, <1>9, <1>10
     DEF Next, StopOnCancellation, StopOnPeerOrError

\* The invariant under which each step is a step of the contract.
ContractInv == OutboundInv /\ SendReportIsTrue /\ UnsentIsUnknown

\* A step of a caller is a stutter, a refusal or an abandoned unit.
LEMMA CallerKeepsContract ==
    ASSUME ContractInv, NEW m \in Messages, CallerStep(m)
    PROVE  [Contract!Next]_(Contract!vars)
<1> USE DEF handleVars, loopVars
<1>1. CASE Submit(m) \/ Enqueue(m)
  BY <1>1 DEF Submit, Enqueue, Contract!vars
<1>2. Reqs(m) \subseteq Requests
  BY RequestsOfMessages
<1>3. CASE EnqueueRefused(m)
  <2>1. \A r \in Reqs(m) : response[r] = "open"
    BY <1>3 DEF EnqueueRefused, WithCaller, ContractInv, OutboundInv, Senders, SenderHeldOnce
  <2>2. Contract!Refuse(Reqs(m))
    BY <1>3, <2>1 DEF EnqueueRefused, ChannelsOpen, Settle, Contract!Refuse, Contract!Open,
       Contract!Tell
  <2> QED
    BY <1>2, <2>2 DEF Contract!Next
<1>4. CASE DropSubmission(m)
  <2>1. WithCaller(m)
    BY <1>4 DEF DropSubmission, WithCaller
  <2>2. (\A r \in Reqs(m) : response[r] = "open") /\ Reqs(m) \cap atPeer = {}
    BY <2>1 DEF ContractInv, UnsentIsUnknown, OutboundInv, Senders, SenderHeldOnce
  <2>3. Contract!Abandon(m)
    BY <1>4, <2>2 DEF DropSubmission, Settle, Contract!Abandon, Contract!Open, Contract!Tell
  <2> QED
    BY <2>3 DEF Contract!Next
<1> QED
  BY <1>1, <1>3, <1>4, Zenon DEF CallerStep

\* A step of the loop sends, loses, answers, withdraws, refuses or crashes.
LEMMA LoopKeepsContract ==
    ASSUME ContractInv,
           \/ HandleOutboundMessage \/ HandleCommand \/ DrainOutbound
           \/ FinishShutdown \/ LoopPanics \/ \E S \in SUBSET atPeer : ReceiveResponses(S)
    PROVE  [Contract!Next]_(Contract!vars)
<1> USE DEF handleVars, loopVars
<1>1. (\A r \in pending : response[r] = "open" /\ r \in Requests) /\ pending \subseteq atPeer
  <2>1. pending \subseteq Requests /\ pending \subseteq atPeer
    BY DEF ContractInv, OutboundInv, TypeOK, SendReportIsTrue
  <2> QED
    BY <2>1, RequestHasMessage DEF ContractInv, OutboundInv, Senders, SenderHeldOnce
<1>2. \A m \in Queued : /\ m \in Messages /\ Reqs(m) \subseteq Requests
                        /\ Reqs(m) \cap atPeer = {}
                        /\ \A r \in Reqs(m) : response[r] = "open"
  BY QueuedMessages, RequestsOfMessages
     DEF ContractInv, UnsentIsUnknown, OutboundInv, Senders, SenderHeldOnce
<1>3. outbound # <<>> => Head(outbound) \in Queued
  BY TailOfInjective DEF ContractInv, OutboundInv, TypeOK, Senders, SenderHeldOnce,
     QueueIsExact, Queued
<1>4. CASE HandleOutboundMessage
  <2>1. Head(outbound) \in Queued /\ phase = "running" /\ phase' = phase
    BY <1>3, <1>4 DEF HandleOutboundMessage
  <2>2. CASE Transmit(Head(outbound))
    <3>1. Contract!Transmit(Head(outbound))
      BY <1>2, <2>1, <2>2 DEF Transmit, Contract!Transmit, Contract!Open
    <3> QED
      BY <1>2, <2>1, <3>1 DEF Contract!Next
  <2>3. CASE TransmitFails(Head(outbound))
    <3>1. Contract!Lose(Head(outbound))
      BY <1>2, <2>1, <2>3 DEF TransmitFails, Settle, Contract!Lose, Contract!Open, Contract!Tell
    <3> QED
      BY <1>2, <2>1, <3>1 DEF Contract!Next
  <2> QED
    BY <1>4, <2>2, <2>3, Zenon DEF HandleOutboundMessage
<1>5. CASE HandleCommand
  <2>1. CASE Head(commands) \in pending
    <3>1. Contract!Withdraw(Head(commands))
      BY <1>1, <1>5, <2>1 DEF HandleCommand, Settle, Contract!Withdraw, Contract!Open,
         Contract!Tell
    <3> QED
      BY <1>1, <2>1, <3>1 DEF Contract!Next
  <2>2. CASE Head(commands) \notin pending
    <3>1. response' = response
      BY <1>5, <2>2 DEF HandleCommand, Settle, ContractInv, OutboundInv, TypeOK
    <3> QED
      BY <1>5, <3>1 DEF HandleCommand, Contract!vars
  <2> QED
    BY <2>1, <2>2
<1>6. ASSUME NEW S \in SUBSET atPeer, ReceiveResponses(S)
      PROVE  [Contract!Next]_(Contract!vars)
  <2>1. Contract!Answer(S \cap pending)
    BY <1>1, <1>6 DEF ReceiveResponses, Settle, Contract!Answer, Contract!Open, Contract!Tell
  <2>2. S \cap pending \in SUBSET Requests
    BY <1>1
  <2> QED
    BY <2>1, <2>2 DEF Contract!Next
<1>7. CASE DrainOutbound
  <2>1. Head(outbound) \in Queued
    BY <1>3, <1>7 DEF DrainOutbound
  <2>2. Contract!Refuse(Reqs(Head(outbound)))
    BY <1>2, <1>7, <2>1 DEF DrainOutbound, Settle, Contract!Refuse, Contract!Open, Contract!Tell
  <2> QED
    BY <1>2, <2>1, <2>2 DEF Contract!Next
<1>8. CASE FinishShutdown
  <2>1. Contract!Refuse(pending)
    BY <1>1, <1>8 DEF FinishShutdown, Settle, Contract!Refuse, Contract!Open, Contract!Tell
  <2>2. pending \in SUBSET Requests
    BY <1>1
  <2> QED
    BY <2>1, <2>2 DEF Contract!Next
<1>9. CASE LoopPanics
  <2> DEFINE held == pending \cup UNION {Reqs(m) : m \in Queued}
  <2>1. (\A r \in held : response[r] = "open") /\ held \in SUBSET Requests
    BY <1>1, <1>2
  <2>2. Contract!Crash(held)
    BY <1>9, <2>1 DEF LoopPanics, Settle, Contract!Crash, Contract!Open, Contract!Tell
  <2> QED
    BY <2>1, <2>2 DEF Contract!Next
<1> QED
  BY <1>4, <1>5, <1>6, <1>7, <1>8, <1>9, Zenon

\* Every step is a step of CallContract, or changes nothing it speaks of.
LEMMA ContractNext == ContractInv /\ [Next]_vars => [Contract!Next]_(Contract!vars)
<1> SUFFICES ASSUME ContractInv, [Next]_vars PROVE [Contract!Next]_(Contract!vars)
  OBVIOUS
<1> USE DEF handleVars, loopVars
<1>1. CASE \E r \in Methods : CancelStep(r)
  BY <1>1 DEF CancelStep, StartCancel, SendCancel, CancelReturns, Contract!vars
<1>2. CASE BeginShutdown
  BY <1>2 DEF BeginShutdown, Contract!Next, Contract!Disconnect
<1>3. CASE CancelToken \/ IgnoreCommands \/ EndDrain \/ GracefulTimeout \/ UNCHANGED vars
  BY <1>3 DEF CancelToken, IgnoreCommands, EndDrain, GracefulTimeout, vars, Contract!vars
<1> QED
  BY <1>1, <1>2, <1>3, CallerKeepsContract, LoopKeepsContract, Zenon
     DEF Next, StopOnCancellation, StopOnPeerOrError

\* The invariant of the refinement holds from the start, and each step keeps it.
LEMMA ContractInvInit == Init => ContractInv /\ Contract!Init
<1>1. Init => Contract!Init /\ SendReportIsTrue /\ UnsentIsUnknown
  BY DEF Init, Contract!Init, SendReportIsTrue, UnsentIsUnknown, Confirmed, Requests
<1> QED
  BY <1>1, OutboundInvInit DEF ContractInv

LEMMA ContractInvNext == ContractInv /\ [Next]_vars => ContractInv'
  BY OutboundInvNext, ReportNext, UnsentIsUnknownNext DEF ContractInv

\* The detailed connection implements the contract.
THEOREM ContractIsKept == Spec => KeepsCallContract
  BY ContractInvInit, ContractInvNext, ContractNext, PTL
     DEF Spec, KeepsCallContract, Contract!Spec

-----------------------------------------------------------------------------
(* Builders and futures: the specification of BatchFutures.                *)

\* The peer answers only what it was sent.
AnsweredWasSent == \A r \in Requests : response[r] = "Response" => r \in atPeer

\* The calls of a batch that was dropped are settled, and never sent.
DroppedIsUnknown ==
    \A b \in Batches : caller[b] = "dropped" =>
        \A r \in BatchReqs[b] : r \notin atPeer /\ response[r] = "SenderDropped"

\* What the futures rest on, and the callers and the loop keep.
SourcesInv == ContractInv /\ AnsweredWasSent /\ DroppedIsUnknown

\* The flag is down only before the batch is handed over.
FlagFollowsSend == \A b \in Batches : ~batchSent[b] => caller[b] \in {"idle", "dropped"}

\* A future has yielded what its oneshot held, and the oneshot holds it still.
FuturesFollowOneshots ==
    \A c \in Requests :
        future[c] \notin Unresolved \cup {"BatchNotSentYet"} =>
            future[c] \in Decoded(response[c])

FuturesInv == FuturesTypeOK /\ SourcesInv /\ FlagFollowsSend /\ FuturesFollowOneshots

\* Each call of a batch belongs to that batch alone.
LEMMA BatchOfCall ==
    /\ \A b \in Batches : \A c \in BatchReqs[b] :
           c \in Requests /\ c \notin BadCalls /\ BatchOf(c) = b /\ Reqs(b) = BatchReqs[b]
    /\ \A c \in BadCalls : BatchOf(c) \in Batches
<1>1. ASSUME NEW b \in Batches, NEW c \in BatchReqs[b]
      PROVE  /\ c \in Requests /\ c \notin BadCalls
             /\ BatchOf(c) = b /\ Reqs(b) = BatchReqs[b]
  <2>1. c \in Requests /\ c \notin BadCalls
    BY BadCallsAssumption DEF Requests
  <2>2. \A d \in Batches : c \in BatchReqs[d] => d = b
    BY FreshRequestIds
  <2>3. (CHOOSE d \in Batches : c \in BatchReqs[d]) = b
    BY <2>2
  <2>4. Reqs(b) = BatchReqs[b]
    BY MessageKinds DEF Reqs
  <2> QED
    BY <2>1, <2>3, <2>4 DEF BatchOf
<1> QED
  BY <1>1, BadCallsAssumption DEF BatchOf

-----------------------------------------------------------------------------
(* The calls.                                                              *)

\* A step of OutboundCalls leaves a dropped batch unsent, and answers nothing
\* that the peer has not seen.
LEMMA SourcesNext == SourcesInv /\ [Next]_vars => SourcesInv'
<1> SUFFICES ASSUME SourcesInv, [Next]_vars PROVE SourcesInv'
  OBVIOUS
<1> USE DEF handleVars, loopVars
<1>1. ContractInv'
  BY OutboundInvNext, ReportNext, UnsentIsUnknownNext DEF SourcesInv, ContractInv
<1>2. [OutcomesStay]_vars
  BY OutcomesStayNext DEF SourcesInv, ContractInv
<1>3. \A r \in Requests : response[r] # "open" => response'[r] = response[r]
  BY <1>2 DEF OutcomesStay, vars
<1>4. pending \subseteq atPeer /\ atPeer \subseteq Requests
  BY DEF SourcesInv, ContractInv, SendReportIsTrue, OutboundInv, TypeOK
<1>5. response \in [Requests -> {"open"} \cup RequestOutcomes]
  BY DEF SourcesInv, ContractInv, OutboundInv, TypeOK
<1>6. caller \in [Messages -> {"idle", "sending", "sent", "refused", "dropped"}]
  BY DEF SourcesInv, ContractInv, OutboundInv, TypeOK
<1>7. outbound # <<>> => /\ Head(outbound) \in Queued /\ Head(outbound) \in Messages
                         /\ caller[Head(outbound)] = "sent"
  BY TailOfInjective, QueuedMessages DEF SourcesInv, ContractInv, OutboundInv, TypeOK, Senders,
     SenderHeldOnce, QueueIsExact, Queued
<1>8. /\ atPeer \subseteq atPeer'
      /\ \A r \in Requests : response'[r] = "Response" => response[r] = "Response" \/ r \in atPeer
  <2>1. CASE \E m \in Messages : CallerStep(m)
    BY <2>1, <1>5 DEF CallerStep, Submit, Enqueue, EnqueueRefused, DropSubmission, Settle
  <2>2. CASE HandleOutboundMessage
    BY <2>2, <1>5 DEF HandleOutboundMessage, Transmit, TransmitFails, Settle
  <2>3. CASE \E S : ReceiveResponses(S)
    BY <2>3, <1>4, <1>5 DEF ReceiveResponses, Settle
  <2>4. CASE HandleCommand \/ DrainOutbound \/ FinishShutdown \/ LoopPanics
    BY <2>4, <1>5 DEF HandleCommand, DrainOutbound, FinishShutdown, LoopPanics, Settle
  <2>5. CASE (\E r \in Methods : CancelStep(r)) \/ CancelToken \/ BeginShutdown
    BY <2>5 DEF CancelStep, StartCancel, SendCancel, CancelReturns, CancelToken, BeginShutdown
  <2>6. CASE IgnoreCommands \/ EndDrain \/ GracefulTimeout \/ UNCHANGED vars
    BY <2>6 DEF IgnoreCommands, EndDrain, GracefulTimeout, vars
  <2> QED
    BY <2>1, <2>2, <2>3, <2>4, <2>5, <2>6 DEF Next, StopOnCancellation, StopOnPeerOrError
<1>9. AnsweredWasSent'
  BY <1>8 DEF SourcesInv, AnsweredWasSent
<1>10. \A b \in Batches : caller'[b] = "dropped" => caller[b] = "dropped" \/ DropSubmission(b)
  <2>1. CASE \E m \in Messages : CallerStep(m)
    BY <2>1, <1>6 DEF CallerStep, Submit, Enqueue, EnqueueRefused, DropSubmission, Messages
  <2>2. CASE \E S : ReceiveResponses(S)
    BY <2>2 DEF ReceiveResponses
  <2>3. CASE caller' = caller
    BY <2>3
  <2> QED
    BY <2>1, <2>2, <2>3 DEF Next, CancelStep, StartCancel, SendCancel, CancelReturns,
       CancelToken, HandleOutboundMessage, HandleCommand, StopOnCancellation,
       StopOnPeerOrError, BeginShutdown, IgnoreCommands, DrainOutbound, EndDrain,
       GracefulTimeout, FinishShutdown, LoopPanics, vars
<1>11. \A r \in Requests :
           r \in atPeer' => r \in atPeer \/ (outbound # <<>> /\ r \in Reqs(Head(outbound)))
  <2>1. CASE \E m \in Messages : CallerStep(m)
    BY <2>1 DEF CallerStep, Submit, Enqueue, EnqueueRefused, DropSubmission
  <2>2. CASE \E S : ReceiveResponses(S)
    BY <2>2 DEF ReceiveResponses
  <2>3. CASE HandleOutboundMessage
    BY <2>3 DEF HandleOutboundMessage, Transmit, TransmitFails
  <2>4. CASE atPeer' = atPeer
    BY <2>4
  <2> QED
    BY <2>1, <2>2, <2>3, <2>4 DEF Next, CancelStep, StartCancel, SendCancel, CancelReturns,
       CancelToken, HandleCommand, StopOnCancellation, StopOnPeerOrError, BeginShutdown,
       IgnoreCommands, DrainOutbound, EndDrain, GracefulTimeout, FinishShutdown, LoopPanics, vars
<1>12. ASSUME NEW b \in Batches, caller'[b] = "dropped", NEW r \in BatchReqs[b]
       PROVE  r \notin atPeer' /\ response'[r] = "SenderDropped"
  <2>1. r \in Requests /\ Reqs(b) = BatchReqs[b] /\ b \in Messages
    BY BatchOfCall DEF Messages
  <2>2. CASE caller[b] = "dropped"
    <3>1. r \notin atPeer /\ response[r] = "SenderDropped"
      BY <2>2 DEF SourcesInv, DroppedIsUnknown
    <3>2. outbound # <<>> => Head(outbound) # b
      BY <1>7, <2>2
    <3>3. outbound # <<>> => r \notin Reqs(Head(outbound))
      BY <1>7, <2>1, <3>2, RequestsOfMessages
    <3> QED
      BY <1>3, <1>11, <2>1, <3>1, <3>3
  <2>3. CASE DropSubmission(b)
    <3>1. r \notin atPeer
      BY <2>1, <2>3 DEF DropSubmission, WithCaller, SourcesInv, ContractInv, UnsentIsUnknown
    <3> QED
      BY <2>1, <2>3, <3>1 DEF DropSubmission, Settle
  <2> QED
    BY <1>10, <1>12, <2>2, <2>3
<1>13. DroppedIsUnknown'
  BY <1>12 DEF DroppedIsUnknown
<1> QED
  BY <1>1, <1>9, <1>13 DEF SourcesInv

\* A builder that is dropped settles what it held; what the loop holds stays.
LEMMA DropKeepsSources ==
    ASSUME SourcesInv, NEW b \in Batches, DropBuilder(b)
    PROVE  /\ SourcesInv'
           /\ [Contract!Next]_(Contract!vars)
           /\ OutcomesStay
<1> USE DEF handleVars, loopVars
<1>1. /\ b \in Messages /\ b \in Confirmed /\ b \notin Queued
      /\ Reqs(b) = BatchReqs[b] /\ BatchReqs[b] \subseteq Requests
      /\ WithCaller(b)
  BY BatchOfCall, MessageKinds DEF Messages, Confirmed, Reqs, Requests, DropBuilder, WithCaller,
     SourcesInv, ContractInv, OutboundInv, Senders, SenderHeldOnce, QueueIsExact
<1>2. /\ caller \in [Messages -> {"idle", "sending", "sent", "refused", "dropped"}]
      /\ response \in [Requests -> {"open"} \cup RequestOutcomes]
      /\ confirm \in [Confirmed -> {"open"} \cup ConfirmOutcomes]
  BY DEF SourcesInv, ContractInv, OutboundInv, TypeOK
<1>3. \A r \in BatchReqs[b] : response[r] = "open" /\ r \notin pending /\ r \notin atPeer
  BY <1>1 DEF SourcesInv, ContractInv, OutboundInv, Senders, SenderHeldOnce, UnsentIsUnknown
<1>4. confirm[b] = "open"
  BY <1>1 DEF SourcesInv, ContractInv, OutboundInv, Senders, ConfirmHeldOnce
<1>5. /\ \A m \in Messages : m # b => caller'[m] = caller[m]
      /\ caller'[b] = "dropped" /\ ~WithCaller(b)'
      /\ \A m \in Messages : m # b => (WithCaller(m)' <=> WithCaller(m))
  BY <1>1, <1>2 DEF DropBuilder, WithCaller
<1>6. /\ \A r \in BatchReqs[b] : response'[r] = "SenderDropped"
      /\ \A r \in Requests : r \notin BatchReqs[b] => response'[r] = response[r]
      /\ confirm'[b] = "SenderDropped"
      /\ \A m \in Confirmed : m # b => confirm'[m] = confirm[m]
  BY <1>1 DEF DropBuilder, Settle, Confirm
<1>7. /\ Queued' = Queued
      /\ UNCHANGED <<outbound, commands, pending, atPeer, phase, token, cancelling>>
  BY DEF DropBuilder, Queued
<1>8. TypeOK'
  <2>1. /\ response' \in [Requests -> {"open"} \cup RequestOutcomes]
        /\ confirm' \in [Confirmed -> {"open"} \cup ConfirmOutcomes]
    BY SettleType, ConfirmType
       DEF DropBuilder, SourcesInv, ContractInv, OutboundInv, RequestOutcomes, ConfirmOutcomes
  <2> QED
    BY <2>1 DEF DropBuilder, SourcesInv, ContractInv, OutboundInv, TypeOK
<1>9. SenderHeldOnce'
  <2>1. QueueIsExact'
    BY <1>1, <1>5, <1>7, QueuedMessages
       DEF SourcesInv, ContractInv, OutboundInv, Senders, SenderHeldOnce, QueueIsExact
  <2>2. ASSUME NEW m \in Messages, NEW r \in Reqs(m)
        PROVE  /\ ~(r \in pending /\ (WithCaller(m)' \/ m \in Queued))
               /\ response'[r] = "open" <=> (WithCaller(m)' \/ m \in Queued \/ r \in pending)
    <3>1. CASE m = b
      BY <1>1, <1>3, <1>5, <1>6, <2>2, <3>1
    <3>2. CASE m # b
      <4>1. r \in Requests /\ r \notin BatchReqs[b]
        BY <1>1, <3>2, RequestsOfMessages
      <4> QED
        BY <1>5, <1>6, <3>2, <4>1
           DEF SourcesInv, ContractInv, OutboundInv, Senders, SenderHeldOnce
    <3> QED
      BY <3>1, <3>2
  <2> QED
    BY <1>7, <2>1, <2>2 DEF SenderHeldOnce, Reqs
<1>10. ConfirmHeldOnce'
  <2>1. \A m \in Confirmed : m \in Messages
    BY DEF Confirmed, Messages
  <2> QED
    BY <1>1, <1>5, <1>6, <1>7, <2>1
       DEF SourcesInv, ContractInv, OutboundInv, Senders, ConfirmHeldOnce
<1>11. ClosedIsEmpty'
  BY <1>7 DEF SourcesInv, ContractInv, OutboundInv, Senders, ClosedIsEmpty, Stopped
<1>12. SendReportIsTrue'
  <2>1. ReportsOne(b)
    BY <1>1, <1>6 DEF ReportsOne
  <2> QED
    BY <1>1, <1>7, <2>1, ReportOfOneMessage
       DEF SourcesInv, ContractInv, SendReportIsTrue
<1>13. UnsentIsUnknown'
  BY <1>5, <1>7 DEF SourcesInv, ContractInv, UnsentIsUnknown, Reqs
<1>14. AnsweredWasSent'
  BY <1>6, <1>7 DEF SourcesInv, AnsweredWasSent
<1>15. DroppedIsUnknown'
  <2> SUFFICES ASSUME NEW d \in Batches, caller'[d] = "dropped", NEW r \in BatchReqs[d]
               PROVE  r \notin atPeer /\ response'[r] = "SenderDropped"
    BY <1>7 DEF DroppedIsUnknown
  <2>1. CASE d = b
    BY <1>3, <1>6, <2>1
  <2>2. CASE d # b
    <3>1. caller[d] = "dropped" /\ r \in Requests /\ r \notin BatchReqs[b]
      BY <1>5, <2>2, FreshRequestIds DEF Messages, Requests
    <3> QED
      BY <1>6, <3>1 DEF SourcesInv, DroppedIsUnknown
  <2> QED
    BY <2>1, <2>2
<1>16. [Contract!Next]_(Contract!vars)
  <2>1. Contract!Abandon(b)
    BY <1>1, <1>3 DEF DropBuilder, Settle, Contract!Abandon, Contract!Open, Contract!Tell
  <2> QED
    BY <1>1, <2>1 DEF Contract!Next
<1>17. OutcomesStay
  BY <1>3, <1>4, <1>6 DEF OutcomesStay
<1> QED
  BY <1>8, <1>9, <1>10, <1>11, <1>12, <1>13, <1>14, <1>15, <1>16, <1>17
     DEF SourcesInv, ContractInv, OutboundInv, Senders

-----------------------------------------------------------------------------
(* The builders and the futures.                                           *)

\* But for a builder that is dropped, builders and futures leave the calls
\* alone or take a step of theirs.
LEMMA FuturesStep ==
    [FuturesNext]_allVars => [Next]_vars \/ \E b \in Batches : DropBuilder(b)
<1> SUFFICES ASSUME [FuturesNext]_allVars PROVE [Next]_vars \/ \E b \in Batches : DropBuilder(b)
  OBVIOUS
<1>1. ASSUME NEW b \in Batches, (\E c \in Futures \ Methods : AddCall(b, c)) \/ Send(b)
      PROVE  [Next]_vars
  <2>1. CASE \E c \in Futures \ Methods : AddCall(b, c)
    BY <2>1 DEF AddCall, Yield
  <2>2. CASE Send(b)
    BY <2>2, Zenon DEF Send, Next, CallerStep, Messages
  <2> QED
    BY <1>1, <2>1, <2>2
<1>2. CASE \E c \in Futures : Poll(c)
  BY <1>2 DEF Poll, PollTooEarly, PollBatchFuture, PollBadCall, PollRequestHandle, Yield
<1>3. CASE \E m \in Methods \cup Notes : Submit(m)
  BY <1>3, Zenon DEF Next, CallerStep, Messages
<1>4. CASE \E m \in Methods : StartCancelOf(m) \/ SendCancel(m) \/ CancelReturns(m)
  BY <1>4, Zenon DEF StartCancelOf, Next, CancelStep
<1>5. CASE \E m \in Messages : HandOver(m)
  BY <1>5, Zenon DEF HandOver, Next, CallerStep
<1>6. CASE LoopStep
  BY <1>6, Zenon DEF LoopStep, Next
<1>7. CASE UNCHANGED allVars
  BY <1>7 DEF allVars, vars
<1> QED
  BY <1>1, <1>2, <1>3, <1>4, <1>5, <1>6, <1>7, Zenon DEF FuturesNext

\* What is known of the calls holds with builders and futures, too, and the
\* contract and the outcomes of the calls are kept.
LEMMA SourcesAlways ==
    SourcesInv /\ [FuturesNext]_allVars =>
        SourcesInv' /\ [Contract!Next]_(Contract!vars) /\ [OutcomesStay]_allVars
<1> SUFFICES ASSUME SourcesInv, [FuturesNext]_allVars
             PROVE  /\ SourcesInv' /\ [Contract!Next]_(Contract!vars)
                    /\ [OutcomesStay]_allVars
  OBVIOUS
<1>1. CASE [Next]_vars
  <2>1. OutcomesStay
    <3>1. [OutcomesStay]_vars
      BY <1>1, OutcomesStayNext DEF SourcesInv, ContractInv
    <3>2. UNCHANGED vars => OutcomesStay
      BY DEF vars, OutcomesStay
    <3> QED
      BY <3>1, <3>2
  <2> QED
    BY <1>1, <2>1, SourcesNext, ContractNext DEF SourcesInv
<1>2. CASE \E b \in Batches : DropBuilder(b)
  BY <1>2, DropKeepsSources
<1> QED
  BY <1>1, <1>2, FuturesStep

\* What a step can do to a future, and to the flag of its batch.
LEMMA FutureStep ==
    ASSUME FuturesTypeOK, [FuturesNext]_allVars
    PROVE  /\ \/ batchSent' = batchSent
              \/ \E b \in Batches : batchSent' = [batchSent EXCEPT ![b] = TRUE]
           /\ \/ future' = future
              \/ \E c \in Futures :
                    /\ future' = [future EXCEPT ![c] = future'[c]]
                    /\ \/ future'[c] \in {"held", "awaiting"}
                       \/ c \in BadCalls /\ future'[c] = "SerRequest"
                       \/ /\ c \in BatchCalls /\ ~batchSent[BatchOf(c)]
                          /\ future'[c] = "BatchNotSentYet"
                       \/ /\ c \in Requests /\ UNCHANGED vars
                          /\ response[c] # "open" /\ future'[c] \in Decoded(response[c])
<1>1. future \in [Futures -> Unresolved \cup Decodings \cup
           {"Cancelled", "ConnectionClosed", "TransportError", "BatchSendFailed",
            "BatchNotSentYet", "SerRequest"}]
  BY DEF FuturesTypeOK
<1>2. \A c \in Futures : \A outcome : Yield(c, outcome) =>
          /\ future' = [future EXCEPT ![c] = future'[c]] /\ future'[c] = outcome
          /\ batchSent' = batchSent /\ UNCHANGED vars
  BY <1>1 DEF Yield
<1>3. ASSUME NEW b \in Batches, NEW c \in Futures, AddCall(b, c)
      PROVE  /\ future' = [future EXCEPT ![c] = future'[c]] /\ future'[c] = "held"
             /\ batchSent' = batchSent
  BY <1>2, <1>3 DEF AddCall
<1>4. ASSUME NEW c \in Futures, Poll(c)
      PROVE  /\ batchSent' = batchSent
             /\ future' = [future EXCEPT ![c] = future'[c]]
             /\ \/ future'[c] = "awaiting"
                \/ c \in BadCalls /\ future'[c] = "SerRequest"
                \/ /\ c \in BatchCalls /\ ~batchSent[BatchOf(c)]
                   /\ future'[c] = "BatchNotSentYet"
                \/ /\ c \in Requests /\ UNCHANGED vars
                   /\ response[c] # "open" /\ future'[c] \in Decoded(response[c])
  <2>1. BatchCalls \subseteq Requests /\ Methods \subseteq Requests
    BY DEF BatchCalls, Requests
  <2>2. CASE c \in BatchCalls /\ PollTooEarly(c)
    BY <1>2, <2>2 DEF PollTooEarly
  <2>3. CASE c \in BatchCalls /\ PollBatchFuture(c)
    BY <1>2, <2>1, <2>3 DEF PollBatchFuture
  <2>4. CASE c \in BadCalls /\ PollBadCall(c)
    BY <1>2, <2>4 DEF PollBadCall
  <2>5. CASE c \in Methods /\ PollRequestHandle(c)
    BY <1>2, <2>1, <2>5 DEF PollRequestHandle
  <2> QED
    BY <1>4, <2>2, <2>3, <2>4, <2>5 DEF Poll
<1>5. CASE \E b \in Batches : Send(b) \/ DropBuilder(b)
  BY <1>5 DEF Send, DropBuilder, futureVars
<1>6. CASE UNCHANGED futureVars
  BY <1>6 DEF futureVars
<1>7. CASE \E b \in Batches : \E c \in Futures \ Methods : AddCall(b, c)
  BY <1>3, <1>7
<1>8. CASE \E c \in Futures : Poll(c)
  BY <1>4, <1>8
<1> QED
  BY <1>5, <1>6, <1>7, <1>8, Zenon DEF FuturesNext, allVars

\* The invariant holds at the start.
LEMMA FuturesInvInit == FuturesInit => FuturesInv
<1> SUFFICES ASSUME FuturesInit PROVE FuturesInv
  OBVIOUS
<1>1. ContractInv /\ TypeOK
  BY ContractInvInit DEF FuturesInit, ContractInv, OutboundInv
<1>2. AnsweredWasSent /\ DroppedIsUnknown /\ FlagFollowsSend
  BY DEF FuturesInit, Init, AnsweredWasSent, DroppedIsUnknown, FlagFollowsSend, Messages
<1>3. FuturesTypeOK /\ FuturesFollowOneshots
  BY <1>1 DEF FuturesInit, FuturesTypeOK, FuturesFollowOneshots, Futures, Unresolved
<1> QED
  BY <1>1, <1>2, <1>3 DEF FuturesInv, SourcesInv

\* Every step keeps it.
LEMMA FuturesInvNext == FuturesInv /\ [FuturesNext]_allVars => FuturesInv'
<1> SUFFICES ASSUME FuturesInv, [FuturesNext]_allVars PROVE FuturesInv'
  OBVIOUS
<1>1. SourcesInv' /\ [OutcomesStay]_allVars
  BY SourcesAlways DEF FuturesInv
<1>2. /\ future \in [Futures -> Unresolved \cup Decodings \cup
             {"Cancelled", "ConnectionClosed", "TransportError", "BatchSendFailed",
              "BatchNotSentYet", "SerRequest"}]
      /\ batchSent \in [Batches -> BOOLEAN]
  BY DEF FuturesInv, FuturesTypeOK
<1>3. /\ response \in [Requests -> {"open"} \cup RequestOutcomes]
      /\ caller \in [Messages -> {"idle", "sending", "sent", "refused", "dropped"}]
  BY DEF FuturesInv, FuturesTypeOK, TypeOK
<1>4. FuturesTypeOK'
  <2>1. batchSent' \in [Batches -> BOOLEAN]
    BY <1>2, FutureStep DEF FuturesInv
  <2>2. \A r \in Requests : response[r] # "open" =>
            Decoded(response[r]) \subseteq Decodings \cup
                {"Cancelled", "ConnectionClosed", "TransportError", "BatchSendFailed"}
    BY <1>3 DEF Decoded, RequestOutcomes
  <2>3. future' \in [Futures -> Unresolved \cup Decodings \cup
            {"Cancelled", "ConnectionClosed", "TransportError", "BatchSendFailed",
             "BatchNotSentYet", "SerRequest"}]
    BY <1>2, <2>2, FutureStep DEF FuturesInv, Unresolved
  <2> QED
    BY <1>1, <2>1, <2>3 DEF FuturesTypeOK, SourcesInv, ContractInv, OutboundInv
<1>5. FlagFollowsSend'
  <2> SUFFICES ASSUME NEW b \in Batches, ~batchSent'[b]
               PROVE  caller'[b] \in {"idle", "dropped"}
    BY DEF FlagFollowsSend
  <2>1. b \in Messages /\ ~batchSent[b] /\ caller[b] \in {"idle", "dropped"}
    BY <1>2, FutureStep DEF FuturesInv, FlagFollowsSend, Messages
  <2>2. CASE \E d \in Batches : Send(d)
    <3> PICK d \in Batches : Send(d)
      BY <2>2
    <3>1. d # b
      BY <1>2 DEF Send
    <3> QED
      BY <1>3, <2>1, <3>1 DEF Send, Submit, Messages
  <2>3. CASE \E d \in Batches : DropBuilder(d)
    BY <1>3, <2>1, <2>3 DEF DropBuilder, Messages
  <2>4. CASE \E m \in Methods \cup Notes : Submit(m)
    BY <1>3, <2>1, <2>4, MessageKinds DEF Submit, Messages
  <2>5. CASE \E m \in Messages : HandOver(m)
    BY <1>3, <2>1, <2>5 DEF HandOver, Enqueue, EnqueueRefused, DropSubmission
  <2>6. CASE UNCHANGED caller
    BY <2>1, <2>6
  <2> QED
    BY <2>2, <2>3, <2>4, <2>5, <2>6
       DEF FuturesNext, AddCall, Poll, PollTooEarly, PollBatchFuture, PollBadCall,
           PollRequestHandle, Yield, StartCancelOf, StartCancel, SendCancel, CancelReturns,
           LoopStep, CancelToken, HandleOutboundMessage, HandleCommand, ReceiveResponses,
           StopOnCancellation, StopOnPeerOrError, BeginShutdown, IgnoreCommands,
           DrainOutbound, EndDrain, GracefulTimeout, FinishShutdown, LoopPanics,
           handleVars, allVars, vars
<1>6. FuturesFollowOneshots'
  <2> SUFFICES ASSUME NEW c \in Requests,
                      future'[c] \notin Unresolved \cup {"BatchNotSentYet"}
               PROVE  future'[c] \in Decoded(response'[c])
    BY DEF FuturesFollowOneshots, Decoded
  <2>1. c \in Futures /\ c \notin BadCalls
    BY BadCallsAssumption DEF Futures
  <2>2. CASE future'[c] = future[c]
    <3>1. future[c] \in Decoded(response[c]) /\ future[c] # "open"
      BY <1>2, <2>1, <2>2 DEF FuturesInv, FuturesFollowOneshots, Unresolved, Decodings
    <3>2. response[c] # "open"
      BY <3>1 DEF Decoded
    <3>3. response'[c] = response[c]
      BY <1>1, <3>2 DEF OutcomesStay, allVars, vars
    <3> QED
      BY <2>2, <3>1, <3>3
  <2>3. CASE future'[c] # future[c]
    <3>1. response'[c] = response[c] /\ future'[c] \in Decoded(response[c])
      BY <1>2, <2>1, <2>3, FutureStep DEF FuturesInv, Unresolved, vars
    <3> QED
      BY <3>1
  <2> QED
    BY <2>2, <2>3
<1> QED
  BY <1>1, <1>4, <1>5, <1>6 DEF FuturesInv

\* Where the calls of each batch are is known in every state, whoever built it
\* and whoever polls its futures.
THEOREM FuturesInvAlways == FuturesSpec => []FuturesInv
  BY FuturesInvInit, FuturesInvNext, PTL DEF FuturesSpec

\* The futures and the flags stay within their types.
THEOREM FuturesTypeCorrect == FuturesSpec => []FuturesTypeOK
<1>1. FuturesInv => FuturesTypeOK
  BY DEF FuturesInv
<1> QED
  BY <1>1, FuturesInvAlways, PTL

\* What the calls of a batch report agrees with what send() reported and with
\* what the peer was sent, for any order of polls, sends, failures and shutdown.
THEOREM FuturesAlwaysAgree == FuturesSpec => []FuturesAgreeWithSend
<1>1. FuturesInv => FuturesAgreeWithSend
  <2> SUFFICES ASSUME FuturesInv, NEW b \in Batches, NEW c \in BatchReqs[b]
               PROVE  /\ future[c] \in Decodings => c \in atPeer
                      /\ confirm[b] = "Ok" => future[c] # "BatchSendFailed"
                      /\ confirm[b] = "TransportError" =>
                             future[c] \in Unresolved \cup {"BatchSendFailed", "BatchNotSentYet"}
                      /\ confirm[b] = "ConnectionClosed" \/ caller[b] = "dropped" =>
                             future[c] \in Unresolved \cup {"ConnectionClosed", "BatchNotSentYet"}
    BY DEF FuturesAgreeWithSend
  <2>1. c \in Requests
    BY BatchOfCall
  <2>2. \/ future[c] \in Unresolved \cup {"BatchNotSentYet"}
        \/ future[c] \in Decoded(response[c])
    BY <2>1 DEF FuturesInv, FuturesFollowOneshots
  <2>3. response[c] = "Response" => c \in atPeer
    BY <2>1 DEF FuturesInv, SourcesInv, AnsweredWasSent
  <2>4. /\ confirm[b] = "Ok" => response[c] # "BatchSendFailed"
        /\ confirm[b] = "TransportError" => response[c] = "BatchSendFailed"
        /\ confirm[b] = "ConnectionClosed" => response[c] = "ConnectionClosed"
        /\ caller[b] = "dropped" => response[c] = "SenderDropped"
    BY DEF FuturesInv, SourcesInv, ContractInv, SendReportIsTrue, DroppedIsUnknown
  <2>5. response[c] \in {"open"} \cup RequestOutcomes
    BY <2>1 DEF FuturesInv, FuturesTypeOK, TypeOK
  <2> QED
    BY <2>2, <2>3, <2>4, <2>5 DEF Decoded, Decodings, Unresolved, RequestOutcomes
<1> QED
  BY <1>1, FuturesInvAlways, PTL

\* Whoever is told that the batch was not sent yet is told the truth: neither
\* the peer nor the loop has the call.
THEOREM NotSentIsAlwaysTrue == FuturesSpec => NotSentIsTrue
<1>1. FuturesInv /\ [FuturesNext]_allVars => [NotSentIsSaid]_allVars
  <2> SUFFICES ASSUME FuturesInv, [FuturesNext]_allVars, NEW c \in BatchCalls,
                      future'[c] = "BatchNotSentYet", future[c] = "held"
               PROVE  c \notin atPeer \cup pending \cup UNION {Reqs(m) : m \in Queued}
    BY DEF NotSentIsSaid
  <2>1. c \in Requests /\ c \in Futures /\ c \notin BadCalls
    BY BadCallsAssumption DEF BatchCalls, Requests, Futures
  <2>2. ~batchSent[BatchOf(c)]
    <3>1. response \in [Requests -> {"open"} \cup RequestOutcomes]
      BY DEF FuturesInv, FuturesTypeOK, TypeOK
    <3>2. response[c] # "open" => "BatchNotSentYet" \notin Decoded(response[c])
      BY <2>1, <3>1 DEF Decoded, Decodings, RequestOutcomes
    <3> QED
      BY <2>1, <3>2, FutureStep DEF FuturesInv, FuturesTypeOK
  <2>3. PICK b \in Batches : c \in BatchReqs[b]
    BY DEF BatchCalls
  <2>4. /\ b \in Messages /\ c \in Reqs(b) /\ ~batchSent[b]
        /\ \A m \in Messages : c \in Reqs(m) => m = b
    BY <2>2, <2>3, BatchOfCall, RequestsOfMessages DEF Messages
  <2>5. caller[b] \in {"idle", "dropped"} /\ b \notin Queued
    BY <2>4 DEF FuturesInv, FlagFollowsSend, SourcesInv, ContractInv, OutboundInv, Senders,
       SenderHeldOnce, QueueIsExact
  <2>6. c \notin atPeer
    BY <2>3, <2>4, <2>5
       DEF FuturesInv, SourcesInv, ContractInv, UnsentIsUnknown, DroppedIsUnknown, WithCaller
  <2>7. c \notin pending
    BY <2>6 DEF FuturesInv, SourcesInv, ContractInv, SendReportIsTrue
  <2>8. \A m \in Queued : c \notin Reqs(m)
    BY <2>4, <2>5, QueuedMessages DEF FuturesInv, FuturesTypeOK
  <2> QED
    BY <2>6, <2>7, <2>8
<1> QED
  BY <1>1, FuturesInvAlways, PTL DEF FuturesSpec, NotSentIsTrue

\* With builders that are dropped and futures that are polled, the connection
\* keeps its contract, and the outcome of a call stays as it is.
THEOREM FuturesKeepContract == FuturesSpec => KeepsCallContract /\ [][OutcomesStay]_allVars
<1>1. FuturesInit => Contract!Init /\ SourcesInv
  BY ContractInvInit, FuturesInvInit DEF FuturesInit, FuturesInv
<1> QED
  BY <1>1, SourcesAlways, PTL DEF FuturesSpec, KeepsCallContract, Contract!Spec
=============================================================================
