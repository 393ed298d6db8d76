--------------------------- MODULE McpClientProofs ---------------------------
(***************************************************************************)
(* For any set of versions, calls, questions of the server and lines it    *)
(* may write: types, what a ready client stands for, and that a running    *)
(* child always has somebody whose drop kills it, also while the loop that *)
(* owns it is held inside a write.                                         *)
(***************************************************************************)
EXTENDS McpClient, SequenceTheorems, TLAPS

LEMMA TypeCorrectNext == TypeOK /\ [Next]_vars => TypeOK'
<1> SUFFICES ASSUME TypeOK, [Next]_vars PROVE TypeOK'
  OBVIOUS
<1> USE DEF TypeOK, pipeVars
<1>1. CASE Launch \/ DropTransport \/ ProcessExits
  BY <1>1 DEF Launch, DropTransport, ProcessExits, Kill
<1>2. ASSUME NEW line \in Lines, WriteStderr(line) PROVE TypeOK'
  <2>1. Append(stderr, line) \in Seq(Lines)
    OBVIOUS
  <2> QED
    BY <1>2, <2>1 DEF WriteStderr
<1>3. CASE ReadStderr \/ MonitorEnds
  <2>1. stderr # <<>> => Head(stderr) \in Lines /\ Tail(stderr) \in Seq(Lines)
    OBVIOUS
  <2> QED
    BY <1>3, <2>1 DEF ReadStderr, MonitorEnds
<1>4. CASE Initialize \/ ServerAnswers \/ InitializeReturns \/ DropClient
  BY <1>4, McpAssumption
     DEF Initialize, ServerAnswers, InitializeReturns, Accept, DropClient, NoVersion
<1>5. ASSUME NEW c \in Calls, Call(c) \/ ServerCarriesOut(c) \/ CallReturns(c) \/ SendCall(c)
      PROVE  TypeOK'
  BY <1>5 DEF Call, ServerCarriesOut, CallReturns, SendCall
<1>6. ASSUME NEW q \in Requests, ServerAsks(q) \/ SendReply(q) PROVE TypeOK'
  BY <1>6 DEF ServerAsks, SendReply
<1>7. CASE SendInitialize
  BY <1>7 DEF SendInitialize
<1>8. CASE WriteEnds
  <2>1. CASE initialize' \in {"sent", "TransportError"} /\ UNCHANGED <<call, served>>
    BY <1>8, <2>1 DEF WriteEnds, NoVersion
  <2>2. ASSUME NEW c \in Calls, NEW outcome \in {"pending", "TransportError"},
               call' = [call EXCEPT ![c] = outcome], UNCHANGED <<initialize, served>>
        PROVE  TypeOK'
    BY <1>8, <2>2 DEF WriteEnds
  <2>3. ASSUME NEW q \in Requests, NEW outcome \in {ReplyTo(q), "lost"},
               served' = [served EXCEPT ![q] = outcome], UNCHANGED <<initialize, call>>
        PROVE  TypeOK'
    BY <1>8, <2>3 DEF WriteEnds, ReplyTo
  <2> QED
    BY <1>8, <2>1, <2>2, <2>3 DEF WriteEnds
<1>9. CASE BeginClose
  BY <1>9 DEF BeginClose, NoVersion
<1>10. CASE CloseLoop
  BY <1>10 DEF CloseLoop, Kill, NoVersion
<1>11. CASE UNCHANGED vars
  BY <1>11 DEF vars
<1> QED
  BY <1>1, <1>2, <1>3, <1>4, <1>5, <1>6, <1>7, <1>8, <1>9, <1>10, <1>11
     DEF Next, LoopStep, StopOnCancellation, StopOnExit, StopOnGarbage

\* The state stays well formed: TypeOK.
THEOREM TypeCorrect == Spec => []TypeOK
<1>1. Init => TypeOK
  BY DEF Init, TypeOK
<1> QED
  BY <1>1, TypeCorrectNext, PTL DEF Spec

\* Before the handshake is over there is no version; the answer that made a
\* client ready is the last one.
HandshakeInv ==
    /\ ReadyMeansAgreed
    /\ client = "ready" => initialize \in Versions

\* A client is ready only with a version that it supports and that the server
\* has named: ReadyMeansAgreed.
THEOREM ReadyClientsAgreed == Spec => []ReadyMeansAgreed
<1>1. Init => HandshakeInv
  BY DEF Init, HandshakeInv, ReadyMeansAgreed
<1>2. HandshakeInv /\ [Next]_vars => HandshakeInv'
  <2> SUFFICES ASSUME HandshakeInv, [Next]_vars PROVE HandshakeInv'
    OBVIOUS
  <2> USE DEF HandshakeInv, ReadyMeansAgreed, pipeVars
  <2>1. CASE Launch \/ DropTransport \/ Initialize
    BY <2>1 DEF Launch, DropTransport, Initialize
  <2>2. CASE SendInitialize \/ ServerAnswers
    <3>1. initialize \in {"queued", "sent"} /\ UNCHANGED <<client, version>>
      BY <2>2 DEF SendInitialize, ServerAnswers
    <3>2. client # "ready"
      BY <3>1, VersionsAreNoOutcomes
    <3> QED
      BY <3>1, <3>2
  <2>3. CASE InitializeReturns
    BY <2>3, McpAssumption DEF InitializeReturns, Accept
  <2>4. CASE WriteEnds \/ BeginClose \/ CloseLoop
    <3>1. UNCHANGED <<client, version>>
      BY <2>4 DEF WriteEnds, BeginClose, CloseLoop
    <3>2. initialize' = initialize \/ initialize \in {"queued", "writing", "sent"}
      BY <2>4 DEF WriteEnds, BeginClose, CloseLoop
    <3>3. client = "ready" => initialize' = initialize
      BY <3>2, VersionsAreNoOutcomes
    <3> QED
      BY <3>1, <3>3
  <2>5. CASE DropClient
    BY <2>5 DEF DropClient
  <2>6. CASE UNCHANGED <<client, version, initialize>>
    BY <2>6
  <2>7. ASSUME \/ ProcessExits \/ ReadStderr \/ MonitorEnds
               \/ \E line \in Lines : WriteStderr(line)
               \/ \E c \in Calls : Call(c) \/ ServerCarriesOut(c) \/ CallReturns(c) \/ SendCall(c)
               \/ \E q \in Requests : ServerAsks(q) \/ SendReply(q)
               \/ UNCHANGED vars
        PROVE  UNCHANGED <<client, version, initialize>>
    BY <2>7 DEF ProcessExits, ReadStderr, MonitorEnds, WriteStderr, Call, ServerCarriesOut,
       CallReturns, SendCall, ServerAsks, SendReply, vars
  <2> QED
    BY <2>1, <2>2, <2>3, <2>4, <2>5, <2>6, <2>7
       DEF Next, LoopStep, StopOnCancellation, StopOnExit, StopOnGarbage
<1>3. HandshakeInv => ReadyMeansAgreed
  BY DEF HandshakeInv
<1> QED
  BY <1>1, <1>2, <1>3, PTL DEF Spec

\* A child that runs belongs to the transport, or to a loop that has not ended,
\* and dies with its owner: ChildHasAnOwner.
THEOREM ChildrenHaveOwners == Spec => []ChildHasAnOwner
<1>1. Init => ChildHasAnOwner
  BY DEF Init, ChildHasAnOwner
<1>2. ChildHasAnOwner /\ [Next]_vars => ChildHasAnOwner'
  <2> SUFFICES ASSUME ChildHasAnOwner, [Next]_vars PROVE ChildHasAnOwner'
    OBVIOUS
  <2> USE DEF ChildHasAnOwner, pipeVars
  <2>1. CASE Launch \/ DropTransport \/ ProcessExits \/ Initialize
    BY <2>1 DEF Launch, DropTransport, ProcessExits, Initialize, Kill
  <2>2. ASSUME NEW line \in Lines, WriteStderr(line) PROVE ChildHasAnOwner'
    BY <2>2 DEF WriteStderr
  <2>3. CASE BeginClose \/ CloseLoop
    BY <2>3 DEF BeginClose, CloseLoop, Kill
  <2>4. CASE SendInitialize \/ WriteEnds \/ ServerAnswers \/ ReadStderr \/ MonitorEnds
    BY <2>4 DEF SendInitialize, WriteEnds, ServerAnswers, ReadStderr, MonitorEnds
  <2>5. CASE InitializeReturns \/ DropClient
    BY <2>5 DEF InitializeReturns, Accept, DropClient
  <2>6. CASE \/ \E c \in Calls : Call(c) \/ ServerCarriesOut(c) \/ CallReturns(c) \/ SendCall(c)
             \/ \E q \in Requests : ServerAsks(q) \/ SendReply(q)
             \/ UNCHANGED vars
    BY <2>6 DEF Call, ServerCarriesOut, CallReturns, SendCall, ServerAsks, SendReply, vars
  <2> QED
    BY <2>1, <2>2, <2>3, <2>4, <2>5, <2>6
       DEF Next, LoopStep, StopOnCancellation, StopOnExit, StopOnGarbage
<1> QED
  BY <1>1, <1>2, PTL DEF Spec

\* A loop that closes has emptied its queue; one that serves has a client that
\* was bound.
ClosingInv ==
    /\ client \in {"unlaunched", "launched"} => loop = "none"
    /\ loop \in {"closing", "closed"} =>
           initialize # "queued" /\ \A c \in Calls : call[c] # "queued"
    /\ ClosedLeavesNobodyWaiting

\* Whoever waits when the loop ends is told: ClosedLeavesNobodyWaiting.
THEOREM ClosedClientsWaitForNothing == Spec => []ClosedLeavesNobodyWaiting
<1> USE DEF ClosingInv, ClosedLeavesNobodyWaiting, Waits
<1>1. Init => ClosingInv
  BY DEF Init
<1>2. TypeOK /\ ClosingInv /\ [Next]_vars => ClosingInv'
  <2> SUFFICES ASSUME TypeOK, ClosingInv, [Next]_vars PROVE ClosingInv'
    OBVIOUS
  <2> USE DEF pipeVars
  <2>1. CASE Launch \/ DropTransport \/ Initialize
    BY <2>1 DEF Launch, DropTransport, Initialize
  <2>2. CASE ServerAnswers
    <3>1. initialize' \in Versions \cup {"Malformed", "MethodError"}
      BY <2>2 DEF ServerAnswers
    <3>2. loop = "serving" /\ UNCHANGED <<client, loop, call>>
      BY <2>2 DEF ServerAnswers, Selecting
    <3> QED
      BY <3>2
  <2>3. CASE InitializeReturns \/ DropClient
    BY <2>3 DEF InitializeReturns, Accept, DropClient
  <2>4. ASSUME NEW c \in Calls, Call(c) \/ ServerCarriesOut(c) \/ SendCall(c)
        PROVE  ClosingInv'
    BY <2>4 DEF Call, ServerCarriesOut, SendCall, Selecting, TypeOK
  <2>5. ASSUME NEW c \in Calls, CallReturns(c) PROVE ClosingInv'
    BY <2>5 DEF CallReturns, TypeOK
  <2>6. CASE SendInitialize
    BY <2>6 DEF SendInitialize, Selecting
  <2>7. CASE WriteEnds
    <3>1. Writing
      BY <2>7 DEF WriteEnds, Writing
    <3>2. UNCHANGED <<client, loop>>
      BY <2>7 DEF WriteEnds
    <3>3. initialize' # "queued" \/ initialize' = initialize
      BY <2>7 DEF WriteEnds
    <3>4. \A c \in Calls : call'[c] # "queued" \/ call'[c] = call[c]
      BY <2>7 DEF WriteEnds, TypeOK
    <3>5. CASE loop # "closed"
      BY <3>2, <3>3, <3>4, <3>5
    <3>6. CASE loop = "closed"
      <4>1. UNCHANGED <<initialize, call>>
        BY <2>7, <3>6 DEF WriteEnds
      <4> QED
        BY <3>2, <4>1
    <3> QED
      BY <3>5, <3>6
  <2>8. CASE BeginClose
    BY <2>8 DEF BeginClose, Selecting
  <2>9. CASE CloseLoop
    <3>1. /\ loop = "closing" /\ loop' = "closed" /\ client' = client
          /\ initialize' = IF initialize = "sent" THEN "ConnectionClosed" ELSE initialize
          /\ initialize # "writing"
      BY <2>9 DEF CloseLoop, Writing
    <3>2. ~Waits(initialize')
      <4>1. initialize # "pending"
        BY VersionsAreNoOutcomes DEF TypeOK, NoVersion
      <4>2. initialize # "queued"
        BY <3>1
      <4> QED
        BY <3>1, <4>1, <4>2
    <3>3. ASSUME NEW c \in Calls PROVE ~Waits(call'[c])
      <4>1. call[c] # "writing" /\ call[c] # "queued"
        BY <2>9, <3>1 DEF CloseLoop, Writing
      <4>2. call'[c] = IF call[c] = "pending" THEN "ConnectionClosed" ELSE call[c]
        BY <2>9 DEF CloseLoop
      <4>3. call[c] # "sent"
        BY DEF TypeOK
      <4> QED
        BY <4>1, <4>2, <4>3
    <3>4. client' \notin {"unlaunched", "launched"}
      BY <3>1
    <3> QED
      BY <3>1, <3>2, <3>3, <3>4
  <2>10. CASE \/ ProcessExits \/ ReadStderr \/ MonitorEnds
              \/ \E line \in Lines : WriteStderr(line)
              \/ \E q \in Requests : ServerAsks(q) \/ SendReply(q)
              \/ UNCHANGED vars
    BY <2>10 DEF ProcessExits, ReadStderr, MonitorEnds, WriteStderr, ServerAsks, SendReply, vars
  <2> QED
    BY <2>1, <2>2, <2>3, <2>4, <2>5, <2>6, <2>7, <2>8, <2>9, <2>10
       DEF Next, LoopStep, StopOnCancellation, StopOnExit, StopOnGarbage
<1>3. ClosingInv => ClosedLeavesNobodyWaiting
  OBVIOUS
<1> QED
  BY <1>1, <1>2, <1>3, TypeCorrect, PTL DEF Spec
=============================================================================
