----------------------- MODULE InboundOperationsProofs -----------------------
(***************************************************************************)
(* For any number of operations, request IDs and queued commands, with or  *)
(* without a graceful timeout: the types, the agreement of the two maps,   *)
(* the uniqueness of live request IDs, and that every request is answered. *)
(***************************************************************************)
EXTENDS InboundOperations, TLAPS

\* The initial state is well formed.
LEMMA TypeCorrectInit == Init => TypeOK
<1> SUFFICES ASSUME Init PROVE TypeOK
  OBVIOUS
<1>1. commands \in Seq(Ids) /\ Len(commands) <= CommandBound
  BY InboundConfig DEF Init
<1>2. byTask \in [Ops -> Ids \cup {None}] /\ byId \in [Ids -> Ops \cup {None}]
  BY DEF Init
<1> QED
  BY <1>1, <1>2 DEF Init, TypeOK

\* Every step keeps the state well formed.
LEMMA TypeCorrectNext == TypeOK /\ [Next]_vars => TypeOK'
<1> SUFFICES ASSUME TypeOK, [Next]_vars PROVE TypeOK'
  OBVIOUS
<1> USE NoneIsNeither, InboundConfig DEF TypeOK, Kinds, Completed, opVars
<1>1. ASSUME NEW o \in Ops, ReceiveUnusable(o) PROVE TypeOK'
  BY <1>1 DEF ReceiveUnusable
<1>2. ASSUME NEW o \in Ops, ReceiveUntracked(o) PROVE TypeOK'
  BY <1>2 DEF ReceiveUntracked
<1>3. ASSUME NEW o \in Ops, NEW i \in Ids, ReceiveRequest(o, i) PROVE TypeOK'
  <2>1. CASE byId[i] # None
    BY <1>3, <2>1 DEF ReceiveRequest
  <2>2. CASE byId[i] = None
    BY <1>3, <2>2 DEF ReceiveRequest
  <2> QED
    BY <2>1, <2>2
<1>4. ASSUME NEW o \in Ops, TaskStep(o) PROVE TypeOK'
  BY <1>4 DEF TaskStep, TaskFinishes, TaskPanics, TaskAborts, TaskEnds
<1>5. ASSUME NEW o \in Ops, Join(o) PROVE TypeOK'
  <2>1. Answer(o) \in {"none", "response", "batch"}
    BY DEF Answer
  <2> QED
    BY <1>5, <2>1 DEF Join, JoinFinished, JoinFailed, Untrack
<1>6. ASSUME NEW i \in Ids, SendCancel(i) PROVE TypeOK'
  BY <1>6 DEF SendCancel
<1>7. CASE HandleCancel
  BY <1>7 DEF HandleCancel
<1>8. CASE CancelToken
  BY <1>8 DEF CancelToken
<1>9. CASE BeginShutdown
  BY <1>9 DEF BeginShutdown
<1>10. CASE EndDrain
  BY <1>10 DEF EndDrain
<1>11. CASE GracefulTimeout
  BY <1>11 DEF GracefulTimeout
<1>12. CASE FinishShutdown
  BY <1>12 DEF FinishShutdown
<1>13. CASE LoopPanics
  BY <1>13 DEF LoopPanics
<1>14. CASE UNCHANGED vars
  BY <1>14 DEF vars
<1> QED
  BY <1>1, <1>2, <1>3, <1>4, <1>5, <1>6, <1>7, <1>8, <1>9, <1>10, <1>11, <1>12,
     <1>13, <1>14
     DEF Next, ReceiveStep, StopOnCancellation, StopOnPeerOrError

\* The type invariant: every step of the loop, of a task and of a caller keeps
\* the state well formed.
THEOREM TypeCorrect == Spec => []TypeOK
  BY TypeCorrectInit, TypeCorrectNext, PTL DEF Spec

-----------------------------------------------------------------------------
\* What MapsAgree and EveryRequestAnswered need to be inductive: an operation
\* has a kind once it has a task, an answer only when its task is over, and
\* the loop exits with an empty JoinSet.
OperationLife ==
    /\ \A o \in Ops : kind[o] = "none" <=> task[o] = "none"
    /\ \A o \in Ops : reply[o] # "none" => task[o] \in {"joined", "rejected"}
    /\ \A o \in Ops : (kind[o] = "request" /\ task[o] \in {"joined", "rejected"})
           => reply[o] # "none"
    /\ phase = "exited" => JoinSet = {}

\* The inductive invariant.
TrackingInv == TypeOK /\ MapsAgree /\ OperationLife

\* Nothing is tracked at first.
LEMMA TrackingInvInit == Init => TrackingInv
<1> SUFFICES ASSUME Init PROVE MapsAgree /\ OperationLife
  BY TypeCorrectInit DEF TrackingInv
<1>1. MapsAgree
  BY NoneIsNeither DEF Init, MapsAgree, JoinSet, Completed
<1>2. OperationLife
  BY DEF Init, OperationLife
<1> QED
  BY <1>1, <1>2

\* A new operation, of any kind, disturbs no other one.
LEMMA ReceiveKeepsTracking ==
    ASSUME TrackingInv, NEW o \in Ops, ReceiveStep(o)
    PROVE  MapsAgree' /\ OperationLife'
<1> USE NoneIsNeither DEF TrackingInv, TypeOK, MapsAgree, OperationLife, JoinSet, Completed, Kinds
<1>1. kind[o] = "none" /\ task[o] = "none" /\ reply[o] = "none" /\ byTask[o] = None
  BY DEF ReceiveStep, ReceiveUnusable, ReceiveUntracked, ReceiveRequest
<1>2. CASE ReceiveUnusable(o)
  BY <1>1, <1>2 DEF ReceiveUnusable
<1>3. CASE ReceiveUntracked(o)
  BY <1>1, <1>3 DEF ReceiveUntracked
<1>4. ASSUME NEW i \in Ids, ReceiveRequest(o, i) PROVE MapsAgree' /\ OperationLife'
  <2>1. CASE byId[i] # None
    <3>1. /\ kind' = [kind EXCEPT ![o] = "request"] /\ ids' = [ids EXCEPT ![o] = {i}]
          /\ task' = [task EXCEPT ![o] = "rejected"]
          /\ reply' = [reply EXCEPT ![o] = "nullIdError"]
          /\ UNCHANGED <<byTask, byId, phase>> /\ phase = "running"
      BY <1>4, <2>1 DEF ReceiveRequest
    <3>2. \A p \in Ops : p \in JoinSet' <=> p \in JoinSet
      BY <1>1, <3>1
    <3>3. MapsAgree'
      BY <1>1, <3>1, <3>2
    <3>4. OperationLife'
      BY <1>1, <3>1
    <3> QED
      BY <3>3, <3>4
  <2>2. CASE byId[i] = None
    <3>1. /\ kind' = [kind EXCEPT ![o] = "request"] /\ ids' = [ids EXCEPT ![o] = {i}]
          /\ task' = [task EXCEPT ![o] = "running"] /\ reply' = reply /\ phase' = phase
          /\ byTask' = [byTask EXCEPT ![o] = i] /\ byId' = [byId EXCEPT ![i] = o]
          /\ phase = "running"
      BY <1>4, <2>2 DEF ReceiveRequest
    <3>2. \A p \in Ops, j \in Ids : byTask'[p] = j <=> byId'[j] = p
      BY <1>1, <2>2, <3>1
    <3>3. \A p \in Ops : byTask'[p] # None <=> (kind'[p] = "request" /\ p \in JoinSet')
      BY <1>1, <3>1
    <3>4. \A p \in Ops : byTask'[p] # None => ids'[p] = {byTask'[p]}
      BY <1>1, <3>1
    <3>5. OperationLife'
      BY <1>1, <3>1
    <3> QED
      BY <3>2, <3>3, <3>4, <3>5
  <2> QED
    BY <2>1, <2>2
<1> QED
  BY <1>2, <1>3, <1>4 DEF ReceiveStep

\* A task that ends, however it does, stays in the JoinSet until it is joined.
LEMMA TaskKeepsTracking ==
    ASSUME TrackingInv, NEW o \in Ops, TaskStep(o)
    PROVE  MapsAgree' /\ OperationLife'
<1>1. PICK end \in Completed : TaskEnds(o, end)
  BY DEF TaskStep, TaskFinishes, TaskPanics, TaskAborts, Completed
<1>2. JoinSet' = JoinSet /\ o \in JoinSet
  BY <1>1 DEF TaskEnds, TrackingInv, TypeOK, JoinSet, Completed
<1>3. MapsAgree'
  BY <1>1, <1>2 DEF TaskEnds, TrackingInv, MapsAgree
<1>4. OperationLife'
  BY <1>1, <1>2 DEF TaskEnds, TrackingInv, TypeOK, OperationLife, Completed
<1> QED
  BY <1>3, <1>4

\* Joining a task removes both of its entries, and answers it if it is tracked.
LEMMA JoinKeepsTracking ==
    ASSUME TrackingInv, NEW o \in Ops, Join(o)
    PROVE  MapsAgree' /\ OperationLife'
<1> USE NoneIsNeither DEF TrackingInv, TypeOK, MapsAgree, JoinSet, Completed
<1>1. /\ task[o] \in Completed /\ task' = [task EXCEPT ![o] = "joined"]
      /\ byTask' = [byTask EXCEPT ![o] = None]
      /\ byId' = [i \in Ids |-> IF i = byTask[o] THEN None ELSE byId[i]]
      /\ UNCHANGED <<kind, ids, phase>> /\ phase # "exited"
  BY DEF Join, JoinFinished, JoinFailed, Untrack
<1>2. \A p \in Ops : p # o => (p \in JoinSet' <=> p \in JoinSet)
  BY <1>1
<1>3. o \notin JoinSet' /\ o \in JoinSet
  BY <1>1
<1>4. \A p \in Ops, i \in Ids : byTask'[p] = i <=> byId'[i] = p
  BY <1>1
<1>5. MapsAgree'
  BY <1>1, <1>2, <1>3, <1>4
<1>6. kind[o] = "request" => byTask[o] # None
  BY <1>3
<1>7. \E a : reply' = [reply EXCEPT ![o] = a] /\ (kind[o] = "request" => a # "none")
  <2>1. CASE JoinFinished(o)
    <3>1. kind[o] = "request" => Answer(o) = "response"
      BY DEF Answer
    <3> QED
      BY <2>1, <3>1 DEF JoinFinished
  <2>2. CASE JoinFailed(o)
    BY <2>2, <1>6 DEF JoinFailed
  <2> QED
    BY <2>1, <2>2 DEF Join
<1>8. OperationLife'
  BY <1>1, <1>2, <1>7 DEF OperationLife
<1> QED
  BY <1>5, <1>8

\* No step of the loop, of a task or of a caller breaks the tracking.
LEMMA TrackingInvNext == TrackingInv /\ [Next]_vars => TrackingInv'
<1> SUFFICES ASSUME TrackingInv, [Next]_vars PROVE MapsAgree' /\ OperationLife'
  BY TypeCorrectNext DEF TrackingInv
<1>1. ASSUME NEW o \in Ops, ReceiveStep(o) PROVE MapsAgree' /\ OperationLife'
  BY <1>1, ReceiveKeepsTracking
<1>2. ASSUME NEW o \in Ops, TaskStep(o) PROVE MapsAgree' /\ OperationLife'
  BY <1>2, TaskKeepsTracking
<1>3. ASSUME NEW o \in Ops, Join(o) PROVE MapsAgree' /\ OperationLife'
  BY <1>3, JoinKeepsTracking
<1> USE DEF TrackingInv, MapsAgree, OperationLife, JoinSet, opVars
<1>4. ASSUME NEW i \in Ids, SendCancel(i) PROVE MapsAgree' /\ OperationLife'
  BY <1>4 DEF SendCancel
<1>5. CASE HandleCancel
  BY <1>5 DEF HandleCancel
<1>6. CASE CancelToken
  BY <1>6 DEF CancelToken
<1>7. CASE BeginShutdown
  BY <1>7 DEF BeginShutdown
<1>8. CASE EndDrain
  BY <1>8 DEF EndDrain
<1>9. CASE GracefulTimeout
  BY <1>9 DEF GracefulTimeout
<1>10. CASE FinishShutdown
  BY <1>10 DEF FinishShutdown
<1>11. CASE LoopPanics
  BY <1>11, NoneIsNeither DEF LoopPanics, TypeOK, Completed
<1>12. CASE UNCHANGED vars
  BY <1>12 DEF vars
<1> QED
  BY <1>1, <1>2, <1>3, <1>4, <1>5, <1>6, <1>7, <1>8, <1>9, <1>10, <1>11, <1>12
     DEF Next, StopOnCancellation, StopOnPeerOrError

\* The maps by task and by request ID agree, and hold exactly the requests in
\* the JoinSet, after any number of reused IDs, failures and aborts.
THEOREM MapsAlwaysAgree == Spec => []MapsAgree
<1>1. TrackingInv => MapsAgree
  BY DEF TrackingInv
<1> QED
  BY <1>1, TrackingInvInit, TrackingInvNext, PTL DEF Spec

\* No two live requests share an ID.
THEOREM LiveRequestIdsAlwaysUnique == Spec => []LiveRequestIdsUnique
<1>1. TrackingInv => LiveRequestIdsUnique
  <2> SUFFICES ASSUME TrackingInv, NEW o \in JoinSet, NEW p \in JoinSet,
                      kind[o] = "request", kind[p] = "request", ids[o] = ids[p]
               PROVE  o = p
    BY DEF LiveRequestIdsUnique
  <2>1. o \in Ops /\ p \in Ops
    BY DEF JoinSet
  <2>2. byTask[o] # None /\ byTask[p] # None /\ byTask[o] \in Ids
    BY <2>1 DEF TrackingInv, TypeOK, MapsAgree
  <2>3. ids[o] = {byTask[o]} /\ ids[p] = {byTask[p]}
    BY <2>1, <2>2 DEF TrackingInv, MapsAgree
  <2>4. byTask[p] = byTask[o]
    BY <2>3
  <2>5. byId[byTask[o]] = o /\ byId[byTask[o]] = p
    BY <2>1, <2>2, <2>4 DEF TrackingInv, MapsAgree
  <2> QED
    BY <2>5
<1> QED
  BY <1>1, TrackingInvInit, TrackingInvNext, PTL DEF Spec

\* Every request is answered when it is over, and the loop exits with the
\* JoinSet and both maps empty.
THEOREM EveryRequestIsAnswered == Spec => []EveryRequestAnswered
<1>1. TrackingInv => EveryRequestAnswered
  <2> SUFFICES ASSUME TrackingInv PROVE EveryRequestAnswered
    OBVIOUS
  <2>1. \A o \in Ops : kind[o] = "request" =>
            (task[o] \in {"joined", "rejected"} <=> reply[o] # "none")
    BY DEF TrackingInv, OperationLife
  <2>2. phase = "exited" => JoinSet = {} /\ \A o \in Ops : byTask[o] = None
    BY DEF TrackingInv, OperationLife, MapsAgree
  <2>3. phase = "exited" => \A i \in Ids : byId[i] = None
    BY <2>2, NoneIsNeither DEF TrackingInv, TypeOK, MapsAgree
  <2> QED
    BY <2>1, <2>2, <2>3 DEF EveryRequestAnswered
<1> QED
  BY <1>1, TrackingInvInit, TrackingInvNext, PTL DEF Spec

\* An operation that was answered is over: no step answers it again or changes
\* what became of its task.
THEOREM OperationsAnsweredOnce == Spec => AnsweredOnce
<1>1. TrackingInv /\ [Next]_vars => [AnswersStay]_vars
  <2> SUFFICES ASSUME TrackingInv, [Next]_vars, ~UNCHANGED vars PROVE AnswersStay
    OBVIOUS
  <2> USE DEF TrackingInv, TypeOK, OperationLife, AnswersStay, opVars
  <2>1. ASSUME NEW o \in Ops, ReceiveStep(o) PROVE AnswersStay
    <3>1. reply[o] = "none" /\ phase = "running"
      BY <2>1 DEF ReceiveStep, ReceiveUnusable, ReceiveUntracked, ReceiveRequest
    <3>2. \A p \in Ops : p # o => reply'[p] = reply[p] /\ task'[p] = task[p]
      BY <2>1 DEF ReceiveStep, ReceiveUnusable, ReceiveUntracked, ReceiveRequest
    <3> QED
      BY <3>1, <3>2
  <2>2. ASSUME NEW o \in Ops, TaskStep(o) PROVE AnswersStay
    BY <2>2 DEF TaskStep, TaskFinishes, TaskPanics, TaskAborts, TaskEnds
  <2>3. ASSUME NEW o \in Ops, Join(o) PROVE AnswersStay
    <3>1. task[o] \in Completed /\ phase \notin {"exited", "crashed"}
      BY <2>3 DEF Join, JoinFinished, JoinFailed, Completed
    <3>2. \A p \in Ops : p # o => reply'[p] = reply[p] /\ task'[p] = task[p]
      BY <2>3 DEF Join, JoinFinished, JoinFailed
    <3> QED
      BY <3>1, <3>2 DEF Completed
  <2>4. CASE LoopPanics
    BY <2>4 DEF LoopPanics, JoinSet, Completed
  <2> QED
    BY <2>1, <2>2, <2>3, <2>4 DEF Next, SendCancel, HandleCancel, CancelToken, StopOnCancellation,
       StopOnPeerOrError, BeginShutdown, EndDrain, GracefulTimeout, FinishShutdown
<1> QED
  BY <1>1, TrackingInvInit, TrackingInvNext, PTL DEF Spec, AnsweredOnce

-----------------------------------------------------------------------------
\* The token is cancelled once the loop has begun to shut down, and tasks are
\* aborted only if a timeout is configured.
ShutdownInv ==
    /\ phase \in {"draining", "waiting", "aborting"} => token
    /\ phase = "aborting" => HasTimeout

\* A task is cut short only if a timeout is configured, and a request only after
\* its handler could see that it was cancelled.
THEOREM AbortsAreTheLastResort == Spec => AbortIsLastResort
<1>1. Init => ShutdownInv
  BY DEF Init, ShutdownInv
<1>2. ShutdownInv /\ [Next]_vars => ShutdownInv'
  <2> SUFFICES ASSUME ShutdownInv, [Next]_vars PROVE ShutdownInv'
    OBVIOUS
  <2>1. ASSUME UNCHANGED <<phase, token>> PROVE ShutdownInv'
    BY <2>1 DEF ShutdownInv
  <2>2. ASSUME NEW o \in Ops, ReceiveStep(o) \/ TaskStep(o) \/ Join(o) PROVE ShutdownInv'
    BY <2>1, <2>2 DEF ReceiveStep, ReceiveUnusable, ReceiveUntracked, ReceiveRequest, TaskStep,
       TaskFinishes, TaskPanics, TaskAborts, TaskEnds, Join
  <2>3. CASE CancelToken \/ BeginShutdown \/ EndDrain \/ GracefulTimeout \/ FinishShutdown
             \/ LoopPanics
    BY <2>3 DEF CancelToken, BeginShutdown, EndDrain, GracefulTimeout, FinishShutdown,
       LoopPanics, ShutdownInv
  <2>4. CASE HandleCancel \/ (\E i \in Ids : SendCancel(i)) \/ UNCHANGED vars
    BY <2>1, <2>4 DEF HandleCancel, SendCancel, vars
  <2> QED
    BY <2>2, <2>3, <2>4 DEF Next, StopOnCancellation, StopOnPeerOrError
<1>3. TypeOK /\ ShutdownInv /\ [Next]_vars => [AbortsAreJustified]_vars
  <2> SUFFICES ASSUME TypeOK, ShutdownInv, Next, NEW o \in Ops,
                      task[o] # "aborted", task'[o] = "aborted"
               PROVE  /\ token /\ HasTimeout
                      /\ kind[o] = "request" => SeesCancellation(o)
    BY DEF AbortsAreJustified, vars
  <2> USE DEF TypeOK, Completed, opVars
  <2>1. ~\E p \in Ops : ReceiveStep(p) \/ TaskFinishes(p) \/ TaskPanics(p) \/ Join(p)
    <3>1. \A p \in Ops : ~ReceiveStep(p)
      BY DEF ReceiveStep, ReceiveUnusable, ReceiveUntracked, ReceiveRequest
    <3>2. \A p \in Ops : ~TaskFinishes(p) /\ ~TaskPanics(p)
      BY DEF TaskFinishes, TaskPanics, TaskEnds
    <3>3. \A p \in Ops : ~Join(p)
      BY DEF Join, JoinFinished, JoinFailed
    <3> QED
      BY <3>1, <3>2, <3>3
  <2>2. ~LoopPanics
    BY DEF LoopPanics
  <2>3. \E p \in Ops : TaskAborts(p)
    BY <2>1, <2>2 DEF Next, TaskStep, SendCancel, HandleCancel, CancelToken, StopOnCancellation,
       StopOnPeerOrError, BeginShutdown, EndDrain, GracefulTimeout, FinishShutdown
  <2> QED
    BY <2>3 DEF TaskAborts, ShutdownInv, SeesCancellation
<1> QED
  BY <1>1, <1>2, <1>3, TypeCorrectInit, TypeCorrectNext, PTL DEF Spec, AbortIsLastResort

-----------------------------------------------------------------------------
\* A task that ran to its end keeps its result until the loop joins it and sends
\* it.  Only a panic of the loop comes between: neither the graceful deadline nor
\* an abort that races with the end of the task replaces or loses the answer.
ResultsAreKept ==
    \A o \in Ops : task[o] = "finished" =>
        \/ task'[o] = "finished" /\ reply'[o] = reply[o]
        \/ task'[o] = "joined" /\ reply'[o] = Answer(o)
        \/ task'[o] = "discarded" /\ phase' = "crashed"

\* No step loses or changes the result of a finished task: the safety that
\* FinishedWorkIsSent, which the runs check under fairness, rests on.
THEOREM FinishedResultsAreKept == Spec => [][ResultsAreKept]_vars
<1>1. TypeOK /\ OperationLife /\ [Next]_vars => [ResultsAreKept]_vars
  <2> SUFFICES ASSUME TypeOK, OperationLife, Next, NEW o \in Ops, task[o] = "finished"
               PROVE  \/ task'[o] = "finished" /\ reply'[o] = reply[o]
                      \/ task'[o] = "joined" /\ reply'[o] = Answer(o)
                      \/ task'[o] = "discarded" /\ phase' = "crashed"
    BY DEF ResultsAreKept, vars
  <2> USE DEF TypeOK, opVars
  <2>1. ASSUME NEW p \in Ops, ReceiveStep(p) PROVE task'[o] = "finished" /\ reply'[o] = reply[o]
    <3>1. kind[p] = "none" /\ task[p] = "none"
      BY <2>1 DEF ReceiveStep, ReceiveUnusable, ReceiveUntracked, ReceiveRequest, OperationLife
    <3> QED
      BY <2>1, <3>1 DEF ReceiveStep, ReceiveUnusable, ReceiveUntracked, ReceiveRequest
  <2>2. ASSUME NEW p \in Ops, TaskStep(p) PROVE task'[o] = "finished" /\ reply'[o] = reply[o]
    BY <2>2 DEF TaskStep, TaskFinishes, TaskPanics, TaskAborts, TaskEnds
  <2>3. ASSUME NEW p \in Ops, Join(p)
        PROVE  \/ task'[o] = "finished" /\ reply'[o] = reply[o]
               \/ task'[o] = "joined" /\ reply'[o] = Answer(o)
    BY <2>3 DEF Join, JoinFinished, JoinFailed
  <2>4. CASE LoopPanics
    BY <2>4 DEF LoopPanics, JoinSet, Completed
  <2>5. CASE (\E i \in Ids : SendCancel(i)) \/ HandleCancel \/ CancelToken \/ BeginShutdown
             \/ EndDrain \/ GracefulTimeout \/ FinishShutdown
    BY <2>5 DEF SendCancel, HandleCancel, CancelToken, BeginShutdown, EndDrain, GracefulTimeout,
       FinishShutdown
  <2> QED
    BY <2>1, <2>2, <2>3, <2>4, <2>5 DEF Next, StopOnCancellation, StopOnPeerOrError
<1>2. TrackingInv => OperationLife
  BY DEF TrackingInv
<1> QED
  BY <1>1, <1>2, TrackingInvInit, TrackingInvNext, PTL DEF Spec, TrackingInv

-----------------------------------------------------------------------------
\* Every step of the inbound half is a step of LoopContract or changes nothing
\* the contract speaks of; the last tasks are joined before the loop exits.
THEOREM LoopContractIsKept == Spec => KeepsLoopContract
<1>1. Init => Contract!Init
  BY DEF Init, Running, Contract!Init
<1>2. TypeOK /\ [Next]_vars => [Contract!Next]_(Contract!vars)
  <2> SUFFICES ASSUME TypeOK, [Next]_vars PROVE [Contract!Next]_(Contract!vars)
    OBVIOUS
  <2> USE DEF TypeOK, opVars
  <2>1. ASSUME NEW o \in Ops, ReceiveStep(o) PROVE [Contract!Next]_(Contract!vars)
    <3>1. phase = "running" /\ UNCHANGED <<phase, token>>
      BY <2>1 DEF ReceiveStep, ReceiveUnusable, ReceiveUntracked, ReceiveRequest
    <3>2. task'[o] \in {"running", "rejected"} /\ \A p \in Ops \ {o} : task'[p] = task[p]
      BY <2>1 DEF ReceiveStep, ReceiveUnusable, ReceiveUntracked, ReceiveRequest
    <3>3. CASE task'[o] = "rejected"
      <4>1. Running' = Running \ {o}
        BY <3>2, <3>3 DEF Running
      <4>2. Contract!End("this", {o})
        BY <3>1, <4>1 DEF Contract!End
      <4> QED
        BY <4>2 DEF Contract!Next
    <3>4. CASE task'[o] = "running"
      <4>1. Running' = Running \cup {o}
        BY <3>2, <3>4 DEF Running
      <4>2. Contract!Begin("this", o)
        BY <3>1, <4>1 DEF Contract!Begin
      <4> QED
        BY <4>2 DEF Contract!Next
    <3> QED
      BY <3>2, <3>3, <3>4
  <2>2. ASSUME NEW o \in Ops, TaskStep(o) PROVE [Contract!Next]_(Contract!vars)
    <3>1. UNCHANGED <<phase, token>> /\ Running' = Running \ {o}
      BY <2>2 DEF Running, TaskStep, TaskFinishes, TaskPanics, TaskAborts, TaskEnds
    <3>2. Contract!End("this", {o})
      BY <3>1 DEF Contract!End
    <3> QED
      BY <3>2 DEF Contract!Next
  <2>3. ASSUME NEW o \in Ops, Join(o) PROVE UNCHANGED Contract!vars
    BY <2>3 DEF Running, Join, JoinFinished, JoinFailed, Contract!vars
  <2>4. CASE CancelToken
    BY <2>4 DEF Running, CancelToken, Contract!Next, Contract!Signal
  <2>5. CASE BeginShutdown
    BY <2>5 DEF Running, BeginShutdown, Contract!Next, Contract!Stop, Contract!Moves
  <2>6. CASE FinishShutdown
    BY <2>6 DEF Running, FinishShutdown, JoinSet, Completed, Contract!Next, Contract!Close, Contract!Moves
  <2>7. CASE LoopPanics
    <3>1. Running' = {} /\ Running \ Ops = {}
      BY <2>7 DEF Running, LoopPanics, JoinSet
    <3>2. Contract!Crash("this")
      BY <2>7, <3>1 DEF LoopPanics, Contract!Crash, Contract!Moves
    <3> QED
      BY <3>2 DEF Contract!Next
  <2>8. CASE (\E i \in Ids : SendCancel(i)) \/ HandleCancel \/ EndDrain \/ GracefulTimeout
             \/ UNCHANGED vars
    BY <2>8 DEF Running, SendCancel, HandleCancel, EndDrain, GracefulTimeout, vars, Contract!vars
  <2> QED
    BY <2>1, <2>2, <2>3, <2>4, <2>5, <2>6, <2>7, <2>8
       DEF Next, StopOnCancellation, StopOnPeerOrError
<1> QED
  BY <1>1, <1>2, TypeCorrectInit, TypeCorrectNext, PTL
     DEF Spec, KeepsLoopContract, Contract!Spec
=============================================================================
