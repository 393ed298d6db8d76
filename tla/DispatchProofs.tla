---------------------------- MODULE DispatchProofs ----------------------------
(***************************************************************************)
(* Proofs about Dispatch, for any messages, batches and handlers.          *)
(***************************************************************************)
EXTENDS Dispatch, TLAPS

(***************************************************************************)
(* The inductive invariant: a message that is over has parts that are all  *)
(* over, which is what makes its reply whole when the loop joins its task. *)
(***************************************************************************)
EndedTasksHaveEndedParts ==
    \A m \in Messages : task[m] \in {"finished", "answered"} =>
        \A p \in PartsOf(m) : stage[p] = "over"

DispatchInv == TypeOK /\ RepliesFollowIds /\ EndedTasksHaveEndedParts /\ AnswersAreWhole

\* Concluding a part keeps the types and the invariant, whatever the outcome.
LEMMA ConcludeKeepsInv ==
    ASSUME DispatchInv, NEW p \in Parts, NEW outcome \in Replies,
           stage[p] # "over", Conclude(p, outcome)
    PROVE  DispatchInv'
<1> USE PartsAssumption DEF DispatchInv
<1>1. TypeOK'
    BY DEF TypeOK, Conclude, Replies, Failures
<1>2. RepliesFollowIds'
  <2> SUFFICES ASSUME NEW q \in Parts
               PROVE  (reply[q] # "none" <=> stage[q] = "over" /\ q \notin Notifications)'
      BY DEF RepliesFollowIds
  <2>1. CASE q = p
      BY <2>1 DEF Conclude, TypeOK, Replies, Failures, Notifications
  <2>2. CASE q # p
      BY <2>2 DEF Conclude, TypeOK, RepliesFollowIds, Notifications
  <2> QED BY <2>1, <2>2
<1>3. EndedTasksHaveEndedParts'
    BY DEF EndedTasksHaveEndedParts, Conclude, TypeOK, PartsOf
<1>4. AnswersAreWhole'
    BY DEF AnswersAreWhole, Conclude
<1> QED BY <1>1, <1>2, <1>3, <1>4

LEMMA InitEstablishesInv == Init => DispatchInv
BY PartsAssumption
   DEF Init, DispatchInv, TypeOK, RepliesFollowIds, EndedTasksHaveEndedParts, AnswersAreWhole,
       Notifications, Answerable, PartsOf

\* No step of a part or of a task breaks the invariant.
LEMMA StepKeepsInv == DispatchInv /\ [Next]_vars => DispatchInv'
<1> SUFFICES ASSUME DispatchInv, [Next]_vars
             PROVE  DispatchInv'
    OBVIOUS
<1> USE PartsAssumption
<1>1. ASSUME NEW name \in Names, Register(name)
      PROVE  DispatchInv'
    BY <1>1 DEF Register, DispatchInv, TypeOK, RepliesFollowIds, EndedTasksHaveEndedParts,
                AnswersAreWhole
<1>2. ASSUME NEW p \in Parts, PartStep(p)
      PROVE  DispatchInv'
  <2>1. ASSUME NEW outcome \in Replies, stage[p] # "over", Conclude(p, outcome)
        PROVE  DispatchInv'
      BY <2>1, ConcludeKeepsInv
  <2>2. ASSUME NEW s \in {"handling", "fallback"}, Alive(p), stage[p] = "new",
               stage' = [stage EXCEPT ![p] = s],
               UNCHANGED <<handlers, task, reply, sent>>
        PROVE  DispatchInv'
      BY <2>2 DEF Alive, DispatchInv, TypeOK, RepliesFollowIds, EndedTasksHaveEndedParts,
                  AnswersAreWhole, PartsOf
  <2>3. CASE Route(p)
      BY <2>1, <2>2, <2>3 DEF Route, Replies, Failures
  <2>4. CASE RefuseInvalid(p) \/ Reject(p) \/ Return(p) \/ Panic(p)
      BY <2>1, <2>4 DEF RefuseInvalid, Reject, Return, Panic, Replies, Failures
  <2> QED BY <1>2, <2>3, <2>4 DEF PartStep
<1>3. ASSUME NEW m \in Messages, MessageStep(m)
      PROVE  DispatchInv'
  <2> USE DEF DispatchInv
  <2>1. CASE Spawn(m) \/ Finish(m) \/ Abort(m)
      BY <2>1 DEF Spawn, Finish, Abort, TypeOK, RepliesFollowIds, EndedTasksHaveEndedParts,
                  AnswersAreWhole
  <2>2. CASE JoinFinished(m)
    <3>1. TypeOK' /\ RepliesFollowIds' /\ EndedTasksHaveEndedParts'
        BY <2>2 DEF JoinFinished, TypeOK, RepliesFollowIds, EndedTasksHaveEndedParts, PartsOf
    <3>2. {p \in PartsOf(m) : reply[p] # "none"} = Answerable(m)
        BY <2>2 DEF JoinFinished, RepliesFollowIds, EndedTasksHaveEndedParts, Answerable, PartsOf
    <3>3. AnswersAreWhole'
        BY <2>2, <3>2 DEF JoinFinished, TypeOK, AnswersAreWhole
    <3> QED BY <3>1, <3>3
  <2>3. CASE JoinAborted(m)
      BY <2>3 DEF JoinAborted, TypeOK, RepliesFollowIds, EndedTasksHaveEndedParts,
                  AnswersAreWhole, PartsOf
  <2> QED BY <1>3, <2>1, <2>2, <2>3 DEF MessageStep
<1>4. CASE UNCHANGED vars
    BY <1>4 DEF vars, DispatchInv, TypeOK, RepliesFollowIds, EndedTasksHaveEndedParts,
                AnswersAreWhole
<1> QED BY <1>1, <1>2, <1>3, <1>4 DEF Next

\* The inductive invariant holds throughout.
THEOREM DispatchInvAlways == Spec => []DispatchInv
BY InitEstablishesInv, StepKeepsInv, PTL DEF Spec

\* The state stays well formed.
THEOREM TypeCorrect == Spec => []TypeOK
BY DispatchInvAlways, PTL DEF DispatchInv

\* Whatever a handler does, a part has a response exactly if it has an ID.
THEOREM RepliesAlwaysFollowIds == Spec => []RepliesFollowIds
BY DispatchInvAlways, PTL DEF DispatchInv

\* A message is answered once and whole, or was aborted.
THEOREM AnswersAreAlwaysWhole == Spec => []AnswersAreWhole
BY DispatchInvAlways, PTL DEF DispatchInv

\* Parts end once, and how one ends disturbs no other and not the task.
THEOREM PanicsStayContained == Spec => PanicsAreContained
<1>1. DispatchInv /\ [Next]_vars => [PartsAreIsolated]_vars
  <2> SUFFICES ASSUME DispatchInv, Next
               PROVE  PartsAreIsolated
      BY DEF vars
  <2> SUFFICES ASSUME NEW p \in Parts, stage[p] # stage'[p]
               PROVE  /\ stage[p] # "over" /\ task' = task
                      /\ \A q \in Parts \ {p} : stage'[q] = stage[q] /\ reply'[q] = reply[q]
      BY DEF PartsAreIsolated
  <2>1. PICK q \in Parts : PartStep(q)
      BY DEF Next, Register, MessageStep, Spawn, Finish, Abort, JoinFinished, JoinAborted
  <2>2. /\ stage[q] # "over" /\ task' = task
        /\ \A r \in Parts \ {q} : stage'[r] = stage[r] /\ reply'[r] = reply[r]
      BY <2>1 DEF PartStep, Route, RefuseInvalid, Reject, Return, Panic, Conclude,
                  DispatchInv, TypeOK
  <2>3. q = p
      BY <2>2
  <2> QED BY <2>2, <2>3
<1> QED BY <1>1, DispatchInvAlways, PTL DEF Spec, PanicsAreContained
=============================================================================
