-------------------------- MODULE InboundOperations --------------------------
(***************************************************************************)
(* The inbound half of one connection: what the peer sends that needs a    *)
(* task of its own, the JoinSet and the two maps that track these tasks,   *)
(* cancellation of a request by ID, and the graceful wait, the timeout and *)
(* the abort of the loop's shutdown (service/connection.rs).               *)
(*                                                                         *)
(* An operation is one inbound message and the task spawned for it.  Its   *)
(* ID stands for the tokio task ID.  The results of handlers, and whether  *)
(* an answer handed to the transport gets through (every such send ignores *)
(* its error), are left out: "reply" is the answer the loop tries to send. *)
(* A panic of a handler is caught by the router and is an answer like any  *)
(* other; TaskPanics is one that escapes it.                               *)
(***************************************************************************)
EXTENDS Naturals, Sequences

CONSTANTS
    Ops,            \* inbound messages that need a task, in any order
    Ids,            \* request IDs the peer uses, and may use again
    None,
    HasTimeout,     \* graceful_connection_shutdown_timeout is set
    CommandBound    \* CONNECTION_CHANNEL_BOUNDS

ASSUME NoneIsNeither == None \notin Ops \cup Ids

ASSUME InboundConfig == HasTimeout \in BOOLEAN /\ CommandBound \in Nat \ {0}

VARIABLES
    kind,       \* what each operation's message is
    ids,        \* the request IDs its answer is for
    task,       \* the life of its task
    byTask,     \* pending_inbound_operations_by_task_id, to the request's ID
    byId,       \* pending_inbound_operations_by_request_id, to the task
    signalled,  \* operations whose own cancellation token is cancelled
    reply,      \* the answer the loop has given
    commands,   \* the commands channel: IDs whose request is to be cancelled
    phase,      \* where the event loop is
    token       \* the connection's cancellation token is cancelled

opVars == <<kind, ids, task, byTask, byId, signalled, reply>>
vars == <<kind, ids, task, byTask, byId, signalled, reply, commands, phase, token>>

Kinds == {"request", "notification", "invalid", "batch", "unusable"}

Completed == {"finished", "panicked", "aborted"}

TypeOK ==
    /\ kind \in [Ops -> {"none"} \cup Kinds]
    /\ ids \in [Ops -> SUBSET Ids]
    /\ task \in [Ops -> {"none", "running", "joined", "rejected", "discarded"} \cup Completed]
    /\ byTask \in [Ops -> Ids \cup {None}]
    /\ byId \in [Ids -> Ops \cup {None}]
    /\ signalled \subseteq Ops
    /\ reply \in [Ops -> {"none", "response", "batch", "internalError", "nullIdError"}]
    /\ commands \in Seq(Ids) /\ Len(commands) <= CommandBound
    /\ phase \in {"running", "draining", "waiting", "aborting", "exited", "crashed"}
    /\ token \in BOOLEAN

Init ==
    /\ kind = [o \in Ops |-> "none"]
    /\ ids = [o \in Ops |-> {}]
    /\ task = [o \in Ops |-> "none"]
    /\ byTask = [o \in Ops |-> None]
    /\ byId = [i \in Ids |-> None]
    /\ signalled = {}
    /\ reply = [o \in Ops |-> "none"]
    /\ commands = <<>>
    /\ phase = "running" /\ token = FALSE

\* The JoinSet: tasks spawned and not yet joined.
JoinSet == {o \in Ops : task[o] \in {"running"} \cup Completed}

MutSeesCancellation(o) == kind[o] = "request" /\ o \in signalled

\* Only a single request is given a child of the connection's token; the rest
\* run under a token of their own that nothing cancels.
SeesCancellation(o) == kind[o] = "request" /\ (token \/ o \in signalled)

Answer(o) ==
    CASE kind[o] \in {"request", "invalid"} -> "response"
      [] kind[o] = "batch" /\ ids[o] # {} -> "batch"
      [] OTHER -> "none"

-----------------------------------------------------------------------------
(* Inbound messages.                                                       *)

\* A message that cannot be parsed, or an empty batch: an error with a null ID.
ReceiveUnusable(o) ==
    /\ phase = "running" /\ kind[o] = "none"
    /\ kind' = [kind EXCEPT ![o] = "unusable"]
    /\ task' = [task EXCEPT ![o] = "rejected"]
    /\ reply' = [reply EXCEPT ![o] = "nullIdError"]
    /\ UNCHANGED <<ids, byTask, byId, signalled, commands, phase, token>>

\* A notification, an invalid request with its ID, or the part of a batch that
\* is not responses, with the IDs of its requests and invalid requests.
ReceiveUntracked(o) ==
    /\ phase = "running" /\ kind[o] = "none"
    /\ \E k \in {"notification", "invalid", "batch"}, S \in SUBSET Ids :
        /\ k = "notification" => S = {}
        /\ k = "invalid" => \E i \in Ids : S = {i}
        /\ kind' = [kind EXCEPT ![o] = k]
        /\ ids' = [ids EXCEPT ![o] = S]
    /\ task' = [task EXCEPT ![o] = "running"]
    /\ UNCHANGED <<byTask, byId, signalled, reply, commands, phase, token>>

MutReceiveRequest(o, i) ==
    /\ phase = "running" /\ kind[o] = "none"
    /\ kind' = [kind EXCEPT ![o] = "request"]
    /\ ids' = [ids EXCEPT ![o] = {i}]
    /\ task' = [task EXCEPT ![o] = "running"]
    /\ byTask' = [byTask EXCEPT ![o] = i]
    /\ byId' = [byId EXCEPT ![i] = o]
    /\ UNCHANGED <<signalled, reply, commands, phase, token>>

MutRejectAndSpawn(o, i) ==
    /\ phase = "running" /\ kind[o] = "none"
    /\ kind' = [kind EXCEPT ![o] = "request"]
    /\ ids' = [ids EXCEPT ![o] = {i}]
    /\ reply' = IF byId[i] # None THEN [reply EXCEPT ![o] = "nullIdError"] ELSE reply
    /\ task' = [task EXCEPT ![o] = "running"]
    /\ byTask' = [byTask EXCEPT ![o] = i]
    /\ byId' = [byId EXCEPT ![i] = o]
    /\ UNCHANGED <<signalled, commands, phase, token>>

\* A single request is tracked by task and by ID, unless its ID is in use: then
\* no task is spawned and the error goes out with a null ID.
ReceiveRequest(o, i) ==
    /\ phase = "running" /\ kind[o] = "none"
    /\ kind' = [kind EXCEPT ![o] = "request"]
    /\ ids' = [ids EXCEPT ![o] = {i}]
    /\ \/ /\ byId[i] # None
          /\ task' = [task EXCEPT ![o] = "rejected"]
          /\ reply' = [reply EXCEPT ![o] = "nullIdError"]
          /\ UNCHANGED <<byTask, byId>>
       \/ /\ byId[i] = None
          /\ task' = [task EXCEPT ![o] = "running"]
          /\ byTask' = [byTask EXCEPT ![o] = i]
          /\ byId' = [byId EXCEPT ![i] = o]
          /\ UNCHANGED reply
    /\ UNCHANGED <<signalled, commands, phase, token>>

-----------------------------------------------------------------------------
(* The tasks.                                                              *)

TaskEnds(o, end) ==
    /\ task[o] = "running"
    /\ task' = [task EXCEPT ![o] = end]
    /\ UNCHANGED <<kind, ids, byTask, byId, signalled, reply, commands, phase, token>>

TaskFinishes(o) == TaskEnds(o, "finished")

TaskPanics(o) == TaskEnds(o, "panicked")

\* After abort_all: a task may still finish before the abort reaches it.
TaskAborts(o) == phase = "aborting" /\ TaskEnds(o, "aborted")

-----------------------------------------------------------------------------
(* The event loop.                                                         *)

\* cancel_server_request finds room in the command channel.
SendCancel(i) ==
    /\ phase = "running" /\ Len(commands) < CommandBound
    /\ commands' = Append(commands, i)
    /\ UNCHANGED <<opVars, phase, token>>

MutHandleCancel ==
    /\ phase = "running" /\ commands # <<>>
    /\ commands' = Tail(commands)
    /\ UNCHANGED <<opVars, phase, token>>

\* CancelPendingInboundRequest signals whatever request is pending by that ID.
HandleCancel ==
    /\ phase = "running" /\ commands # <<>>
    /\ commands' = Tail(commands)
    /\ signalled' = signalled \cup ({byId[Head(commands)]} \ {None})
    /\ UNCHANGED <<kind, ids, task, byTask, byId, reply, phase, token>>

MutUntrack(o) ==
    /\ byTask' = [byTask EXCEPT ![o] = None]
    /\ UNCHANGED byId

Untrack(o) ==
    /\ byTask' = [byTask EXCEPT ![o] = None]
    /\ byId' = [i \in Ids |-> IF i = byTask[o] THEN None ELSE byId[i]]

MutJoinFailed(o) ==
    /\ task[o] \in {"panicked", "aborted"}
    /\ Untrack(o)
    /\ task' = [task EXCEPT ![o] = "joined"]
    /\ UNCHANGED reply

\* handle_pending_operation_completion on an Ok: the answer, if any, is sent.
JoinFinished(o) ==
    /\ task[o] = "finished"
    /\ Untrack(o)
    /\ task' = [task EXCEPT ![o] = "joined"]
    /\ reply' = [reply EXCEPT ![o] = Answer(o)]

\* ... and on a JoinError: only a tracked request is answered, with an error.
JoinFailed(o) ==
    /\ task[o] \in {"panicked", "aborted"}
    /\ Untrack(o)
    /\ task' = [task EXCEPT ![o] = "joined"]
    /\ reply' = [reply EXCEPT ![o] = IF byTask[o] # None THEN "internalError" ELSE "none"]

\* join_next_with_id, in the select!, in the graceful wait and after the abort.
Join(o) ==
    /\ phase \in {"running", "waiting", "aborting"}
    /\ JoinFinished(o) \/ JoinFailed(o)
    /\ UNCHANGED <<kind, ids, signalled, commands, phase, token>>

CancelToken ==
    /\ ~token /\ token' = TRUE
    /\ UNCHANGED <<opVars, commands, phase>>

\* The loop breaks for some reason; the command channel closes and the token,
\* hence every child token, is cancelled.
BeginShutdown ==
    /\ phase = "running" /\ phase' = "draining"
    /\ token' = TRUE
    /\ UNCHANGED <<opVars, commands>>

StopOnCancellation == token /\ BeginShutdown

StopOnPeerOrError == BeginShutdown

\* Queued commands are ignored and the outbound queue is drained.
EndDrain ==
    /\ phase = "draining" /\ phase' = "waiting"
    /\ commands' = <<>>
    /\ UNCHANGED <<opVars, token>>

MutGracefulTimeout ==
    /\ phase = "waiting" /\ HasTimeout
    /\ \E o \in JoinSet : task[o] # "running"
    /\ phase' = "aborting"
    /\ UNCHANGED <<opVars, commands, token>>

\* timeout_at looks at the deadline only when no completed task is at hand.
GracefulTimeout ==
    /\ phase = "waiting" /\ HasTimeout
    /\ JoinSet # {} /\ \A o \in JoinSet : task[o] = "running"
    /\ phase' = "aborting"
    /\ UNCHANGED <<opVars, commands, token>>

MutFinishShutdown ==
    /\ phase = "aborting" \/ (phase = "waiting" /\ JoinSet = {})
    /\ phase' = "exited"
    /\ UNCHANGED <<opVars, commands, token>>

FinishShutdown ==
    /\ phase \in {"waiting", "aborting"} /\ JoinSet = {}
    /\ phase' = "exited"
    /\ UNCHANGED <<opVars, commands, token>>

\* A panic of the custom event loop drops the JoinSet, which aborts its tasks,
\* and the maps with it.
LoopPanics ==
    /\ phase = "running" /\ phase' = "crashed"
    /\ task' = [o \in Ops |-> IF o \in JoinSet THEN "discarded" ELSE task[o]]
    /\ byTask' = [o \in Ops |-> None] /\ byId' = [i \in Ids |-> None]
    /\ commands' = <<>>
    /\ UNCHANGED <<kind, ids, signalled, reply, token>>

-----------------------------------------------------------------------------
ReceiveStep(o) ==
    ReceiveUnusable(o) \/ ReceiveUntracked(o) \/ \E i \in Ids : ReceiveRequest(o, i)

TaskStep(o) == TaskFinishes(o) \/ TaskPanics(o) \/ TaskAborts(o)

Next ==
    \/ \E o \in Ops : ReceiveStep(o) \/ TaskStep(o) \/ Join(o)
    \/ \E i \in Ids : SendCancel(i)
    \/ HandleCancel
    \/ CancelToken
    \/ StopOnCancellation
    \/ StopOnPeerOrError
    \/ EndDrain
    \/ GracefulTimeout
    \/ FinishShutdown
    \/ LoopPanics

(***************************************************************************)
(* Fairness: the loop is polled, select! starves no arm, the timer fires,  *)
(* and an aborted task stops at its next await.  A handler need never      *)
(* finish, whether or not it sees its token.                               *)
(***************************************************************************)
Fairness ==
    /\ WF_vars(HandleCancel) /\ WF_vars(StopOnCancellation) /\ WF_vars(EndDrain)
    /\ WF_vars(GracefulTimeout) /\ WF_vars(FinishShutdown)
    /\ \A o \in Ops : WF_vars(Join(o)) /\ WF_vars(TaskAborts(o))

Spec == Init /\ [][Next]_vars

FairSpec == Spec /\ Fairness

-----------------------------------------------------------------------------
(* Properties.                                                             *)

\* The two maps hold the same requests, exactly the single requests in the
\* JoinSet: no completion, however its task ended, leaves half an entry behind,
\* and an ID that comes back finds no trace of its last use.
MapsAgree ==
    /\ \A o \in Ops, i \in Ids : byTask[o] = i <=> byId[i] = o
    /\ \A o \in Ops : byTask[o] # None <=> (kind[o] = "request" /\ o \in JoinSet)
    /\ \A o \in Ops : byTask[o] # None => ids[o] = {byTask[o]}

\* Two requests that are being handled never share an ID, so an answer cannot
\* be taken for another's.
LiveRequestIdsUnique ==
    \A o, p \in JoinSet :
        (o # p /\ kind[o] = "request" /\ kind[p] = "request") => ids[o] # ids[p]

\* Every single request is answered once it is over: by its result, by an error
\* if its task failed or was aborted, or by the rejection of its ID.  When the
\* loop has exited nothing is left in the JoinSet or, as the code asserts
\* there, in the maps.
EveryRequestAnswered ==
    /\ \A o \in Ops : kind[o] = "request" =>
           (task[o] \in {"joined", "rejected"} <=> reply[o] # "none")
    /\ phase = "exited" =>
           /\ JoinSet = {}
           /\ \A o \in Ops : byTask[o] = None
           /\ \A i \in Ids : byId[i] = None

\* An operation is answered once, and what it was asked never changes; nothing
\* is answered by a loop that has exited.
AnswersStay ==
    \A o \in Ops :
        /\ reply[o] # "none" => reply'[o] = reply[o] /\ task'[o] = task[o]
        /\ phase \in {"exited", "crashed"} => reply'[o] = reply[o]

AnsweredOnce == [][AnswersStay]_vars

\* Apart from a panic of the loop, a task is cut short only if a timeout is
\* configured, and a request only after its handler could see that it was
\* cancelled.
AbortsAreJustified ==
    \A o \in Ops :
        (task[o] # "aborted" /\ task'[o] = "aborted") =>
            /\ token /\ HasTimeout
            /\ kind[o] = "request" => SeesCancellation(o)

AbortIsLastResort == [][AbortsAreJustified]_vars

Running == {o \in Ops : task[o] = "running"}

Contract == INSTANCE LoopContract WITH
    Conns <- {"this"},
    Handlers <- Ops,
    state <- [c \in {"this"} |->
        IF phase = "running" THEN "serving"
        ELSE IF phase \in {"exited", "crashed"} THEN "closed" ELSE "closing"],
    cancelled <- IF token THEN {"this"} ELSE {},
    running <- [c \in {"this"} |-> Running]

\* The loop keeps the contract on which the owners of a connection rely: it
\* starts no task once it stops serving, and is over, unless it panicked, only
\* when the last one has ended.
KeepsLoopContract == Contract!Spec

\* The result of a task that ran to its end is sent even if it ends as the
\* connection shuts down, or as the graceful timeout runs out.
FinishedWorkIsSent ==
    \A o \in Ops : task[o] = "finished" ~> task[o] \in {"joined", "discarded"}

\* With a timeout configured, no handler can keep the connection from closing.
ShutdownCompletes == token ~> phase \in {"exited", "crashed"}

\* cancel_server_request reaches the handler of the request, if it still runs.
CancelReachesHandler ==
    \A o \in Ops, i \in Ids :
        (byId[i] = o /\ \E n \in DOMAIN commands : commands[n] = i)
            ~> (SeesCancellation(o) \/ o \notin JoinSet)

\* "All per-request cancellation tokens are children of the connection
\* cancellation token" (event_loop): shutdown signals every running request,
\* including those that came in a batch.
ShutdownSignalsEveryRequest ==
    phase = "waiting" =>
        \A o \in Ops : (task[o] = "running" /\ kind[o] \in {"request", "batch"} /\ ids[o] # {})
            => SeesCancellation(o)

\* "make sure that request ID isn't already in use by some pending operation"
\* (handle_inbound_message_async): no two pending operations that answer
\* requests share an ID, a batch counted as the requests it is made of. They may,
\* see MCInboundBatchIds.cfg.
PendingIdsUnique ==
    \A o, p \in JoinSet :
        (o # p /\ {kind[o], kind[p]} \subseteq {"request", "batch"})
            => ids[o] \cap ids[p] = {}
=============================================================================
