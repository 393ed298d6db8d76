------------------------------- MODULE Dispatch -------------------------------
(***************************************************************************)
(* What becomes of an inbound message between the spawn of its task and    *)
(* the reply the loop sends for it: routing, the extraction of arguments,  *)
(* the handler, the conversion of its result, the boundary that catches    *)
(* panics, and the joining of a batch (router.rs, handler.rs, and the task *)
(* in service/connection.rs).                                              *)
(*                                                                         *)
(* A part is one request, notification or invalid request; a message is    *)
(* one part, or a batch of them.  The parts of a batch are futures of one  *)
(* task and take turns whenever one of them awaits.  What a handler        *)
(* computes is left out: it may await for ever, return, or panic.          *)
(***************************************************************************)
EXTENDS Naturals

CONSTANTS
    Messages,
    Batches,        \* the messages that are batches
    Parts,
    MessageOf,      \* the message each part belongs to
    Calls,          \* parts with an ID and a method
    Invalid,        \* parts with an ID and nothing else that makes sense
    Names,          \* method names
    NameOf          \* the name each part invokes; an invalid one has any

Notifications == Parts \ (Calls \cup Invalid)

PartsOf(m) == {p \in Parts : MessageOf[p] = m}

Answerable(m) == PartsOf(m) \ Notifications

ASSUME PartsAssumption ==
    /\ Batches \subseteq Messages /\ MessageOf \in [Parts -> Messages]
    /\ Calls \cup Invalid \subseteq Parts /\ Calls \cap Invalid = {}
    /\ NameOf \in [Parts -> Names]

\* A message that is no batch has one part, and the one part of a batch is not
\* the part of anything else.
ASSUME SinglesAssumption ==
    \A p, q \in Parts : MessageOf[p] = MessageOf[q] /\ MessageOf[p] \notin Batches => p = q

VARIABLES
    handlers,  \* names with a registered handler
    task,      \* of each message
    stage,     \* of each part
    reply,     \* the response each part has produced
    sent       \* the parts the reply to each message answers

vars == <<handlers, task, stage, reply, sent>>

\* Rejected: an argument could not be extracted.  SerFailed: the result could
\* not be serialized.  Panicked: make_panic_error_response.
Failures == {"MethodNotFound", "Rejected", "SerFailed", "Panicked", "InvalidRequest"}

Replies == {"Result", "Error"} \cup Failures

TypeOK ==
    /\ handlers \subseteq Names
    /\ task \in [Messages -> {"unseen", "running", "finished", "aborted", "answered", "lost"}]
    /\ stage \in [Parts -> {"new", "handling", "fallback", "over"}]
    /\ reply \in [Parts -> {"none"} \cup Replies]
    /\ sent \in [Messages -> SUBSET Parts]

Init ==
    /\ handlers = {}
    /\ task = [m \in Messages |-> "unseen"]
    /\ stage = [p \in Parts |-> "new"]
    /\ reply = [p \in Parts |-> "none"]
    /\ sent = [m \in Messages |-> {}]

\* The future of a part is over.  Only a part with an ID has a response, also
\* when it panicked: catch_unwind_closure maps over the request's ID.
Conclude(p, outcome) ==
    /\ stage' = [stage EXCEPT ![p] = "over"]
    /\ reply' = [reply EXCEPT ![p] = IF p \in Notifications THEN "none" ELSE outcome]
    /\ UNCHANGED <<handlers, task, sent>>

-----------------------------------------------------------------------------
\* The router may be shared, and grow while it serves.
Register(name) ==
    /\ handlers' = handlers \cup {name}
    /\ UNCHANGED <<task, stage, reply, sent>>

\* handle_inbound_message_async spawns the task of a message.
Spawn(m) ==
    /\ task[m] = "unseen" /\ PartsOf(m) # {}
    /\ task' = [task EXCEPT ![m] = "running"]
    /\ UNCHANGED <<handlers, stage, reply, sent>>

Alive(p) == task[MessageOf[p]] = "running"

MutRoute(p) ==
    /\ Alive(p) /\ stage[p] = "new" /\ p \notin Invalid
    /\ NameOf[p] \in handlers
    /\ stage' = [stage EXCEPT ![p] = "handling"] /\ UNCHANGED <<handlers, task, reply, sent>>

\* The first poll of a part looks its handler up and enters it; the default
\* fallback handler answers at once.
Route(p) ==
    /\ Alive(p) /\ stage[p] = "new" /\ p \notin Invalid
    /\ IF NameOf[p] \in handlers
       THEN stage' = [stage EXCEPT ![p] = "handling"] /\ UNCHANGED <<handlers, task, reply, sent>>
       ELSE \/ Conclude(p, "MethodNotFound")
            \/ stage' = [stage EXCEPT ![p] = "fallback"] /\ UNCHANGED <<handlers, task, reply, sent>>

RefuseInvalid(p) ==
    /\ Alive(p) /\ stage[p] = "new" /\ p \in Invalid
    /\ Conclude(p, "InvalidRequest")

\* An argument cannot be extracted: the rejection is the response, and nobody
\* sees that of a notification.
Reject(p) ==
    /\ Alive(p) /\ stage[p] \in {"handling", "fallback"}
    /\ Conclude(p, "Rejected")

\* The handler returns and its result becomes a response; serializing it may
\* fail, which turns it into an error.
Return(p) ==
    /\ Alive(p) /\ stage[p] \in {"handling", "fallback"}
    /\ \E outcome \in {"Result", "Error", "SerFailed"} : Conclude(p, outcome)

MutPanic(p) ==
    /\ Alive(p) /\ stage[p] \in {"handling", "fallback"}
    /\ stage' = [stage EXCEPT ![p] = "over"]
    /\ task' = [task EXCEPT ![MessageOf[p]] = "aborted"]
    /\ UNCHANGED <<handlers, reply, sent>>

\* A panic in the handler, in an extractor, or while converting the result.
Panic(p) ==
    /\ Alive(p) /\ stage[p] \in {"handling", "fallback"}
    /\ Conclude(p, "Panicked")

MutFinish(m) ==
    /\ task[m] = "running" /\ \E p \in PartsOf(m) : stage[p] = "over"
    /\ task' = [task EXCEPT ![m] = "finished"]
    /\ UNCHANGED <<handlers, stage, reply, sent>>

\* join_all: the task ends when all its parts have.
Finish(m) ==
    /\ task[m] = "running" /\ \A p \in PartsOf(m) : stage[p] = "over"
    /\ task' = [task EXCEPT ![m] = "finished"]
    /\ UNCHANGED <<handlers, stage, reply, sent>>

\* abort_all, after the graceful timeout.
Abort(m) ==
    /\ task[m] = "running"
    /\ task' = [task EXCEPT ![m] = "aborted"]
    /\ UNCHANGED <<handlers, stage, reply, sent>>

\* The loop joins the task and sends what it produced; a reply to a batch that
\* has nothing in it is not sent.
JoinFinished(m) ==
    /\ task[m] = "finished"
    /\ task' = [task EXCEPT ![m] = "answered"]
    /\ sent' = [sent EXCEPT ![m] = {p \in PartsOf(m) : reply[p] # "none"}]
    /\ UNCHANGED <<handlers, stage, reply>>

\* A JoinError says which task it was; its maps know the ID of a single call,
\* and of nothing else.
JoinAborted(m) ==
    /\ task[m] = "aborted"
    /\ task' = [task EXCEPT ![m] = "lost"]
    /\ sent' = [sent EXCEPT ![m] = IF m \in Batches THEN {} ELSE PartsOf(m) \cap Calls]
    /\ UNCHANGED <<handlers, stage, reply>>

-----------------------------------------------------------------------------
PartStep(p) == Route(p) \/ RefuseInvalid(p) \/ Reject(p) \/ Return(p) \/ Panic(p)

MessageStep(m) == Spawn(m) \/ Finish(m) \/ Abort(m) \/ JoinFinished(m) \/ JoinAborted(m)

Next ==
    \/ \E name \in Names : Register(name)
    \/ \E p \in Parts : PartStep(p)
    \/ \E m \in Messages : MessageStep(m)

\* Tasks are scheduled and joined; handlers need not return.
Fairness ==
    /\ \A p \in Parts : WF_vars(Route(p) \/ RefuseInvalid(p))
    /\ \A m \in Messages : WF_vars(Finish(m)) /\ WF_vars(JoinFinished(m) \/ JoinAborted(m))

Spec == Init /\ [][Next]_vars

FairSpec == Spec /\ Fairness

-----------------------------------------------------------------------------
(* Properties.                                                             *)

\* A part that is over has a response exactly if it has an ID: whether it was
\* routed, rejected, run or panicked, and by the handler or the fallback.
RepliesFollowIds ==
    \A p \in Parts : reply[p] # "none" <=> stage[p] = "over" /\ p \notin Notifications

\* The peer is answered once, for all the parts of a message that have an ID or
\* for none of them; and for none only if the task was aborted and the loop did
\* not know whom to tell.
AnswersAreWhole ==
    \A m \in Messages :
        /\ task[m] \notin {"answered", "lost"} => sent[m] = {}
        /\ task[m] = "answered" => sent[m] = Answerable(m)
        /\ task[m] = "lost" => sent[m] = IF m \in Batches THEN {} ELSE PartsOf(m) \cap Calls

\* A part that is over cannot be undone or answered differently, and a panic of
\* one part leaves the others, and the task, as they are.
PartsAreIsolated ==
    \A p \in Parts : stage[p] # stage'[p] =>
        /\ stage[p] # "over" /\ task' = task
        /\ \A q \in Parts \ {p} : stage'[q] = stage[q] /\ reply'[q] = reply[q]

PanicsAreContained == [][PartsAreIsolated]_vars

\* A message whose handlers have all ended, in whatever way, is answered unless
\* the connection's shutdown aborts it first; a message to which no handler
\* applies needs nobody's help.
EndedMessagesAreAnswered ==
    \A m \in Messages :
        /\ (\A p \in PartsOf(m) : stage[p] = "over") /\ task[m] # "unseen"
               ~> task[m] \in {"answered", "lost"}
        /\ task[m] = "running" ~>
               task[m] # "running" \/ \E p \in PartsOf(m) : stage[p] \in {"handling", "fallback"}
=============================================================================
