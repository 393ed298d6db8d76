-------------------------------- MODULE Wire --------------------------------
(***************************************************************************)
(* Two connected event loops over the transport of transport.rs: a Framed  *)
(* stream of lines over a pipe of bounded room in each direction.          *)
(*                                                                         *)
(* A message is two chunks of bytes, the second of which ends its line.    *)
(* Sending one puts its chunks in the write buffer of Framed, and flushes  *)
(* them to the pipe while the loop does nothing else.  Receiving one is an *)
(* arm of select!: its future takes the mutex of Peer when first polled    *)
(* and holds it until the line is complete or until another arm completes, *)
(* when select! drops it; what it had read stays in the read buffer.       *)
(*                                                                         *)
(* Of the operations that travel only calls and their replies are kept:    *)
(* an outbound call (todo), a handler it starts at the peer (tasks), and   *)
(* the reply sent when the handler is joined (finished).  An end may shut  *)
(* down in order, die and take its buffers with it, or stop doing anything.*)
(***************************************************************************)
EXTENDS Naturals, Sequences, FiniteSets

CONSTANTS
    Ends,        \* the two ends of the connection
    Calls,       \* the calls that may be made
    Caller,      \* the end that makes each call
    Room,        \* chunks a pipe holds
    HasTimeout,  \* ServiceConfig::graceful_connection_shutdown_timeout is set
    MayDie,      \* ends that may die without warning
    MayStall     \* ends that may stop doing anything, reading included

ASSUME EndsAssumption == \E a, b \in Ends : a # b /\ Ends = {a, b}
ASSUME CallerAssumption == Caller \in [Calls -> Ends]
ASSUME BoundsAssumption == Room \in Nat \ {0}
ASSUME FaultAssumption == HasTimeout \in BOOLEAN /\ MayDie \subseteq Ends /\ MayStall \subseteq Ends

VARIABLES
    phase,      \* of each loop: "serving", "closing", "exited" or "stalled"
    todo,       \* calls waiting in the outbound channel of each end
    tasks,      \* calls whose handler runs at each end
    finished,   \* calls whose handler waits to be joined
    sending,    \* the message each loop is inside send_message with, if any
    lock,       \* holder of Peer's mutex: "free", "receive" or "send"
    wbuf, rbuf, \* write and read buffer of Framed, at each end
    pipe,       \* chunks on their way from each end
    handed,     \* history: messages given to the transport at each end
    received    \* history: messages the transport gave to each end

loopVars == <<phase, todo, tasks, finished>>
wireVars == <<wbuf, rbuf, pipe>>
history == <<handed, received>>
vars == <<loopVars, sending, lock, wireVars, history>>

Other(e) == CHOOSE f \in Ends : f # e

Call(c) == [kind |-> "call", call |-> {c}]
Reply(c) == [kind |-> "reply", call |-> {c}]
ParseError == [kind |-> "parse error", call |-> {}]
Part == [kind |-> "part", call |-> {}]
Messages == {Call(c) : c \in Calls} \cup {Reply(c) : c \in Calls} \cup {ParseError}

Chunks(m) == << [of |-> m, ends |-> FALSE], [of |-> m, ends |-> TRUE] >>

Init ==
    /\ phase = [e \in Ends |-> "serving"]
    /\ todo = [e \in Ends |-> {c \in Calls : Caller[c] = e}]
    /\ tasks = [e \in Ends |-> {}] /\ finished = [e \in Ends |-> {}]
    /\ sending = [e \in Ends |-> <<>>]
    /\ lock = [e \in Ends |-> "free"]
    /\ wbuf = [e \in Ends |-> <<>>] /\ rbuf = [e \in Ends |-> <<>>]
    /\ pipe = [e \in Ends |-> <<>>]
    /\ handed = [e \in Ends |-> <<>>] /\ received = [e \in Ends |-> <<>>]

-----------------------------------------------------------------------------
Selecting(e) == phase[e] = "serving" /\ sending[e] = <<>>

MutArmCompletes(e) == UNCHANGED lock

\* select! drops the futures of the other arms before the arm that completed
\* runs, so the mutex that a receive held is released.
ArmCompletes(e) == lock' = [lock EXCEPT ![e] = "free"]

SendOutbound(e, c) ==
    /\ Selecting(e) /\ c \in todo[e]
    /\ todo' = [todo EXCEPT ![e] = @ \ {c}]
    /\ sending' = [sending EXCEPT ![e] = <<Call(c)>>]
    /\ ArmCompletes(e)
    /\ UNCHANGED <<phase, tasks, finished, wireVars, history>>

\* A handler is joined by select!, or by the shutdown that follows the loop.
SendReply(e, c) ==
    /\ phase[e] # "exited" /\ sending[e] = <<>>
    /\ c \in finished[e]
    /\ finished' = [finished EXCEPT ![e] = @ \ {c}]
    /\ sending' = [sending EXCEPT ![e] = <<Reply(c)>>]
    /\ ArmCompletes(e)
    /\ UNCHANGED <<phase, todo, tasks, wireVars, history>>

\* An iteration of the custom event loop completes, another arm of select!.
RunCustom(e) ==
    /\ Selecting(e) /\ ArmCompletes(e)
    /\ UNCHANGED <<loopVars, sending, wireVars, history>>

-----------------------------------------------------------------------------
(* Peer::send_message.                                                     *)

TakeLock(e) ==
    /\ sending[e] # <<>> /\ lock[e] = "free"
    /\ lock' = [lock EXCEPT ![e] = "send"]
    /\ wbuf' = [wbuf EXCEPT ![e] = @ \o Chunks(sending[e][1])]
    /\ handed' = [handed EXCEPT ![e] = Append(@, sending[e][1])]
    /\ UNCHANGED <<loopVars, sending, rbuf, pipe, received>>

Write(e) ==
    /\ lock[e] = "send" /\ wbuf[e] # <<>> /\ Len(pipe[e]) < Room
    /\ pipe' = [pipe EXCEPT ![e] = Append(@, Head(wbuf[e]))]
    /\ wbuf' = [wbuf EXCEPT ![e] = Tail(@)]
    /\ UNCHANGED <<loopVars, sending, lock, rbuf, history>>

MutSendEnds(e) ==
    /\ lock[e] = "send"
    /\ wbuf[e] = <<>>
    /\ sending' = [sending EXCEPT ![e] = <<>>]
    /\ lock' = [lock EXCEPT ![e] = "free"]
    /\ UNCHANGED <<loopVars, wireVars, history>>

\* All is flushed, or the pipe is broken; the caller of send_message ignores
\* the difference for a reply, and reports it for a call.
SendEnds(e) ==
    /\ lock[e] = "send"
    /\ wbuf[e] = <<>> \/ phase[Other(e)] = "exited"
    /\ sending' = [sending EXCEPT ![e] = <<>>]
    /\ lock' = [lock EXCEPT ![e] = "free"]
    /\ UNCHANGED <<loopVars, wireVars, history>>

-----------------------------------------------------------------------------
(* Peer::receive_message.                                                  *)

HasLine(buf) == \E i \in 1..Len(buf) : buf[i].ends

IsLineEnd(buf, k) == buf[k].ends /\ \A j \in 1..(k - 1) : ~buf[j].ends

\* The line that ends at k is the message whose bytes it is, or does not parse.
LineAt(buf, k) == IF SubSeq(buf, 1, k) = Chunks(buf[k].of) THEN buf[k].of ELSE Part

\* handle_inbound_message: a call starts a handler, a reply goes to its
\* caller, and what does not parse is answered at once.
Handle(e, m) ==
    /\ received' = [received EXCEPT ![e] = Append(@, m)]
    /\ tasks' = [tasks EXCEPT ![e] =
                    IF m.kind = "call" THEN @ \cup m.call ELSE @]
    /\ sending' = [sending EXCEPT ![e] =
                    IF m.kind = "part" THEN <<ParseError>> ELSE @]
    /\ ArmCompletes(e)
    /\ UNCHANGED <<phase, todo, finished, wbuf, handed>>

MutReceiveLine(e) ==
    /\ Selecting(e) /\ lock[e] # "send"
    /\ \E n \in 1..Len(pipe[Other(e)]) :
        LET buf == SubSeq(pipe[Other(e)], 1, n) IN
        \E k \in 1..Len(buf) :
            /\ IsLineEnd(buf, k)
            /\ rbuf' = [rbuf EXCEPT ![e] = SubSeq(buf, k + 1, Len(buf))]
            /\ pipe' = [pipe EXCEPT ![Other(e)] = SubSeq(@, n + 1, Len(@))]
            /\ Handle(e, LineAt(buf, k))

\* A line in the buffer is taken from it; else some of the pipe is read.
ReceiveLine(e) ==
    /\ Selecting(e) /\ lock[e] # "send"
    /\ \E n \in 0..Len(pipe[Other(e)]) :
        LET buf == rbuf[e] \o SubSeq(pipe[Other(e)], 1, n) IN
        \E k \in 1..Len(buf) :
            /\ HasLine(rbuf[e]) => n = 0
            /\ IsLineEnd(buf, k)
            /\ rbuf' = [rbuf EXCEPT ![e] = SubSeq(buf, k + 1, Len(buf))]
            /\ pipe' = [pipe EXCEPT ![Other(e)] = SubSeq(@, n + 1, Len(@))]
            /\ Handle(e, LineAt(buf, k))

\* The line is not complete: the future keeps the mutex and waits for more.
ReceivePending(e) ==
    /\ Selecting(e) /\ lock[e] # "send"
    /\ LET buf == rbuf[e] \o pipe[Other(e)] IN
       /\ ~HasLine(buf)
       /\ rbuf' = [rbuf EXCEPT ![e] = buf]
       /\ pipe' = [pipe EXCEPT ![Other(e)] = <<>>]
    /\ lock' = [lock EXCEPT ![e] = "receive"]
    /\ UNCHANGED <<loopVars, sending, wbuf, history>>

AtEnd(e) ==
    /\ Selecting(e) /\ lock[e] # "send"
    /\ phase[Other(e)] = "exited" /\ pipe[Other(e)] = <<>> /\ ~HasLine(rbuf[e])

\* LinesCodec gives out an unfinished line when the stream ends; it is a whole
\* message if only its newline is missing.
ReceiveUnfinished(e) ==
    /\ AtEnd(e) /\ rbuf[e] # <<>>
    /\ rbuf' = [rbuf EXCEPT ![e] = <<>>]
    /\ UNCHANGED pipe
    /\ \E m \in {Part, rbuf[e][1].of} : Handle(e, m)

-----------------------------------------------------------------------------
(* The end of a loop.                                                      *)

FinishHandler(e, c) ==
    /\ c \in tasks[e]
    /\ tasks' = [tasks EXCEPT ![e] = @ \ {c}]
    /\ finished' = [finished EXCEPT ![e] = @ \cup {c}]
    /\ UNCHANGED <<phase, todo, sending, lock, wireVars, history>>

StartClosing(e) ==
    /\ phase' = [phase EXCEPT ![e] = "closing"]
    /\ todo' = [todo EXCEPT ![e] = {}]
    /\ ArmCompletes(e)
    /\ UNCHANGED <<tasks, finished, sending, wireVars, history>>

PeerClosed(e) == AtEnd(e) /\ rbuf[e] = <<>> /\ StartClosing(e)

\* The token is cancelled, or the custom event loop returned an error.
Cancelled(e) == Selecting(e) /\ StartClosing(e)

MutAbortHandlers(e) ==
    /\ HasTimeout /\ phase[e] = "closing" /\ sending[e] = <<>> /\ tasks[e] # {}
    /\ finished[e] # {}
    /\ finished' = [finished EXCEPT ![e] = @ \cup tasks[e]]
    /\ tasks' = [tasks EXCEPT ![e] = {}]
    /\ UNCHANGED <<phase, todo, sending, lock, wireVars, history>>

\* The deadline bounds the wait for a handler, not the sending of its reply.
AbortHandlers(e) ==
    /\ HasTimeout /\ phase[e] = "closing" /\ sending[e] = <<>> /\ tasks[e] # {}
    /\ finished' = [finished EXCEPT ![e] = @ \cup tasks[e]]
    /\ tasks' = [tasks EXCEPT ![e] = {}]
    /\ UNCHANGED <<phase, todo, sending, lock, wireVars, history>>

Exit(e) ==
    /\ phase[e] = "closing" /\ sending[e] = <<>>
    /\ tasks[e] = {} /\ finished[e] = {}
    /\ phase' = [phase EXCEPT ![e] = "exited"]
    /\ rbuf' = [rbuf EXCEPT ![e] = <<>>]
    /\ wbuf' = [wbuf EXCEPT ![e] = <<>>]
    /\ UNCHANGED <<todo, tasks, finished, sending, lock, pipe, history>>

\* The loop panics, or its process dies.
Die(e) ==
    /\ e \in MayDie /\ phase[e] # "exited"
    /\ phase' = [phase EXCEPT ![e] = "exited"]
    /\ todo' = [todo EXCEPT ![e] = {}]
    /\ tasks' = [tasks EXCEPT ![e] = {}]
    /\ finished' = [finished EXCEPT ![e] = {}]
    /\ sending' = [sending EXCEPT ![e] = <<>>]
    /\ rbuf' = [rbuf EXCEPT ![e] = <<>>]
    /\ wbuf' = [wbuf EXCEPT ![e] = <<>>]
    /\ ArmCompletes(e)
    /\ UNCHANGED <<pipe, history>>

\* The loop does nothing any more, but its pipes stay open: the peer sees no end
\* of the stream, and room only for what the pipe still holds.
Stall(e) ==
    /\ e \in MayStall /\ phase[e] \notin {"exited", "stalled"}
    /\ phase' = [phase EXCEPT ![e] = "stalled"]
    /\ todo' = [todo EXCEPT ![e] = {}]
    /\ tasks' = [tasks EXCEPT ![e] = {}]
    /\ finished' = [finished EXCEPT ![e] = {}]
    /\ sending' = [sending EXCEPT ![e] = <<>>]
    /\ ArmCompletes(e)
    /\ UNCHANGED <<wireVars, history>>

Loop(e) ==
    \/ \E c \in Calls : SendOutbound(e, c) \/ SendReply(e, c)
    \/ TakeLock(e) \/ Write(e) \/ SendEnds(e)
    \/ ReceiveLine(e) \/ ReceivePending(e) \/ ReceiveUnfinished(e)
    \/ PeerClosed(e) \/ AbortHandlers(e) \/ Exit(e)

Next == \E e \in Ends :
    \/ Loop(e)
    \/ RunCustom(e)
    \/ \E c \in Calls : FinishHandler(e, c)
    \/ Cancelled(e)
    \/ Die(e) \/ Stall(e)

(***************************************************************************)
(* The loops are polled, and select! polls its arms in random order, so an *)
(* arm that stays ready completes.  Handlers need not finish, nobody need  *)
(* cancel, and nothing need die or stall.                                  *)
(***************************************************************************)
Fairness == \A e \in Ends :
    /\ WF_vars(TakeLock(e) \/ Write(e) \/ SendEnds(e))
    /\ WF_vars(ReceiveLine(e)) /\ WF_vars(ReceivePending(e) /\ pipe' # pipe)
    /\ WF_vars(ReceiveUnfinished(e)) /\ WF_vars(PeerClosed(e))
    /\ WF_vars(AbortHandlers(e)) /\ WF_vars(Exit(e))
    /\ \A c \in Calls : WF_vars(SendOutbound(e, c)) /\ WF_vars(SendReply(e, c))

Spec == Init /\ [][Next]_vars

FairSpec == Spec /\ Fairness

-----------------------------------------------------------------------------
(* Properties.                                                             *)

TypeOK ==
    /\ phase \in [Ends -> {"serving", "closing", "exited", "stalled"}]
    /\ todo \in [Ends -> SUBSET Calls]
    /\ tasks \in [Ends -> SUBSET Calls] /\ finished \in [Ends -> SUBSET Calls]
    /\ \A e \in Ends : sending[e] = <<>> \/ \E m \in Messages : sending[e] = <<m>>
    /\ lock \in [Ends -> {"free", "receive", "send"}]
    /\ \A e \in Ends : Len(pipe[e]) <= Room

\* A send never waits for the mutex: the receive that held it was dropped with
\* the select!.  A loop that is inside neither holds nothing.
LockFollowsLoop == \A e \in Ends :
    /\ sending[e] # <<>> => lock[e] # "receive"
    /\ lock[e] = "send" => sending[e] # <<>>
    /\ lock[e] = "receive" => Selecting(e)

Streams == INSTANCE MessageStream WITH
    Streams <- Ends,
    arrived <- [e \in Ends |-> received[Other(e)]],
    cut <- {e \in Ends : phase[e] = "exited"}

\* Whatever is dropped, cut or blocked, each direction is a stream of whole
\* messages in order, of which only an end that is gone leaves a part.
StreamsStayWhole == Streams!Spec

\* The loop is inside a send into a full pipe.
Blocked(e) == lock[e] = "send" /\ wbuf[e] # <<>> /\ Len(pipe[e]) = Room

\* For good: the peer has stalled, or is blocked the same way, so it does not read.
Held(e) == Blocked(e) /\ (phase[Other(e)] = "stalled" \/ Blocked(Other(e)))

\* A send ends unless the pipe is full and its reader has stalled, or is inside a
\* send to this loop that is blocked the same way.
SendsEnd == \A e \in Ends : (sending[e] # <<>>) ~> (sending[e] = <<>> \/ Held(e))

\* A loop that is shutting down, with a timeout, or whose peer is gone, ends
\* whatever its handlers do, over partial lines and deaths, unless it is held in
\* the send of a reply: that send alone has no deadline.
ShutdownHeldOnlyBySend == \A e \in Ends :
    (phase[e] = "closing" \/ phase[Other(e)] = "exited")
        ~> (phase[e] \in {"exited", "stalled"} \/ Held(e))

\* "The configurable graceful shutdown timeout will be applied, after which all
\* remaining handler async tasks will be forcibly aborted"
\* (ServiceConnectionHandle::shutdown): not always, see MCWireTimeout.cfg.
TimeoutAbortsHandlers == \A e \in Ends :
    (phase[e] = "closing") ~> (tasks[e] = {})
=============================================================================
