------------------------------- MODULE McpClient -------------------------------
(***************************************************************************)
(* An MCP client and the server it launches: the child process and its     *)
(* pipes (mcpox-client transport/child_process.rs), the initialize         *)
(* handshake, and calls of a ready client (mcpox-client jsonrpc.rs).       *)
(*                                                                         *)
(* The transport, and with it the child, belongs to the event loop from    *)
(* the moment the client is bound, and is dropped when the loop ends.  The *)
(* loop awaits each write to the child inside the arm of select! that led  *)
(* to it, or inside its shutdown, and looks at nothing else meanwhile: not *)
(* at the end of the child's stdout, nor at its own cancellation.  Of the  *)
(* loop only this is kept; the rest is the subject of other modules.       *)
(*                                                                         *)
(* The server is anything that speaks JSON-RPC.  It may ask without end,   *)
(* need not answer, and need not read what it is sent.                     *)
(***************************************************************************)
EXTENDS Naturals, Sequences, Functions

CONSTANTS
    Versions,      \* protocol versions a server may name
    Supported,     \* the variants of ProtocolVersion
    Calls,         \* calls a ready client makes
    EmptyCalls,    \* those of methods that return nothing
    Requests,      \* what the server may ask the client
    Pings,         \* those of them that are pings
    Lines,         \* lines the server may write to stderr
    Garbled        \* those of them that are not UTF-8

ASSUME McpAssumption ==
    /\ Supported \subseteq Versions /\ EmptyCalls \subseteq Calls
    /\ Pings \subseteq Requests /\ Garbled \subseteq Lines

\* A version is no other outcome of the handshake, nor a stage of it or of a call.
ASSUME VersionsAreNoOutcomes ==
    Versions \cap {"none", "queued", "writing", "sent", "pending",
                   "Malformed", "MethodError", "TransportError", "ConnectionClosed"} = {}

VARIABLES
    client,      \* "unlaunched", "launched", "calling", "ready", "failed" or "dropped"
    version,     \* the version a ready client works with
    process,     \* the child
    loop,        \* the event loop, which owns the child once it serves
    initialize,  \* where the initialize request is, or how it was answered
    call,        \* the same for the other calls
    served,      \* how the client answers the server
    stderr,      \* the pipe
    written,     \* lines the server has written
    monitor,     \* the task that reads the pipe
    logged       \* lines it has logged

pipeVars == <<stderr, written, monitor, logged>>
vars == <<client, version, process, loop, initialize, call, served, pipeVars>>

\* An answer to initialize that is no InitializeResult, an error, and the two
\* ways in which there is no answer.
NoVersion == {"Malformed", "MethodError", "TransportError", "ConnectionClosed"}

TypeOK ==
    /\ client \in {"unlaunched", "launched", "calling", "ready", "failed", "dropped"}
    /\ version \in Versions \cup {"none"}
    /\ process \in {"none", "running", "exited", "killed"}
    /\ loop \in {"none", "serving", "closing", "closed"}
    /\ initialize \in {"none", "queued", "writing", "sent"} \cup NoVersion \cup Versions
    /\ call \in [Calls -> {"none", "queued", "writing", "pending", "answered",
                          "Value", "DeserResponse", "TransportError", "ConnectionClosed"}]
    /\ served \in [Requests -> {"none", "asked", "writing", "Result", "InternalError", "lost"}]
    /\ stderr \in Seq(Lines) /\ written \subseteq Lines /\ logged \subseteq Lines
    /\ monitor \in {"none", "reading", "ended", "panicked"}

Init ==
    /\ client = "unlaunched" /\ version = "none"
    /\ process = "none" /\ loop = "none"
    /\ initialize = "none"
    /\ call = [c \in Calls |-> "none"]
    /\ served = [q \in Requests |-> "none"]
    /\ stderr = <<>> /\ written = {} /\ monitor = "none" /\ logged = {}

\* Nobody holds the client any more: its drop guard has cancelled the loop.
Gone == client \in {"failed", "dropped"}

\* The loop is inside send_message, for the handshake, a call or a reply.
Writing ==
    \/ initialize = "writing"
    \/ \E c \in Calls : call[c] = "writing"
    \/ \E q \in Requests : served[q] = "writing"

\* The loop is inside select!, and polls all of its arms.
Selecting == loop = "serving" /\ ~Writing

-----------------------------------------------------------------------------
(* The child process.                                                      *)

\* ChildProcess::run spawns the child and the task that reads its stderr.
Launch ==
    /\ client = "unlaunched"
    /\ \/ client' = "launched" /\ process' = "running" /\ monitor' = "reading"
       \/ client' = "failed" /\ UNCHANGED <<process, monitor>>
    /\ UNCHANGED <<version, loop, initialize, call, served, stderr, written, logged>>

MutKill(p) == p

\* kill_on_drop: dropping the Child kills the process, unless it has exited.
Kill(p) == IF p = "running" THEN "killed" ELSE p

\* The transport is dropped before a client is bound to it.
DropTransport ==
    /\ client = "launched" /\ client' = "dropped" /\ process' = Kill(process)
    /\ UNCHANGED <<version, loop, initialize, call, served, pipeVars>>

ProcessExits ==
    /\ process = "running" /\ process' = "exited"
    /\ UNCHANGED <<client, version, loop, initialize, call, served, pipeVars>>

\* The server writes a line to stderr; if nobody holds the other end the line
\* is lost, and the server does not usually survive the signal.
WriteStderr(line) ==
    /\ process = "running" /\ line \notin written
    /\ written' = written \cup {line}
    /\ IF monitor = "reading"
       THEN stderr' = Append(stderr, line) /\ UNCHANGED process
       ELSE process' \in {"running", "exited"} /\ UNCHANGED stderr
    /\ UNCHANGED <<client, version, loop, initialize, call, served, monitor, logged>>

\* next_line().await.unwrap(): a line that is not UTF-8 is an error, and the
\* panic ends the task.
ReadStderr ==
    /\ monitor = "reading" /\ stderr # <<>>
    /\ stderr' = Tail(stderr)
    /\ IF Head(stderr) \in Garbled
       THEN monitor' = "panicked" /\ UNCHANGED logged
       ELSE logged' = logged \cup {Head(stderr)} /\ UNCHANGED monitor
    /\ UNCHANGED <<client, version, process, loop, initialize, call, served, written>>

MonitorEnds ==
    /\ monitor = "reading" /\ stderr = <<>> /\ process # "running"
    /\ monitor' = "ended"
    /\ UNCHANGED <<client, version, process, loop, initialize, call, served, stderr, written, logged>>

-----------------------------------------------------------------------------
(* The handshake.                                                          *)

\* JsonRpcClient::initialize binds the client, which spawns the loop, and calls
\* the server.
Initialize ==
    /\ client = "launched"
    /\ client' = "calling" /\ loop' = "serving" /\ initialize' = "queued"
    /\ UNCHANGED <<version, process, call, served, pipeVars>>

\* The server answers, and the loop passes the answer on.
ServerAnswers ==
    /\ Selecting /\ process = "running" /\ initialize = "sent"
    /\ initialize' \in Versions \cup {"Malformed", "MethodError"}
    /\ UNCHANGED <<client, version, process, loop, call, served, pipeVars>>

MutAccept(v) ==
    /\ client' = "ready" /\ version' = v

\* ProtocolVersion::try_from_str: a client is made for a version it knows, and
\* otherwise dropped, which disconnects.
Accept(v) ==
    IF v \in Supported
    THEN client' = "ready" /\ version' = v
    ELSE client' = "failed" /\ UNCHANGED version

InitializeReturns ==
    /\ client = "calling" /\ initialize \in Versions \cup NoVersion
    /\ IF initialize \in Versions
       THEN Accept(initialize)
       ELSE client' = "failed" /\ UNCHANGED version
    /\ UNCHANGED <<process, loop, initialize, call, served, pipeVars>>

\* The caller drops the client, or gives up on the handshake.
DropClient ==
    /\ client \in {"calling", "ready"} /\ client' = "dropped"
    /\ UNCHANGED <<version, process, loop, initialize, call, served, pipeVars>>

-----------------------------------------------------------------------------
(* A bound client.                                                         *)

\* A method of JsonRpcClient is called.
Call(c) ==
    /\ client = "ready" /\ call[c] = "none"
    /\ call' = [call EXCEPT ![c] = IF loop = "serving" THEN "queued" ELSE "ConnectionClosed"]
    /\ UNCHANGED <<client, version, process, loop, initialize, served, pipeVars>>

\* The server carries a call out; its result is an object, also an empty one.
ServerCarriesOut(c) ==
    /\ Selecting /\ process = "running" /\ call[c] = "pending"
    /\ call' = [call EXCEPT ![c] = "answered"]
    /\ UNCHANGED <<client, version, process, loop, initialize, served, pipeVars>>

\* An object is not what () is deserialized from.
CallReturns(c) ==
    /\ call[c] = "answered"
    /\ call' = [call EXCEPT ![c] = IF c \in EmptyCalls THEN "DeserResponse" ELSE "Value"]
    /\ UNCHANGED <<client, version, process, loop, initialize, served, pipeVars>>

\* The server asks, and asks again once it has been answered.
ServerAsks(q) ==
    /\ Selecting /\ process = "running" /\ served[q] \notin {"asked", "writing"}
    /\ served' = [served EXCEPT ![q] = "asked"]
    /\ UNCHANGED <<client, version, process, loop, initialize, call, pipeVars>>

-----------------------------------------------------------------------------
(* The event loop.                                                         *)

SendInitialize ==
    /\ Selecting /\ initialize = "queued"
    /\ initialize' = "writing"
    /\ UNCHANGED <<client, version, process, loop, call, served, pipeVars>>

SendCall(c) ==
    /\ Selecting /\ call[c] = "queued"
    /\ call' = [call EXCEPT ![c] = "writing"]
    /\ UNCHANGED <<client, version, process, loop, initialize, served, pipeVars>>

\* A handler is joined, by select! or by the shutdown, and its reply is sent.
SendReply(q) ==
    /\ loop \in {"serving", "closing"} /\ ~Writing /\ served[q] = "asked"
    /\ served' = [served EXCEPT ![q] = "writing"]
    /\ UNCHANGED <<client, version, process, loop, initialize, call, pipeVars>>

\* The handlers of ClientState: all but ping are todo!(), and panic.
ReplyTo(q) == IF q \in Pings THEN "Result" ELSE "InternalError"

\* A write ends when the server has made room for it, or when the pipe is
\* broken; a reply that cannot be written is given up.
WriteEnds ==
    /\ \/ /\ initialize = "writing" /\ initialize' \in {"sent", "TransportError"}
          /\ UNCHANGED <<call, served>>
       \/ \E c \in Calls, outcome \in {"pending", "TransportError"} :
          /\ call[c] = "writing" /\ call' = [call EXCEPT ![c] = outcome]
          /\ UNCHANGED <<initialize, served>>
       \/ \E q \in Requests : \E outcome \in {ReplyTo(q), "lost"} :
          /\ served[q] = "writing" /\ served' = [served EXCEPT ![q] = outcome]
          /\ UNCHANGED <<initialize, call>>
    /\ UNCHANGED <<client, version, process, loop, pipeVars>>

\* The loop breaks, and tells the callers whose messages it has not taken.
BeginClose ==
    /\ Selecting /\ loop' = "closing"
    /\ initialize' = IF initialize = "queued" THEN "ConnectionClosed" ELSE initialize
    /\ call' = [c \in Calls |-> IF call[c] = "queued" THEN "ConnectionClosed" ELSE call[c]]
    /\ UNCHANGED <<client, version, process, served, pipeVars>>

StopOnCancellation == Gone /\ BeginClose

MutStopOnExit ==
    /\ process # "running" /\ initialize # "sent"
    /\ \A c \in Calls : call[c] # "pending"
    /\ BeginClose

\* The child's stdout ends.
StopOnExit == process # "running" /\ BeginClose

\* The child writes a line that LinesCodec cannot decode.
StopOnGarbage == process = "running" /\ BeginClose

\* No handler is left: the loop tells those who wait for an answer, ends, and
\* drops the transport.
CloseLoop ==
    /\ loop = "closing" /\ ~Writing /\ \A q \in Requests : served[q] # "asked"
    /\ loop' = "closed" /\ process' = Kill(process)
    /\ initialize' = IF initialize = "sent" THEN "ConnectionClosed" ELSE initialize
    /\ call' = [c \in Calls |-> IF call[c] = "pending" THEN "ConnectionClosed" ELSE call[c]]
    /\ UNCHANGED <<client, version, served, pipeVars>>

-----------------------------------------------------------------------------
LoopStep ==
    \/ SendInitialize
    \/ \E c \in Calls : SendCall(c)
    \/ \E q \in Requests : SendReply(q)
    \/ WriteEnds
    \/ StopOnCancellation \/ StopOnExit \/ StopOnGarbage
    \/ CloseLoop

Next ==
    \/ Launch \/ DropTransport \/ ProcessExits
    \/ \E line \in Lines : WriteStderr(line)
    \/ ReadStderr \/ MonitorEnds
    \/ Initialize \/ ServerAnswers \/ InitializeReturns \/ DropClient
    \/ LoopStep
    \/ \E c \in Calls : Call(c) \/ ServerCarriesOut(c) \/ CallReturns(c)
    \/ \E q \in Requests : ServerAsks(q)

(***************************************************************************)
(* The tasks of the client are scheduled.  select! polls its arms in       *)
(* random order each time the loop comes back to it, so one that is ready  *)
(* every time is taken, however busy the others are: strong fairness,      *)
(* because the loop is away for each write.  A write ends if the pipe is   *)
(* broken; nothing makes it end while the server lives.                    *)
(***************************************************************************)
Fairness ==
    /\ SF_vars(StopOnCancellation) /\ SF_vars(StopOnExit)
    /\ WF_vars(process # "running" /\ WriteEnds)
    /\ WF_vars(loop = "closing" /\ \E q \in Requests : SendReply(q)) /\ WF_vars(CloseLoop)
    /\ WF_vars(InitializeReturns) /\ WF_vars(ReadStderr) /\ WF_vars(MonitorEnds)
    /\ \A c \in Calls : WF_vars(CallReturns(c))

Spec == Init /\ [][Next]_vars

FairSpec == Spec /\ Fairness

-----------------------------------------------------------------------------
(* Properties.                                                             *)

\* A ready client works with a version that it knows and the server named; any
\* other answer, or none, leaves no client behind.
ReadyMeansAgreed ==
    /\ client = "ready" => version \in Supported /\ version = initialize
    /\ version # "none" => client \in {"ready", "dropped"}

\* Who holds the child can be told at any time, so that it is killed when it is
\* the turn of that one to go: the transport, then the loop until it has ended.
ChildHasAnOwner ==
    process = "running" => client = "launched" \/ loop \in {"serving", "closing"}

\* The server does not keep the loop inside a write for ever.
WritesEnd == []<>~Writing

\* A launched server does not outlive the client, whatever step of the handshake
\* the client was dropped or failed in, and however much the server asks; only
\* one that stops reading what it is sent can hold the loop that would kill it.
NoOrphans == WritesEnd => (Gone ~> process # "running")

Waits(s) == s \in {"queued", "writing", "sent", "pending"}

\* The end of the server is noticed by the handshake and by every call, also
\* while the loop is writing to it.
ExitIsNoticed ==
    /\ (process = "exited" /\ client = "calling") ~> client # "calling"
    /\ \A c \in Calls :
        (process = "exited" /\ Waits(call[c])) ~> ~Waits(call[c])

\* Once the loop has ended nobody waits for it: neither the handshake nor a call,
\* wherever its message was when the loop stopped.
ClosedLeavesNobodyWaiting ==
    loop = "closed" => ~Waits(initialize) /\ \A c \in Calls : ~Waits(call[c])

\* "Monitor stderr output for the child process and log anything that we get
\* there" (ChildProcess::run), of the lines that can be logged: not after one
\* that cannot, see MCMcpClientStderr.cfg.
StderrIsLogged == \A line \in Lines \ Garbled : line \in written ~> line \in logged

\* Methods that return nothing are answered with an EmptyResult, "a response that
\* indicates success but carries no data" (the schema in docs/), and succeed:
\* they do not, see MCMcpClientEmpty.cfg.
CarriedOutCallsSucceed == \A c \in Calls : call[c] # "DeserResponse"
=============================================================================
