------------------------------ MODULE Lifecycle ------------------------------
(***************************************************************************)
(* Who keeps connections open and who ends them: clients and servers with  *)
(* their drop guards (client.rs, server.rs, service.rs), the handles to    *)
(* their connections, and shutdown() awaited through a handle, also from   *)
(* inside a handler of the very connection it ends.                        *)
(*                                                                         *)
(* An owner is a server, or a client; its clones share one drop guard, and *)
(* the guard cancels the owner's token when the last of them is dropped.   *)
(* The token of a connection is a child of its owner's.  What a loop does  *)
(* between starting and exiting is reduced to its handlers.                *)
(***************************************************************************)
EXTENDS Naturals, FiniteSets

CONSTANTS
    Servers, Clients,
    Conns,          \* connections that may be opened
    OwnerOf,        \* the server or client of each; a client has one
    Handlers,       \* invocations of handlers
    ConnOf,         \* the connection each handler serves
    Waiters,        \* calls of shutdown
    Target,         \* the connection each of them ends
    CalledBy,       \* the handler it is called from, or None
    None,
    HasTimeout,     \* ServiceConfig::graceful_connection_shutdown_timeout is set
    CopyBound       \* clones of one owner, or of one handle

Owners == Servers \cup Clients

ASSUME OwnersAssumption ==
    /\ Servers \cap Clients = {} /\ OwnerOf \in [Conns -> Owners]
    /\ \A c, d \in Conns : OwnerOf[c] = OwnerOf[d] /\ OwnerOf[c] \in Clients => c = d
ASSUME CallersAssumption ==
    /\ None \notin Handlers /\ ConnOf \in [Handlers -> Conns]
    /\ Target \in [Waiters -> Conns] /\ CalledBy \in [Waiters -> Handlers \cup {None}]
ASSUME BoundsAssumption == HasTimeout \in BOOLEAN /\ CopyBound \in Nat \ {0}

VARIABLES
    made,       \* owners that were built
    clones,     \* live clones of each owner, the strong count of its guard
    handles,    \* live handles of each connection that nobody awaits
    waiter,     \* of each call of shutdown: "idle", "waiting", "done" or "dropped"
    state,      \* of each event loop: "unopened", "serving", "closing", "closed"
    cancelled,  \* connections whose token is cancelled
    running,    \* the handlers each connection runs
    result      \* what the shared future of each event loop resolved to

loopVars == <<state, cancelled, running, result>>
vars == <<made, clones, handles, waiter, loopVars>>

ConnsOf(w) == {c \in Conns : OwnerOf[c] = w}

Opened == {c \in Conns : state[c] # "unopened"}

Init ==
    /\ made = {} /\ clones = [w \in Owners |-> 0]
    /\ handles = [c \in Conns |-> 0]
    /\ waiter = [s \in Waiters |-> "idle"]
    /\ state = [c \in Conns |-> "unopened"]
    /\ cancelled = {}
    /\ running = [c \in Conns |-> {}]
    /\ result = [c \in Conns |-> "none"]

-----------------------------------------------------------------------------
(* Owners.                                                                 *)

Make(w) ==
    /\ w \notin made
    /\ made' = made \cup {w}
    /\ clones' = [clones EXCEPT ![w] = 1]

\* ServerBuilder::build
Build(w) ==
    /\ w \in Servers /\ Make(w)
    /\ UNCHANGED <<handles, waiter, loopVars>>

\* ClientBuilder::bind: the service goes away at once, the guard stays.
Bind(c) ==
    /\ OwnerOf[c] \in Clients /\ Make(OwnerOf[c])
    /\ state' = [state EXCEPT ![c] = "serving"]
    /\ UNCHANGED <<handles, waiter, cancelled, running, result>>

\* Server::serve_connection returns a handle.
ServeConnection(c) ==
    /\ OwnerOf[c] \in Servers /\ clones[OwnerOf[c]] > 0
    /\ state[c] = "unopened"
    /\ state' = [state EXCEPT ![c] = "serving"]
    /\ handles' = [handles EXCEPT ![c] = 1]
    /\ UNCHANGED <<made, clones, waiter, cancelled, running, result>>

CloneOwner(w) ==
    /\ clones[w] \in 1..(CopyBound - 1)
    /\ clones' = [clones EXCEPT ![w] = @ + 1]
    /\ UNCHANGED <<made, handles, waiter, loopVars>>

MutDropOwner(w) ==
    /\ clones[w] > 0
    /\ clones' = [clones EXCEPT ![w] = @ - 1]
    /\ UNCHANGED <<made, handles, waiter, loopVars>>

\* A connection that was never opened has no token.
DropOwner(w) ==
    /\ clones[w] > 0
    /\ clones' = [clones EXCEPT ![w] = @ - 1]
    /\ cancelled' = IF clones[w] = 1
                    THEN cancelled \cup (ConnsOf(w) \cap Opened) ELSE cancelled
    /\ UNCHANGED <<made, handles, waiter, state, running, result>>

-----------------------------------------------------------------------------
(* Handles.                                                                *)

\* From another handle, from a client that derefs to one, or in a handler.
CloneHandle(c) ==
    /\ handles[c] < CopyBound
    /\ \/ handles[c] > 0
       \/ OwnerOf[c] \in Clients /\ clones[OwnerOf[c]] > 0 /\ c \in Opened
       \/ running[c] # {}
    /\ handles' = [handles EXCEPT ![c] = @ + 1]
    /\ UNCHANGED <<made, clones, waiter, loopVars>>

MutDropHandle(c) ==
    /\ handles[c] > 0
    /\ handles' = [handles EXCEPT ![c] = @ - 1]
    /\ cancelled' = IF handles[c] = 1 THEN cancelled \cup {c} ELSE cancelled
    /\ UNCHANGED <<made, clones, waiter, state, running, result>>

\* The loop holds a handle to itself: it never sees its channels closed.
DropHandle(c) ==
    /\ handles[c] > 0
    /\ handles' = [handles EXCEPT ![c] = @ - 1]
    /\ UNCHANGED <<made, clones, waiter, loopVars>>

Blocked(h) == \E s \in Waiters : CalledBy[s] = h /\ waiter[s] = "waiting"

\* shutdown cancels the token and then awaits the event loop's shared future.
Shutdown(s) ==
    LET c == Target[s] IN
    /\ waiter[s] = "idle"
    /\ IF CalledBy[s] = None \/ ConnOf[CalledBy[s]] # c
       THEN handles[c] > 0 /\ handles' = [handles EXCEPT ![c] = @ - 1]
       ELSE UNCHANGED handles
    /\ CalledBy[s] # None =>
        CalledBy[s] \in running[ConnOf[CalledBy[s]]] /\ ~Blocked(CalledBy[s])
    /\ waiter' = [waiter EXCEPT ![s] = "waiting"]
    /\ cancelled' = cancelled \cup {c}
    /\ UNCHANGED <<made, clones, state, running, result>>

MutShutdownReturns(s) ==
    /\ waiter[s] = "waiting" /\ state[Target[s]] \in {"closing", "closed"}
    /\ waiter' = [waiter EXCEPT ![s] = "done"]
    /\ UNCHANGED <<made, clones, handles, loopVars>>

ShutdownReturns(s) ==
    /\ waiter[s] = "waiting" /\ state[Target[s]] = "closed"
    /\ waiter' = [waiter EXCEPT ![s] = "done"]
    /\ UNCHANGED <<made, clones, handles, loopVars>>

\* The caller drops the future; the shutdown goes on without it.
ShutdownDropped(s) ==
    /\ waiter[s] = "waiting" /\ CalledBy[s] = None
    /\ waiter' = [waiter EXCEPT ![s] = "dropped"]
    /\ UNCHANGED <<made, clones, handles, loopVars>>

-----------------------------------------------------------------------------
(* Event loops.                                                            *)

\* The futures awaited in handlers that are aborted are dropped.
DropWaiters(H) ==
    waiter' = [s \in Waiters |->
        IF waiter[s] = "waiting" /\ CalledBy[s] \in H THEN "dropped" ELSE waiter[s]]

StartHandler(h) ==
    LET c == ConnOf[h] IN
    /\ state[c] = "serving"
    /\ running' = [running EXCEPT ![c] = @ \cup {h}]
    /\ UNCHANGED <<made, clones, handles, waiter, state, cancelled, result>>

EndHandler(h) ==
    LET c == ConnOf[h] IN
    /\ h \in running[c] /\ ~Blocked(h)
    /\ running' = [running EXCEPT ![c] = @ \ {h}]
    /\ UNCHANGED <<made, clones, handles, waiter, state, cancelled, result>>

Stop(c) ==
    /\ state[c] = "serving" /\ state' = [state EXCEPT ![c] = "closing"]
    /\ cancelled' = cancelled \cup {c}
    /\ UNCHANGED <<made, clones, handles, waiter, running>>

\* The token is cancelled or the peer is gone: the loop ends with Ok.
StopInOrder(c) == Stop(c) /\ result' = [result EXCEPT ![c] = "ok"]

StopOnCancellation(c) == c \in cancelled /\ StopInOrder(c)

\* An error of the transport or of the custom event loop.
StopOnError(c) == Stop(c) /\ result' = [result EXCEPT ![c] = "error"]

MutAbortHandlers(c) ==
    /\ (HasTimeout /\ state[c] = "closing") \/ result[c] = "panic"
    /\ running[c] # {} /\ \A h \in running[c] : ~Blocked(h)
    /\ running' = [running EXCEPT ![c] = {}]
    /\ DropWaiters(running[c])
    /\ UNCHANGED <<made, clones, handles, state, cancelled, result>>

\* The JoinSet aborts its tasks: at the timeout, or when a panic drops it.
AbortHandlers(c) ==
    /\ (HasTimeout /\ state[c] = "closing") \/ result[c] = "panic"
    /\ running[c] # {}
    /\ running' = [running EXCEPT ![c] = {}]
    /\ DropWaiters(running[c])
    /\ UNCHANGED <<made, clones, handles, state, cancelled, result>>

MutExit(c) ==
    /\ state[c] = "closing"
    /\ state' = [state EXCEPT ![c] = "closed"]
    /\ UNCHANGED <<made, clones, handles, waiter, cancelled, running, result>>

Exit(c) ==
    /\ state[c] = "closing" /\ running[c] = {}
    /\ state' = [state EXCEPT ![c] = "closed"]
    /\ UNCHANGED <<made, clones, handles, waiter, cancelled, running, result>>

\* catch_unwind turns a panic of the loop into a result for those who wait.
LoopPanics(c) ==
    /\ state[c] = "serving" /\ state' = [state EXCEPT ![c] = "closed"]
    /\ result' = [result EXCEPT ![c] = "panic"]
    /\ UNCHANGED <<made, clones, handles, waiter, cancelled, running>>

Next ==
    \/ \E w \in Owners : Build(w) \/ CloneOwner(w) \/ DropOwner(w)
    \/ \E c \in Conns :
        \/ Bind(c) \/ ServeConnection(c) \/ CloneHandle(c) \/ DropHandle(c)
        \/ StopInOrder(c) \/ StopOnError(c) \/ LoopPanics(c)
        \/ AbortHandlers(c) \/ Exit(c)
    \/ \E h \in Handlers : StartHandler(h) \/ EndHandler(h)
    \/ \E s \in Waiters : Shutdown(s) \/ ShutdownReturns(s) \/ ShutdownDropped(s)

(***************************************************************************)
(* Every event loop is spawned, so it is polled until it ends, whoever     *)
(* holds handles; a handler need not finish.                               *)
(***************************************************************************)
Fairness ==
    /\ \A c \in Conns :
        WF_vars(StopOnCancellation(c)) /\ WF_vars(AbortHandlers(c)) /\ WF_vars(Exit(c))
    /\ \A s \in Waiters : WF_vars(ShutdownReturns(s))

Spec == Init /\ [][Next]_vars

FairSpec == Spec /\ Fairness

-----------------------------------------------------------------------------
(* Properties.                                                             *)

TypeOK ==
    /\ made \subseteq Owners
    /\ clones \in [Owners -> 0..CopyBound] /\ handles \in [Conns -> 0..CopyBound]
    /\ waiter \in [Waiters -> {"idle", "waiting", "done", "dropped"}]
    /\ state \in [Conns -> {"unopened", "serving", "closing", "closed"}]
    /\ cancelled \subseteq Conns
    /\ running \in [Conns -> SUBSET Handlers]
    /\ result \in [Conns -> {"none", "ok", "error", "panic"}]

\* A connection does not outlive the last clone of its owner unsignalled,
\* however many of its handles are left.
OwnerGoneMeansCancelled ==
    \A c \in Opened :
        clones[OwnerOf[c]] = 0 => c \in cancelled \/ state[c] = "closed"

\* ... and nothing less ends it: while its owner lives, a connection that still
\* serves was cancelled only by someone who called shutdown on it.
OnlyShutdownCancels ==
    \A c \in cancelled :
        (state[c] = "serving" /\ clones[OwnerOf[c]] > 0) =>
            \E s \in Waiters : Target[s] = c /\ waiter[s] # "idle"

\* When shutdown has returned what an orderly end returns, no handler of the
\* connection runs, and none will.
AfterShutdownNothingRuns ==
    \A s \in Waiters : waiter[s] = "done" =>
        /\ state[Target[s]] = "closed" /\ result[Target[s]] # "none"
        /\ result[Target[s]] # "panic" => running[Target[s]] = {}

\* Each connection goes through its life as an event loop promises.
Loops == INSTANCE LoopContract

KeepsLoopContract == Loops!Spec

\* "When a Client is dropped, its connection is closed"; "When the Server is
\* dropped, all connections are closed" (ARCHITECTURE.md).
DropCloses == \A c \in Conns :
    (c \in Opened /\ clones[OwnerOf[c]] = 0) ~> (state[c] = "closed")

\* With a graceful timeout shutdown ends, even when called from a handler of
\* the connection, or by handlers of two connections of each other.
ShutdownEnds == \A s \in Waiters : (waiter[s] = "waiting") ~> (waiter[s] # "waiting")
=============================================================================
