---------------------------- MODULE LoopContract ----------------------------
(***************************************************************************)
(* What an event loop promises whoever owns its connection: handlers start *)
(* only while it serves, it stops once and cancels its token when it does, *)
(* and it is over only when none of its handlers runs, unless it panics.   *)
(***************************************************************************)
CONSTANTS Conns, Handlers

VARIABLES
    state,      \* of each loop: "unopened", "serving", "closing" or "closed"
    cancelled,  \* connections whose token is cancelled
    running     \* the handlers each connection runs

vars == <<state, cancelled, running>>

Moves(c, from, to) == state[c] = from /\ state' = [state EXCEPT ![c] = to]

Open(c) == Moves(c, "unopened", "serving") /\ UNCHANGED <<cancelled, running>>

Signal(C) == cancelled' = cancelled \cup C /\ UNCHANGED <<state, running>>

Begin(c, h) ==
    /\ state[c] = "serving"
    /\ running' = [running EXCEPT ![c] = @ \cup {h}]
    /\ UNCHANGED <<state, cancelled>>

End(c, H) ==
    /\ running' = [running EXCEPT ![c] = @ \ H]
    /\ UNCHANGED <<state, cancelled>>

Stop(c) ==
    /\ Moves(c, "serving", "closing")
    /\ cancelled' = cancelled \cup {c}
    /\ UNCHANGED running

Close(c) ==
    /\ running[c] = {}
    /\ Moves(c, "closing", "closed")
    /\ UNCHANGED <<cancelled, running>>

\* The loop panics: its token is not cancelled, and its handlers are aborted
\* but need not have stopped yet.
Crash(c) ==
    /\ Moves(c, "serving", "closed")
    /\ \E H \in SUBSET Handlers : running' = [running EXCEPT ![c] = @ \ H]
    /\ UNCHANGED cancelled

Next ==
    \/ \E C \in SUBSET Conns : Signal(C)
    \/ \E c \in Conns :
        \/ Open(c) \/ Stop(c) \/ Close(c) \/ Crash(c)
        \/ \E h \in Handlers : Begin(c, h)
        \/ \E H \in SUBSET Handlers : End(c, H)

\* A connection that is observed from its start may be open already.
Init ==
    /\ state \in [Conns -> {"unopened", "serving"}]
    /\ cancelled = {}
    /\ running = [c \in Conns |-> {}]

Spec == Init /\ [][Next]_vars
=============================================================================
