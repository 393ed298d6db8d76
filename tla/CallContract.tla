---------------------------- MODULE CallContract ----------------------------
(***************************************************************************)
(* What a connection promises the callers of outbound requests, whatever   *)
(* channels, maps and shutdown phases it uses to keep the promise: each    *)
(* request ends with at most one outcome, the requests of one unit (a      *)
(* single call, or a batch) are sent together or not at all, an answer or  *)
(* a cancellation is only for what the peer was sent while the connection  *)
(* was being served, and once it is not served any more nothing is sent    *)
(* and the only news is that the connection is closed.                     *)
(***************************************************************************)
CONSTANTS
    Requests,   \* requests that may be issued on the connection
    Units,      \* what is handed to the transport as one message
    UnitReqs    \* the requests each unit carries

VARIABLES
    response,   \* what each request's caller has been told, or "open"
    delivered,  \* requests that the peer may have received
    serving     \* the connection's event loop takes new work

vars == <<response, delivered, serving>>

Init ==
    /\ response = [r \in Requests |-> "open"]
    /\ delivered = {}
    /\ serving = TRUE

Open(S) == \A r \in S : response[r] = "open"

Tell(S, outcome) ==
    response' = [r \in Requests |-> IF r \in S THEN outcome ELSE response[r]]

Transmit(u) ==
    /\ serving
    /\ Open(UnitReqs[u]) /\ UnitReqs[u] \cap delivered = {}
    /\ delivered' = delivered \cup UnitReqs[u]
    /\ UNCHANGED <<response, serving>>

\* The transport reports an error; part of the message may still get through.
Lose(u) ==
    /\ serving
    /\ Open(UnitReqs[u]) /\ UnitReqs[u] \cap delivered = {}
    /\ \E outcome \in {"TransportError", "BatchSendFailed"} : Tell(UnitReqs[u], outcome)
    /\ delivered' \in {delivered, delivered \cup UnitReqs[u]}
    /\ UNCHANGED serving

Answer(S) ==
    /\ serving /\ S \subseteq delivered /\ Open(S)
    /\ Tell(S, "Response")
    /\ UNCHANGED <<delivered, serving>>

Withdraw(r) ==
    /\ serving /\ r \in delivered /\ Open({r})
    /\ Tell({r}, "Cancelled")
    /\ UNCHANGED <<delivered, serving>>

Disconnect ==
    /\ serving /\ ~serving'
    /\ UNCHANGED <<response, delivered>>

Refuse(S) ==
    /\ ~serving /\ Open(S)
    /\ Tell(S, "ConnectionClosed")
    /\ UNCHANGED <<delivered, serving>>

\* The caller walks away from a unit that was not sent.
Abandon(u) ==
    /\ Open(UnitReqs[u]) /\ UnitReqs[u] \cap delivered = {}
    /\ Tell(UnitReqs[u], "SenderDropped")
    /\ UNCHANGED <<delivered, serving>>

\* The loop dies and takes everything it held with it.
Crash(S) ==
    /\ serving /\ ~serving' /\ Open(S)
    /\ Tell(S, "SenderDropped")
    /\ UNCHANGED delivered

Next ==
    \/ Disconnect
    \/ \E u \in Units : Transmit(u) \/ Lose(u) \/ Abandon(u)
    \/ \E S \in SUBSET Requests : Answer(S) \/ Refuse(S) \/ Crash(S)
    \/ \E r \in Requests : Withdraw(r)

Spec == Init /\ [][Next]_vars
=============================================================================
