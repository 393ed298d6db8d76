---------------------------- MODULE MessageStream ----------------------------
(***************************************************************************)
(* What a transport promises of each stream of messages (trait Transport,  *)
(* transport.rs): messages arrive whole, once and in the order they were   *)
(* handed over; only a stream that has been cut may end with a part of a   *)
(* message, or before its last messages.                                   *)
(***************************************************************************)
EXTENDS Naturals, Sequences

CONSTANTS
    Streams,    \* the directions of the connection
    Messages,   \* what may be sent
    Part        \* what is left of a message that was cut

VARIABLES
    handed,     \* the messages the transport accepted, in order
    arrived,    \* the messages given to the receiver, in order
    cut         \* streams whose sender is gone

vars == <<handed, arrived, cut>>

Init ==
    /\ handed = [s \in Streams |-> <<>>]
    /\ arrived = [s \in Streams |-> <<>>]
    /\ cut = {}

Hand(s, m) ==
    /\ s \notin cut
    /\ handed' = [handed EXCEPT ![s] = Append(@, m)]
    /\ UNCHANGED <<arrived, cut>>

\* Nothing follows a message that arrived in part.
Expects(s) ==
    /\ Len(arrived[s]) < Len(handed[s])
    /\ \A i \in 1..Len(arrived[s]) : arrived[s][i] = handed[s][i]

Arrive(s) ==
    /\ Expects(s)
    /\ arrived' = [arrived EXCEPT ![s] = Append(@, handed[s][Len(@) + 1])]
    /\ UNCHANGED <<handed, cut>>

ArriveInPart(s) ==
    /\ s \in cut /\ Expects(s)
    /\ arrived' = [arrived EXCEPT ![s] = Append(@, Part)]
    /\ UNCHANGED <<handed, cut>>

Cut(s) == s \notin cut /\ cut' = cut \cup {s} /\ UNCHANGED <<handed, arrived>>

Next == \E s \in Streams :
    \/ \E m \in Messages : Hand(s, m)
    \/ Arrive(s)
    \/ ArriveInPart(s)
    \/ Cut(s)

Spec == Init /\ [][Next]_vars
=============================================================================
