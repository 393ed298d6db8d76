---------------------------- MODULE Classification ----------------------------
(***************************************************************************)
(* From the JSON value that came in to what the loop does with it: the     *)
(* untagged parse of a message (types.rs), and InboundMessage::try_from    *)
(* with what handle_inbound_message makes of it (service/connection.rs).   *)
(*                                                                         *)
(* A value is an object, an array or a scalar.  Of an object only what     *)
(* decides between the kinds of messages is kept: which of the members are *)
(* there, and whether they have the right form.  The members method and    *)
(* jsonrpc count as there if they are well formed.  An array may also be   *)
(* read as the members of a struct in their order.  What is nested deeper  *)
(* than serde_json follows is refused like text that is no JSON, and is    *)
(* not among Texts.                                                        *)
(***************************************************************************)
EXTENDS Naturals, Sequences, SequencesExt

CONSTANTS
    Texts,           \* the values that may come in, with those inside them
    Depth,           \* how deep each of them is nested
    RecursionLimit   \* how deep serde_json follows

IdForms == {"absent", "good", "null", "bad"}

Objects == [json : {"object"}, version : BOOLEAN, method : BOOLEAN, id : IdForms,
            result : BOOLEAN, error : {"absent", "good", "bad"}, unknown : BOOLEAN]

\* "2.0" and "string" are strings; "bad" stands for what is no ID.
Scalars == [json : {"scalar"}, form : {"2.0", "string", "number", "null", "bad"}]

ASSUME TextsAssumption == \A v \in Texts :
    \/ v \in Objects \/ v \in Scalars
    \/ v.json = "array" /\ v.items \in Seq(Texts)

ASSUME DepthAssumption ==
    /\ RecursionLimit \in Nat /\ Depth \in [Texts -> 0..RecursionLimit]
    /\ \A v \in Texts : v.json = "array" =>
           \A i \in 1..Len(v.items) : Depth[v.items[i]] < Depth[v]

VARIABLES
    text,     \* what the transport delivered
    message,  \* the Message it parses as
    inbound,  \* what the loop is to do with it
    step      \* "received", "parsed" or "classified"

vars == <<text, message, inbound, step>>

Unparsable == [kind |-> "unparsable"]

\* What is to be done: the messages, in their order, and which of them inline.
Nothing == [error |-> "none", parts |-> <<>>, inline |-> {}]

-----------------------------------------------------------------------------
(* The parse.  An untagged enum takes the first kind that fits.            *)

HasId(v) == v.id \in {"good", "null"}

\* deny_unknown_fields: what another kind of message has, this one may not.
IsRequest(v) ==
    v.version /\ v.method /\ HasId(v) /\ ~v.result /\ v.error = "absent" /\ ~v.unknown

MutIsNotification(v) == v.version /\ v.method

IsNotification(v) ==
    v.version /\ v.method /\ v.id = "absent" /\ ~v.result /\ v.error = "absent" /\ ~v.unknown

\* The payload is flattened, which rules out deny_unknown_fields.
IsResponse(v) ==
    v.version /\ HasId(v) /\ (v.error = "good" \/ v.result)

ParseObject(v) ==
    IF IsRequest(v) THEN [kind |-> "request", id |-> v.id]
    ELSE IF IsNotification(v) THEN [kind |-> "notification", id |-> "absent"]
    ELSE IF IsResponse(v) THEN [kind |-> "response", id |-> v.id]
    ELSE IF HasId(v) THEN [kind |-> "invalid", id |-> v.id]
    ELSE Unparsable

IsVersion(v) == v.json = "scalar" /\ v.form = "2.0"
IsString(v) == v.json = "scalar" /\ v.form \in {"2.0", "string"}
IsId(v) == v.json = "scalar" /\ v.form # "bad"

ScalarId(v) == IF v.form \in {"null", "bad"} THEN v.form ELSE "good"

\* A Request, a Notification and an InvalidRequest read from an array of all
\* their members, with whatever there is for params; a Response, flattened, does not.
ParseStruct(s) ==
    IF Len(s) = 4 /\ IsVersion(s[1]) /\ IsId(s[2]) /\ IsString(s[3])
    THEN [kind |-> "request", id |-> ScalarId(s[2])]
    ELSE IF Len(s) = 3 /\ IsVersion(s[1]) /\ IsString(s[2])
    THEN [kind |-> "notification", id |-> "absent"]
    ELSE IF Len(s) = 1 /\ IsId(s[1]) THEN [kind |-> "invalid", id |-> ScalarId(s[1])]
    ELSE Unparsable

\* A batch is a batch of messages, all of them: one that fits no kind spoils it.
Parse[v \in Texts] ==
    CASE v.json = "array" ->
            IF \A i \in 1..Len(v.items) : Parse[v.items[i]] # Unparsable
            THEN [kind |-> "batch", parts |-> [i \in 1..Len(v.items) |-> Parse[v.items[i]]]]
            ELSE ParseStruct(v.items)
      [] v.json = "object" -> ParseObject(v)
      [] v.json = "scalar" -> Unparsable

Parsed == {Parse[v] : v \in Texts}

-----------------------------------------------------------------------------
(* The classification.                                                     *)

\* flatten_batch: the messages in a batch, whatever the nesting.
Flatten[m \in Parsed] ==
    IF m.kind = "batch"
    THEN FlattenSeq([i \in 1..Len(m.parts) |-> Flatten[m.parts[i]]])
    ELSE <<m>>

IsInline(part) == part.kind = "response"

\* partition_map: responses for the loop itself, the rest for a task.
Split(parts) ==
    [Nothing EXCEPT !.parts = parts, !.inline = {i \in DOMAIN parts : IsInline(parts[i])}]

MutClassifyNested(m) ==
    CASE m = Unparsable -> [Nothing EXCEPT !.error = "ParseError"]
      [] m.kind = "batch" -> Split(m.parts)
      [] OTHER -> Split(<<m>>)

MutClassify(m) ==
    IF m = Unparsable THEN [Nothing EXCEPT !.error = "ParseError"] ELSE Split(Flatten[m])

\* A message that is no batch is classified as a batch of it would be.
Classify(m) ==
    CASE m = Unparsable -> [Nothing EXCEPT !.error = "ParseError"]
      [] m # Unparsable /\ Flatten[m] = <<>> -> [Nothing EXCEPT !.error = "InvalidRequest"]
      [] m # Unparsable /\ Flatten[m] # <<>> -> Split(Flatten[m])

-----------------------------------------------------------------------------
Init ==
    /\ text \in Texts
    /\ message = Unparsable /\ inbound = Nothing /\ step = "received"

\* message.parse, which fails in the case of Unparsable.
ParseText ==
    /\ step = "received" /\ step' = "parsed"
    /\ message' = Parse[text]
    /\ UNCHANGED <<text, inbound>>

ClassifyMessage ==
    /\ step = "parsed" /\ step' = "classified"
    /\ inbound' = Classify(message)
    /\ UNCHANGED <<text, message>>

Next == ParseText \/ ClassifyMessage

Spec == Init /\ [][Next]_vars

-----------------------------------------------------------------------------
(* Properties.  They are stated about the value that came in, by what the  *)
(* comments of the code ask for, and not by the order of the parse.        *)

\* Among them: no batch is left inside another ("unreachable!" otherwise).
TypeOK ==
    /\ text \in Texts
    /\ step \in {"received", "parsed", "classified"}
    /\ message.kind \in {"unparsable", "request", "notification", "response", "invalid", "batch"}
    /\ inbound.error \in {"none", "ParseError", "InvalidRequest"}
    /\ \A i \in 1..Len(inbound.parts) :
           inbound.parts[i].kind \in {"request", "notification", "response", "invalid"}
    /\ inbound.inline \subseteq 1..Len(inbound.parts)

\* What a value holds, in order, whatever the nesting of arrays around it.
IsMember(v) == v.json # "array" \/ ParseStruct(v.items) # Unparsable

Members[v \in Texts] ==
    IF IsMember(v) THEN <<v>>
    ELSE FlattenSeq([i \in 1..Len(v.items) |-> Members[v.items[i]]])

\* The ID a member names, also as the place of an array where a struct has it.
IdOf(v) ==
    CASE v.json = "object" -> v.id
      [] v.json = "scalar" -> ScalarId(v)
      [] v.json = "array" /\ Len(v.items) = 4 -> ScalarId(v.items[2])
      [] v.json = "array" /\ Len(v.items) = 3 -> "absent"
      [] v.json = "array" /\ Len(v.items) = 1 -> ScalarId(v.items[1])

Done == step = "classified"

\* Who names an ID is answered under it, or has sent a response; who names none
\* is a notification; each member is handled once, in its turn.
EveryMemberIsHandled ==
    Done /\ inbound.error = "none" =>
        /\ Len(inbound.parts) = Len(Members[text])
        /\ \A i \in 1..Len(inbound.parts) :
            LET part == inbound.parts[i]  member == Members[text][i] IN
            /\ part.id = IdOf(member)
            /\ part.kind = "notification" <=> IdOf(member) = "absent"
            /\ i \in inbound.inline <=>
                   member.json = "object" /\ IsResponse(member)

\* A message is refused as a whole, with nothing of it done, if a member cannot
\* be told from any kind of message or if there is none at all.
RefusedAsAWhole ==
    Done =>
        /\ inbound.error # "none" <=> inbound.parts = <<>>
        /\ inbound.error = "InvalidRequest" <=> Members[text] = <<>>
        /\ (\E i \in 1..Len(Members[text]) : IdOf(Members[text][i]) = "bad")
               => inbound.error = "ParseError"
=============================================================================
