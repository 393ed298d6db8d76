------------------------------ MODULE WireProofs ------------------------------
(***************************************************************************)
(* For pipes of any capacity and any calls: the types, among them that no  *)
(* pipe holds more than it has room for; that the mutex of a stream is     *)
(* held exactly where the loop is, so that a send never waits for it; and  *)
(* that each direction implements MessageStream: every step of the wire,   *)
(* with messages in pieces and receives that are dropped in the middle of  *)
(* a line, is a step of two streams of whole messages, or changes neither. *)
(***************************************************************************)
EXTENDS Wire, SequenceTheorems, TLAPS

Chunk == [of : Messages, ends : BOOLEAN]

\* The buffers and pipes hold chunks of messages.
BuffersHoldChunks ==
    /\ sending \in [Ends -> Seq(Messages)]
    /\ wbuf \in [Ends -> Seq(Chunk)]
    /\ rbuf \in [Ends -> Seq(Chunk)]
    /\ pipe \in [Ends -> Seq(Chunk)]

WireInv == TypeOK /\ BuffersHoldChunks /\ LockFollowsLoop

LEMMA OtherIsAnEnd == \A e \in Ends : Other(e) \in Ends
  BY EndsAssumption DEF Other

LEMMA ChunksOfMessages == \A m \in Messages : Chunks(m) \in Seq(Chunk)
<1> TAKE m \in Messages
<1>1. [of |-> m, ends |-> FALSE] \in Chunk /\ [of |-> m, ends |-> TRUE] \in Chunk
  BY DEF Chunk
<1> QED
  BY <1>1 DEF Chunks

LEMMA CallsOfMessages == \A m \in Messages \cup {Part} : m.call \subseteq Calls
<1>1. \A c \in Calls : Call(c).call = {c} /\ Reply(c).call = {c}
  BY DEF Call, Reply
<1>2. ParseError.call = {} /\ Part.call = {}
  BY DEF ParseError, Part
<1> QED
  BY <1>1, <1>2 DEF Messages

\* A part of a sequence is a sequence of the same elements.
LEMMA SubSeqType ==
    ASSUME NEW S, NEW s \in Seq(S), NEW m \in Nat \ {0}, NEW n \in 0..Len(s)
    PROVE  SubSeq(s, m, n) \in Seq(S)
<1>1. \A i \in m..n : s[i] \in S
  OBVIOUS
<1> QED
  BY <1>1, SubSeqProperties

\* What is left of a pipe is no longer than it was.
LEMMA RestOfPipe ==
    ASSUME NEW S, NEW s \in Seq(S), NEW n \in 0..Len(s)
    PROVE  SubSeq(s, n + 1, Len(s)) \in Seq(S) /\ Len(SubSeq(s, n + 1, Len(s))) <= Len(s)
<1>1. \A i \in (n + 1)..Len(s) : s[i] \in S
  OBVIOUS
<1> QED
  BY <1>1, SubSeqProperties

LEMMA WireInvInit == Init => WireInv
  BY BoundsAssumption DEF Init, WireInv, TypeOK, BuffersHoldChunks, LockFollowsLoop

\* What handle_inbound_message changes.
LEMMA HandleKeepsWire ==
    ASSUME WireInv, NEW e \in Ends, NEW m \in Messages \cup {Part}, Selecting(e), Handle(e, m)
    PROVE  /\ phase' = phase /\ todo' = todo /\ finished' = finished /\ wbuf' = wbuf
           /\ tasks' \in [Ends -> SUBSET Calls]
           /\ sending' \in [Ends -> Seq(Messages)]
           /\ \A f \in Ends : sending'[f] = <<>> \/ \E n \in Messages : sending'[f] = <<n>>
           /\ lock' \in [Ends -> {"free", "receive", "send"}]
           /\ LockFollowsLoop'
<1> USE DEF WireInv, TypeOK, BuffersHoldChunks, Handle, ArmCompletes
<1>1. m.call \subseteq Calls
  BY CallsOfMessages
<1>2. tasks' \in [Ends -> SUBSET Calls]
  BY <1>1
<1>3. ParseError \in Messages
  BY DEF Messages
<1>4. /\ sending' \in [Ends -> Seq(Messages)]
      /\ \A f \in Ends : sending'[f] = <<>> \/ \E n \in Messages : sending'[f] = <<n>>
  BY <1>3
<1>6. LockFollowsLoop'
  BY DEF LockFollowsLoop, Selecting
<1> QED
  BY <1>2, <1>4, <1>6

LEMMA ReceiveKeepsWire ==
    ASSUME WireInv, NEW e \in Ends, ReceiveLine(e) \/ ReceivePending(e) \/ ReceiveUnfinished(e)
    PROVE  WireInv'
<1> DEFINE o == Other(e)
<1>o. o \in Ends
  BY OtherIsAnEnd
<1> HIDE DEF o
<1>1. CASE ReceiveLine(e)
  <2>1. PICK n \in 0..Len(pipe[o]) :
            \E k \in 1..Len(rbuf[e] \o SubSeq(pipe[o], 1, n)) :
                LET buf == rbuf[e] \o SubSeq(pipe[o], 1, n) IN
                /\ rbuf' = [rbuf EXCEPT ![e] = SubSeq(buf, k + 1, Len(buf))]
                /\ pipe' = [pipe EXCEPT ![o] = SubSeq(@, n + 1, Len(@))]
                /\ Handle(e, LineAt(buf, k))
    BY <1>1 DEF ReceiveLine, o
  <2> DEFINE buf == rbuf[e] \o SubSeq(pipe[o], 1, n)
  <2>2. buf \in Seq(Chunk)
    <3>1. SubSeq(pipe[o], 1, n) \in Seq(Chunk)
      BY <1>o, SubSeqType DEF WireInv, BuffersHoldChunks
    <3> QED
      BY <3>1, ConcatProperties DEF WireInv, BuffersHoldChunks
  <2> HIDE DEF buf
  <2>3. PICK k \in 1..Len(buf) :
            /\ rbuf' = [rbuf EXCEPT ![e] = SubSeq(buf, k + 1, Len(buf))]
            /\ pipe' = [pipe EXCEPT ![o] = SubSeq(@, n + 1, Len(@))]
            /\ Handle(e, LineAt(buf, k))
    BY <2>1 DEF buf
  <2>4. LineAt(buf, k) \in Messages \cup {Part}
    <3>1. buf[k] \in Chunk
      BY <2>2
    <3> QED
      BY <3>1 DEF LineAt, Chunk
  <2>5. SubSeq(buf, k + 1, Len(buf)) \in Seq(Chunk)
    BY <2>2, RestOfPipe
  <2>6. rbuf' \in [Ends -> Seq(Chunk)]
    BY <2>3, <2>5 DEF WireInv, BuffersHoldChunks
  <2>7. /\ SubSeq(pipe[o], n + 1, Len(pipe[o])) \in Seq(Chunk)
        /\ Len(SubSeq(pipe[o], n + 1, Len(pipe[o]))) <= Len(pipe[o])
    BY <1>o, RestOfPipe DEF WireInv, BuffersHoldChunks
  <2>8. pipe' \in [Ends -> Seq(Chunk)] /\ \A f \in Ends : Len(pipe'[f]) <= Room
    <3>1. pipe' \in [Ends -> Seq(Chunk)]
      BY <1>o, <2>3, <2>7 DEF WireInv, BuffersHoldChunks
    <3>2. \A f \in Ends : Len(pipe'[f]) <= Len(pipe[f])
      BY <1>o, <2>3, <2>7, LenProperties DEF WireInv, BuffersHoldChunks
    <3>3. \A f \in Ends : Len(pipe[f]) \in Nat /\ Len(pipe'[f]) \in Nat
      BY <3>1, LenProperties DEF WireInv, BuffersHoldChunks
    <3>4. \A f \in Ends : Len(pipe[f]) <= Room /\ Room \in Nat
      BY BoundsAssumption DEF WireInv, TypeOK
    <3>5. ASSUME NEW f \in Ends PROVE Len(pipe'[f]) <= Room
      BY <3>2, <3>3, <3>4
    <3> QED
      BY <3>1, <3>5
  <2>9. Selecting(e)
    BY <1>1 DEF ReceiveLine
  <2> QED
    BY <2>3, <2>4, <2>6, <2>8, <2>9, HandleKeepsWire DEF WireInv, TypeOK, BuffersHoldChunks
<1>2. CASE ReceivePending(e)
  <2>1. rbuf[e] \o pipe[o] \in Seq(Chunk)
    BY <1>o, ConcatProperties DEF WireInv, BuffersHoldChunks
  <2>2. rbuf' \in [Ends -> Seq(Chunk)]
    BY <1>2, <2>1 DEF ReceivePending, WireInv, BuffersHoldChunks, o
  <2>3. pipe' \in [Ends -> Seq(Chunk)] /\ \A f \in Ends : Len(pipe'[f]) <= Room
    <3>1. pipe' = [pipe EXCEPT ![o] = <<>>]
      BY <1>2 DEF ReceivePending, o
    <3> QED
      BY <1>o, <3>1, BoundsAssumption DEF WireInv, TypeOK, BuffersHoldChunks
  <2>4. LockFollowsLoop'
    BY <1>2 DEF ReceivePending, WireInv, TypeOK, BuffersHoldChunks, LockFollowsLoop, Selecting,
       loopVars
  <2> QED
    BY <1>2, <2>2, <2>3, <2>4 DEF ReceivePending, WireInv, TypeOK, BuffersHoldChunks, loopVars
<1>3. CASE ReceiveUnfinished(e)
  <2>1. PICK m \in {Part, rbuf[e][1].of} : Handle(e, m)
    BY <1>3 DEF ReceiveUnfinished
  <2>2. rbuf[e] # <<>> /\ UNCHANGED pipe /\ Selecting(e)
    BY <1>3 DEF ReceiveUnfinished, AtEnd
  <2>3. rbuf[e][1] \in Chunk
    BY <2>2 DEF WireInv, BuffersHoldChunks
  <2>4. m \in Messages \cup {Part}
    BY <2>3 DEF Chunk
  <2>5. rbuf' \in [Ends -> Seq(Chunk)]
    BY <1>3 DEF ReceiveUnfinished, WireInv, BuffersHoldChunks
  <2> QED
    BY <2>1, <2>2, <2>4, <2>5, HandleKeepsWire DEF WireInv, TypeOK, BuffersHoldChunks
<1> QED
  BY <1>1, <1>2, <1>3

LEMMA SendKeepsWire ==
    ASSUME WireInv, NEW e \in Ends, TakeLock(e) \/ Write(e) \/ SendEnds(e)
    PROVE  WireInv'
<1> USE DEF WireInv, TypeOK, BuffersHoldChunks, LockFollowsLoop, Selecting, loopVars
<1>1. CASE TakeLock(e)
  <2>1. Chunks(sending[e][1]) \in Seq(Chunk)
    BY <1>1, ChunksOfMessages DEF TakeLock
  <2>2. wbuf' \in [Ends -> Seq(Chunk)]
    BY <1>1, <2>1, ConcatProperties DEF TakeLock
  <2>3. LockFollowsLoop'
    BY <1>1 DEF TakeLock
  <2> QED
    BY <1>1, <2>2, <2>3 DEF TakeLock
<1>2. CASE Write(e)
  <2>1. Head(wbuf[e]) \in Chunk /\ Tail(wbuf[e]) \in Seq(Chunk)
    BY <1>2, HeadTailProperties DEF Write
  <2>2. wbuf' \in [Ends -> Seq(Chunk)]
    BY <1>2, <2>1 DEF Write
  <2>3. /\ Append(pipe[e], Head(wbuf[e])) \in Seq(Chunk)
        /\ Len(Append(pipe[e], Head(wbuf[e]))) = Len(pipe[e]) + 1
    BY <2>1, AppendProperties
  <2>4. Len(pipe[e]) + 1 <= Room
    BY <1>2, BoundsAssumption, LenProperties DEF Write
  <2>5. pipe' \in [Ends -> Seq(Chunk)] /\ \A f \in Ends : Len(pipe'[f]) <= Room
    BY <1>2, <2>3, <2>4 DEF Write
  <2> QED
    BY <1>2, <2>2, <2>5 DEF Write
<1>3. CASE SendEnds(e)
  BY <1>3 DEF SendEnds, wireVars
<1> QED
  BY <1>1, <1>2, <1>3

LEMMA ArmsKeepWire ==
    ASSUME WireInv, NEW e \in Ends,
           \/ \E c \in Calls : SendOutbound(e, c) \/ SendReply(e, c) \/ FinishHandler(e, c)
           \/ RunCustom(e)
    PROVE  WireInv'
<1> USE DEF WireInv, TypeOK, BuffersHoldChunks, LockFollowsLoop, Selecting, loopVars, wireVars
<1>1. ASSUME NEW c \in Calls, SendOutbound(e, c) PROVE WireInv'
  <2>1. Call(c) \in Messages
    BY DEF Messages
  <2> QED
    BY <1>1, <2>1, BoundsAssumption DEF SendOutbound, ArmCompletes
<1>2. ASSUME NEW c \in Calls, SendReply(e, c) PROVE WireInv'
  <2>1. Reply(c) \in Messages
    BY DEF Messages
  <2>2. LockFollowsLoop'
    BY <1>2 DEF SendReply, ArmCompletes
  <2>3. TypeOK' /\ BuffersHoldChunks'
    BY <1>2, <2>1 DEF SendReply, ArmCompletes
  <2> QED
    BY <2>2, <2>3
<1>3. ASSUME NEW c \in Calls, FinishHandler(e, c) PROVE WireInv'
  BY <1>3 DEF FinishHandler
<1>4. CASE RunCustom(e)
  BY <1>4 DEF RunCustom, ArmCompletes
<1> QED
  BY <1>1, <1>2, <1>3, <1>4

LEMMA EndingKeepsWire ==
    ASSUME WireInv, NEW e \in Ends,
           \/ PeerClosed(e) \/ Cancelled(e) \/ AbortHandlers(e) \/ Exit(e)
           \/ Die(e) \/ Stall(e)
    PROVE  WireInv'
<1> USE DEF WireInv, TypeOK, BuffersHoldChunks, LockFollowsLoop, Selecting, wireVars
<1>1. CASE PeerClosed(e) \/ Cancelled(e)
  <2>1. StartClosing(e) /\ sending[e] = <<>> /\ UNCHANGED <<tasks, finished, sending, wireVars>>
    BY <1>1 DEF PeerClosed, Cancelled, AtEnd, StartClosing
  <2>2. LockFollowsLoop'
    BY <2>1 DEF StartClosing, ArmCompletes
  <2> QED
    BY <2>1, <2>2, BoundsAssumption DEF StartClosing, ArmCompletes
<1>2. CASE AbortHandlers(e)
  BY <1>2 DEF AbortHandlers
<1>3. CASE Exit(e)
  BY <1>3 DEF Exit
<1>4. CASE Die(e)
  BY <1>4, BoundsAssumption DEF Die, ArmCompletes
<1>5. CASE Stall(e)
  BY <1>5 DEF Stall, ArmCompletes
<1> QED
  BY <1>1, <1>2, <1>3, <1>4, <1>5

LEMMA WireInvNext == WireInv /\ [Next]_vars => WireInv'
<1> SUFFICES ASSUME WireInv, [Next]_vars PROVE WireInv'
  OBVIOUS
<1>1. CASE UNCHANGED vars
  BY <1>1 DEF vars, loopVars, wireVars, WireInv, TypeOK, BuffersHoldChunks, LockFollowsLoop, Selecting
<1>2. CASE Next
  BY <1>2, ReceiveKeepsWire, SendKeepsWire, ArmsKeepWire, EndingKeepsWire DEF Next, Loop
<1> QED
  BY <1>1, <1>2

\* The state of both ends stays well formed: TypeOK.
THEOREM TypeCorrect == Spec => []TypeOK
<1>1. WireInv => TypeOK
  BY DEF WireInv
<1> QED
  BY <1>1, WireInvInit, WireInvNext, PTL DEF Spec

\* A loop that sends never waits for the mutex of its own receive, and a mutex is
\* held only by what the loop is doing: LockFollowsLoop.
THEOREM LocksFollowLoops == Spec => []LockFollowsLoop
<1>1. WireInv => LockFollowsLoop
  BY DEF WireInv
<1> QED
  BY <1>1, WireInvInit, WireInvNext, PTL DEF Spec

-----------------------------------------------------------------------------
(* Lemmas on sequences that are cut and joined.                            *)

\* The provers see through \o, and lose themselves: they join sequences by a
\* name whose definition they are told only where it matters.
Join(s, t) == s \o t

LEMMA JoinProperties ==
    ASSUME NEW S
    PROVE  \A s, t \in Seq(S) :
               /\ Join(s, t) \in Seq(S)
               /\ Join(s, <<>>) = s
               /\ Join(s, t) = <<>> => s = <<>>
               /\ \A u \in Seq(S) : Join(Join(s, t), u) = Join(s, Join(t, u))
<1> TAKE s, t \in Seq(S)
<1>1. Join(s, t) \in Seq(S)
  BY ConcatProperties DEF Join
<1>2. Join(s, <<>>) = s
  BY ConcatEmptySeq DEF Join
<1>3. Join(s, t) = <<>> => s = <<>>
  BY ConcatEqualIffEmpty DEF Join
<1>4. ASSUME NEW u \in Seq(S) PROVE Join(Join(s, t), u) = Join(s, Join(t, u))
  BY ConcatAssociative DEF Join
<1> QED
  BY <1>1, <1>2, <1>3, <1>4

LEMMA JoinThree == \A s, t, u \in Seq(Chunk) : Join(Join(s, t), u) = Join(s, Join(t, u))
  BY JoinProperties

\* What is cut in two and joined again is the same.
LEMMA JoinAcrossCut ==
    ASSUME NEW S
    PROVE  \A s, p \in Seq(S) : \A n \in 0..Len(p) :
               /\ SubSeq(p, 1, n) \in Seq(S) /\ SubSeq(p, n + 1, Len(p)) \in Seq(S)
               /\ Join(Join(s, SubSeq(p, 1, n)), SubSeq(p, n + 1, Len(p))) = Join(s, p)
<1> TAKE s, p \in Seq(S)
<1> TAKE n \in 0..Len(p)
<1> DEFINE u == SubSeq(p, 1, n)
           v == SubSeq(p, n + 1, Len(p))
<1>1. u \in Seq(S) /\ v \in Seq(S)
  <2>1. 1 \in Nat \ {0}
    OBVIOUS
  <2> QED
    BY <2>1, SubSeqType, RestOfPipe
<1>2. Join(u, v) = p
  <2>1. 1 \in 1..(Len(p) + 1) /\ n \in (1 - 1)..Len(p) /\ Len(p) \in n..Len(p)
    BY LenProperties
  <2>2. u \o v = SubSeq(p, 1, Len(p))
    BY <2>1, ConcatAdjacentSubSeq
  <2> HIDE DEF u, v
  <2> QED
    BY <2>2, SubSeqFull DEF Join
<1> HIDE DEF u, v
<1>3. Join(Join(s, u), v) = Join(s, p)
  BY <1>1, <1>2, JoinProperties
<1> QED
  BY <1>1, <1>3 DEF u, v

\* The head of one sequence moves to the end of another.
LEMMA JoinAcrossHead ==
    ASSUME NEW S
    PROVE  \A s, p \in Seq(S), w \in Seq(S) \ {<<>>} :
               Join(Join(s, Append(p, Head(w))), Tail(w)) = Join(Join(s, p), w)
<1> TAKE s, p \in Seq(S), w \in Seq(S) \ {<<>>}
<1> DEFINE head == Head(w)
           tail == Tail(w)
           one == <<head>>
           longer == Append(p, head)
<1>1. head \in S /\ tail \in Seq(S) /\ one \in Seq(S)
  BY HeadTailProperties
<1>2. Join(one, tail) = w
  <2>1. Len(w) \in Nat \ {0}
    BY EmptySeq
  <2>2. 1 \in 1..Len(w) /\ Len(w) \in 1..Len(w)
    BY <2>1
  <2>3. SubSeq(w, 1, Len(w)) = <<w[1]>> \o SubSeq(w, 1 + 1, Len(w))
    BY <2>2, SubSeqRecursiveFirst
  <2>4. SubSeq(w, 1, Len(w)) = w /\ w[1] = head /\ SubSeq(w, 1 + 1, Len(w)) = tail
    BY SubSeqFull, TailIsSubSeq
  <2> QED
    BY <2>3, <2>4, Zenon DEF Join
<1> HIDE DEF head, tail
<1>3. longer = Join(p, one)
  BY <1>1, AppendIsConcat DEF Join
<1> HIDE DEF one, longer
<1>4. Join(s, longer) = Join(Join(s, p), one) /\ Join(s, p) \in Seq(S)
  <2>1. Join(Join(s, p), one) = Join(s, Join(p, one)) /\ Join(s, p) \in Seq(S)
    BY <1>1, JoinProperties
  <2> QED
    BY <1>3, <2>1, Zenon
<1>5. Join(Join(Join(s, p), one), tail) = Join(Join(s, p), w)
  BY <1>1, <1>2, <1>4, JoinProperties
<1>6. Join(Join(s, longer), tail) = Join(Join(s, p), w)
  BY <1>4, <1>5
<1> QED
  BY <1>6 DEF head, tail, longer

\* What is taken from the front of two is taken from the first.
LEMMA JoinFront ==
    ASSUME NEW S, NEW s \in Seq(S), NEW t \in Seq(S), NEW k \in 1..Len(s)
    PROVE  /\ Join(SubSeq(s, k + 1, Len(s)), t) = SubSeq(Join(s, t), k + 1, Len(Join(s, t)))
           /\ Len(Join(s, t)) = Len(s) + Len(t)
           /\ \A i \in 1..Len(s) : Join(s, t)[i] = s[i]
<1> DEFINE rest == SubSeq(s, k + 1, Len(s))
           whole == SubSeq(s \o t, k + 1, Len(s \o t))
<1>1. /\ s \o t \in Seq(S) /\ Len(s \o t) = Len(s) + Len(t)
      /\ \A i \in 1..(Len(s) + Len(t)) :
             (s \o t)[i] = IF i <= Len(s) THEN s[i] ELSE t[i - Len(s)]
      /\ Len(s) \in Nat /\ Len(t) \in Nat
  BY ConcatProperties, LenProperties
<1>2. /\ rest \in Seq(S) /\ Len(rest) = Len(s) - k
      /\ \A i \in 1..(Len(s) - k) : rest[i] = s[k + i]
  <2>1. \A i \in (k + 1)..Len(s) : s[i] \in S
    OBVIOUS
  <2> QED
    BY <2>1, <1>1, SubSeqProperties
<1>3. /\ whole \in Seq(S) /\ Len(whole) = Len(s) + Len(t) - k
      /\ \A i \in 1..(Len(s) + Len(t) - k) : whole[i] = (s \o t)[k + i]
  <2>1. \A i \in (k + 1)..Len(s \o t) : (s \o t)[i] \in S
    BY <1>1
  <2> QED
    BY <2>1, <1>1, SubSeqProperties
<1> HIDE DEF rest, whole
<1>4. /\ rest \o t \in Seq(S) /\ Len(rest \o t) = Len(s) - k + Len(t)
      /\ \A i \in 1..(Len(s) - k + Len(t)) :
             (rest \o t)[i] = IF i <= Len(s) - k THEN rest[i] ELSE t[i - (Len(s) - k)]
  <2>1. /\ rest \o t \in Seq(S) /\ Len(rest \o t) = Len(rest) + Len(t)
        /\ \A i \in 1..(Len(rest) + Len(t)) :
               (rest \o t)[i] = IF i <= Len(rest) THEN rest[i] ELSE t[i - Len(rest)]
    BY <1>2, ConcatProperties
  <2>2. Len(rest) = Len(s) - k
    BY <1>2
  <2> QED
    BY <2>1, <2>2, Zenon
<1>5. ASSUME NEW i \in 1..(Len(s) + Len(t) - k) PROVE (rest \o t)[i] = whole[i]
  <2>1. k + i \in 1..(Len(s) + Len(t)) /\ (k + i <= Len(s) <=> i <= Len(s) - k)
        /\ (k + i) - Len(s) = i - (Len(s) - k)
    BY <1>1
  <2>2. whole[i] = IF i <= Len(s) - k THEN s[k + i] ELSE t[i - (Len(s) - k)]
    BY <1>1, <1>3, <2>1
  <2>3. i <= Len(s) - k => rest[i] = s[k + i]
    BY <1>1, <1>2
  <2> QED
    BY <1>1, <1>4, <2>2, <2>3
<1>6. Len(rest \o t) = Len(whole) /\ Len(whole) = Len(s) + Len(t) - k
  BY <1>1, <1>3, <1>4
<1>7. rest \o t = whole
  BY <1>3, <1>4, <1>5, <1>6, SeqEqual
<1>8. \A i \in 1..Len(s) : (s \o t)[i] = s[i]
  BY <1>1
<1> QED
  BY <1>1, <1>7, <1>8 DEF rest, whole, Join

-----------------------------------------------------------------------------
(* The chunks of a direction, and the messages they carry.                 *)

\* What the sender has handed over and the receiver has not been given.
InFlight(e) == Join(Join(rbuf[Other(e)], pipe[e]), wbuf[e])

\* The chunks are those of the messages of q after the first r, in order, up to
\* where the stream was cut.
Carries(chunks, q, r) ==
    /\ Len(chunks) <= 2 * (Len(q) - r)
    /\ \A j \in 1..(Len(q) - r) :
        /\ 2 * j - 1 <= Len(chunks) => chunks[2 * j - 1] = [of |-> q[r + j], ends |-> FALSE]
        /\ 2 * j <= Len(chunks) => chunks[2 * j] = [of |-> q[r + j], ends |-> TRUE]

\* If there is a chunk at all, a message is missing and the chunk is its first.
LEMMA CarriesFirst ==
    ASSUME NEW chunks \in Seq(Chunk), NEW q \in Seq(Messages), NEW r \in Nat,
           Carries(chunks, q, r)
    PROVE  /\ r <= Len(q)
           /\ chunks # <<>> =>
                 r < Len(q) /\ chunks[1] = [of |-> q[r + 1], ends |-> FALSE]
           /\ 2 <= Len(chunks) => chunks[2] = [of |-> q[r + 1], ends |-> TRUE]
<1>1. Len(chunks) \in Nat /\ Len(q) \in Nat
  BY LenProperties
<1>2. chunks # <<>> => 1 <= Len(chunks)
  BY <1>1, EmptySeq
<1>3. r <= Len(q) /\ (1 <= Len(chunks) => 1 \in 1..(Len(q) - r))
  BY <1>1 DEF Carries
<1>4. 1 \in 1..(Len(q) - r) =>
          /\ 1 <= Len(chunks) => chunks[1] = [of |-> q[r + 1], ends |-> FALSE]
          /\ 2 <= Len(chunks) => chunks[2] = [of |-> q[r + 1], ends |-> TRUE]
  <2>1. 1 \in 1..(Len(q) - r) =>
          /\ 2 * 1 - 1 <= Len(chunks) => chunks[2 * 1 - 1] = [of |-> q[r + 1], ends |-> FALSE]
          /\ 2 * 1 <= Len(chunks) => chunks[2 * 1] = [of |-> q[r + 1], ends |-> TRUE]
    BY DEF Carries
  <2> QED
    BY <2>1
<1> QED
  BY <1>1, <1>2, <1>3, <1>4

\* One message is taken from the front.
LEMMA CarriesRest ==
    ASSUME NEW chunks \in Seq(Chunk), NEW q \in Seq(Messages), NEW r \in Nat,
           Carries(chunks, q, r), Len(chunks) >= 2
    PROVE  /\ Carries(SubSeq(chunks, 3, Len(chunks)), q, r + 1)
           /\ Len(SubSeq(chunks, 3, Len(chunks))) = Len(chunks) - 2
<1> DEFINE rest == SubSeq(chunks, 3, Len(chunks))
<1>1. Len(chunks) \in Nat /\ Len(q) \in Nat
  BY LenProperties
<1>r. /\ rest \in Seq(Chunk)
      /\ Len(rest) = IF 3 <= Len(chunks) THEN Len(chunks) - 3 + 1 ELSE 0
      /\ \A i \in 1..(Len(chunks) - 3 + 1) : rest[i] = chunks[3 + i - 1]
  <2>1. \A i \in 3..Len(chunks) : chunks[i] \in Chunk
    BY <1>1
  <2> QED
    BY <2>1, <1>1, SubSeqProperties
<1> HIDE DEF rest
<1>2. /\ rest \in Seq(Chunk) /\ Len(rest) = Len(chunks) - 2
      /\ \A i \in 1..(Len(chunks) - 2) : rest[i] = chunks[i + 2]
  <2>1. Len(rest) = Len(chunks) - 2
    <3>1. \A n \in Nat : n >= 2 => (IF 3 <= n THEN n - 3 + 1 ELSE 0) = n - 2
      OBVIOUS
    <3> QED
      BY <1>1, <1>r, <3>1, Zenon
  <2>2. ASSUME NEW i \in 1..(Len(chunks) - 2) PROVE rest[i] = chunks[i + 2]
    <3>1. i \in 1..(Len(chunks) - 3 + 1) /\ 3 + i - 1 = i + 2
      BY <1>1
    <3>2. rest[i] = chunks[3 + i - 1]
      BY <1>r, <3>1
    <3> QED
      BY <3>1, <3>2
  <2> QED
    BY <1>r, <2>1, <2>2
<1>3. ASSUME NEW j \in 1..(Len(q) - (r + 1))
      PROVE  /\ 2 * j - 1 <= Len(rest) => rest[2 * j - 1] = [of |-> q[r + 1 + j], ends |-> FALSE]
             /\ 2 * j <= Len(rest) => rest[2 * j] = [of |-> q[r + 1 + j], ends |-> TRUE]
  <2>1. /\ 2 * (j + 1) - 1 <= Len(chunks) =>
               chunks[2 * (j + 1) - 1] = [of |-> q[r + (j + 1)], ends |-> FALSE]
        /\ 2 * (j + 1) <= Len(chunks) =>
               chunks[2 * (j + 1)] = [of |-> q[r + (j + 1)], ends |-> TRUE]
    <3>1. j + 1 \in 1..(Len(q) - r)
      BY <1>1
    <3> QED
      BY <3>1 DEF Carries
  <2>2. /\ 2 * (j + 1) - 1 = (2 * j - 1) + 2 /\ 2 * (j + 1) = 2 * j + 2
        /\ r + (j + 1) = r + 1 + j
    BY <1>1
  <2>3. 2 * j - 1 <= Len(rest) => rest[2 * j - 1] = chunks[(2 * j - 1) + 2]
    BY <1>1, <1>2
  <2>4. 2 * j <= Len(rest) => rest[2 * j] = chunks[2 * j + 2]
    BY <1>1, <1>2
  <2>5. /\ 2 * j - 1 <= Len(rest) <=> 2 * (j + 1) - 1 <= Len(chunks)
        /\ 2 * j <= Len(rest) <=> 2 * (j + 1) <= Len(chunks)
    BY <1>1, <1>2
  <2> QED
    BY <2>1, <2>2, <2>3, <2>4, <2>5, Zenon
<1>4. Len(rest) <= 2 * (Len(q) - (r + 1))
  BY <1>1, <1>2 DEF Carries
<1>5. Carries(rest, q, r + 1)
  BY <1>3, <1>4 DEF Carries
<1> QED
  BY <1>2, <1>5 DEF rest

\* A message joins at the back, if nothing was cut.
LEMMA CarriesMore ==
    ASSUME NEW chunks \in Seq(Chunk), NEW q \in Seq(Messages), NEW r \in Nat,
           Carries(chunks, q, r), Len(chunks) = 2 * (Len(q) - r), NEW m \in Messages
    PROVE  /\ Carries(chunks \o Chunks(m), Append(q, m), r)
           /\ Len(chunks \o Chunks(m)) = 2 * (Len(Append(q, m)) - r)
<1> DEFINE more == chunks \o Chunks(m)
           longer == Append(q, m)
<1>1. Len(chunks) \in Nat /\ Len(q) \in Nat /\ r <= Len(q)
  BY LenProperties, CarriesFirst
<1>2. /\ Len(longer) = Len(q) + 1 /\ longer[Len(q) + 1] = m
      /\ \A i \in 1..Len(q) : longer[i] = q[i]
  BY AppendProperties
<1>3. /\ Chunks(m) \in Seq(Chunk) /\ Len(Chunks(m)) = 2
      /\ Chunks(m)[1] = [of |-> m, ends |-> FALSE] /\ Chunks(m)[2] = [of |-> m, ends |-> TRUE]
  BY ChunksOfMessages DEF Chunks
<1>4. /\ Len(more) = Len(chunks) + 2
      /\ \A i \in 1..Len(chunks) : more[i] = chunks[i]
      /\ more[Len(chunks) + 1] = Chunks(m)[1] /\ more[Len(chunks) + 2] = Chunks(m)[2]
  <2>1. /\ Len(more) = Len(chunks) + Len(Chunks(m))
        /\ \A i \in 1..(Len(chunks) + Len(Chunks(m))) :
               more[i] = IF i <= Len(chunks) THEN chunks[i] ELSE Chunks(m)[i - Len(chunks)]
    BY <1>3, ConcatProperties
  <2> HIDE DEF more
  <2>2. /\ Len(more) = Len(chunks) + 2
        /\ \A i \in 1..(Len(chunks) + 2) :
               more[i] = IF i <= Len(chunks) THEN chunks[i] ELSE Chunks(m)[i - Len(chunks)]
    BY <1>3, <2>1, Zenon
  <2> QED
    BY <1>1, <2>2
<1> HIDE DEF more, longer
<1>5. Len(more) = 2 * (Len(longer) - r)
  BY <1>1, <1>2, <1>4
<1>6. ASSUME NEW j \in 1..(Len(longer) - r)
      PROVE  /\ more[2 * j - 1] = [of |-> longer[r + j], ends |-> FALSE]
             /\ more[2 * j] = [of |-> longer[r + j], ends |-> TRUE]
  <2>1. CASE j <= Len(q) - r
    <3>1. j \in 1..(Len(q) - r) /\ r + j \in 1..Len(q)
          /\ 2 * j - 1 \in 1..Len(chunks) /\ 2 * j \in 1..Len(chunks)
      BY <1>1, <1>2, <2>1
    <3>2. /\ chunks[2 * j - 1] = [of |-> q[r + j], ends |-> FALSE]
          /\ chunks[2 * j] = [of |-> q[r + j], ends |-> TRUE]
      BY <3>1 DEF Carries
    <3> QED
      BY <1>2, <1>4, <3>1, <3>2
  <2>2. CASE j = Len(q) - r + 1
    <3>1. r + j = Len(q) + 1 /\ 2 * j - 1 = Len(chunks) + 1 /\ 2 * j = Len(chunks) + 2
      BY <1>1, <2>2
    <3> QED
      BY <1>2, <1>3, <1>4, <3>1, Zenon
  <2> QED
    BY <1>1, <1>2, <2>1, <2>2
<1>7. Carries(more, longer, r)
  <2>1. Len(more) <= 2 * (Len(longer) - r)
    BY <1>1, <1>2, <1>5
  <2> QED
    BY <1>6, <2>1 DEF Carries
<1> QED
  BY <1>5, <1>7 DEF more, longer

\* What is left when the back is cut off carries what it did.
LEMMA CarriesFront ==
    ASSUME NEW s \in Seq(Chunk), NEW w \in Seq(Chunk), NEW q \in Seq(Messages), NEW r \in Nat,
           Carries(s \o w, q, r)
    PROVE  Carries(s, q, r)
<1> DEFINE all == s \o w
<1>1. /\ Len(all) = Len(s) + Len(w)
      /\ \A i \in 1..(Len(s) + Len(w)) : all[i] = IF i <= Len(s) THEN s[i] ELSE w[i - Len(s)]
  BY ConcatProperties
<1>2. Len(s) \in Nat /\ Len(w) \in Nat /\ Len(q) \in Nat
  BY LenProperties
<1>3. Carries(all, q, r)
  OBVIOUS
<1> HIDE DEF all
<1>4. \A i \in 1..Len(s) : all[i] = s[i] /\ i <= Len(all)
  BY <1>1, <1>2
<1>5. ASSUME NEW j \in 1..(Len(q) - r)
      PROVE  /\ 2 * j - 1 <= Len(s) => s[2 * j - 1] = [of |-> q[r + j], ends |-> FALSE]
             /\ 2 * j <= Len(s) => s[2 * j] = [of |-> q[r + j], ends |-> TRUE]
  <2>1. /\ 2 * j - 1 <= Len(all) => all[2 * j - 1] = [of |-> q[r + j], ends |-> FALSE]
        /\ 2 * j <= Len(all) => all[2 * j] = [of |-> q[r + j], ends |-> TRUE]
    BY <1>3 DEF Carries
  <2>2. /\ 2 * j - 1 <= Len(s) => 2 * j - 1 \in 1..Len(s)
        /\ 2 * j <= Len(s) => 2 * j \in 1..Len(s)
    BY <1>2
  <2> QED
    BY <1>4, <2>1, <2>2, Zenon
<1>6. Len(s) <= 2 * (Len(q) - r)
  BY <1>1, <1>2, <1>3 DEF Carries
<1> QED
  BY <1>5, <1>6 DEF Carries

\* What holds of a direction whose receiver is still there: the chunks on their
\* way carry what was sent and not yet got, all of it unless the sender is gone,
\* and what was got is what was sent, but for the part a sender that is gone may
\* leave, which nothing follows.
Intact(chunks, sent, got, gone) ==
    /\ Carries(chunks, sent, Len(got))
    /\ ~gone => Len(chunks) = 2 * (Len(sent) - Len(got))
    /\ ~gone \/ chunks # <<>> => \A i \in 1..Len(got) : got[i] = sent[i]

LEMMA IntactHand ==
    ASSUME NEW chunks \in Seq(Chunk), NEW sent \in Seq(Messages),
           NEW got \in Seq(Messages \cup {Part}), NEW m \in Messages,
           Intact(chunks, sent, got, FALSE)
    PROVE  Intact(Join(chunks, Chunks(m)), Append(sent, m), got, FALSE)
<1>1. /\ Len(got) \in Nat /\ Len(sent) \in Nat
      /\ Carries(chunks, sent, Len(got)) /\ Len(chunks) = 2 * (Len(sent) - Len(got))
      /\ \A i \in 1..Len(got) : got[i] = sent[i]
  BY LenProperties DEF Intact
<1>2. Len(got) <= Len(sent)
  BY <1>1, CarriesFirst
<1>3. \A i \in 1..Len(sent) : Append(sent, m)[i] = sent[i]
  BY AppendProperties
<1>4. \A i \in 1..Len(got) : got[i] = Append(sent, m)[i]
  BY <1>1, <1>2, <1>3
<1>5. /\ Carries(chunks \o Chunks(m), Append(sent, m), Len(got))
      /\ Len(chunks \o Chunks(m)) = 2 * (Len(Append(sent, m)) - Len(got))
  BY <1>1, CarriesMore
<1> QED
  BY <1>4, <1>5, Zenon DEF Intact, Join

\* The first two chunks are the next message.
LEMMA IntactArrive ==
    ASSUME NEW chunks \in Seq(Chunk), NEW sent \in Seq(Messages),
           NEW got \in Seq(Messages \cup {Part}), NEW gone \in BOOLEAN,
           Intact(chunks, sent, got, gone), chunks # <<>>
    PROVE  /\ Len(got) < Len(sent)
           /\ \A i \in 1..Len(got) : got[i] = sent[i]
           /\ chunks[1] = [of |-> sent[Len(got) + 1], ends |-> FALSE]
           /\ Len(chunks) >= 2 =>
                 /\ chunks[2] = [of |-> sent[Len(got) + 1], ends |-> TRUE]
                 /\ Intact(SubSeq(chunks, 3, Len(chunks)), sent,
                           Append(got, sent[Len(got) + 1]), gone)
<1>1. /\ Len(got) \in Nat /\ Len(sent) \in Nat /\ Len(chunks) \in Nat
      /\ Carries(chunks, sent, Len(got))
      /\ ~gone => Len(chunks) = 2 * (Len(sent) - Len(got))
      /\ \A i \in 1..Len(got) : got[i] = sent[i]
  BY LenProperties DEF Intact
<1>2. /\ Len(got) < Len(sent)
      /\ chunks[1] = [of |-> sent[Len(got) + 1], ends |-> FALSE]
      /\ Len(chunks) >= 2 => chunks[2] = [of |-> sent[Len(got) + 1], ends |-> TRUE]
  BY <1>1, CarriesFirst
<1>3. ASSUME Len(chunks) >= 2
      PROVE  Intact(SubSeq(chunks, 3, Len(chunks)), sent,
                    Append(got, sent[Len(got) + 1]), gone)
  <2> DEFINE rest == SubSeq(chunks, 3, Len(chunks))
             m == sent[Len(got) + 1]
             more == Append(got, m)
  <2>1. Carries(rest, sent, Len(got) + 1) /\ Len(rest) = Len(chunks) - 2
    BY <1>1, <1>3, CarriesRest
  <2>2. m \in Messages \cup {Part}
    BY <1>1, <1>2
  <2> HIDE DEF rest
  <2>3. /\ Len(more) = Len(got) + 1 /\ more[Len(got) + 1] = m
        /\ \A i \in 1..Len(got) : more[i] = got[i]
    <3> HIDE DEF m
    <3> QED
      BY <2>2, AppendProperties
  <2> HIDE DEF more
  <2>4. \A i \in 1..Len(more) : more[i] = sent[i]
    BY <1>1, <2>3
  <2>5. ~gone => Len(rest) = 2 * (Len(sent) - Len(more))
    BY <1>1, <2>1, <2>3
  <2>6. Carries(rest, sent, Len(more))
    BY <2>1, <2>3, Zenon
  <2>7. Intact(rest, sent, more, gone)
    BY <2>4, <2>5, <2>6, Zenon DEF Intact
  <2> QED
    BY <2>7 DEF rest, more
<1> QED
  BY <1>1, <1>2, <1>3

\* One chunk is left of a stream that was cut: something is got in its place,
\* and nothing after it.
LEMMA IntactPart ==
    ASSUME NEW chunks \in Seq(Chunk), NEW sent \in Seq(Messages),
           NEW got \in Seq(Messages \cup {Part}), NEW m \in Messages \cup {Part},
           Intact(chunks, sent, got, TRUE), chunks # <<>>
    PROVE  Intact(<<>>, sent, Append(got, m), TRUE)
<1>1. Len(got) \in Nat /\ Len(sent) \in Nat /\ Len(got) < Len(sent)
  BY LenProperties, IntactArrive
<1>2. Len(Append(got, m)) = Len(got) + 1
  BY AppendProperties
<1>3. Carries(<<>>, sent, Len(got) + 1)
  <2>1. Len(<<>>) = 0
    BY EmptySeq
  <2> QED
    BY <1>1, <2>1 DEF Carries
<1> QED
  BY <1>2, <1>3 DEF Intact

LEMMA IntactCut ==
    ASSUME NEW s \in Seq(Chunk), NEW w \in Seq(Chunk), NEW sent \in Seq(Messages),
           NEW got \in Seq(Messages \cup {Part}), NEW gone \in BOOLEAN,
           Intact(Join(s, w), sent, got, gone)
    PROVE  Intact(s, sent, got, TRUE)
<1>1. Len(got) \in Nat /\ Carries(s \o w, sent, Len(got))
  BY LenProperties DEF Intact, Join
<1>2. Carries(s, sent, Len(got))
  BY <1>1, CarriesFront
<1>3. s # <<>> => Join(s, w) # <<>>
  BY JoinProperties
<1>4. s # <<>> => \A i \in 1..Len(got) : got[i] = sent[i]
  BY <1>3 DEF Intact
<1> QED
  BY <1>2, <1>4 DEF Intact

-----------------------------------------------------------------------------
(* The invariant under which each step is a step of the streams.           *)

HistoryType ==
    /\ handed \in [Ends -> Seq(Messages)]
    /\ received \in [Ends -> Seq(Messages \cup {Part})]

\* An end that is gone sends nothing more.
GoneIsQuiet == \A e \in Ends : phase[e] = "exited" => sending[e] = <<>> /\ wbuf[e] = <<>>

StreamsIntact ==
    \A e \in Ends : phase[Other(e)] # "exited" =>
        Intact(InFlight(e), handed[e], received[Other(e)], phase[e] = "exited")

StreamInv == WireInv /\ HistoryType /\ GoneIsQuiet /\ StreamsIntact

\* What each step has to show.
StepOfStreams ==
    /\ HistoryType' /\ StreamsIntact'
    /\ [Streams!Next]_(Streams!vars)

LEMMA TwoEnds ==
    \A e \in Ends : /\ Other(e) \in Ends /\ Other(e) # e /\ Other(Other(e)) = e
                    /\ \A f \in Ends : f = e \/ f = Other(e)
<1> TAKE e \in Ends
<1>1. PICK a, b \in Ends : a # b /\ Ends = {a, b}
  BY EndsAssumption
<1>2. Other(a) = b /\ Other(b) = a
  BY <1>1 DEF Other
<1> QED
  BY <1>1, <1>2

LEMMA BuffersAreSeqs ==
    StreamInv => \A e \in Ends :
        /\ wbuf[e] \in Seq(Chunk) /\ rbuf[e] \in Seq(Chunk) /\ pipe[e] \in Seq(Chunk)
        /\ rbuf[Other(e)] \in Seq(Chunk) /\ InFlight(e) \in Seq(Chunk)
        /\ Join(rbuf[Other(e)], pipe[e]) \in Seq(Chunk)
        /\ handed[e] \in Seq(Messages) /\ received[Other(e)] \in Seq(Messages \cup {Part})
<1> SUFFICES ASSUME StreamInv, NEW e \in Ends
             PROVE  /\ wbuf[e] \in Seq(Chunk) /\ rbuf[e] \in Seq(Chunk) /\ pipe[e] \in Seq(Chunk)
                    /\ rbuf[Other(e)] \in Seq(Chunk) /\ InFlight(e) \in Seq(Chunk)
                    /\ Join(rbuf[Other(e)], pipe[e]) \in Seq(Chunk)
                    /\ handed[e] \in Seq(Messages)
                    /\ received[Other(e)] \in Seq(Messages \cup {Part})
  OBVIOUS
<1>1. Other(e) \in Ends
  BY TwoEnds
<1>2. /\ wbuf[e] \in Seq(Chunk) /\ rbuf[e] \in Seq(Chunk) /\ pipe[e] \in Seq(Chunk)
      /\ rbuf[Other(e)] \in Seq(Chunk)
      /\ handed[e] \in Seq(Messages) /\ received[Other(e)] \in Seq(Messages \cup {Part})
  BY <1>1 DEF StreamInv, WireInv, BuffersHoldChunks, HistoryType
<1>3. Join(rbuf[Other(e)], pipe[e]) \in Seq(Chunk)
  BY <1>2, JoinProperties
<1>4. InFlight(e) \in Seq(Chunk)
  BY <1>2, <1>3, JoinProperties DEF InFlight
<1> QED
  BY <1>2, <1>3, <1>4

\* A step that leaves the chunks in flight, the histories and who is gone alone.
LEMMA NothingMoves ==
    ASSUME StreamInv, UNCHANGED history,
           \A e \in Ends : /\ phase'[e] = "exited" <=> phase[e] = "exited"
                           /\ InFlight(e)' = InFlight(e)
    PROVE  StepOfStreams
<1>1. HistoryType'
  BY DEF StreamInv, HistoryType, history
<1>2. StreamsIntact'
  <2> SUFFICES ASSUME NEW e \in Ends, phase'[Other(e)] # "exited"
               PROVE  Intact(InFlight(e)', handed'[e], received'[Other(e)], phase'[e] = "exited")
    BY DEF StreamsIntact
  <2>1. phase[Other(e)] # "exited"
    BY TwoEnds
  <2>2. Intact(InFlight(e), handed[e], received[Other(e)], phase[e] = "exited")
    BY <2>1 DEF StreamInv, StreamsIntact
  <2>3. (phase'[e] = "exited") = (phase[e] = "exited")
    OBVIOUS
  <2> QED
    BY <2>2, <2>3 DEF history
<1>3. UNCHANGED Streams!vars
  BY DEF Streams!vars, history
<1> QED
  BY <1>1, <1>2, <1>3 DEF StepOfStreams

\* A chunk moves from the write buffer to the pipe.
LEMMA WriteStep == ASSUME StreamInv, NEW e \in Ends, Write(e) PROVE StepOfStreams
<1> DEFINE o == Other(e)
           head == Head(wbuf[e])
           tail == Tail(wbuf[e])
<1>1. /\ wbuf[e] \in Seq(Chunk) /\ pipe[e] \in Seq(Chunk) /\ rbuf[o] \in Seq(Chunk)
      /\ wbuf[e] # <<>> /\ o \in Ends /\ o # e
  BY BuffersAreSeqs, TwoEnds DEF Write
<1>2. Join(Join(rbuf[o], Append(pipe[e], head)), tail) = Join(Join(rbuf[o], pipe[e]), wbuf[e])
  <2>1. wbuf[e] \in Seq(Chunk) \ {<<>>}
    BY <1>1
  <2> QED
    BY <1>1, <2>1, JoinAcrossHead
<1> HIDE DEF head, tail
<1>3. /\ wbuf'[e] = tail /\ pipe'[e] = Append(pipe[e], head) /\ rbuf' = rbuf
      /\ wbuf'[o] = wbuf[o] /\ pipe'[o] = pipe[o]
      /\ phase' = phase /\ UNCHANGED history
  BY <1>1 DEF Write, StreamInv, WireInv, BuffersHoldChunks, loopVars, head, tail
<1>4. InFlight(e)' = InFlight(e) /\ InFlight(o)' = InFlight(o)
  BY <1>2, <1>3, Zenon DEF InFlight
<1> QED
  BY <1>3, <1>4, TwoEnds, NothingMoves

\* What is read is still in flight while its line is not complete.
LEMMA PendingStep == ASSUME StreamInv, NEW e \in Ends, ReceivePending(e) PROVE StepOfStreams
<1> DEFINE o == Other(e)
<1>1. /\ rbuf[e] \in Seq(Chunk) /\ Join(rbuf[e], pipe[o]) \in Seq(Chunk)
      /\ o \in Ends /\ o # e /\ Other(o) = e
  BY BuffersAreSeqs, TwoEnds
<1>2. /\ rbuf'[e] = Join(rbuf[e], pipe[o]) /\ pipe'[o] = <<>> /\ wbuf' = wbuf
      /\ rbuf'[o] = rbuf[o] /\ pipe'[e] = pipe[e]
      /\ phase' = phase /\ UNCHANGED history
  BY <1>1 DEF ReceivePending, StreamInv, WireInv, BuffersHoldChunks, loopVars, Join
<1>3. Join(Join(rbuf[e], pipe[o]), <<>>) = Join(rbuf[e], pipe[o])
  BY <1>1, JoinProperties
<1>4. InFlight(e)' = InFlight(e) /\ InFlight(o)' = InFlight(o)
  BY <1>1, <1>2, <1>3, Zenon DEF InFlight
<1> QED
  BY <1>2, <1>4, TwoEnds, NothingMoves

\* A message is handed over when its chunks join the write buffer.
LEMMA HandStep == ASSUME StreamInv, NEW e \in Ends, TakeLock(e) PROVE StepOfStreams
<1> DEFINE o == Other(e)
           m == sending[e][1]
<1>1. o \in Ends /\ o # e /\ Other(o) = e
  BY TwoEnds
<1>2. m \in Messages
  BY DEF TakeLock, StreamInv, WireInv, BuffersHoldChunks
<1>3. phase[e] # "exited"
  BY DEF TakeLock, StreamInv, GoneIsQuiet
<1> HIDE DEF m
<1>4. /\ wbuf'[e] = Join(wbuf[e], Chunks(m)) /\ wbuf'[o] = wbuf[o]
      /\ handed' = [handed EXCEPT ![e] = Append(@, m)]
      /\ handed'[e] = Append(handed[e], m) /\ handed'[o] = handed[o]
      /\ rbuf' = rbuf /\ pipe' = pipe /\ phase' = phase /\ received' = received
  BY <1>1 DEF TakeLock, StreamInv, WireInv, BuffersHoldChunks, HistoryType, loopVars, Join, m
<1>5. InFlight(e)' = Join(InFlight(e), Chunks(m))
  <2>1. /\ wbuf[e] \in Seq(Chunk) /\ Join(rbuf[o], pipe[e]) \in Seq(Chunk)
        /\ Chunks(m) \in Seq(Chunk)
    BY <1>2, BuffersAreSeqs, ChunksOfMessages
  <2>2. Join(Join(rbuf[o], pipe[e]), Join(wbuf[e], Chunks(m)))
            = Join(Join(Join(rbuf[o], pipe[e]), wbuf[e]), Chunks(m))
    BY <2>1, JoinProperties
  <2> QED
    BY <1>4, <2>2, Zenon DEF InFlight
<1>6. InFlight(o)' = InFlight(o)
  BY <1>4, Zenon DEF InFlight
<1>7. HistoryType'
  <2>1. Append(handed[e], m) \in Seq(Messages)
    BY <1>2, AppendProperties DEF StreamInv, HistoryType
  <2> QED
    BY <1>4, <2>1 DEF StreamInv, HistoryType
<1>8. StreamsIntact'
  <2>1. ASSUME phase[o] # "exited"
        PROVE  Intact(InFlight(e)', handed'[e], received'[o], phase'[e] = "exited")
    <3>1. (phase[e] = "exited") = FALSE
      BY <1>3
    <3>2. Intact(InFlight(e), handed[e], received[o], FALSE)
      BY <2>1, <3>1 DEF StreamInv, StreamsIntact
    <3>3. /\ InFlight(e) \in Seq(Chunk) /\ handed[e] \in Seq(Messages)
          /\ received[o] \in Seq(Messages \cup {Part})
      BY BuffersAreSeqs
    <3>4. Intact(Join(InFlight(e), Chunks(m)), Append(handed[e], m), received[o], FALSE)
      BY <1>2, <3>2, <3>3, IntactHand
    <3> QED
      BY <1>4, <1>5, <3>1, <3>4, Zenon
  <2>2. ASSUME phase[e] # "exited"
        PROVE  Intact(InFlight(o)', handed'[o], received'[e], phase'[o] = "exited")
    BY <1>1, <1>4, <1>6, <2>2 DEF StreamInv, StreamsIntact
  <2> QED
    BY <1>1, <1>4, <2>1, <2>2, TwoEnds DEF StreamsIntact
<1>9. Streams!Hand(e, m)
  BY <1>3, <1>4 DEF Streams!Hand
<1>10. [Streams!Next]_(Streams!vars)
  BY <1>2, <1>9 DEF Streams!Next
<1> QED
  BY <1>7, <1>8, <1>10 DEF StepOfStreams

\* Something is got from a direction that has more to give.
LEMMA GetStep ==
    ASSUME StreamInv, NEW e \in Ends, NEW m \in Messages \cup {Part},
           phase[e] # "exited", UNCHANGED <<phase, handed>>,
           received' = [received EXCEPT ![e] = Append(@, m)],
           InFlight(e)' = InFlight(e),
           Intact(InFlight(Other(e))', handed[Other(e)], Append(received[e], m),
                  phase[Other(e)] = "exited"),
           Len(received[e]) < Len(handed[Other(e)]),
           \A i \in 1..Len(received[e]) : received[e][i] = handed[Other(e)][i],
           \/ m = handed[Other(e)][Len(received[e]) + 1]
           \/ m = Part /\ phase[Other(e)] = "exited"
    PROVE  StepOfStreams
<1> DEFINE o == Other(e)
<1>1. o \in Ends /\ o # e /\ Other(o) = e /\ \A f \in Ends : f = e \/ f = o
  BY TwoEnds
<1>2. received'[e] = Append(received[e], m) /\ received'[o] = received[o]
  BY <1>1 DEF StreamInv, HistoryType
<1>3. HistoryType'
  <2>1. Append(received[e], m) \in Seq(Messages \cup {Part})
    BY AppendProperties DEF StreamInv, HistoryType
  <2> QED
    BY <2>1 DEF StreamInv, HistoryType
<1>4. StreamsIntact'
  <2>1. Intact(InFlight(o)', handed'[o], received'[e], phase'[o] = "exited")
    BY <1>2
  <2>2. phase[o] # "exited" =>
            Intact(InFlight(e)', handed'[e], received'[o], phase'[e] = "exited")
    BY <1>2 DEF StreamInv, StreamsIntact
  <2> QED
    BY <1>1, <2>1, <2>2 DEF StreamsIntact
<1>5. Streams!Arrive(o) \/ Streams!ArriveInPart(o)
  <2> DEFINE arrived == [f \in Ends |-> received[Other(f)]]
  <2>1. arrived[o] = received[e] /\ Streams!Expects(o)
    BY <1>1 DEF Streams!Expects
  <2>2. arrived' = [arrived EXCEPT ![o] = Append(@, m)]
    <3>1. \A f \in Ends : received'[Other(f)] =
              IF f = o THEN Append(received[e], m) ELSE received[Other(f)]
      BY <1>1, <1>2
    <3>2. arrived' = [f \in Ends |-> received'[Other(f)]]
      OBVIOUS
    <3>3. [arrived EXCEPT ![o] = Append(@, m)]
              = [f \in Ends |-> IF f = o THEN Append(received[e], m) ELSE received[Other(f)]]
      BY <2>1
    <3> HIDE DEF o, arrived
    <3> QED
      BY <3>1, <3>2, <3>3
  <2>3. phase[o] = "exited" => o \in {f \in Ends : phase[f] = "exited"}
    BY <1>1
  <2>4. UNCHANGED <<handed, {f \in Ends : phase[f] = "exited"}>>
    OBVIOUS
  <2> QED
    BY <2>1, <2>2, <2>3, <2>4 DEF Streams!Arrive, Streams!ArriveInPart
<1>6. [Streams!Next]_(Streams!vars)
  BY <1>1, <1>5, Zenon DEF Streams!Next
<1> QED
  BY <1>3, <1>4, <1>6 DEF StepOfStreams

\* An end that exits or dies cuts its direction, and reads no more of the other.
LEMMA GoneStep == ASSUME StreamInv, NEW e \in Ends, Exit(e) \/ Die(e) PROVE StepOfStreams
<1> DEFINE o == Other(e)
<1>1. o \in Ends /\ o # e /\ Other(o) = e /\ \A f \in Ends : f = e \/ f = o
  BY TwoEnds
<1>2. /\ phase[e] # "exited" /\ phase' = [phase EXCEPT ![e] = "exited"]
      /\ rbuf' = [rbuf EXCEPT ![e] = <<>>] /\ wbuf' = [wbuf EXCEPT ![e] = <<>>]
      /\ pipe' = pipe /\ UNCHANGED history
  BY DEF Exit, Die
<1>3. phase'[e] = "exited" /\ phase'[o] = phase[o]
  BY <1>1, <1>2 DEF StreamInv, WireInv, TypeOK
<1>4. HistoryType'
  BY <1>2 DEF StreamInv, HistoryType, history
<1>5. StreamsIntact'
  <2>1. ASSUME phase[o] # "exited"
        PROVE  Intact(InFlight(e)', handed'[e], received'[o], phase'[e] = "exited")
    <3>1. /\ Join(rbuf[o], pipe[e]) \in Seq(Chunk) /\ wbuf[e] \in Seq(Chunk)
          /\ handed[e] \in Seq(Messages) /\ received[o] \in Seq(Messages \cup {Part})
      BY BuffersAreSeqs
    <3>2. InFlight(e)' = Join(rbuf[o], pipe[e])
      <4>1. rbuf'[o] = rbuf[o] /\ wbuf'[e] = <<>>
        BY <1>1, <1>2 DEF StreamInv, WireInv, BuffersHoldChunks
      <4>2. Join(Join(rbuf[o], pipe[e]), <<>>) = Join(rbuf[o], pipe[e])
        BY <3>1, JoinProperties
      <4> QED
        BY <1>2, <4>1, <4>2, Zenon DEF InFlight
    <3>3. Intact(InFlight(e), handed[e], received[o], phase[e] = "exited")
      BY <2>1 DEF StreamInv, StreamsIntact
    <3>4. (phase[e] = "exited") \in BOOLEAN /\ (phase'[e] = "exited") = TRUE
      BY <1>3
    <3>5. Intact(Join(rbuf[o], pipe[e]), handed[e], received[o], TRUE)
      BY <3>1, <3>3, <3>4, IntactCut DEF InFlight
    <3> QED
      BY <1>2, <3>2, <3>4, <3>5 DEF history
  <2> QED
    BY <1>1, <1>3, <2>1 DEF StreamsIntact
<1>6. Streams!Cut(e)
  <2>1. {f \in Ends : phase'[f] = "exited"} = {f \in Ends : phase[f] = "exited"} \cup {e}
    BY <1>1, <1>3
  <2> QED
    BY <1>2, <2>1 DEF Streams!Cut, history
<1>7. [Streams!Next]_(Streams!vars)
  BY <1>6, Zenon DEF Streams!Next
<1> QED
  BY <1>4, <1>5, <1>7 DEF StepOfStreams

\* Two chunks that begin with one that ends no line are a line when the second
\* ends it, and no longer line can be read.
LEMMA LineIsMessage ==
    ASSUME NEW buf \in Seq(Chunk), NEW k \in 1..Len(buf), NEW m \in Messages,
           IsLineEnd(buf, k), buf[1] = [of |-> m, ends |-> FALSE],
           Len(buf) >= 2 => buf[2] = [of |-> m, ends |-> TRUE]
    PROVE  k = 2 /\ Len(buf) >= 2 /\ LineAt(buf, k) = m
<1>1. Len(buf) \in Nat
  BY LenProperties
<1>2. k # 1
  BY DEF IsLineEnd
<1>3. Len(buf) >= 2 /\ buf[2].ends
  BY <1>1, <1>2
<1>4. k = 2
  <2>1. \A j \in 1..(k - 1) : ~buf[j].ends
    BY DEF IsLineEnd
  <2>2. k > 2 => 2 \in 1..(k - 1)
    BY <1>1
  <2> QED
    BY <1>1, <1>2, <1>3, <2>1, <2>2
<1>5. SubSeq(buf, 1, 2) = Chunks(m)
  <2>1. \A i \in 1..2 : buf[i] \in Chunk
    BY <1>1, <1>3
  <2>2. /\ SubSeq(buf, 1, 2) \in Seq(Chunk) /\ Len(SubSeq(buf, 1, 2)) = 2
        /\ SubSeq(buf, 1, 2)[1] = buf[1] /\ SubSeq(buf, 1, 2)[2] = buf[2]
    BY <2>1, SubSeqProperties
  <2>3. /\ Chunks(m) \in Seq(Chunk) /\ Len(Chunks(m)) = 2
        /\ Chunks(m)[1] = buf[1] /\ Chunks(m)[2] = buf[2]
    BY <1>3, ChunksOfMessages DEF Chunks
  <2> HIDE DEF Chunks
  <2> DEFINE line == SubSeq(buf, 1, 2)
             both == Chunks(m)
  <2> HIDE DEF line, both
  <2>4. /\ line \in Seq(Chunk) /\ both \in Seq(Chunk) /\ Len(line) = 2 /\ Len(both) = 2
        /\ line[1] = both[1] /\ line[2] = both[2]
    BY <2>2, <2>3 DEF line, both
  <2>5. line = both
    <3>1. \A i \in 1..Len(line) : line[i] = both[i]
      BY <2>4
    <3> QED
      BY <2>4, <3>1, SeqEqual
  <2> QED
    BY <2>5 DEF line, both
<1>6. buf[2].of = m
  BY <1>3
<1> QED
  BY <1>3, <1>4, <1>5, <1>6 DEF LineAt

\* A line that is read is the next message, whole.
LEMMA ArriveStep == ASSUME StreamInv, NEW e \in Ends, ReceiveLine(e) PROVE StepOfStreams
<1> DEFINE o == Other(e)
<1>1. o \in Ends /\ o # e /\ Other(o) = e /\ \A f \in Ends : f = e \/ f = o
  BY TwoEnds
<1>2. /\ rbuf[e] \in Seq(Chunk) /\ pipe[o] \in Seq(Chunk) /\ wbuf[o] \in Seq(Chunk)
      /\ InFlight(o) \in Seq(Chunk) /\ handed[o] \in Seq(Messages)
      /\ received[e] \in Seq(Messages \cup {Part})
  BY <1>1, BuffersAreSeqs
<1> HIDE DEF o
<1>3. PICK n \in 0..Len(pipe[o]) :
          \E k \in 1..Len(Join(rbuf[e], SubSeq(pipe[o], 1, n))) :
              LET buf == Join(rbuf[e], SubSeq(pipe[o], 1, n)) IN
              /\ IsLineEnd(buf, k)
              /\ rbuf' = [rbuf EXCEPT ![e] = SubSeq(buf, k + 1, Len(buf))]
              /\ pipe' = [pipe EXCEPT ![o] = SubSeq(@, n + 1, Len(@))]
              /\ Handle(e, LineAt(buf, k))
  BY DEF ReceiveLine, Join, o
<1> DEFINE buf == Join(rbuf[e], SubSeq(pipe[o], 1, n))
           left == SubSeq(pipe[o], n + 1, Len(pipe[o]))
           rest == Join(left, wbuf[o])
           all == InFlight(o)
           m == handed[o][Len(received[e]) + 1]
<1>4. /\ buf \in Seq(Chunk) /\ left \in Seq(Chunk) /\ rest \in Seq(Chunk)
      /\ all = Join(buf, rest)
  <2>1. /\ SubSeq(pipe[o], 1, n) \in Seq(Chunk) /\ left \in Seq(Chunk)
        /\ Join(buf, left) = Join(rbuf[e], pipe[o])
    BY <1>2, JoinAcrossCut
  <2> HIDE DEF left
  <2>2. buf \in Seq(Chunk) /\ rest \in Seq(Chunk)
    BY <1>2, <2>1, JoinProperties
  <2> HIDE DEF buf
  <2>3. Join(Join(buf, left), wbuf[o]) = Join(buf, Join(left, wbuf[o]))
    BY <1>2, <2>1, <2>2, JoinThree
  <2> QED
    BY <1>1, <2>1, <2>2, <2>3, Zenon DEF InFlight
<1>5. PICK k \in 1..Len(buf) :
          /\ IsLineEnd(buf, k)
          /\ rbuf' = [rbuf EXCEPT ![e] = SubSeq(buf, k + 1, Len(buf))]
          /\ pipe' = [pipe EXCEPT ![o] = left]
          /\ Handle(e, LineAt(buf, k))
  BY <1>1, <1>3
<1> HIDE DEF buf, left, rest, all, m
<1>6. /\ Join(SubSeq(buf, k + 1, Len(buf)), rest) = SubSeq(all, k + 1, Len(all))
      /\ Len(all) = Len(buf) + Len(rest) /\ \A i \in 1..Len(buf) : all[i] = buf[i]
      /\ Len(buf) \in Nat /\ Len(rest) \in Nat
  BY <1>4, JoinFront, LenProperties, Zenon
<1>7. phase[e] = "serving" /\ UNCHANGED <<phase, handed, wbuf>>
  BY <1>5 DEF ReceiveLine, Selecting, Handle
<1>8. (phase[o] = "exited") \in BOOLEAN /\ Intact(all, handed[o], received[e], phase[o] = "exited")
  <2>1. phase[Other(o)] # "exited"
    BY <1>1, <1>7
  <2>2. Intact(InFlight(o), handed[o], received[Other(o)], phase[o] = "exited")
    BY <1>1, <2>1 DEF StreamInv, StreamsIntact
  <2> QED
    BY <1>1, <2>2, Zenon DEF all
<1>9. all \in Seq(Chunk) /\ all # <<>>
  BY <1>2, <1>6, EmptySeq DEF all
<1>10. /\ Len(received[e]) < Len(handed[o])
       /\ \A i \in 1..Len(received[e]) : received[e][i] = handed[o][i]
       /\ all[1] = [of |-> m, ends |-> FALSE]
       /\ Len(all) >= 2 =>
             /\ all[2] = [of |-> m, ends |-> TRUE]
             /\ Intact(SubSeq(all, 3, Len(all)), handed[o], Append(received[e], m),
                       phase[o] = "exited")
  <2> DEFINE sent == handed[o]
             got == received[e]
             gone == phase[o] = "exited"
  <2>1. /\ sent \in Seq(Messages) /\ got \in Seq(Messages \cup {Part}) /\ gone \in BOOLEAN
        /\ Intact(all, sent, got, gone)
    BY <1>2, <1>8
  <2> HIDE DEF sent, got, gone
  <2>2. /\ Len(got) < Len(sent)
        /\ \A i \in 1..Len(got) : got[i] = sent[i]
        /\ all[1] = [of |-> sent[Len(got) + 1], ends |-> FALSE]
        /\ Len(all) >= 2 =>
              /\ all[2] = [of |-> sent[Len(got) + 1], ends |-> TRUE]
              /\ Intact(SubSeq(all, 3, Len(all)), sent, Append(got, sent[Len(got) + 1]), gone)
    BY <1>9, <2>1, IntactArrive
  <2> QED
    BY <2>2, Zenon DEF m, sent, got, gone
<1>11. m \in Messages
  <2>1. Len(received[e]) \in Nat /\ Len(handed[o]) \in Nat
    BY <1>2, LenProperties
  <2> QED
    BY <1>2, <1>10, <2>1 DEF m
<1>12. k = 2 /\ Len(buf) >= 2 /\ LineAt(buf, k) = m
  <2>1. buf[1] = [of |-> m, ends |-> FALSE] /\ (Len(buf) >= 2 => buf[2] = [of |-> m, ends |-> TRUE])
    BY <1>6, <1>10
  <2> QED
    BY <1>4, <1>5, <1>11, <2>1, LineIsMessage
<1>13. InFlight(o)' = SubSeq(all, 3, Len(all)) /\ InFlight(e)' = InFlight(e)
  <2>1. /\ rbuf'[e] = SubSeq(buf, 3, Len(buf)) /\ rbuf'[o] = rbuf[o]
        /\ pipe'[o] = left /\ pipe'[e] = pipe[e]
    BY <1>1, <1>5, <1>12 DEF StreamInv, WireInv, BuffersHoldChunks
  <2> DEFINE tail == SubSeq(buf, 3, Len(buf))
  <2>2. tail \in Seq(Chunk) /\ Join(tail, rest) = SubSeq(all, 3, Len(all))
    <3>1. tail \in Seq(Chunk)
      BY <1>4, <1>5, <1>12, RestOfPipe
    <3> QED
      BY <1>6, <1>12, <3>1
  <2> HIDE DEF tail
  <2>3. Join(Join(tail, left), wbuf[o]) = Join(tail, Join(left, wbuf[o]))
    BY <1>2, <1>4, <2>2, JoinThree
  <2>4. InFlight(o)' = Join(Join(tail, left), wbuf[o])
    BY <1>1, <1>7, <2>1, Zenon DEF InFlight, tail
  <2>5. InFlight(e)' = InFlight(e)
    BY <1>1, <1>7, <2>1, Zenon DEF InFlight, o
  <2> QED
    BY <2>2, <2>3, <2>4, <2>5, Zenon DEF rest
<1>14. received' = [received EXCEPT ![e] = Append(@, m)]
  BY <1>5, <1>12 DEF Handle
<1>15. Intact(InFlight(o)', handed[o], Append(received[e], m), phase[o] = "exited")
  <2>1. Len(all) >= 2
    BY <1>6, <1>12
  <2> QED
    BY <1>10, <1>13, <2>1, Zenon
<1> QED
  BY <1>7, <1>10, <1>11, <1>13, <1>14, <1>15, GetStep DEF o, m

\* What is left of a stream that ended is the start of the next message; it may
\* be taken for the whole of it, and nothing follows.
LEMMA UnfinishedStep ==
    ASSUME StreamInv, NEW e \in Ends, ReceiveUnfinished(e) PROVE StepOfStreams
<1> DEFINE o == Other(e)
           sent == handed[o]
           got == received[e]
<1>1. o \in Ends /\ o # e /\ Other(o) = e
  BY TwoEnds
<1>2. PICK m \in {Part, rbuf[e][1].of} : Handle(e, m)
  BY DEF ReceiveUnfinished
<1>3. /\ phase[e] = "serving" /\ phase[o] = "exited" /\ pipe[o] = <<>> /\ wbuf[o] = <<>>
      /\ rbuf[e] # <<>> /\ rbuf' = [rbuf EXCEPT ![e] = <<>>] /\ UNCHANGED pipe
      /\ UNCHANGED <<phase, handed, wbuf>> /\ received' = [received EXCEPT ![e] = Append(@, m)]
  BY <1>1, <1>2
     DEF ReceiveUnfinished, AtEnd, Selecting, Handle, StreamInv, GoneIsQuiet
<1>4. /\ rbuf[e] \in Seq(Chunk) /\ sent \in Seq(Messages) /\ got \in Seq(Messages \cup {Part})
  BY <1>1, BuffersAreSeqs
<1>5. /\ rbuf'[e] = <<>> /\ rbuf'[o] = rbuf[o]
  BY <1>1, <1>3 DEF StreamInv, WireInv, BuffersHoldChunks
<1>6. /\ InFlight(o) = rbuf[e] /\ InFlight(o)' = <<>> /\ InFlight(e)' = InFlight(e)
  <2>1. Join(rbuf[e], <<>>) = rbuf[e] /\ Join(<<>>, <<>>) = <<>>
    BY <1>4, JoinProperties, EmptySeq
  <2> QED
    BY <1>1, <1>3, <1>5, <2>1, Zenon DEF InFlight
<1>7. Intact(rbuf[e], sent, got, TRUE)
  <2>1. phase[Other(o)] # "exited" /\ (phase[o] = "exited") = TRUE
    BY <1>1, <1>3
  <2>2. Intact(InFlight(o), handed[o], received[Other(o)], phase[o] = "exited")
    BY <1>1, <2>1 DEF StreamInv, StreamsIntact
  <2> QED
    BY <1>1, <1>6, <2>1, <2>2, Zenon
<1> HIDE DEF sent, got
<1>8. /\ Len(got) < Len(sent) /\ \A i \in 1..Len(got) : got[i] = sent[i]
      /\ rbuf[e][1] = [of |-> sent[Len(got) + 1], ends |-> FALSE]
  BY <1>3, <1>4, <1>7, IntactArrive
<1>9. m = Part \/ m = sent[Len(got) + 1]
  BY <1>2, <1>8
<1>10. m \in Messages \cup {Part}
  <2>1. Len(got) \in Nat /\ Len(sent) \in Nat
    BY <1>4, LenProperties
  <2> QED
    BY <1>4, <1>8, <1>9, <2>1
<1>11. Intact(<<>>, sent, Append(got, m), TRUE)
  BY <1>3, <1>4, <1>7, <1>10, IntactPart
<1>12. Intact(InFlight(o)', handed[o], Append(received[e], m), phase[o] = "exited")
  <2>1. (phase[o] = "exited") = TRUE
    BY <1>3
  <2> QED
    BY <1>6, <1>11, <2>1, Zenon DEF sent, got
<1>13. phase[e] # "exited"
  BY <1>3
<1> QED
  BY <1>3, <1>6, <1>8, <1>9, <1>10, <1>12, <1>13, GetStep DEF sent, got

\* The other steps move nothing.
LEMMA QuietStep ==
    ASSUME StreamInv, NEW e \in Ends,
           \/ \E c \in Calls : SendOutbound(e, c) \/ SendReply(e, c) \/ FinishHandler(e, c)
           \/ SendEnds(e) \/ RunCustom(e) \/ PeerClosed(e) \/ Cancelled(e) \/ AbortHandlers(e)
           \/ Stall(e)
    PROVE  StepOfStreams
<1>1. UNCHANGED <<rbuf, wbuf, pipe>> /\ UNCHANGED history
  BY DEF SendOutbound, SendReply, FinishHandler, SendEnds, RunCustom, PeerClosed, Cancelled,
     StartClosing, AbortHandlers, Stall, wireVars
<1>2. \/ phase' = phase
      \/ phase[e] # "exited" /\ \E p \in {"closing", "stalled"} : phase' = [phase EXCEPT ![e] = p]
  BY DEF SendOutbound, SendReply, FinishHandler, SendEnds, RunCustom, PeerClosed, Cancelled,
     StartClosing, AbortHandlers, Stall, AtEnd, Selecting, loopVars
<1>3. \A f \in Ends : phase'[f] = "exited" <=> phase[f] = "exited"
  BY <1>2 DEF StreamInv, WireInv, TypeOK
<1>4. \A f \in Ends : InFlight(f)' = InFlight(f)
  BY <1>1, Zenon DEF InFlight
<1> QED
  BY <1>1, <1>3, <1>4, NothingMoves

\* Every step is a step of the streams, or none.
LEMMA StreamNext == StreamInv /\ [Next]_vars => StepOfStreams
<1> SUFFICES ASSUME StreamInv, [Next]_vars PROVE StepOfStreams
  OBVIOUS
<1>1. CASE UNCHANGED vars
  <2>1. /\ UNCHANGED <<phase, rbuf, wbuf, pipe>> /\ UNCHANGED history
    BY <1>1 DEF vars, loopVars, wireVars
  <2>2. \A f \in Ends : InFlight(f)' = InFlight(f)
    BY <2>1, Zenon DEF InFlight
  <2> QED
    BY <2>1, <2>2, NothingMoves
<1>2. CASE Next
  BY <1>2, WriteStep, PendingStep, HandStep, ArriveStep, UnfinishedStep, GoneStep, QuietStep,
     Zenon DEF Next, Loop
<1> QED
  BY <1>1, <1>2

LEMMA GoneIsQuietNext == WireInv /\ GoneIsQuiet /\ [Next]_vars => GoneIsQuiet'
<1> SUFFICES ASSUME WireInv, GoneIsQuiet, [Next]_vars PROVE GoneIsQuiet'
  OBVIOUS
<1> USE DEF WireInv, TypeOK, BuffersHoldChunks, GoneIsQuiet
<1>1. CASE UNCHANGED vars
  BY <1>1 DEF vars, loopVars, wireVars
<1>2. ASSUME NEW e \in Ends, NEW c \in Calls,
             SendOutbound(e, c) \/ SendReply(e, c) \/ FinishHandler(e, c)
      PROVE  GoneIsQuiet'
  BY <1>2 DEF SendOutbound, SendReply, FinishHandler, Selecting, wireVars
<1>3. ASSUME NEW e \in Ends, TakeLock(e) \/ Write(e) \/ SendEnds(e) PROVE GoneIsQuiet'
  BY <1>3 DEF TakeLock, Write, SendEnds, loopVars, wireVars
<1>4. ASSUME NEW e \in Ends, ReceiveLine(e) \/ ReceivePending(e) \/ ReceiveUnfinished(e)
      PROVE  GoneIsQuiet'
  <2>1. /\ phase[e] = "serving" /\ phase' = phase /\ wbuf' = wbuf
        /\ \A f \in Ends : f # e => sending'[f] = sending[f]
    BY <1>4 DEF ReceiveLine, ReceivePending, ReceiveUnfinished, AtEnd, Selecting, Handle, loopVars
  <2> QED
    BY <2>1
<1>5. ASSUME NEW e \in Ends, RunCustom(e) \/ PeerClosed(e) \/ Cancelled(e) \/ AbortHandlers(e)
      PROVE  GoneIsQuiet'
  BY <1>5 DEF RunCustom, PeerClosed, Cancelled, StartClosing, AbortHandlers, AtEnd, Selecting,
     loopVars, wireVars
<1>6. ASSUME NEW e \in Ends, Exit(e) \/ Die(e) \/ Stall(e) PROVE GoneIsQuiet'
  BY <1>6 DEF Exit, Die, Stall, wireVars
<1> QED
  BY <1>1, <1>2, <1>3, <1>4, <1>5, <1>6, Zenon DEF Next, Loop

\* At the start nothing has been handed over.
LEMMA StreamInvInit == Init => StreamInv /\ Streams!Init
<1> SUFFICES ASSUME Init PROVE StreamInv /\ Streams!Init
  OBVIOUS
<1>1. WireInv /\ HistoryType /\ GoneIsQuiet
  BY WireInvInit DEF Init, HistoryType, GoneIsQuiet
<1>2. ASSUME NEW e \in Ends
      PROVE  Intact(InFlight(e), handed[e], received[Other(e)], phase[e] = "exited")
  <2>1. Join(Join(<<>>, <<>>), <<>>) = <<>>
    BY JoinProperties, EmptySeq
  <2>2. Other(e) \in Ends
    BY TwoEnds
  <2>3. InFlight(e) = <<>> /\ handed[e] = <<>> /\ received[Other(e)] = <<>>
    BY <2>1, <2>2 DEF Init, InFlight
  <2>4. Intact(<<>>, <<>>, <<>>, phase[e] = "exited")
    <3>1. Len(<<>>) = 0
      BY EmptySeq
    <3> QED
      BY <3>1 DEF Intact, Carries
  <2> QED
    BY <2>3, <2>4
<1>3. Streams!Init
  BY TwoEnds DEF Init, Streams!Init
<1> QED
  BY <1>1, <1>2, <1>3 DEF StreamInv, StreamsIntact

\* The wire implements MessageStream, whatever the room in its pipes and whatever
\* select! drops: what arrives is what was handed over, whole, once, in order, and
\* only an end that is gone leaves a part, after which nothing comes.
THEOREM StreamsAlwaysStayWhole == Spec => StreamsStayWhole
<1>1. StreamInv /\ [Next]_vars => StreamInv' /\ [Streams!Next]_(Streams!vars)
  BY WireInvNext, GoneIsQuietNext, StreamNext DEF StreamInv, StepOfStreams
<1> QED
  BY <1>1, StreamInvInit, PTL DEF Spec, StreamsStayWhole, Streams!Spec
=============================================================================
