------------------------- MODULE ClassificationProofs -------------------------
(***************************************************************************)
(* For all values that may come in, however they are nested: the parse and *)
(* the flattening agree with the members of the value.  Each of the three  *)
(* is a recursive function, so it is shown first, by induction on the      *)
(* depth, that there is a function with the equation that defines it.      *)
(***************************************************************************)
EXTENDS Classification, WellFoundedInduction, SequenceTheorems, TLAPS

-----------------------------------------------------------------------------
(* Induction.  The induction theorems of the library are about operators;  *)
(* these are about sets, which is what the provers can instantiate.        *)

LEMMA LeastNatural ==
    ASSUME NEW T, T \subseteq Nat, T # {}
    PROVE  \E n \in T : \A k \in T : n <= k
<1>1. PICK n \in T : \A k \in T : ~(<<k, n>> \in OpToRel(<, Nat))
  BY NatLessThanWellFounded, WFMin
<1>2. \A k \in T : <<k, n>> \in OpToRel(<, Nat) <=> k < n
  BY DEF OpToRel
<1>3. \A k \in T : k \in Nat /\ n \in Nat /\ ~(k < n)
  BY <1>1, <1>2
<1>4. \A k \in T : n <= k
  BY <1>3
<1> QED
  BY <1>4

\* Induction on the natural numbers.
LEMMA NumbersInduction ==
    ASSUME NEW P, 0 \in P, \A n \in Nat : n \in P => n + 1 \in P
    PROVE  Nat \subseteq P
<1> SUFFICES ASSUME Nat \ P # {} PROVE FALSE
  OBVIOUS
<1>1. PICK n \in Nat \ P : \A k \in Nat \ P : n <= k
  BY LeastNatural
<1>2. n # 0
  OBVIOUS
<1>3. n - 1 \in Nat /\ n - 1 + 1 = n
  BY <1>2
<1>4. n - 1 \notin P
  BY <1>3
<1> QED
  BY <1>1, <1>3, <1>4

\* Induction on values: what holds of a value if it holds of those inside it
\* holds of all.
LEMMA TextInduction ==
    ASSUME NEW P,
           \A v \in Texts :
               (v.json = "array" => \A i \in 1..Len(v.items) : v.items[i] \in P) => v \in P
    PROVE  Texts \subseteq P
<1> DEFINE T == {Depth[v] : v \in Texts \ P}
<1> SUFFICES ASSUME Texts \ P # {} PROVE FALSE
  OBVIOUS
<1>1. T \subseteq Nat /\ T # {}
  BY DepthAssumption
<1>2. PICK n \in T : \A k \in T : n <= k
  BY <1>1, LeastNatural
<1>3. PICK v \in Texts \ P : n = Depth[v]
  OBVIOUS
<1>4. PICK i \in 1..Len(v.items) : v.json = "array" /\ v.items[i] \notin P
  BY <1>3
<1>5. v.items[i] \in Texts
  <2>1. v.items \in Seq(Texts)
    BY <1>4, TextsAssumption DEF Objects, Scalars
  <2> QED
    BY <2>1, <1>4
<1>6. Depth[v.items[i]] < Depth[v]
  BY <1>4, DepthAssumption
<1>7. Depth[v.items[i]] \in T
  BY <1>4, <1>5
<1>8. Depth[v.items[i]] \in Nat /\ Depth[v] \in Nat
  BY <1>5, DepthAssumption
<1>9. n <= Depth[v.items[i]]
  <2> HIDE DEF T
  <2> QED
    BY <1>2, <1>7
<1> QED
  BY <1>3, <1>6, <1>8, <1>9

-----------------------------------------------------------------------------
(* The recursive functions have the equations that define them.            *)

LEMMA ItemsAreTexts ==
    \A v \in Texts : v.json = "array" =>
        /\ v.items \in Seq(Texts)
        /\ \A i \in 1..Len(v.items) : v.items[i] \in Texts /\ Depth[v.items[i]] < Depth[v]
<1> SUFFICES ASSUME NEW v \in Texts, v.json = "array"
             PROVE  /\ v.items \in Seq(Texts)
                    /\ \A i \in 1..Len(v.items) :
                           v.items[i] \in Texts /\ Depth[v.items[i]] < Depth[v]
  OBVIOUS
<1>1. v.items \in Seq(Texts)
  BY TextsAssumption DEF Objects, Scalars
<1>2. \A i \in 1..Len(v.items) : v.items[i] \in Texts
  BY <1>1
<1> QED
  BY <1>1, <1>2, DepthAssumption

LEMMA KindsOfTexts == \A v \in Texts : v.json \in {"object", "array", "scalar"}
BY TextsAssumption DEF Objects, Scalars

ParseBody(f, v) ==
    CASE v.json = "array" ->
            IF \A i \in 1..Len(v.items) : f[v.items[i]] # Unparsable
            THEN [kind |-> "batch", parts |-> [i \in 1..Len(v.items) |-> f[v.items[i]]]]
            ELSE ParseStruct(v.items)
      [] v.json = "object" -> ParseObject(v)
      [] v.json = "scalar" -> Unparsable

\* f has the equation of Parse at what is nested less than n deep.
ParsesUpTo(f, n) ==
    /\ f = [v \in Texts |-> f[v]]
    /\ \A v \in Texts : Depth[v] < n => f[v] = ParseBody(f, v)

LEMMA ParseBodyIsLocal ==
    ASSUME NEW v \in Texts, NEW f, NEW g,
           v.json = "array" => \A i \in 1..Len(v.items) : f[v.items[i]] = g[v.items[i]]
    PROVE  ParseBody(f, v) = ParseBody(g, v)
<1>1. CASE v.json = "array"
  <2>1. [i \in 1..Len(v.items) |-> f[v.items[i]]] = [i \in 1..Len(v.items) |-> g[v.items[i]]]
    BY <1>1
  <2>2. (\A i \in 1..Len(v.items) : f[v.items[i]] # Unparsable)
            <=> (\A i \in 1..Len(v.items) : g[v.items[i]] # Unparsable)
    BY <1>1
  <2> QED
    BY <1>1, <2>1, <2>2 DEF ParseBody
<1>2. CASE v.json = "object"
  BY <1>2 DEF ParseBody
<1>3. CASE v.json = "scalar"
  BY <1>3 DEF ParseBody
<1> QED
  BY <1>1, <1>2, <1>3, KindsOfTexts

LEMMA ParseEquation == Parse = [v \in Texts |-> ParseBody(Parse, v)]
<1> DEFINE P == {n \in Nat : \E f : ParsesUpTo(f, n)}
<1>1. 0 \in P
  <2>1. ParsesUpTo([v \in Texts |-> v], 0)
    BY DepthAssumption DEF ParsesUpTo
  <2> QED
    BY <2>1
<1>2. ASSUME NEW n \in Nat, n \in P PROVE n + 1 \in P
  <2>1. PICK f : ParsesUpTo(f, n)
    BY <1>2
  <2> DEFINE g == [v \in Texts |-> ParseBody(f, v)]
  <2>2. ASSUME NEW v \in Texts, Depth[v] < n + 1 PROVE g[v] = ParseBody(g, v)
    <3>1. ASSUME v.json = "array", NEW i \in 1..Len(v.items)
          PROVE  f[v.items[i]] = g[v.items[i]]
      <4>1. v.items[i] \in Texts /\ Depth[v.items[i]] < n
        BY <2>2, <3>1, ItemsAreTexts, DepthAssumption
      <4> QED
        BY <4>1, <2>1 DEF ParsesUpTo
    <3>2. ParseBody(f, v) = ParseBody(g, v)
      <4> HIDE DEF g
      <4> QED
        BY <3>1, ParseBodyIsLocal
    <3> QED
      BY <3>2
  <2>3. ParsesUpTo(g, n + 1)
    BY <2>2 DEF ParsesUpTo
  <2> QED
    BY <2>3
<1>3. PICK f : ParsesUpTo(f, RecursionLimit + 1)
  <2>1. RecursionLimit + 1 \in P
    <3> HIDE DEF P
    <3> QED
      BY <1>1, <1>2, NumbersInduction, DepthAssumption
  <2> QED
    BY <2>1
<1>4. f = [v \in Texts |-> ParseBody(f, v)]
  BY <1>3, DepthAssumption DEF ParsesUpTo
<1>5. Parse = CHOOSE p : p = [v \in Texts |-> ParseBody(p, v)]
  BY DEF Parse, ParseBody
<1>6. \E p : p = [v \in Texts |-> ParseBody(p, v)]
  BY <1>4
<1> QED
  BY <1>5, <1>6

LEMMA ParseOfText == \A v \in Texts : Parse[v] = ParseBody(Parse, v)
BY ParseEquation

LEMMA KindsOfStructs ==
    \A s : ParseStruct(s).kind \in {"unparsable", "request", "notification", "invalid"}
BY DEF ParseStruct, Unparsable

LEMMA MessagesOfItems ==
    \A v \in Texts : Parse[v].kind = "batch" =>
        /\ v.json = "array"
        /\ Parse[v].parts = [i \in 1..Len(v.items) |-> Parse[v.items[i]]]
        /\ Len(v.items) \in Nat /\ Len(Parse[v].parts) = Len(v.items)
        /\ \A i \in 1..Len(v.items) : Parse[v.items[i]] # Unparsable
<1> SUFFICES ASSUME NEW v \in Texts, Parse[v].kind = "batch"
             PROVE  /\ v.json = "array"
                    /\ Parse[v].parts = [i \in 1..Len(v.items) |-> Parse[v.items[i]]]
                    /\ Len(v.items) \in Nat /\ Len(Parse[v].parts) = Len(v.items)
                    /\ \A i \in 1..Len(v.items) : Parse[v.items[i]] # Unparsable
  OBVIOUS
<1>1. v.json # "object"
  <2> SUFFICES ASSUME v.json = "object" PROVE FALSE
    OBVIOUS
  <2>1. Parse[v] = ParseObject(v)
    BY ParseOfText DEF ParseBody
  <2> QED
    BY <2>1 DEF ParseObject, Unparsable
<1>2. v.json # "scalar"
  <2> SUFFICES ASSUME v.json = "scalar" PROVE FALSE
    OBVIOUS
  <2>1. Parse[v] = Unparsable
    BY ParseOfText DEF ParseBody
  <2> QED
    BY <2>1 DEF Unparsable
<1>3. v.json = "array"
  BY <1>1, <1>2, KindsOfTexts
<1>4. Len(v.items) \in Nat
  BY <1>3, ItemsAreTexts
<1>5. \A i \in 1..Len(v.items) : Parse[v.items[i]] # Unparsable
  <2> SUFFICES ASSUME ~(\A i \in 1..Len(v.items) : Parse[v.items[i]] # Unparsable) PROVE FALSE
    OBVIOUS
  <2>1. Parse[v] = ParseStruct(v.items)
    BY <1>3, ParseOfText DEF ParseBody
  <2> QED
    BY <2>1, KindsOfStructs
<1>6. Parse[v] = [kind |-> "batch", parts |-> [i \in 1..Len(v.items) |-> Parse[v.items[i]]]]
  BY <1>3, <1>5, ParseOfText DEF ParseBody
<1> QED
  BY <1>3, <1>4, <1>5, <1>6

FlattenBody(f, m) ==
    IF m.kind = "batch"
    THEN FlattenSeq([i \in 1..Len(m.parts) |-> f[m.parts[i]]])
    ELSE <<m>>

\* f has the equation of Flatten at the messages nested less than n deep.
FlattensUpTo(f, n) ==
    /\ f = [m \in Parsed |-> f[m]]
    /\ \A v \in Texts : Depth[v] < n => f[Parse[v]] = FlattenBody(f, Parse[v])

LEMMA FlattenBodyIsLocal ==
    ASSUME NEW m, NEW f, NEW g,
           m.kind = "batch" => \A i \in 1..Len(m.parts) : f[m.parts[i]] = g[m.parts[i]]
    PROVE  FlattenBody(f, m) = FlattenBody(g, m)
<1>1. CASE m.kind = "batch"
  <2>1. [i \in 1..Len(m.parts) |-> f[m.parts[i]]] = [i \in 1..Len(m.parts) |-> g[m.parts[i]]]
    BY <1>1
  <2> QED
    BY <1>1, <2>1 DEF FlattenBody
<1>2. CASE m.kind # "batch"
  BY <1>2 DEF FlattenBody
<1> QED
  BY <1>1, <1>2

LEMMA FlattenEquation == Flatten = [m \in Parsed |-> FlattenBody(Flatten, m)]
<1> DEFINE P == {n \in Nat : \E f : FlattensUpTo(f, n)}
<1>1. 0 \in P
  <2>1. FlattensUpTo([m \in Parsed |-> m], 0)
    BY DepthAssumption DEF FlattensUpTo
  <2> QED
    BY <2>1
<1>2. ASSUME NEW n \in Nat, n \in P PROVE n + 1 \in P
  <2>1. PICK f : FlattensUpTo(f, n)
    BY <1>2
  <2> DEFINE g == [m \in Parsed |-> FlattenBody(f, m)]
  <2>2. ASSUME NEW v \in Texts, Depth[v] < n + 1
        PROVE  g[Parse[v]] = FlattenBody(g, Parse[v])
    <3>1. ASSUME Parse[v].kind = "batch", NEW i \in 1..Len(Parse[v].parts)
          PROVE  f[Parse[v].parts[i]] = g[Parse[v].parts[i]]
      <4>1. /\ v.json = "array" /\ i \in 1..Len(v.items)
            /\ Parse[v].parts[i] = Parse[v.items[i]]
        BY <3>1, MessagesOfItems
      <4>2. v.items[i] \in Texts /\ Depth[v.items[i]] < n
        BY <2>2, <4>1, ItemsAreTexts, DepthAssumption
      <4>3. f[Parse[v.items[i]]] = FlattenBody(f, Parse[v.items[i]])
        BY <4>2, <2>1 DEF FlattensUpTo
      <4>4. Parse[v.items[i]] \in Parsed
        BY <4>2 DEF Parsed
      <4> QED
        BY <4>1, <4>3, <4>4
    <3>2. FlattenBody(f, Parse[v]) = FlattenBody(g, Parse[v])
      <4> HIDE DEF g
      <4> QED
        BY <3>1, FlattenBodyIsLocal
    <3>3. Parse[v] \in Parsed
      BY DEF Parsed
    <3> QED
      BY <3>2, <3>3
  <2>3. FlattensUpTo(g, n + 1)
    BY <2>2 DEF FlattensUpTo
  <2> QED
    BY <2>3
<1>3. PICK f : FlattensUpTo(f, RecursionLimit + 1)
  <2>1. RecursionLimit + 1 \in P
    <3> HIDE DEF P
    <3> QED
      BY <1>1, <1>2, NumbersInduction, DepthAssumption
  <2> QED
    BY <2>1
<1>4. \A m \in Parsed : f[m] = FlattenBody(f, m)
  BY <1>3, DepthAssumption DEF FlattensUpTo, Parsed
<1>5. f = [m \in Parsed |-> FlattenBody(f, m)]
  BY <1>3, <1>4 DEF FlattensUpTo
<1>6. Flatten = CHOOSE p : p = [m \in Parsed |-> FlattenBody(p, m)]
  BY DEF Flatten, FlattenBody
<1> QED
  BY <1>5, <1>6

MembersBody(f, v) ==
    IF IsMember(v) THEN <<v>>
    ELSE FlattenSeq([i \in 1..Len(v.items) |-> f[v.items[i]]])

\* f has the equation of Members at what is nested less than n deep.
CountsUpTo(f, n) ==
    /\ f = [v \in Texts |-> f[v]]
    /\ \A v \in Texts : Depth[v] < n => f[v] = MembersBody(f, v)

LEMMA MembersBodyIsLocal ==
    ASSUME NEW v, NEW f, NEW g,
           ~IsMember(v) => \A i \in 1..Len(v.items) : f[v.items[i]] = g[v.items[i]]
    PROVE  MembersBody(f, v) = MembersBody(g, v)
<1>1. CASE ~IsMember(v)
  <2>1. [i \in 1..Len(v.items) |-> f[v.items[i]]] = [i \in 1..Len(v.items) |-> g[v.items[i]]]
    BY <1>1
  <2> QED
    BY <1>1, <2>1 DEF MembersBody
<1>2. CASE IsMember(v)
  BY <1>2 DEF MembersBody
<1> QED
  BY <1>1, <1>2

LEMMA MembersEquation == Members = [v \in Texts |-> MembersBody(Members, v)]
<1> DEFINE P == {n \in Nat : \E f : CountsUpTo(f, n)}
<1>1. 0 \in P
  <2>1. CountsUpTo([v \in Texts |-> v], 0)
    BY DepthAssumption DEF CountsUpTo
  <2> QED
    BY <2>1
<1>2. ASSUME NEW n \in Nat, n \in P PROVE n + 1 \in P
  <2>1. PICK f : CountsUpTo(f, n)
    BY <1>2
  <2> DEFINE g == [v \in Texts |-> MembersBody(f, v)]
  <2>2. ASSUME NEW v \in Texts, Depth[v] < n + 1 PROVE g[v] = MembersBody(g, v)
    <3>1. ASSUME ~IsMember(v), NEW i \in 1..Len(v.items)
          PROVE  f[v.items[i]] = g[v.items[i]]
      <4>1. v.items[i] \in Texts /\ Depth[v.items[i]] < n
        BY <2>2, <3>1, ItemsAreTexts, DepthAssumption DEF IsMember
      <4> QED
        BY <4>1, <2>1 DEF CountsUpTo
    <3>2. MembersBody(f, v) = MembersBody(g, v)
      <4> HIDE DEF g
      <4> QED
        BY <3>1, MembersBodyIsLocal
    <3> QED
      BY <3>2
  <2>3. CountsUpTo(g, n + 1)
    BY <2>2 DEF CountsUpTo
  <2> QED
    BY <2>3
<1>3. PICK f : CountsUpTo(f, RecursionLimit + 1)
  <2>1. RecursionLimit + 1 \in P
    <3> HIDE DEF P
    <3> QED
      BY <1>1, <1>2, NumbersInduction, DepthAssumption
  <2> QED
    BY <2>1
<1>4. f = [v \in Texts |-> MembersBody(f, v)]
  BY <1>3, DepthAssumption DEF CountsUpTo
<1>5. Members = CHOOSE p : p = [v \in Texts |-> MembersBody(p, v)]
  BY DEF Members, MembersBody
<1>6. \E p : p = [v \in Texts |-> MembersBody(p, v)]
  BY <1>4
<1> QED
  BY <1>5, <1>6

-----------------------------------------------------------------------------
(* Concatenation: FlattenSeq is itself a recursive function, over the      *)
(* positions of the sequence.                                              *)

JoinBody(f, seqs, i) == IF i = 1 THEN seqs[i] ELSE f[i - 1] \o seqs[i]

LEMMA JoinNext ==
    ASSUME NEW f, NEW seqs, NEW k \in Nat, k # 0
    PROVE  JoinBody(f, seqs, k + 1) = f[k] \o seqs[k + 1]
<1>1. PICK i : i = k + 1
  OBVIOUS
<1>2. i # 1 /\ i - 1 = k
  BY <1>1
<1>3. JoinBody(f, seqs, i) = f[k] \o seqs[i]
  BY <1>2, Zenon DEF JoinBody
<1> QED
  BY <1>1, <1>3, Zenon

\* f has the equation of FlattenSeq's function at the first n positions.
JoinsUpTo(f, seqs, n) ==
    /\ f = [i \in 1..Len(seqs) |-> f[i]]
    /\ \A i \in 1..Len(seqs) : i <= n => f[i] = JoinBody(f, seqs, i)

LEMMA FlattenSeqEquation ==
    ASSUME NEW seqs, Len(seqs) \in Nat, Len(seqs) # 0
    PROVE  \E f : /\ \A i \in 1..Len(seqs) : f[i] = JoinBody(f, seqs, i)
                  /\ FlattenSeq(seqs) = f[Len(seqs)]
<1> DEFINE P == {n \in Nat : \E f : JoinsUpTo(f, seqs, n)}
           h == CHOOSE f : f = [i \in 1..Len(seqs) |-> JoinBody(f, seqs, i)]
<1>1. 0 \in P
  <2>1. JoinsUpTo([i \in 1..Len(seqs) |-> i], seqs, 0)
    BY DEF JoinsUpTo
  <2> QED
    BY <2>1
<1>2. ASSUME NEW n \in Nat, n \in P PROVE n + 1 \in P
  <2>1. PICK f : JoinsUpTo(f, seqs, n)
    BY <1>2
  <2> DEFINE g == [i \in 1..Len(seqs) |-> JoinBody(f, seqs, i)]
  <2>2. ASSUME NEW i \in 1..Len(seqs), i <= n + 1 PROVE g[i] = JoinBody(g, seqs, i)
    <3>1. CASE i = 1
      BY <3>1 DEF JoinBody
    <3>2. CASE i # 1
      <4>1. i - 1 \in 1..Len(seqs) /\ i - 1 <= n
        BY <3>2, <2>2
      <4>2. g[i - 1] = f[i - 1]
        BY <4>1, <2>1 DEF JoinsUpTo
      <4> QED
        BY <3>2, <4>2 DEF JoinBody
    <3> QED
      BY <3>1, <3>2
  <2>3. JoinsUpTo(g, seqs, n + 1)
    BY <2>2 DEF JoinsUpTo
  <2> QED
    BY <2>3
<1>3. PICK f : JoinsUpTo(f, seqs, Len(seqs))
  <2>1. Len(seqs) \in P
    <3> HIDE DEF P
    <3> QED
      BY <1>1, <1>2, NumbersInduction
  <2> QED
    BY <2>1
<1>4. f = [i \in 1..Len(seqs) |-> JoinBody(f, seqs, i)]
  BY <1>3 DEF JoinsUpTo
<1>5. h = [i \in 1..Len(seqs) |-> JoinBody(h, seqs, i)]
  BY <1>4
<1>6. FlattenSeq(seqs) = h[Len(seqs)]
  BY DEF FlattenSeq, JoinBody
<1> QED
  BY <1>5, <1>6

LEMMA FlattenSeqEmpty == FlattenSeq(<<>>) = <<>>
BY DEF FlattenSeq

LEMMA FlattenSeqSingle ==
    ASSUME NEW seqs, Len(seqs) = 1
    PROVE  FlattenSeq(seqs) = seqs[1]
<1>1. Len(seqs) \in Nat /\ Len(seqs) # 0
  OBVIOUS
<1>2. PICK f : /\ \A i \in 1..Len(seqs) : f[i] = JoinBody(f, seqs, i)
               /\ FlattenSeq(seqs) = f[Len(seqs)]
  BY <1>1, FlattenSeqEquation, Zenon
<1>3. f[1] = JoinBody(f, seqs, 1)
  BY <1>2
<1>4. JoinBody(f, seqs, 1) = seqs[1]
  BY DEF JoinBody
<1> QED
  BY <1>2, <1>3, <1>4

\* What holds of each two pieces of two lists, and of the concatenations of two
\* pairs of sequences it holds of, holds of the concatenations of all pieces.
LEMMA FlattenSeqInduction ==
    ASSUME NEW s, NEW t, NEW n \in Nat, n # 0, Len(s) = n, Len(t) = n, NEW R,
           \A i \in 1..n : <<s[i], t[i]>> \in R,
           \A a, b, c, d : <<a, b>> \in R /\ <<c, d>> \in R => <<a \o c, b \o d>> \in R
    PROVE  <<FlattenSeq(s), FlattenSeq(t)>> \in R
<1>1. PICK f : /\ \A i \in 1..n : f[i] = JoinBody(f, s, i)
               /\ FlattenSeq(s) = f[n]
  BY FlattenSeqEquation
<1>2. PICK g : /\ \A i \in 1..n : g[i] = JoinBody(g, t, i)
               /\ FlattenSeq(t) = g[n]
  BY FlattenSeqEquation
<1> DEFINE P == {k \in Nat : k \in 1..n => <<f[k], g[k]>> \in R}
<1>3. 0 \in P
  OBVIOUS
<1>4. ASSUME NEW k \in Nat, k \in P PROVE k + 1 \in P
  <2> SUFFICES ASSUME k + 1 \in 1..n PROVE <<f[k + 1], g[k + 1]>> \in R
    OBVIOUS
  <2>1. CASE k = 0
    BY <2>1, <1>1, <1>2 DEF JoinBody
  <2>2. CASE k # 0
    <3>1. <<f[k], g[k]>> \in R
      BY <2>2, <1>4
    <3>3. f[k + 1] = JoinBody(f, s, k + 1) /\ g[k + 1] = JoinBody(g, t, k + 1)
      BY <1>1, <1>2
    <3>4. /\ JoinBody(f, s, k + 1) = f[k] \o s[k + 1]
          /\ JoinBody(g, t, k + 1) = g[k] \o t[k + 1]
      BY <2>2, JoinNext, Zenon
    <3>5. f[k + 1] = f[k] \o s[k + 1] /\ g[k + 1] = g[k] \o t[k + 1]
      BY <3>3, <3>4, Zenon
    <3> QED
      BY <3>1, <3>5
  <2> QED
    BY <2>1, <2>2
<1>5. n \in P
  <2> HIDE DEF P
  <2> QED
    BY <1>3, <1>4, NumbersInduction
<1> QED
  BY <1>1, <1>2, <1>5

\* The concatenation is empty only if every piece is.
LEMMA FlattenSeqNonempty ==
    ASSUME NEW S, NEW t, NEW n \in Nat, Len(t) = n, \A i \in 1..n : t[i] \in Seq(S),
           NEW j \in 1..n
    PROVE  FlattenSeq(t) \in Seq(S) /\ (t[j] # <<>> => FlattenSeq(t) # <<>>)
<1>1. PICK g : /\ \A i \in 1..n : g[i] = JoinBody(g, t, i)
               /\ FlattenSeq(t) = g[n]
  BY FlattenSeqEquation
<1> DEFINE P == {k \in Nat : k \in 1..n => g[k] \in Seq(S) /\ (t[j] # <<>> /\ j <= k => g[k] # <<>>)}
<1>2. 0 \in P
  OBVIOUS
<1>3. ASSUME NEW k \in Nat, k \in P PROVE k + 1 \in P
  <2> SUFFICES ASSUME k + 1 \in 1..n
               PROVE  g[k + 1] \in Seq(S) /\ (t[j] # <<>> /\ j <= k + 1 => g[k + 1] # <<>>)
    OBVIOUS
  <2>1. g[k + 1] = JoinBody(g, t, k + 1)
    BY <1>1
  <2>2. CASE k = 0
    <3>1. g[k + 1] = t[k + 1]
      BY <2>1, <2>2 DEF JoinBody
    <3>2. j <= k + 1 => j = k + 1
      BY <2>2
    <3> QED
      BY <3>1, <3>2
  <2>3. CASE k # 0
    <3>1. g[k] \in Seq(S) /\ (t[j] # <<>> /\ j <= k => g[k] # <<>>)
      BY <2>3, <1>3
    <3>3. JoinBody(g, t, k + 1) = g[k] \o t[k + 1]
      BY <2>3, JoinNext, Zenon
    <3>4. t[k + 1] \in Seq(S) /\ (t[j] # <<>> /\ j = k + 1 => t[k + 1] # <<>>)
      OBVIOUS
    <3>5. j <= k + 1 => j <= k \/ j = k + 1
      OBVIOUS
    <3>6. g[k] # <<>> \/ t[k + 1] # <<>> => g[k] \o t[k + 1] # <<>>
      BY <3>1, <3>4
    <3>7. g[k] \o t[k + 1] \in Seq(S)
      BY <3>1, <3>4
    <3>8. g[k + 1] = g[k] \o t[k + 1]
      BY <2>1, <3>3, Zenon
    <3> QED
      BY <3>1, <3>4, <3>5, <3>6, <3>7, <3>8
  <2> QED
    BY <2>2, <2>3
<1>4. n \in P
  <2> HIDE DEF P
  <2> QED
    BY <1>2, <1>3, NumbersInduction
<1> QED
  BY <1>1, <1>4

-----------------------------------------------------------------------------
(* The messages of what parses are those of its members, one for each.     *)

\* A message that is the one to expect of a member.
Fits(part, member) ==
    /\ part.kind \in {"request", "notification", "response", "invalid"}
    /\ part.id = IdOf(member) /\ IdOf(member) # "bad"
    /\ part.kind = "notification" <=> IdOf(member) = "absent"
    /\ IsInline(part) <=> member.json = "object" /\ IsResponse(member)

Matched == {p \in Seq(Parsed) \X Seq(Texts) :
    /\ Len(p[1]) = Len(p[2])
    /\ \A i \in 1..Len(p[1]) : Fits(p[1][i], p[2][i])}

LEMMA MatchedConcatenation ==
    ASSUME NEW a, NEW b, NEW c, NEW d, <<a, b>> \in Matched, <<c, d>> \in Matched
    PROVE  <<a \o c, b \o d>> \in Matched
<1>1. /\ a \in Seq(Parsed) /\ b \in Seq(Texts) /\ c \in Seq(Parsed) /\ d \in Seq(Texts)
      /\ Len(a) = Len(b) /\ Len(c) = Len(d)
  BY DEF Matched
<1>2. \A i \in 1..Len(a) : Fits(a[i], b[i])
  BY DEF Matched
<1>3. \A i \in 1..Len(c) : Fits(c[i], d[i])
  BY DEF Matched
<1>4. /\ a \o c \in Seq(Parsed) /\ b \o d \in Seq(Texts)
      /\ Len(a \o c) = Len(a) + Len(c) /\ Len(b \o d) = Len(a) + Len(c)
  <2>1. a \o c \in Seq(Parsed) /\ Len(a \o c) = Len(a) + Len(c)
    BY <1>1, ConcatProperties
  <2>2. b \o d \in Seq(Texts) /\ Len(b \o d) = Len(b) + Len(d)
    BY <1>1, ConcatProperties
  <2> QED
    BY <1>1, <2>1, <2>2
<1>5. ASSUME NEW i \in 1..Len(a \o c) PROVE Fits((a \o c)[i], (b \o d)[i])
  <2>1. CASE i <= Len(a)
    <3>1. (a \o c)[i] = a[i] /\ (b \o d)[i] = b[i]
      BY <2>1, <1>1
    <3> QED
      BY <3>1, <2>1, <1>1, <1>2
  <2>2. CASE i > Len(a)
    <3>1. (a \o c)[i] = c[i - Len(a)] /\ (b \o d)[i] = d[i - Len(a)]
      BY <2>2, <1>1
    <3>2. i - Len(a) \in 1..Len(c)
      BY <2>2, <1>1, <1>4
    <3> QED
      BY <3>1, <3>2, <1>3
  <2> QED
    BY <2>1, <2>2, <1>1
<1> QED
  BY <1>4, <1>5 DEF Matched

LEMMA EmptyMatched == <<<<>>, <<>>>> \in Matched
<1>1. <<>> \in Seq(Parsed) /\ <<>> \in Seq(Texts) /\ Len(<<>>) = 0
  OBVIOUS
<1>2. <<<<>>, <<>>>> \in Seq(Parsed) \X Seq(Texts)
  BY <1>1
<1> DEFINE p == <<<<>>, <<>>>>
<1>3. p[1] = <<>> /\ p[2] = <<>>
  OBVIOUS
<1>4. Len(p[1]) = Len(p[2]) /\ \A i \in 1..Len(p[1]) : Fits(p[1][i], p[2][i])
  BY <1>1, <1>3
<1> QED
  BY <1>2, <1>4 DEF Matched

LEMMA MatchedSingle ==
    ASSUME NEW part \in Parsed, NEW member \in Texts, Fits(part, member)
    PROVE  <<<<part>>, <<member>>>> \in Matched
<1>1. /\ <<part>> \in Seq(Parsed) /\ <<member>> \in Seq(Texts)
      /\ Len(<<part>>) = 1 /\ Len(<<member>>) = 1
      /\ <<part>>[1] = part /\ <<member>>[1] = member
  OBVIOUS
<1>2. \A i \in 1..Len(<<part>>) : Fits(<<part>>[i], <<member>>[i])
  BY <1>1
<1> QED
  BY <1>1, <1>2 DEF Matched

LEMMA OneMember == \A v \in Texts : IsMember(v) => Members[v] = <<v>>
BY MembersEquation DEF MembersBody

LEMMA ObjectMatches ==
    ASSUME NEW v \in Texts, v.json = "object", Parse[v] # Unparsable
    PROVE  <<Flatten[Parse[v]], Members[v]>> \in Matched
<1>1. Parse[v] = ParseObject(v)
  BY ParseOfText DEF ParseBody
<1>2. Fits(ParseObject(v), v) /\ ParseObject(v).kind # "batch"
  <2>1. IdOf(v) = v.id
    BY DEF IdOf
  <2>2. CASE IsRequest(v)
    <3>1. ParseObject(v) = [kind |-> "request", id |-> v.id]
      BY <2>2 DEF ParseObject
    <3>2. ~IsResponse(v) /\ v.id # "absent" /\ v.id # "bad"
      BY <2>2 DEF IsRequest, IsResponse, HasId
    <3> QED
      BY <2>1, <3>1, <3>2 DEF Fits, IsInline
  <2>3. CASE ~IsRequest(v) /\ IsNotification(v)
    <3>1. ParseObject(v) = [kind |-> "notification", id |-> "absent"]
      BY <2>3 DEF ParseObject
    <3>2. ~IsResponse(v) /\ v.id = "absent"
      BY <2>3 DEF IsNotification, IsResponse, HasId
    <3> QED
      BY <2>1, <3>1, <3>2 DEF Fits, IsInline
  <2>4. CASE ~IsRequest(v) /\ ~IsNotification(v) /\ IsResponse(v)
    <3>1. ParseObject(v) = [kind |-> "response", id |-> v.id]
      BY <2>4 DEF ParseObject
    <3>2. v.id # "absent" /\ v.id # "bad"
      BY <2>4 DEF IsResponse, HasId
    <3> QED
      BY <2>1, <3>1, <3>2, <2>4 DEF Fits, IsInline
  <2>5. CASE ~IsRequest(v) /\ ~IsNotification(v) /\ ~IsResponse(v)
    <3>1. ParseObject(v) = IF HasId(v) THEN [kind |-> "invalid", id |-> v.id] ELSE Unparsable
      BY <2>5 DEF ParseObject
    <3>2. HasId(v)
      BY <1>1, <3>1
    <3>3. v.id # "absent" /\ v.id # "bad"
      BY <3>2 DEF HasId
    <3> QED
      BY <2>1, <3>1, <3>2, <3>3, <2>5 DEF Fits, IsInline
  <2> QED
    BY <2>2, <2>3, <2>4, <2>5
<1>3. Parse[v] \in Parsed
  BY DEF Parsed
<1>4. Flatten[Parse[v]] = <<Parse[v]>>
  BY <1>1, <1>2, <1>3, FlattenEquation DEF FlattenBody
<1>5. Members[v] = <<v>>
  BY OneMember DEF IsMember
<1> QED
  BY <1>1, <1>2, <1>3, <1>4, <1>5, MatchedSingle

\* An array that is read as a struct.
LEMMA StructMatches ==
    ASSUME NEW v \in Texts, v.json = "array", ParseStruct(v.items) # Unparsable,
           Parse[v] = ParseStruct(v.items)
    PROVE  <<Flatten[Parse[v]], Members[v]>> \in Matched
<1>1. Members[v] = <<v>>
  BY OneMember DEF IsMember
<1>2. Parse[v] \in Parsed
  BY DEF Parsed
<1>3. Flatten[Parse[v]] = <<Parse[v]>>
  <2>1. Parse[v].kind # "batch"
    BY KindsOfStructs
  <2> QED
    BY <1>2, <2>1, FlattenEquation DEF FlattenBody
<1>4. Fits(ParseStruct(v.items), v)
  <2> DEFINE s == v.items
  <2>1. CASE Len(s) = 4 /\ IsVersion(s[1]) /\ IsId(s[2]) /\ IsString(s[3])
    <3>1. ParseStruct(s) = [kind |-> "request", id |-> ScalarId(s[2])]
      BY <2>1 DEF ParseStruct
    <3>2. IdOf(v) = ScalarId(s[2])
      BY <2>1 DEF IdOf
    <3>3. ScalarId(s[2]) # "bad" /\ ScalarId(s[2]) # "absent"
      BY <2>1 DEF ScalarId, IsId
    <3> QED
      BY <3>1, <3>2, <3>3 DEF Fits, IsInline
  <2>2. CASE Len(s) = 3 /\ IsVersion(s[1]) /\ IsString(s[2])
    <3>1. ParseStruct(s) = [kind |-> "notification", id |-> "absent"]
      BY <2>2 DEF ParseStruct
    <3>2. IdOf(v) = "absent"
      BY <2>2 DEF IdOf
    <3> QED
      BY <3>1, <3>2 DEF Fits, IsInline
  <2>3. CASE Len(s) = 1 /\ IsId(s[1])
    <3>1. ParseStruct(s) = [kind |-> "invalid", id |-> ScalarId(s[1])]
      BY <2>3 DEF ParseStruct
    <3>2. IdOf(v) = ScalarId(s[1])
      BY <2>3 DEF IdOf
    <3>3. ScalarId(s[1]) # "bad" /\ ScalarId(s[1]) # "absent"
      BY <2>3 DEF ScalarId, IsId
    <3> QED
      BY <3>1, <3>2, <3>3 DEF Fits, IsInline
  <2> QED
    BY <2>1, <2>2, <2>3 DEF ParseStruct
<1> QED
  BY <1>1, <1>2, <1>3, <1>4, MatchedSingle

\* Whose items are all messages is read as no struct: those begin with a scalar.
LEMMA BatchIsNoStruct ==
    ASSUME NEW v \in Texts, v.json = "array",
           \A i \in 1..Len(v.items) : Parse[v.items[i]] # Unparsable
    PROVE  ~IsMember(v)
<1> SUFFICES ASSUME ParseStruct(v.items) # Unparsable PROVE FALSE
  BY DEF IsMember
<1>1. Len(v.items) \in {1, 3, 4} /\ v.items[1].json = "scalar"
  BY DEF ParseStruct, IsVersion, IsId
<1>2. v.items[1] \in Texts /\ 1 \in 1..Len(v.items)
  BY <1>1, ItemsAreTexts
<1>3. Parse[v.items[1]] = Unparsable
  BY <1>1, <1>2, ParseOfText DEF ParseBody
<1> QED
  BY <1>2, <1>3

LEMMA BatchMatches ==
    ASSUME NEW v \in Texts, Parse[v].kind = "batch",
           \A i \in 1..Len(v.items) :
               <<Flatten[Parse[v.items[i]]], Members[v.items[i]]>> \in Matched
    PROVE  <<Flatten[Parse[v]], Members[v]>> \in Matched
<1> DEFINE n == Len(v.items)
           s == [i \in 1..n |-> Flatten[Parse[v.items[i]]]]
           t == [i \in 1..n |-> Members[v.items[i]]]
<1>1. /\ v.json = "array" /\ n \in Nat
      /\ Parse[v].parts = [i \in 1..n |-> Parse[v.items[i]]] /\ Len(Parse[v].parts) = n
  BY MessagesOfItems
<1>2. Flatten[Parse[v]] = FlattenSeq(s)
  <2>1. Parse[v] \in Parsed
    BY DEF Parsed
  <2>2. Flatten[Parse[v]]
            = FlattenSeq([i \in 1..Len(Parse[v].parts) |-> Flatten[Parse[v].parts[i]]])
    BY <2>1, FlattenEquation DEF FlattenBody
  <2>3. [i \in 1..Len(Parse[v].parts) |-> Flatten[Parse[v].parts[i]]] = s
    BY <1>1
  <2> QED
    BY <2>2, <2>3, Zenon
<1>3. Members[v] = FlattenSeq(t)
  BY <1>1, MessagesOfItems, BatchIsNoStruct, MembersEquation DEF MembersBody
<1>4. CASE n = 0
  <2>1. s = <<>> /\ t = <<>>
    BY <1>4
  <2>2. <<<<>>, <<>>>> \in Matched
    BY EmptyMatched
  <2>3. Flatten[Parse[v]] = <<>> /\ Members[v] = <<>>
    BY <1>2, <1>3, <2>1, FlattenSeqEmpty, Zenon
  <2> QED
    BY <2>2, <2>3, Zenon
<1>5. CASE n # 0
  <2>1. Len(s) = n /\ Len(t) = n /\ \A i \in 1..n : <<s[i], t[i]>> \in Matched
    BY <1>1
  <2>2. <<FlattenSeq(s), FlattenSeq(t)>> \in Matched
    <3> HIDE DEF n, s, t
    <3> QED
      BY <1>1, <1>5, <2>1, FlattenSeqInduction, MatchedConcatenation
  <2> QED
    BY <1>2, <1>3, <2>2, Zenon
<1> QED
  BY <1>4, <1>5

LEMMA MembersOfItems ==
    ASSUME NEW v \in Texts, ~IsMember(v),
           \A i \in 1..Len(v.items) : Members[v.items[i]] \in Seq(Texts)
    PROVE  /\ Members[v] \in Seq(Texts)
           /\ \A i \in 1..Len(v.items) : Members[v.items[i]] # <<>> => Members[v] # <<>>
<1> DEFINE n == Len(v.items)
           t == [i \in 1..n |-> Members[v.items[i]]]
<1>1. n \in Nat
  BY ItemsAreTexts DEF IsMember
<1>2. Members[v] = FlattenSeq(t)
  BY MembersEquation DEF MembersBody
<1>3. CASE n = 0
  <2>1. t = <<>>
    BY <1>3
  <2>2. Members[v] = <<>>
    BY <1>2, <2>1, FlattenSeqEmpty, Zenon
  <2> QED
    BY <1>3, <2>2
<1>4. CASE n # 0
  <2>1. Len(t) = n /\ \A i \in 1..n : t[i] = Members[v.items[i]] /\ t[i] \in Seq(Texts)
    BY <1>1
  <2>2. \A j \in 1..n : FlattenSeq(t) \in Seq(Texts) /\ (t[j] # <<>> => FlattenSeq(t) # <<>>)
    <3> HIDE DEF n, t
    <3> QED
      BY <1>1, <2>1, FlattenSeqNonempty
  <2>3. 1 \in 1..n
    BY <1>1, <1>4
  <2> HIDE DEF t
  <2> QED
    BY <1>2, <2>1, <2>2, <2>3
<1> QED
  BY <1>3, <1>4

\* What the parse and the members of a value have to do with one another.
Agrees(v) ==
    /\ Members[v] \in Seq(Texts)
    /\ Parse[v] = Unparsable => Members[v] # <<>>
    /\ Parse[v] # Unparsable => <<Flatten[Parse[v]], Members[v]>> \in Matched

LEMMA ParseAgreesWithMembers == \A v \in Texts : Agrees(v)
<1> DEFINE P == {v \in Texts : Agrees(v)}
<1>1. ASSUME NEW v \in Texts,
             v.json = "array" => \A i \in 1..Len(v.items) : v.items[i] \in P
      PROVE  Agrees(v)
  <2>1. CASE v.json # "array"
    <3>1. Members[v] = <<v>>
      BY <2>1, OneMember DEF IsMember
    <3>2. Parse[v] # Unparsable => v.json = "object"
      BY <2>1, KindsOfTexts, ParseOfText DEF ParseBody
    <3> QED
      BY <3>1, <3>2, ObjectMatches DEF Agrees
  <2>2. CASE v.json = "array"
    <3>1. \A i \in 1..Len(v.items) : v.items[i] \in Texts /\ Agrees(v.items[i])
      BY <2>2, <1>1
    <3>2. ~IsMember(v) =>
              /\ Members[v] \in Seq(Texts)
              /\ \A i \in 1..Len(v.items) : Members[v.items[i]] # <<>> => Members[v] # <<>>
      BY <3>1, MembersOfItems DEF Agrees
    <3>3. CASE \A i \in 1..Len(v.items) : Parse[v.items[i]] # Unparsable
      <4>1. Parse[v] = [kind |-> "batch", parts |-> [i \in 1..Len(v.items) |-> Parse[v.items[i]]]]
        BY <2>2, <3>3, ParseOfText DEF ParseBody
      <4>2. <<Flatten[Parse[v]], Members[v]>> \in Matched
        BY <3>1, <3>3, <4>1, BatchMatches DEF Agrees
      <4>3. Parse[v] # Unparsable
        BY <4>1 DEF Unparsable
      <4>4. Members[v] \in Seq(Texts)
        BY <2>2, <3>2, <3>3, BatchIsNoStruct
      <4> QED
        BY <4>2, <4>3, <4>4 DEF Agrees
    <3>4. CASE ~(\A i \in 1..Len(v.items) : Parse[v.items[i]] # Unparsable)
      <4>1. Parse[v] = ParseStruct(v.items)
        BY <2>2, <3>4, ParseOfText DEF ParseBody
      <4>2. CASE IsMember(v)
        <5>1. ParseStruct(v.items) # Unparsable /\ Members[v] = <<v>>
          BY <2>2, <4>2, OneMember DEF IsMember
        <5> QED
          BY <2>2, <4>1, <5>1, StructMatches DEF Agrees
      <4>3. CASE ~IsMember(v)
        <5>1. Parse[v] = Unparsable
          BY <2>2, <4>1, <4>3 DEF IsMember
        <5>2. Members[v] # <<>>
          BY <3>1, <3>2, <3>4, <4>3 DEF Agrees
        <5> QED
          BY <3>2, <4>3, <5>1, <5>2 DEF Agrees
      <4> QED
        BY <4>2, <4>3
    <3> QED
      BY <3>3, <3>4
  <2> QED
    BY <2>1, <2>2
<1>2. Texts \subseteq P
  <2>1. \A v \in Texts :
            (v.json = "array" => \A i \in 1..Len(v.items) : v.items[i] \in P) => v \in P
    BY <1>1
  <2> HIDE DEF P
  <2> QED
    BY <2>1, TextInduction
<1> QED
  BY <1>2

-----------------------------------------------------------------------------
(* The theorems.                                                           *)

LEMMA KindsOfMessages ==
    \A v \in Texts : Parse[v].kind \in
        {"unparsable", "request", "notification", "response", "invalid", "batch"}
<1> SUFFICES ASSUME NEW v \in Texts
             PROVE  Parse[v].kind \in
                 {"unparsable", "request", "notification", "response", "invalid", "batch"}
  OBVIOUS
<1>1. CASE v.json = "object"
  <2>1. Parse[v] = ParseObject(v)
    BY <1>1, ParseOfText DEF ParseBody
  <2> QED
    BY <2>1 DEF ParseObject, Unparsable
<1>2. CASE v.json = "scalar"
  <2>1. Parse[v] = Unparsable
    BY <1>2, ParseOfText DEF ParseBody
  <2> QED
    BY <2>1 DEF Unparsable
<1>3. CASE v.json = "array" /\ \A i \in 1..Len(v.items) : Parse[v.items[i]] # Unparsable
  <2>1. Parse[v] = [kind |-> "batch", parts |-> [i \in 1..Len(v.items) |-> Parse[v.items[i]]]]
    BY <1>3, ParseOfText DEF ParseBody
  <2> QED
    BY <2>1
<1>4. CASE v.json = "array" /\ ~(\A i \in 1..Len(v.items) : Parse[v.items[i]] # Unparsable)
  <2>1. Parse[v] = ParseStruct(v.items)
    BY <1>4, ParseOfText DEF ParseBody
  <2> QED
    BY <2>1, KindsOfStructs
<1> QED
  BY <1>1, <1>2, <1>3, <1>4, KindsOfTexts

\* What the classification of a value can be, by what its members are.
Refused(c, v) ==
    /\ c.parts = <<>> /\ c.inline = {}
    /\ \/ c.error = "ParseError" /\ Members[v] # <<>>
       \/ c.error = "InvalidRequest" /\ Members[v] = <<>>

Accepted(c, v) ==
    /\ c.error = "none" /\ c.parts # <<>>
    /\ c.inline = {i \in DOMAIN c.parts : IsInline(c.parts[i])}
    /\ <<c.parts, Members[v]>> \in Matched

LEMMA ClassifyCases ==
    ASSUME NEW v \in Texts
    PROVE  LET c == Classify(Parse[v]) IN Refused(c, v) \/ Accepted(c, v)
<1> DEFINE c == Classify(Parse[v])
<1>1. Agrees(v)
  BY ParseAgreesWithMembers
<1>2. CASE Parse[v] = Unparsable
  <2>1. c = [Nothing EXCEPT !.error = "ParseError"]
    BY <1>2 DEF Classify
  <2> QED
    BY <1>1, <1>2, <2>1 DEF Nothing, Refused, Agrees
<1>3. CASE Parse[v] # Unparsable /\ Flatten[Parse[v]] = <<>>
  <2>1. c = [Nothing EXCEPT !.error = "InvalidRequest"]
    BY <1>3 DEF Classify
  <2>2. <<<<>>, Members[v]>> \in Matched
    BY <1>1, <1>3 DEF Agrees
  <2>3. Members[v] \in Seq(Texts) /\ Len(Members[v]) = 0
    BY <2>2 DEF Matched
  <2>4. Members[v] = <<>>
    BY <2>3
  <2> QED
    BY <2>1, <2>4 DEF Nothing, Refused
<1>4. CASE Parse[v] # Unparsable /\ Flatten[Parse[v]] # <<>>
  <2>1. c = Split(Flatten[Parse[v]])
    BY <1>4 DEF Classify
  <2>2. /\ c.error = "none" /\ c.parts = Flatten[Parse[v]]
        /\ c.inline = {i \in DOMAIN c.parts : IsInline(c.parts[i])}
    BY <2>1 DEF Split, Nothing
  <2> QED
    BY <1>1, <1>4, <2>2 DEF Accepted, Agrees
<1> QED
  BY <1>2, <1>3, <1>4

\* How far the message has come, and that each step worked on what came in.
IInv ==
    /\ text \in Texts
    /\ step \in {"received", "parsed", "classified"}
    /\ message = IF step = "received" THEN Unparsable ELSE Parse[text]
    /\ inbound = IF step = "classified" THEN Classify(Parse[text]) ELSE Nothing

LEMMA Invariance == Spec => []IInv
<1>1. Init => IInv
  BY DEF Init, IInv
<1>2. IInv /\ [Next]_vars => IInv'
  <2> SUFFICES ASSUME IInv, [Next]_vars PROVE IInv'
    OBVIOUS
  <2>1. CASE ParseText
    BY <2>1 DEF ParseText, IInv
  <2>2. CASE ClassifyMessage
    BY <2>2 DEF ClassifyMessage, IInv
  <2>3. CASE UNCHANGED vars
    BY <2>3 DEF vars, IInv
  <2> QED
    BY <2>1, <2>2, <2>3 DEF Next
<1> QED
  BY <1>1, <1>2, PTL DEF Spec

\* A value of any nesting leaves no batch among the messages the loop works on
\* (connection.rs counts on it with an "unreachable!").
THEOREM TypeCorrect == Spec => []TypeOK
<1>1. IInv => TypeOK
  <2> SUFFICES ASSUME IInv PROVE TypeOK
    OBVIOUS
  <2>1. text \in Texts /\ step \in {"received", "parsed", "classified"}
    BY DEF IInv
  <2>2. message.kind \in {"unparsable", "request", "notification", "response", "invalid", "batch"}
    BY KindsOfMessages DEF IInv, Unparsable
  <2>3. /\ inbound.error \in {"none", "ParseError", "InvalidRequest"}
        /\ \A i \in 1..Len(inbound.parts) :
               inbound.parts[i].kind \in {"request", "notification", "response", "invalid"}
        /\ inbound.inline \subseteq 1..Len(inbound.parts)
    <3>1. CASE inbound = Nothing
      BY <3>1 DEF Nothing
    <3>2. CASE Refused(inbound, text)
      BY <3>2 DEF Refused
    <3>3. CASE Accepted(inbound, text)
      <4>1. <<inbound.parts, Members[text]>> \in Matched
        BY <3>3 DEF Accepted
      <4>2. /\ inbound.parts \in Seq(Parsed)
            /\ \A i \in 1..Len(inbound.parts) : Fits(inbound.parts[i], Members[text][i])
        BY <4>1 DEF Matched
      <4> QED
        BY <3>3, <4>2 DEF Accepted, Fits
    <3> QED
      BY <3>1, <3>2, <3>3, <2>1, ClassifyCases DEF IInv
  <2> QED
    BY <2>1, <2>2, <2>3 DEF TypeOK
<1> QED
  BY <1>1, Invariance, PTL

\* What flatten_batch and partition_map make of a message has one part for each
\* member of the value, in their order, of the kind its ID asks for.
THEOREM MembersAlwaysHandled == Spec => []EveryMemberIsHandled
<1>1. IInv => EveryMemberIsHandled
  <2> SUFFICES ASSUME IInv, Done, inbound.error = "none"
               PROVE  /\ Len(inbound.parts) = Len(Members[text])
                      /\ \A i \in 1..Len(inbound.parts) :
                          LET part == inbound.parts[i]  member == Members[text][i] IN
                          /\ part.id = IdOf(member)
                          /\ part.kind = "notification" <=> IdOf(member) = "absent"
                          /\ i \in inbound.inline <=>
                                 member.json = "object" /\ IsResponse(member)
    BY DEF EveryMemberIsHandled
  <2>1. text \in Texts /\ inbound = Classify(Parse[text])
    BY DEF IInv, Done
  <2>2. Accepted(inbound, text)
    BY <2>1, ClassifyCases DEF Refused
  <2>3. <<inbound.parts, Members[text]>> \in Matched
    BY <2>2 DEF Accepted
  <2>4. /\ inbound.parts \in Seq(Parsed) /\ Len(inbound.parts) = Len(Members[text])
        /\ \A i \in 1..Len(inbound.parts) : Fits(inbound.parts[i], Members[text][i])
    BY <2>3 DEF Matched
  <2>5. \A i \in 1..Len(inbound.parts) :
            i \in inbound.inline <=> IsInline(inbound.parts[i])
    BY <2>2, <2>4 DEF Accepted
  <2> QED
    BY <2>4, <2>5 DEF Fits
<1> QED
  BY <1>1, Invariance, PTL

\* What InboundMessage::try_from refuses is refused before anything of it is
\* done: an empty message as such, one with a member of no kind as no JSON-RPC.
THEOREM RefusalsAreWhole == Spec => []RefusedAsAWhole
<1>1. IInv => RefusedAsAWhole
  <2> SUFFICES ASSUME IInv, Done
               PROVE  /\ inbound.error # "none" <=> inbound.parts = <<>>
                      /\ inbound.error = "InvalidRequest" <=> Members[text] = <<>>
                      /\ (\E i \in 1..Len(Members[text]) : IdOf(Members[text][i]) = "bad")
                             => inbound.error = "ParseError"
    BY DEF RefusedAsAWhole
  <2>1. text \in Texts /\ inbound = Classify(Parse[text])
    BY DEF IInv, Done
  <2>2. CASE Refused(inbound, text)
    BY <2>2 DEF Refused
  <2>3. CASE Accepted(inbound, text)
    <3>1. <<inbound.parts, Members[text]>> \in Matched
      BY <2>3 DEF Accepted
    <3>2. /\ inbound.parts \in Seq(Parsed) /\ Members[text] \in Seq(Texts)
          /\ Len(inbound.parts) = Len(Members[text])
          /\ \A i \in 1..Len(inbound.parts) : Fits(inbound.parts[i], Members[text][i])
      BY <3>1 DEF Matched
    <3>3. inbound.error = "none" /\ inbound.parts # <<>>
      BY <2>3 DEF Accepted
    <3>4. Members[text] # <<>>
      BY <3>2, <3>3
    <3>5. \A i \in 1..Len(Members[text]) : IdOf(Members[text][i]) # "bad"
      BY <3>2 DEF Fits
    <3> QED
      BY <3>3, <3>4, <3>5
  <2> QED
    BY <2>1, <2>2, <2>3, ClassifyCases
<1> QED
  BY <1>1, Invariance, PTL
=============================================================================
