--------------------------- MODULE LifecycleProofs ---------------------------
(***************************************************************************)
(* Proofs about Lifecycle, for any number of owners, connections, handlers *)
(* and calls of shutdown: which connections are cancelled, what holds when *)
(* shutdown has returned, and that every loop keeps LoopContract.          *)
(***************************************************************************)
EXTENDS Lifecycle, TLAPS

\* The values that every state variable may have.
THEOREM TypeCorrect == Spec => []TypeOK
<1> USE OwnersAssumption, CallersAssumption, BoundsAssumption
<1>1. Init => TypeOK
  BY DEF Init, TypeOK, Owners
<1>2. TypeOK /\ [Next]_vars => TypeOK'
  <2> SUFFICES ASSUME TypeOK, [Next]_vars PROVE TypeOK'
    OBVIOUS
  <2> USE DEF TypeOK, loopVars
  <2>1. ASSUME NEW w \in Owners, Build(w) PROVE TypeOK'
    BY <2>1 DEF Build, Make
  <2>2. ASSUME NEW w \in Owners, CloneOwner(w) PROVE TypeOK'
    BY <2>2 DEF CloneOwner
  <2>3. ASSUME NEW w \in Owners, DropOwner(w) PROVE TypeOK'
    BY <2>3 DEF DropOwner, ConnsOf, Opened
  <2>4. ASSUME NEW c \in Conns, Bind(c) PROVE TypeOK'
    BY <2>4 DEF Bind, Make, Owners
  <2>5. ASSUME NEW c \in Conns, ServeConnection(c) PROVE TypeOK'
    BY <2>5 DEF ServeConnection
  <2>6. ASSUME NEW c \in Conns, CloneHandle(c) PROVE TypeOK'
    BY <2>6 DEF CloneHandle
  <2>7. ASSUME NEW c \in Conns, DropHandle(c) PROVE TypeOK'
    BY <2>7 DEF DropHandle
  <2>8. ASSUME NEW c \in Conns, StopInOrder(c) \/ StopOnError(c) PROVE TypeOK'
    BY <2>8 DEF StopInOrder, StopOnError, Stop
  <2>9. ASSUME NEW c \in Conns, LoopPanics(c) \/ Exit(c) PROVE TypeOK'
    BY <2>9 DEF LoopPanics, Exit
  <2>10. ASSUME NEW c \in Conns, AbortHandlers(c) PROVE TypeOK'
    BY <2>10 DEF AbortHandlers, DropWaiters
  <2>11. ASSUME NEW h \in Handlers, StartHandler(h) \/ EndHandler(h) PROVE TypeOK'
    BY <2>11 DEF StartHandler, EndHandler
  <2>12. ASSUME NEW s \in Waiters, Shutdown(s) PROVE TypeOK'
    <3>1. Target[s] \in Conns /\ handles[Target[s]] \in 0..CopyBound
      OBVIOUS
    <3>2. handles' \in [Conns -> 0..CopyBound]
      BY <2>12, <3>1 DEF Shutdown
    <3> QED BY <2>12, <3>1, <3>2 DEF Shutdown
  <2>13. ASSUME NEW s \in Waiters, ShutdownReturns(s) \/ ShutdownDropped(s) PROVE TypeOK'
    BY <2>13 DEF ShutdownReturns, ShutdownDropped
  <2>14. CASE UNCHANGED vars
    BY <2>14 DEF vars
  <2> QED
    BY <2>1, <2>2, <2>3, <2>4, <2>5, <2>6, <2>7, <2>8, <2>9, <2>10, <2>11, <2>12,
       <2>13, <2>14 DEF Next
<1> QED BY <1>1, <1>2, PTL DEF Spec

\* The inductive invariant.  An opened connection has a made owner, so its owner
\* is not made after it; and a loop has a result from when it stops.
Inv ==
    /\ TypeOK
    /\ OwnerGoneMeansCancelled
    /\ OnlyShutdownCancels
    /\ AfterShutdownNothingRuns
    /\ \A w \in Owners : clones[w] > 0 => w \in made
    /\ \A c \in Opened : OwnerOf[c] \in made
    /\ \A c \in Conns : state[c] = "unopened" /\ c \in cancelled =>
        \E s \in Waiters : Target[s] = c /\ waiter[s] # "idle"
    /\ \A c \in Conns : state[c] \in {"closing", "closed"} => result[c] # "none"
    /\ \A c \in Conns : result[c] = "panic" => state[c] = "closed"
    /\ \A c \in Conns :
        (state[c] = "closed" /\ result[c] # "panic") => running[c] = {}

LEMMA InvInit == Init => Inv
BY OwnersAssumption, BoundsAssumption
   DEF Init, Inv, TypeOK, OwnerGoneMeansCancelled, OnlyShutdownCancels,
       AfterShutdownNothingRuns, Opened, Owners

\* Owners come and go.
LEMMA OwnerSteps ==
    ASSUME Inv, TypeOK', NEW w \in Owners,
           Build(w) \/ CloneOwner(w) \/ DropOwner(w)
    PROVE  Inv'
<1> USE OwnersAssumption, CallersAssumption DEF Inv
<1>1. CASE Build(w)
  BY <1>1 DEF Build, Make, loopVars, TypeOK, OwnerGoneMeansCancelled,
     OnlyShutdownCancels, AfterShutdownNothingRuns, Opened
<1>2. CASE CloneOwner(w)
  BY <1>2 DEF CloneOwner, loopVars, TypeOK, OwnerGoneMeansCancelled,
     OnlyShutdownCancels, AfterShutdownNothingRuns, Opened
<1>3. CASE DropOwner(w)
  BY <1>3 DEF DropOwner, ConnsOf, TypeOK, OwnerGoneMeansCancelled,
     OnlyShutdownCancels, AfterShutdownNothingRuns, Opened
<1> QED BY <1>1, <1>2, <1>3

\* Connections are opened, and their handles come and go.
LEMMA HandleSteps ==
    ASSUME Inv, TypeOK', NEW c \in Conns,
           Bind(c) \/ ServeConnection(c) \/ CloneHandle(c) \/ DropHandle(c)
    PROVE  Inv'
<1> USE OwnersAssumption, CallersAssumption DEF Inv
<1>1. CASE Bind(c)
  BY <1>1 DEF Bind, Make, TypeOK, OwnerGoneMeansCancelled,
     OnlyShutdownCancels, AfterShutdownNothingRuns, Opened
<1>2. CASE ServeConnection(c)
  <2>1. OwnerOf[c] \in made
    BY <1>2 DEF ServeConnection
  <2> QED
    BY <1>2, <2>1 DEF ServeConnection, TypeOK, OwnerGoneMeansCancelled,
       OnlyShutdownCancels, AfterShutdownNothingRuns, Opened
<1>3. CASE CloneHandle(c) \/ DropHandle(c)
  BY <1>3 DEF CloneHandle, DropHandle, loopVars, TypeOK, OwnerGoneMeansCancelled,
     OnlyShutdownCancels, AfterShutdownNothingRuns, Opened
<1> QED BY <1>1, <1>2, <1>3

\* An event loop stops, waits for its handlers and exits, or panics.
LEMMA LoopSteps ==
    ASSUME Inv, TypeOK', NEW c \in Conns,
           \/ StopInOrder(c) \/ StopOnError(c) \/ LoopPanics(c)
           \/ AbortHandlers(c) \/ Exit(c)
    PROVE  Inv'
<1> USE OwnersAssumption, CallersAssumption DEF Inv
<1>1. CASE StopInOrder(c) \/ StopOnError(c)
  BY <1>1 DEF StopInOrder, StopOnError, Stop, TypeOK, OwnerGoneMeansCancelled,
     OnlyShutdownCancels, AfterShutdownNothingRuns, Opened
<1>2. CASE LoopPanics(c)
  BY <1>2 DEF LoopPanics, TypeOK, OwnerGoneMeansCancelled,
     OnlyShutdownCancels, AfterShutdownNothingRuns, Opened
<1>3. CASE AbortHandlers(c)
  BY <1>3 DEF AbortHandlers, DropWaiters, TypeOK, OwnerGoneMeansCancelled,
     OnlyShutdownCancels, AfterShutdownNothingRuns, Opened
<1>4. CASE Exit(c)
  BY <1>4 DEF Exit, TypeOK, OwnerGoneMeansCancelled,
     OnlyShutdownCancels, AfterShutdownNothingRuns, Opened
<1> QED BY <1>1, <1>2, <1>3, <1>4

LEMMA HandlerSteps ==
    ASSUME Inv, TypeOK', NEW h \in Handlers, StartHandler(h) \/ EndHandler(h)
    PROVE  Inv'
BY CallersAssumption DEF Inv, StartHandler, EndHandler, TypeOK, OwnerGoneMeansCancelled,
   OnlyShutdownCancels, AfterShutdownNothingRuns, Opened

LEMMA ShutdownSteps ==
    ASSUME Inv, TypeOK', NEW s \in Waiters,
           Shutdown(s) \/ ShutdownReturns(s) \/ ShutdownDropped(s)
    PROVE  Inv'
<1> USE OwnersAssumption, CallersAssumption DEF Inv
<1>1. CASE Shutdown(s)
  BY <1>1 DEF Shutdown, TypeOK, OwnerGoneMeansCancelled,
     OnlyShutdownCancels, AfterShutdownNothingRuns, Opened
<1>2. CASE ShutdownReturns(s) \/ ShutdownDropped(s)
  BY <1>2 DEF ShutdownReturns, ShutdownDropped, loopVars, TypeOK,
     OwnerGoneMeansCancelled, OnlyShutdownCancels, AfterShutdownNothingRuns, Opened
<1> QED BY <1>1, <1>2

LEMMA InvHolds == Spec => []Inv
<1>1. Inv /\ TypeOK' /\ [Next]_vars => Inv'
  <2> SUFFICES ASSUME Inv, TypeOK', [Next]_vars PROVE Inv'
    OBVIOUS
  <2>1. CASE UNCHANGED vars
    BY <2>1 DEF vars, loopVars, Inv, OwnerGoneMeansCancelled, OnlyShutdownCancels,
       AfterShutdownNothingRuns, Opened
  <2> QED
    BY <2>1, OwnerSteps, HandleSteps, LoopSteps, HandlerSteps, ShutdownSteps DEF Next
<1> QED BY <1>1, InvInit, TypeCorrect, PTL DEF Spec

\* However many clones and handles there are, a connection whose owner is gone
\* is cancelled, or over.
THEOREM DroppedOwnersCancel == Spec => []OwnerGoneMeansCancelled
BY InvHolds, PTL DEF Inv

\* While its owner lives, a serving connection is cancelled by shutdown only.
THEOREM OnlyShutdownCancelsLive == Spec => []OnlyShutdownCancels
BY InvHolds, PTL DEF Inv

\* What a caller of shutdown may rely on when it returns.
THEOREM ShutdownIsFinal == Spec => []AfterShutdownNothingRuns
BY InvHolds, PTL DEF Inv

\* Each step of the life of a connection is one its loop may take.
THEOREM LifecycleKeepsLoopContract == Spec => KeepsLoopContract
<1>1. Init => Loops!Init
  BY DEF Init, Loops!Init
<1>2. ASSUME Inv, [Next]_vars PROVE [Loops!Next]_Loops!vars
  <2> USE CallersAssumption DEF Inv, TypeOK, Loops!vars, loopVars
  <2>1. ASSUME NEW w \in Owners, Build(w) \/ CloneOwner(w)
        PROVE  UNCHANGED Loops!vars
    BY <2>1 DEF Build, CloneOwner, Make
  <2>2. ASSUME NEW w \in Owners, DropOwner(w) PROVE [Loops!Next]_Loops!vars
    <3>1. ConnsOf(w) \cap Opened \in SUBSET Conns
      BY DEF ConnsOf, Opened
    <3>2. UNCHANGED Loops!vars \/ Loops!Signal(ConnsOf(w) \cap Opened)
      BY <2>2 DEF DropOwner, Loops!Signal
    <3> QED BY <3>1, <3>2 DEF Loops!Next
  <2>3. ASSUME NEW c \in Conns, Bind(c) \/ ServeConnection(c) PROVE Loops!Next
    <3>1. state[c] = "unopened"
      BY <1>2, <2>3 DEF Bind, Make, ServeConnection, Opened
    <3> QED BY <2>3, <3>1 DEF Bind, ServeConnection, Loops!Next, Loops!Open, Loops!Moves
  <2>4. ASSUME NEW c \in Conns, CloneHandle(c) \/ DropHandle(c)
        PROVE  UNCHANGED Loops!vars
    BY <2>4 DEF CloneHandle, DropHandle
  <2>5. ASSUME NEW c \in Conns, StopInOrder(c) \/ StopOnError(c) PROVE Loops!Next
    BY <2>5 DEF StopInOrder, StopOnError, Stop, Loops!Next, Loops!Stop, Loops!Moves
  <2>6. ASSUME NEW c \in Conns, LoopPanics(c) PROVE Loops!Next
    <3>1. Loops!Crash(c)
      <4>1. running' = [running EXCEPT ![c] = @ \ {}]
        BY <1>2, <2>6 DEF LoopPanics
      <4> QED BY <2>6, <4>1 DEF LoopPanics, Loops!Crash, Loops!Moves
    <3> QED BY <3>1 DEF Loops!Next
  <2>7. ASSUME NEW c \in Conns, AbortHandlers(c) PROVE Loops!Next
    <3>1. running' = [running EXCEPT ![c] = @ \ running[c]]
      BY <1>2, <2>7 DEF AbortHandlers
    <3>2. Loops!End(c, running[c]) /\ running[c] \in SUBSET Handlers
      BY <1>2, <2>7, <3>1 DEF AbortHandlers, Loops!End
    <3> QED BY <3>2 DEF Loops!Next
  <2>8. ASSUME NEW c \in Conns, Exit(c) PROVE Loops!Next
    BY <2>8 DEF Exit, Loops!Next, Loops!Close, Loops!Moves
  <2>9. ASSUME NEW h \in Handlers, StartHandler(h) PROVE Loops!Next
    BY <2>9 DEF StartHandler, Loops!Next, Loops!Begin
  <2>10. ASSUME NEW h \in Handlers, EndHandler(h) PROVE Loops!Next
    <3>1. Loops!End(ConnOf[h], {h}) /\ ConnOf[h] \in Conns /\ {h} \in SUBSET Handlers
      BY <2>10 DEF EndHandler, Loops!End
    <3> QED BY <3>1 DEF Loops!Next
  <2>11. ASSUME NEW s \in Waiters, Shutdown(s) PROVE Loops!Next
    <3>1. Loops!Signal({Target[s]}) /\ {Target[s]} \in SUBSET Conns
      BY <2>11 DEF Shutdown, Loops!Signal
    <3> QED BY <3>1 DEF Loops!Next
  <2>12. ASSUME NEW s \in Waiters, ShutdownReturns(s) \/ ShutdownDropped(s)
         PROVE  UNCHANGED Loops!vars
    BY <2>12 DEF ShutdownReturns, ShutdownDropped
  <2>13. CASE UNCHANGED vars
    BY <2>13 DEF vars
  <2> QED
    BY <1>2, <2>1, <2>2, <2>3, <2>4, <2>5, <2>6, <2>7, <2>8, <2>9, <2>10, <2>11, <2>12,
       <2>13 DEF Next
<1> QED BY <1>1, <1>2, InvHolds, PTL DEF Spec, KeepsLoopContract, Loops!Spec
=============================================================================
