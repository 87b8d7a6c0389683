-------------------------- MODULE LifecycleProofs ---------------------------
(***************************************************************************)
(* Proofs about Lifecycle, for every list of servers, every grace period   *)
(* and any number of requests and streams: the order in which the servers  *)
(* are launched, closed and drained, and what the WaitGroup counts.        *)
(***************************************************************************)
EXTENDS Lifecycle, FiniteSetTheorems, SequenceTheorems, TLAPS

\* The goroutines the WaitGroup waits for.
Live == {s \in Server : up[s] \in {"starting", "serving", "failing"}}

\* Server i has been closed and drained.
Past(i) == main \in {"close", "drain", "wait", "exited"} /\ i < next

LifecycleTypeOK ==
  /\ main \in {"launch", "select", "mark", "close", "drain", "wait", "exited"}
  /\ next \in 1..(Len(Servers) + 1)
  /\ up \in [Server -> {"off", "starting", "serving", "failing", "failed", "closed"}]
  /\ inShutdown \in [Server -> BOOLEAN]
  /\ wg \in Int
  /\ shuttingDown \in BOOLEAN
  /\ grace \in 0..Grace
  /\ active \in [Server -> Nat] /\ streams \in [Server -> Nat]

\* The WaitGroup counts the goroutines that have not returned.
WgCounts == wg = Cardinality(Live)

\* The loops of runServers go through Servers in order.
LoopOrder ==
  /\ main = "launch" => \A i \in DOMAIN Servers : i >= next => up[Servers[i]] = "off"
  /\ main = "drain" => next <= Len(Servers)
  /\ main \in {"wait", "exited"} => next = Len(Servers) + 1
  /\ main = "exited" => wg = 0

\* Closing follows the announcement, and the order of Servers.
CloseOrder ==
  /\ shuttingDown <=> main \in {"close", "drain", "wait", "exited"}
  /\ \A i \in DOMAIN Servers :
       inShutdown[Servers[i]] <=> Past(i) \/ (main = "drain" /\ i = next)

\* A server gone past has no clients left, unless the grace period is over.
PastDrained ==
  \A i \in DOMAIN Servers :
    Past(i) /\ grace > 0 => active[Servers[i]] = 0 /\ streams[Servers[i]] = 0

LifecycleInv == LifecycleTypeOK /\ WgCounts /\ LoopOrder /\ CloseOrder /\ PastDrained

-----------------------------------------------------------------------------

\* Servers lists finitely many servers, each once, at the positions 1 to Len.
LEMMA ServersFacts ==
  /\ Len(Servers) \in Nat /\ DOMAIN Servers = 1..Len(Servers)
  /\ \A i \in 1..Len(Servers) : Servers[i] \in Server
  /\ \A s \in Server : \E i \in 1..Len(Servers) : s = Servers[i]
  /\ \A i, j \in 1..Len(Servers) : Servers[i] = Servers[j] => i = j
BY ServersDistinct DEF Server

\* There are finitely many goroutines.
LEMMA LiveFinite ==
  /\ IsFiniteSet(Server)
  /\ IsFiniteSet(Live) /\ Cardinality(Live) \in Nat
  /\ Cardinality(Live) = 0 => Live = {}
<1>1. IsFiniteSet(1..Len(Servers))
      BY ServersFacts, FS_Interval
<1>2. IsFiniteSet(Server)
  <2>1. Servers \in Surjection(1..Len(Servers), Server)
        BY ServersFacts, ServersDistinct DEF Surjection
  <2> QED  BY <1>1, <2>1, FS_Surjection
<1>3. IsFiniteSet(Live)
      BY <1>2, FS_Subset DEF Live
<1> QED  BY <1>2, <1>3, FS_CardinalityType, FS_EmptySet

\* A goroutine that starts or returns changes the count by one.
LEMMA LiveCount ==
  ASSUME NEW s \in Server
  PROVE  /\ s \notin Live => Cardinality(Live \cup {s}) = Cardinality(Live) + 1
         /\ s \in Live => Cardinality(Live \ {s}) = Cardinality(Live) - 1
BY LiveFinite, FS_AddElement, FS_RemoveElement

-----------------------------------------------------------------------------

\* The steps, apart: those of runServers, of the goroutines, and the others.
LEMMA NextCases ==
  ASSUME [Next]_vars
  PROVE  \/ RunServers
         \/ \E s \in Server : Goroutine(s)
         \/ \E s \in Server : Accept(s) \/ Finish(s)
         \/ Signal \/ Tick \/ UNCHANGED vars
BY DEF Next, Over

\* Every step keeps the variables in their types.
LEMMA TypeStep ==
  ASSUME LifecycleInv, [Next]_vars
  PROVE  LifecycleTypeOK'
<1> USE LifecycleBounds, ServersFacts
    DEF LifecycleInv, LifecycleTypeOK, control, goroutines, shutdown, clients
<1>1. CASE RunServers
  <2>1. CASE Launch
        BY <2>1 DEF Launch, AddOne
  <2>2. CASE Launched \/ SelectSignal \/ SelectError \/ Exit
        BY <2>2 DEF Launched, SelectSignal, SelectError, Exit
  <2>3. CASE MarkShuttingDown
        BY <2>3 DEF MarkShuttingDown
  <2>4. CASE Close
        BY <2>4 DEF Close
  <2>5. CASE Drained
        BY <2>5 DEF Drained, LoopOrder
  <2>6. CASE AllClosed
        BY <2>6 DEF AllClosed
  <2> QED  BY <1>1, <2>1, <2>2, <2>3, <2>4, <2>5, <2>6 DEF RunServers
<1>2. ASSUME NEW s \in Server, Goroutine(s)
      PROVE  LifecycleTypeOK'
  <2>1. CASE Listen(s)
        BY <2>1 DEF Listen
  <2>2. CASE ServerClosed(s)
        BY <2>2 DEF ServerClosed
  <2>3. CASE ServeFails(s)
        BY <2>3 DEF ServeFails
  <2>4. CASE SendErr(s)
        BY <2>4 DEF SendErr
  <2> QED  BY <1>2, <2>1, <2>2, <2>3, <2>4 DEF Goroutine
<1>3. ASSUME NEW s \in Server, Accept(s) \/ Finish(s)
      PROVE  LifecycleTypeOK'
  <2>1. active' \in [Server -> Nat]
        BY <1>3 DEF Accept, Finish
  <2>2. streams' \in [Server -> Nat]
        BY <1>3 DEF Accept, Finish
  <2> QED  BY <1>3, <2>1, <2>2 DEF Accept, Finish
<1>4. CASE Signal \/ UNCHANGED vars
      BY <1>4 DEF Signal, vars
<1>5. CASE Tick
      BY <1>5 DEF Tick
<1> QED  BY <1>1, <1>2, <1>3, <1>4, <1>5, NextCases

\* Every step keeps the WaitGroup's counter exact: Add comes before the go
\* statement, and each goroutine calls Done once, whichever way it returns.
LEMMA WgStep ==
  ASSUME LifecycleInv, [Next]_vars
  PROVE  WgCounts'
<1> USE DEF LifecycleInv, WgCounts
<1>0. wg \in Int /\ up \in [Server -> {"off", "starting", "serving", "failing", "failed", "closed"}]
      BY DEF LifecycleTypeOK
<1>1. CASE Launch
  <2> DEFINE s == Servers[next]
  <2>0. next \in 1..Len(Servers) /\ main = "launch"
        BY <1>1, ServersFacts DEF Launch, LifecycleTypeOK
  <2>1. s \in Server /\ up[s] = "off"
        BY <2>0, ServersFacts DEF LoopOrder
  <2>2. s \notin Live /\ Live' = Live \cup {s}
        BY <1>0, <1>1, <2>1 DEF Launch, Live
  <2> QED  BY <1>1, <2>1, <2>2, LiveCount DEF Launch, AddOne
<1>2. ASSUME NEW s \in Server, ServerClosed(s) \/ SendErr(s)
      PROVE  WgCounts'
  <2>1. s \in Live /\ Live' = Live \ {s} /\ wg' = wg - 1
        BY <1>0, <1>2 DEF ServerClosed, SendErr, Live
  <2> QED  BY <2>1, LiveCount
<1>3. ASSUME NEW s \in Server, Listen(s) \/ ServeFails(s)
      PROVE  WgCounts'
  <2>1. Live' = Live /\ wg' = wg
        BY <1>0, <1>3 DEF Listen, ServeFails, Live
  <2> QED  BY <2>1
<1>4. CASE up' = up /\ wg' = wg
      BY <1>4 DEF Live
<1>5. \/ Launch
      \/ \E s \in Server : Goroutine(s)
      \/ up' = up /\ wg' = wg
      BY NextCases DEF RunServers, Launched, SelectSignal, SelectError, MarkShuttingDown, Close,
         Drained, AllClosed, Exit, Accept, Finish, Signal, Tick, vars, goroutines
<1> QED  BY <1>1, <1>2, <1>3, <1>4, <1>5 DEF Goroutine

\* Every step keeps the loops of runServers in order.
LEMMA LoopStep ==
  ASSUME LifecycleInv, [Next]_vars
  PROVE  LoopOrder'
<1> USE ServersFacts DEF LifecycleInv, LifecycleTypeOK, LoopOrder
<1>1. CASE Launch
      BY <1>1 DEF Launch
<1>2. CASE RunServers /\ ~Launch
      BY <1>2 DEF RunServers, Launched, SelectSignal, SelectError, MarkShuttingDown, Close,
         Drained, AllClosed, Exit, goroutines
<1>3. ASSUME NEW s \in Server, Goroutine(s)
      PROVE  LoopOrder'
  <2>1. up[s] # "off" /\ main' = main /\ next' = next
        BY <1>3 DEF Goroutine, Listen, ServerClosed, ServeFails, SendErr, control
  <2>2. main # "exited"
    <3>1. s \in Live
          BY <1>3 DEF Goroutine, Listen, ServerClosed, ServeFails, SendErr, Live
    <3>2. Cardinality(Live) # 0
          BY <3>1, LiveFinite
    <3> QED  BY <3>2 DEF WgCounts
  <2> QED  BY <1>3, <2>1, <2>2 DEF Goroutine, Listen, ServerClosed, ServeFails, SendErr
<1>4. ASSUME NEW s \in Server, Accept(s) \/ Finish(s)
      PROVE  LoopOrder'
      BY <1>4 DEF Accept, Finish, control, goroutines
<1>5. CASE Signal \/ Tick \/ UNCHANGED vars
      BY <1>5 DEF Signal, Tick, vars, control, goroutines
<1> QED  BY <1>1, <1>2, <1>3, <1>4, <1>5, NextCases

\* Every step keeps closing in order, and after the announcement.
LEMMA CloseStep ==
  ASSUME LifecycleInv, [Next]_vars
  PROVE  CloseOrder'
<1> USE ServersFacts DEF LifecycleInv, LifecycleTypeOK, CloseOrder, Past
<1>1. CASE Close
  <2>1. next \in 1..Len(Servers) /\ main = "close" /\ main' = "drain" /\ next' = next
        BY <1>1 DEF Close
  <2>2. \A i \in 1..Len(Servers) :
          inShutdown'[Servers[i]] <=> inShutdown[Servers[i]] \/ i = next
        BY <1>1, <2>1 DEF Close
  <2> QED  BY <1>1, <2>1, <2>2 DEF Close
<1>2. CASE Drained
      BY <1>2 DEF Drained, shutdown
<1>3. CASE Launch \/ Launched \/ SelectSignal \/ SelectError
      BY <1>3 DEF Launch, Launched, SelectSignal, SelectError, shutdown
<1>4. CASE MarkShuttingDown
      BY <1>4 DEF MarkShuttingDown
<1>5. CASE AllClosed \/ Exit
      BY <1>5 DEF AllClosed, Exit, shutdown
<1>6. ASSUME NEW s \in Server, Goroutine(s) \/ Accept(s) \/ Finish(s)
      PROVE  CloseOrder'
      BY <1>6 DEF Goroutine, Listen, ServerClosed, ServeFails, SendErr, Accept, Finish,
                  control, shutdown
<1>7. CASE Signal \/ Tick \/ UNCHANGED vars
      BY <1>7 DEF Signal, Tick, vars, control, shutdown
<1> QED  BY <1>1, <1>2, <1>3, <1>4, <1>5, <1>6, <1>7, NextCases DEF RunServers

\* Every step keeps a server that was drained without clients: none is accepted
\* once its listener is closed.
LEMMA DrainedStep ==
  ASSUME LifecycleInv, [Next]_vars
  PROVE  PastDrained'
<1> USE ServersFacts DEF LifecycleInv, LifecycleTypeOK, PastDrained, Past
<1>1. CASE Drained
      BY <1>1 DEF Drained, MayReturn, shutdown, clients
<1>2. CASE MarkShuttingDown
      BY <1>2 DEF MarkShuttingDown
<1>3. CASE Launch \/ Launched \/ SelectSignal \/ SelectError
      BY <1>3 DEF Launch, Launched, SelectSignal, SelectError
<1>4. CASE Close \/ AllClosed \/ Exit
      BY <1>4 DEF Close, AllClosed, Exit, shutdown, clients
<1>5. ASSUME NEW s \in Server, Goroutine(s)
      PROVE  PastDrained'
      BY <1>5 DEF Goroutine, Listen, ServerClosed, ServeFails, SendErr, control, shutdown, clients
<1>6. ASSUME NEW s \in Server, Accept(s)
      PROVE  PastDrained'
  <2>1. ~inShutdown[s] /\ UNCHANGED <<main, next, grace>>
        BY <1>6 DEF Accept, Accepting, control, shutdown
  <2>2. \A i \in 1..Len(Servers) : Past(i) => Servers[i] # s
        BY <2>1 DEF CloseOrder
  <2>3. \A t \in Server : t # s => active'[t] = active[t] /\ streams'[t] = streams[t]
        BY <1>6 DEF Accept
  <2> QED  BY <2>1, <2>2, <2>3
<1>7. ASSUME NEW s \in Server, Finish(s)
      PROVE  PastDrained'
  <2>1. UNCHANGED <<main, next, grace>>
        BY <1>7 DEF Finish, control, shutdown
  <2>2. \A t \in Server : active[t] = 0 /\ streams[t] = 0 => active'[t] = 0 /\ streams'[t] = 0
        BY <1>7 DEF Finish
  <2> QED  BY <2>1, <2>2
<1>8. CASE Tick
      BY <1>8 DEF Tick, control, clients
<1>9. CASE Signal \/ UNCHANGED vars
      BY <1>9 DEF Signal, vars, control, shutdown, clients
<1> QED  BY <1>1, <1>2, <1>3, <1>4, <1>5, <1>6, <1>7, <1>8, <1>9, NextCases DEF RunServers

-----------------------------------------------------------------------------

\* LifecycleInv is an inductive invariant of runServers and its goroutines.
THEOREM LifecycleInvariant == Spec => []LifecycleInv
<1>1. Init => LifecycleInv
  <2> SUFFICES ASSUME Init PROVE LifecycleInv
      OBVIOUS
  <2>1. LifecycleTypeOK
    <3>1. 1 \in 1..(Len(Servers) + 1) /\ Grace \in 0..Grace
          BY LifecycleBounds, ServersFacts
    <3>2. /\ up \in [Server -> {"off", "starting", "serving", "failing", "failed", "closed"}]
          /\ inShutdown \in [Server -> BOOLEAN]
          /\ active \in [Server -> Nat] /\ streams \in [Server -> Nat]
          BY DEF Init
    <3>3. /\ main = "launch" /\ next = 1 /\ wg = 0 /\ grace = Grace
          /\ shuttingDown \in BOOLEAN
          BY DEF Init
    <3> QED  BY <3>1, <3>2, <3>3 DEF LifecycleTypeOK
  <2>2. Live = {}
        BY DEF Init, Live
  <2>3. WgCounts
        BY <2>2, FS_EmptySet DEF Init, WgCounts
  <2>4. LoopOrder /\ CloseOrder /\ PastDrained
        BY ServersFacts DEF Init, LoopOrder, CloseOrder, PastDrained, Past
  <2> QED  BY <2>1, <2>3, <2>4 DEF LifecycleInv
<1>2. LifecycleInv /\ [Next]_vars => LifecycleInv'
      BY TypeStep, WgStep, LoopStep, CloseStep, DrainedStep DEF LifecycleInv
<1> QED  BY <1>1, <1>2, PTL DEF Spec

\* The process ends with no goroutine left, and cuts clients off only after the
\* whole grace period.
THEOREM ExitIsClean == Spec => []CleanExit
<1>1. LifecycleInv => CleanExit
  <2> SUFFICES ASSUME LifecycleInv, main = "exited", NEW s \in Server
               PROVE  /\ up[s] \in {"off", "failed", "closed"}
                      /\ grace > 0 => active[s] = 0 /\ streams[s] = 0
      BY DEF CleanExit
  <2>1. Live = {}
        BY LiveFinite DEF LifecycleInv, LoopOrder, WgCounts
  <2>2. up[s] \in {"off", "failed", "closed"}
        BY <2>1 DEF LifecycleInv, LifecycleTypeOK, Live
  <2>3. PICK i \in 1..Len(Servers) : s = Servers[i]
        BY ServersFacts
  <2>4. Past(i)
        BY ServersFacts DEF LifecycleInv, LoopOrder, Past
  <2> QED  BY <2>2, <2>3, <2>4, ServersFacts DEF LifecycleInv, PastDrained
<1> QED  BY <1>1, LifecycleInvariant, PTL

\* A server refuses clients only once the shutdown has been announced, and only
\* when the servers before it are drained or the grace period is over.
THEOREM DrainIsAnnounced == Spec => []DrainAnnounced
<1>1. LifecycleInv => DrainAnnounced
  <2> SUFFICES ASSUME LifecycleInv, NEW i \in DOMAIN Servers, inShutdown[Servers[i]]
               PROVE  /\ shuttingDown
                      /\ \A j \in 1..(i - 1) :
                           grace > 0 => active[Servers[j]] = 0 /\ streams[Servers[j]] = 0
      BY DEF DrainAnnounced
  <2>1. Past(i) \/ (main = "drain" /\ i = next)
        BY DEF LifecycleInv, CloseOrder
  <2>2. shuttingDown
        BY <2>1 DEF LifecycleInv, CloseOrder, Past
  <2>3. ASSUME NEW j \in 1..(i - 1)
        PROVE  j \in DOMAIN Servers /\ Past(j)
        BY <2>1, ServersFacts DEF LifecycleInv, LifecycleTypeOK, Past
  <2> QED  BY <2>2, <2>3 DEF LifecycleInv, PastDrained
<1> QED  BY <1>1, LifecycleInvariant, PTL
=============================================================================
