---------------------------- MODULE HealthProofs ----------------------------
(***************************************************************************)
(* Proofs about Health, for any number of concurrent probes, of upstreams  *)
(* and of ticks in the TTL and in a check's timeout: what the probes are   *)
(* told is explained by the recent past.                                   *)
(***************************************************************************)
EXTENDS Health, Integers, SequenceTheorems, TLAPS

HealthTypeOK ==
  /\ pc \in [Prober -> {"idle", "load", "checking"}]
  /\ current \in [Prober -> 1..N] /\ timer \in [Prober -> 0..CheckMax]
  /\ cache \in {"none", "ok", "error"} /\ cacheAge \in 0..TTL
  /\ DOMAIN answer = Prober
  /\ reachable \in [Upstream -> BOOLEAN]
  /\ lastUp \in [Upstream -> 0..Horizon] /\ lastDown \in [Upstream -> 0..Horizon]
  /\ lastCut \in 0..TTL

\* The histories are those of what is reachable now.
HistoryExact ==
  \A u \in Upstream : IF reachable[u] THEN lastUp[u] = 0 ELSE lastDown[u] = 0

\* The upstreams a probe has passed were reachable within the time its checks
\* have taken since.
PassedRecently ==
  \A p \in Prober :
    pc[p] = "checking" =>
      \A j \in 1..(current[p] - 1) :
        lastUp[Upstreams[j]] + timer[p] <= (current[p] - 1) * CheckMax

\* What is cached was found when it was stored.
CacheExplained ==
  /\ cache = "ok" => \A u \in Upstream : lastUp[u] <= cacheAge + (N - 1) * CheckMax
  /\ cache = "error" /\ cacheAge < TTL =>
       (\E u \in Upstream : lastDown[u] <= cacheAge) \/ lastCut <= cacheAge

HealthInv == HealthTypeOK /\ HistoryExact /\ PassedRecently /\ CacheExplained

-----------------------------------------------------------------------------

\* The time of c checks.
LEMMA CheckTime ==
  ASSUME NEW c \in Nat
  PROVE  c * CheckMax \in Nat /\ (c + 1) * CheckMax = c * CheckMax + CheckMax
BY HealthTimes

\* The bounds, and the upstreams by position.
LEMMA HealthFacts ==
  /\ N \in Nat \ {0} /\ TTL \in Nat \ {0} /\ CheckMax \in Nat
  /\ (N - 1) * CheckMax \in Nat /\ Horizon \in Nat /\ Horizon = TTL + (N - 1) * CheckMax
  /\ \A i \in 1..N : Upstreams[i] \in Upstream
  /\ \A u \in Upstream : \E i \in 1..N : u = Upstreams[i]
<1>1. Upstreams \in Seq(Upstream) /\ N > 0
      BY UpstreamsTyped
<1>2. N \in Nat /\ DOMAIN Upstreams = 1..N
      BY <1>1 DEF N
<1>3. N \in Nat \ {0} /\ N - 1 \in Nat
      BY <1>1, <1>2
<1>4. (N - 1) * CheckMax \in Nat
      BY <1>3, CheckTime
<1>5. Horizon \in Nat /\ Horizon = TTL + (N - 1) * CheckMax
      BY <1>4, HealthTimes DEF Horizon
<1> QED  BY <1>2, <1>3, <1>4, <1>5, HealthTimes DEF Upstream

\* Counting up to a limit.
LEMMA OlderFacts ==
  ASSUME NEW n \in Nat, NEW limit \in Nat, n <= limit
  PROVE  /\ Older(n, limit) \in 0..limit /\ Older(n, limit) <= n + 1
         /\ n < limit => Older(n, limit) = n + 1
         /\ n = limit => Older(n, limit) = limit
BY DEF Older

\* A step in which no time passes and nothing comes or goes.
LEMMA TimelessStep ==
  ASSUME HealthInv, UNCHANGED <<world, lastCut, cache, cacheAge>>, DOMAIN answer' = Prober,
         pc' \in [Prober -> {"idle", "load", "checking"}],
         current' \in [Prober -> 1..N], timer' \in [Prober -> 0..CheckMax],
         \A p \in Prober : pc'[p] = "checking" =>
           \/ pc[p] = "checking" /\ current'[p] = current[p] /\ timer'[p] = timer[p]
           \/ current'[p] = 1
  PROVE  HealthInv'
<1> USE DEF HealthInv
<1>1. HealthTypeOK'
      BY DEF HealthTypeOK, world
<1>2. HistoryExact' /\ CacheExplained'
      BY DEF HistoryExact, CacheExplained, world
<1>3. PassedRecently'
  <2> SUFFICES ASSUME NEW p \in Prober, pc'[p] = "checking", NEW j \in 1..(current'[p] - 1)
               PROVE  lastUp[Upstreams[j]] + timer'[p] <= (current'[p] - 1) * CheckMax
      BY DEF PassedRecently, world
  <2>1. current'[p] # 1
        OBVIOUS
  <2> QED  BY <2>1 DEF PassedRecently
<1> QED  BY <1>1, <1>2, <1>3

\* A result that is stored is explained by what is reachable at that moment.
LEMMA StoreStep ==
  ASSUME HealthInv, NEW p \in Prober, NEW result \in {"ok", "error"}, Store(p, result),
         UNCHANGED <<current, timer, world>>, lastCut' \in 0..TTL,
         result = "ok" => \A u \in Upstream : lastUp[u] <= (N - 1) * CheckMax,
         result = "error" => (\E u \in Upstream : lastDown[u] = 0) \/ lastCut' = 0
  PROVE  HealthInv'
<1> USE DEF HealthInv
<1>1. /\ cache' = result /\ cacheAge' = 0
      /\ pc' \in [Prober -> {"idle", "load", "checking"}] /\ DOMAIN answer' = Prober
      /\ \A q \in Prober : pc'[q] = "checking" => pc[q] = "checking"
      BY DEF Store, HealthTypeOK
<1>2. HealthTypeOK'
      BY <1>1, HealthFacts DEF HealthTypeOK, world
<1>3. HistoryExact'
      BY DEF HistoryExact, world
<1>4. PassedRecently'
      BY <1>1 DEF PassedRecently, world
<1>5. CacheExplained'
  <2>1. ASSUME result = "ok", NEW u \in Upstream
        PROVE  lastUp'[u] <= cacheAge' + (N - 1) * CheckMax
    <3>1. lastUp'[u] = lastUp[u] /\ lastUp[u] <= (N - 1) * CheckMax /\ lastUp[u] \in Int
          BY <2>1, HealthFacts DEF world, HealthTypeOK
    <3> QED  BY <1>1, <3>1, HealthFacts
  <2>2. result = "error" => (\E u \in Upstream : lastDown'[u] <= cacheAge') \/ lastCut' <= cacheAge'
        BY <1>1 DEF world
  <2> QED  BY <1>1, <2>1, <2>2 DEF CacheExplained
<1> QED  BY <1>2, <1>3, <1>4, <1>5

\* When the last check passes, every upstream was reachable within the time the
\* other checks took.
LEMMA AllPassed ==
  ASSUME HealthInv, NEW p \in Prober, pc[p] = "checking", AfterLast(p),
         reachable[Upstreams[current[p]]]
  PROVE  \A u \in Upstream : lastUp[u] <= (N - 1) * CheckMax
<1> SUFFICES ASSUME NEW u \in Upstream
             PROVE  lastUp[u] <= (N - 1) * CheckMax
    OBVIOUS
<1>1. PICK i \in 1..N : u = Upstreams[i]
      BY HealthFacts
<1>2. current[p] = N /\ lastUp[u] \in Nat /\ timer[p] \in Nat
      BY HealthFacts DEF AfterLast, HealthInv, HealthTypeOK
<1>3. CASE i = N
  <2>1. lastUp[u] = 0
        BY <1>1, <1>2, <1>3 DEF HealthInv, HistoryExact
  <2> QED  BY <2>1, HealthFacts
<1>4. CASE i # N
  <2>1. i \in 1..(current[p] - 1)
        BY <1>1, <1>2, <1>4, HealthFacts
  <2>2. lastUp[u] + timer[p] <= (N - 1) * CheckMax
        BY <1>1, <1>2, <2>1 DEF HealthInv, PassedRecently
  <2> QED  BY <1>2, <2>2, HealthFacts
<1> QED  BY <1>3, <1>4

\* A check that passes starts the next one, or stores the result.
LEMMA PassStep ==
  ASSUME HealthInv, NEW p \in Prober, CheckPasses(p)
  PROVE  HealthInv'
<1>1. /\ pc[p] = "checking" /\ reachable[Upstreams[current[p]]]
      /\ UNCHANGED <<down, world, lastCut>>
      BY DEF CheckPasses
<1>2. CASE AfterLast(p) /\ Store(p, "ok") /\ UNCHANGED <<current, timer>>
  <2>1. \A u \in Upstream : lastUp[u] <= (N - 1) * CheckMax
        BY <1>1, <1>2, AllPassed
  <2>2. lastCut' \in 0..TTL
        BY <1>1 DEF HealthInv, HealthTypeOK
  <2> QED  BY <1>1, <1>2, <2>1, <2>2, StoreStep
<1>3. CASE /\ ~AfterLast(p)
           /\ current' = [current EXCEPT ![p] = @ + 1]
           /\ timer' = [timer EXCEPT ![p] = CheckMax]
           /\ UNCHANGED <<pc, cache, cacheAge, answer>>
  <2> USE DEF HealthInv
  <2> DEFINE c == current[p]
  <2>1. c \in 1..N /\ c # N /\ c + 1 \in 1..N /\ c - 1 \in Nat /\ timer[p] \in Nat
        BY <1>3, HealthFacts DEF HealthTypeOK, AfterLast
  <2>2. current' \in [Prober -> 1..N] /\ timer' \in [Prober -> 0..CheckMax]
        BY <1>3, <2>1, HealthFacts DEF HealthTypeOK
  <2>3. /\ current'[p] = c + 1 /\ timer'[p] = CheckMax
        /\ \A q \in Prober : q # p => current'[q] = current[q] /\ timer'[q] = timer[q]
        BY <1>3 DEF HealthTypeOK
  <2>4. HealthTypeOK'
        BY <1>1, <1>3, <2>2 DEF HealthTypeOK, world
  <2>5. HistoryExact' /\ CacheExplained'
        BY <1>1, <1>3 DEF HistoryExact, CacheExplained, world
  <2>6. PassedRecently'
    <3> SUFFICES ASSUME NEW q \in Prober, pc[q] = "checking", NEW j \in 1..(current'[q] - 1)
                 PROVE  lastUp[Upstreams[j]] + timer'[q] <= (current'[q] - 1) * CheckMax
        BY <1>1, <1>3 DEF PassedRecently, world
    <3>1. CASE q # p
          BY <2>3, <3>1 DEF PassedRecently
    <3>2. CASE q = p
      <4>1. c * CheckMax = (c - 1) * CheckMax + CheckMax /\ (c - 1) * CheckMax \in Nat
            BY <2>1, CheckTime
      <4>2. j \in 1..c /\ c \in Nat
            BY <2>1, <2>3, <3>2, HealthFacts
      <4>3. lastUp[Upstreams[j]] \in Nat /\ lastUp[Upstreams[j]] <= (c - 1) * CheckMax
        <5>1. Upstreams[j] \in Upstream /\ Upstreams[c] \in Upstream
              BY <2>1, <4>2, HealthFacts
        <5>2. lastUp[Upstreams[j]] \in Nat
              BY <5>1, HealthFacts DEF HealthTypeOK
        <5>3. CASE j = c
          <6>1. lastUp[Upstreams[j]] = 0
                BY <1>1, <5>1, <5>3 DEF HistoryExact
          <6> QED  BY <4>1, <6>1
        <5>4. CASE j # c
          <6>1. j \in 1..(current[p] - 1)
                BY <4>2, <5>4
          <6>2. lastUp[Upstreams[j]] + timer[p] <= (c - 1) * CheckMax
                BY <1>1, <6>1 DEF PassedRecently
          <6> QED  BY <2>1, <4>1, <5>2, <6>2
        <5> QED  BY <5>2, <5>3, <5>4
      <4>4. lastUp[Upstreams[j]] + CheckMax <= c * CheckMax
            BY <4>1, <4>3, HealthFacts
      <4>5. current'[q] - 1 = c
            BY <2>1, <2>3, <3>2
      <4> QED  BY <2>3, <3>2, <4>4, <4>5
    <3> QED  BY <3>1, <3>2
  <2> QED  BY <2>4, <2>5, <2>6
<1> QED  BY <1>2, <1>3 DEF CheckPasses

\* A check that fails does so because its upstream is gone, or its prober.
LEMMA FailStep ==
  ASSUME HealthInv, NEW p \in Prober, CheckFails(p)
  PROVE  HealthInv'
<1>1. Upstreams[current[p]] \in Upstream
      BY HealthFacts DEF HealthInv, HealthTypeOK
<1>2. /\ Store(p, "error") /\ UNCHANGED <<current, timer, world>>
      /\ lastCut' = IF reachable[Upstreams[current[p]]] THEN 0 ELSE lastCut
      BY DEF CheckFails
<1>3. lastCut' \in 0..TTL
      BY <1>2, HealthFacts DEF HealthInv, HealthTypeOK
<1>4. (\E u \in Upstream : lastDown[u] = 0) \/ lastCut' = 0
      BY <1>1, <1>2 DEF HealthInv, HistoryExact
<1> QED  BY <1>2, <1>3, <1>4, StoreStep

\* An upstream comes or goes.
LEMMA FlipStep ==
  ASSUME HealthInv, NEW u \in Upstream, Flip(u)
  PROVE  HealthInv'
<1> USE DEF HealthInv
<1>1. /\ UNCHANGED <<probe, cache, cacheAge, down, answer, lastCut>>
      /\ reachable' = [reachable EXCEPT ![u] = ~reachable[u]]
      /\ lastUp' = [lastUp EXCEPT ![u] = 0] /\ lastDown' = [lastDown EXCEPT ![u] = 0]
      BY DEF Flip
<1>2. /\ reachable' \in [Upstream -> BOOLEAN]
      /\ lastUp' \in [Upstream -> 0..Horizon] /\ lastDown' \in [Upstream -> 0..Horizon]
      BY <1>1, HealthFacts DEF HealthTypeOK
<1>3. /\ \A v \in Upstream : lastUp'[v] <= lastUp[v] /\ lastDown'[v] <= lastDown[v]
      /\ \A v \in Upstream : lastUp[v] \in Nat /\ lastUp'[v] \in Nat
                             /\ lastDown[v] \in Nat /\ lastDown'[v] \in Nat
      BY <1>1, <1>2, HealthFacts DEF HealthTypeOK
<1>4. HealthTypeOK'
      BY <1>1, <1>2 DEF HealthTypeOK, probe
<1>5. HistoryExact'
      BY <1>1, <1>2 DEF HistoryExact, HealthTypeOK
<1>6. PassedRecently'
  <2> SUFFICES ASSUME NEW q \in Prober, pc[q] = "checking", NEW j \in 1..(current[q] - 1)
               PROVE  lastUp'[Upstreams[j]] + timer[q] <= (current[q] - 1) * CheckMax
      BY <1>1 DEF PassedRecently, probe
  <2>1. lastUp[Upstreams[j]] + timer[q] <= (current[q] - 1) * CheckMax
        BY DEF PassedRecently
  <2>2. current[q] - 1 \in Nat /\ timer[q] \in Nat /\ j \in 1..N
        BY HealthFacts DEF HealthTypeOK
  <2>3. Upstreams[j] \in Upstream /\ (current[q] - 1) * CheckMax \in Nat
        BY <2>2, HealthFacts, CheckTime
  <2> QED  BY <1>3, <2>1, <2>2, <2>3
<1>7. CacheExplained'
  <2>1. cacheAge \in Nat /\ cacheAge' = cacheAge /\ cache' = cache /\ lastCut' = lastCut
        BY <1>1, HealthFacts DEF HealthTypeOK
  <2>2. cache = "ok" => \A v \in Upstream : lastUp'[v] <= cacheAge + (N - 1) * CheckMax
        BY <1>3, <2>1, HealthFacts DEF CacheExplained
  <2>3. (\E v \in Upstream : lastDown[v] <= cacheAge) => \E v \in Upstream : lastDown'[v] <= cacheAge
        BY <1>3, <2>1
  <2> QED  BY <2>1, <2>2, <2>3 DEF CacheExplained
<1> QED  BY <1>4, <1>5, <1>6, <1>7

\* Time passes: nothing ages by more than the checks' timers and the cached
\* result do.
LEMMA TickStep ==
  ASSUME HealthInv, Tick
  PROVE  HealthInv'
<1> USE DEF HealthInv
<1>1. /\ \A p \in Prober : pc[p] = "checking" => timer[p] > 0
      /\ timer' = [p \in Prober |-> IF pc[p] = "checking" THEN timer[p] - 1 ELSE timer[p]]
      /\ cacheAge' = Older(cacheAge, TTL) /\ lastCut' = Older(lastCut, TTL)
      /\ lastUp' = [u \in Upstream |-> IF reachable[u] THEN 0 ELSE Older(lastUp[u], Horizon)]
      /\ lastDown' = [u \in Upstream |-> IF reachable[u] THEN Older(lastDown[u], Horizon) ELSE 0]
      /\ UNCHANGED <<pc, current, canceled, cache, down, answer, reachable>>
      BY DEF Tick
<1>2. ASSUME NEW u \in Upstream
      PROVE  /\ lastUp[u] \in Nat /\ lastUp'[u] \in 0..Horizon /\ lastUp'[u] <= lastUp[u] + 1
             /\ lastDown[u] \in Nat /\ lastDown'[u] \in 0..Horizon
             /\ lastDown'[u] <= lastDown[u] + 1
             /\ IF reachable[u] THEN lastUp'[u] = 0 ELSE lastDown'[u] = 0
  <2>1. /\ lastUp[u] \in Nat /\ lastUp[u] <= Horizon /\ lastDown[u] \in Nat
        /\ lastDown[u] <= Horizon /\ Horizon \in Nat
        BY HealthFacts DEF HealthTypeOK
  <2>2. /\ Older(lastUp[u], Horizon) \in 0..Horizon /\ Older(lastUp[u], Horizon) <= lastUp[u] + 1
        /\ Older(lastDown[u], Horizon) \in 0..Horizon
        /\ Older(lastDown[u], Horizon) <= lastDown[u] + 1
        BY <2>1, OlderFacts
  <2>3. /\ lastUp'[u] = IF reachable[u] THEN 0 ELSE Older(lastUp[u], Horizon)
        /\ lastDown'[u] = IF reachable[u] THEN Older(lastDown[u], Horizon) ELSE 0
        BY <1>1
  <2> QED  BY <2>1, <2>2, <2>3
<1>3. /\ cacheAge \in 0..TTL /\ cacheAge' \in 0..TTL /\ lastCut \in 0..TTL /\ lastCut' \in 0..TTL
      /\ cacheAge < TTL => cacheAge' = cacheAge + 1
      /\ cacheAge = TTL => cacheAge' = TTL
      /\ lastCut' <= lastCut + 1
  <2>1. /\ cacheAge \in 0..TTL /\ cacheAge \in Nat /\ cacheAge <= TTL
        /\ lastCut \in 0..TTL /\ lastCut \in Nat /\ lastCut <= TTL /\ TTL \in Nat
        BY HealthFacts DEF HealthTypeOK
  <2>2. /\ Older(cacheAge, TTL) \in 0..TTL
        /\ cacheAge < TTL => Older(cacheAge, TTL) = cacheAge + 1
        /\ cacheAge = TTL => Older(cacheAge, TTL) = TTL
        BY <2>1, OlderFacts
  <2>3. Older(lastCut, TTL) \in 0..TTL /\ Older(lastCut, TTL) <= lastCut + 1
        BY <2>1, OlderFacts
  <2> QED  BY <1>1, <2>1, <2>2, <2>3
<1>4. ASSUME NEW p \in Prober
      PROVE  /\ timer[p] \in Nat /\ timer'[p] \in 0..CheckMax
             /\ pc[p] = "checking" => timer'[p] = timer[p] - 1
      BY <1>1, HealthFacts DEF HealthTypeOK
<1>5. HealthTypeOK'
  <2>1. timer' \in [Prober -> 0..CheckMax]
        BY <1>1, <1>4
  <2>2. lastUp' \in [Upstream -> 0..Horizon] /\ lastDown' \in [Upstream -> 0..Horizon]
        BY <1>1, <1>2
  <2> QED  BY <1>1, <1>3, <2>1, <2>2 DEF HealthTypeOK
<1>6. HistoryExact'
      BY <1>1, <1>2 DEF HistoryExact
<1>7. PassedRecently'
  <2> SUFFICES ASSUME NEW q \in Prober, pc[q] = "checking", NEW j \in 1..(current[q] - 1)
               PROVE  lastUp'[Upstreams[j]] + timer'[q] <= (current[q] - 1) * CheckMax
      BY <1>1 DEF PassedRecently
  <2>1. lastUp[Upstreams[j]] + timer[q] <= (current[q] - 1) * CheckMax
        BY DEF PassedRecently
  <2>2. current[q] - 1 \in Nat /\ j \in 1..N
        BY HealthFacts DEF HealthTypeOK
  <2>3. Upstreams[j] \in Upstream /\ (current[q] - 1) * CheckMax \in Nat
        BY <2>2, HealthFacts, CheckTime
  <2>4. timer'[q] = timer[q] - 1 /\ timer[q] \in Nat
        BY <1>4
  <2>5. /\ lastUp[Upstreams[j]] \in Nat /\ lastUp'[Upstreams[j]] \in Nat
        /\ lastUp'[Upstreams[j]] <= lastUp[Upstreams[j]] + 1
        BY <1>2, <2>3, HealthFacts
  <2> QED  BY <2>1, <2>3, <2>4, <2>5
<1>8. CacheExplained'
  <2>1. ASSUME cache = "ok", NEW u \in Upstream
        PROVE  lastUp'[u] <= cacheAge' + (N - 1) * CheckMax
    <3>1. lastUp[u] <= cacheAge + (N - 1) * CheckMax
          BY <2>1 DEF CacheExplained
    <3>2. lastUp[u] \in Nat /\ lastUp'[u] \in 0..Horizon /\ lastUp'[u] <= lastUp[u] + 1
          BY <1>2
    <3> QED  BY <1>3, <3>1, <3>2, HealthFacts
  <2>2. ASSUME cache = "error", cacheAge' < TTL
        PROVE  (\E u \in Upstream : lastDown'[u] <= cacheAge') \/ lastCut' <= cacheAge'
    <3>1. cacheAge < TTL /\ cacheAge' = cacheAge + 1 /\ cacheAge \in Nat
          BY <1>3, <2>2, HealthFacts
    <3>2. CASE lastCut <= cacheAge
          BY <1>3, <3>1, <3>2, HealthFacts
    <3>3. ASSUME NEW u \in Upstream, lastDown[u] <= cacheAge
          PROVE  lastDown'[u] <= cacheAge'
      <4>1. lastDown[u] \in Nat /\ lastDown'[u] \in 0..Horizon /\ lastDown'[u] <= lastDown[u] + 1
            BY <1>2
      <4> QED  BY <3>1, <3>3, <4>1, HealthFacts
    <3> QED  BY <2>2, <3>1, <3>2, <3>3 DEF CacheExplained
  <2> QED  BY <1>1, <2>1, <2>2 DEF CacheExplained
<1> QED  BY <1>5, <1>6, <1>7, <1>8

\* The steps of probes in which no check ends.
LEMMA ProbeSteps ==
  ASSUME HealthInv, NEW p \in Prober, Probe(p) \/ Cached(p) \/ Stale(p) \/ Leave(p)
  PROVE  HealthInv'
<1>0. /\ pc \in [Prober -> {"idle", "load", "checking"}] /\ DOMAIN answer = Prober
      /\ current \in [Prober -> 1..N] /\ timer \in [Prober -> 0..CheckMax]
      BY DEF HealthInv, HealthTypeOK
<1>1. CASE Probe(p)
  <2>1. /\ UNCHANGED <<world, lastCut, cache, cacheAge, current, timer>>
        /\ pc' \in [Prober -> {"idle", "load", "checking"}] /\ DOMAIN answer' = Prober
        /\ \A q \in Prober : pc'[q] = "checking" => pc[q] = "checking"
        BY <1>0, <1>1 DEF Probe
  <2> QED  BY <1>0, <2>1, TimelessStep
<1>2. CASE Cached(p)
  <2>1. /\ UNCHANGED <<world, lastCut, cache, cacheAge, current, timer>>
        /\ pc' \in [Prober -> {"idle", "load", "checking"}] /\ DOMAIN answer' = Prober
        /\ \A q \in Prober : pc'[q] = "checking" => pc[q] = "checking"
        BY <1>0, <1>2 DEF Cached
  <2> QED  BY <1>0, <2>1, TimelessStep
<1>3. CASE Stale(p)
  <2>1. /\ UNCHANGED <<world, lastCut, cache, cacheAge>> /\ DOMAIN answer' = Prober
        BY <1>0, <1>3 DEF Stale
  <2>2. pc' \in [Prober -> {"idle", "load", "checking"}]
        BY <1>0, <1>3 DEF Stale
  <2>3. current' \in [Prober -> 1..N] /\ timer' \in [Prober -> 0..CheckMax]
        BY <1>0, <1>3, HealthFacts DEF Stale
  <2>4. \A q \in Prober : pc'[q] = "checking" =>
          \/ pc[q] = "checking" /\ current'[q] = current[q] /\ timer'[q] = timer[q]
          \/ current'[q] = 1
        BY <1>0, <1>3 DEF Stale
  <2> QED  BY <2>1, <2>2, <2>3, <2>4, TimelessStep
<1>4. CASE Leave(p)
  <2>1. UNCHANGED <<world, lastCut, cache, cacheAge, pc, current, timer, answer>>
        BY <1>4 DEF Leave
  <2> QED  BY <1>0, <2>1, TimelessStep
<1> QED  BY <1>1, <1>2, <1>3, <1>4

\* What is cached, and what the checks have found so far, is explained.
THEOREM HealthInvariant == Spec => []HealthInv
<1>1. Init => HealthInv
  <2> SUFFICES ASSUME Init
               PROVE  HealthInv
      OBVIOUS
  <2> USE DEF Init
  <2>1. HealthTypeOK
    <3>1. lastUp \in [Upstream -> 0..Horizon] /\ lastDown \in [Upstream -> 0..Horizon]
          BY HealthFacts
    <3>2. current \in [Prober -> 1..N] /\ timer \in [Prober -> 0..CheckMax]
          BY HealthFacts
    <3>3. cacheAge \in 0..TTL /\ lastCut \in 0..TTL
          BY HealthFacts
    <3> QED  BY <3>1, <3>2, <3>3 DEF HealthTypeOK
  <2>2. HistoryExact /\ PassedRecently /\ CacheExplained
        BY DEF HistoryExact, PassedRecently, CacheExplained
  <2> QED  BY <2>1, <2>2 DEF HealthInv
<1>2. HealthInv /\ [Next]_vars => HealthInv'
  <2> SUFFICES ASSUME HealthInv, [Next]_vars
               PROVE  HealthInv'
      OBVIOUS
  <2>1. CASE MarkShuttingDown \/ UNCHANGED vars
    <3>1. UNCHANGED <<world, lastCut, cache, cacheAge, pc, current, timer, answer>>
          BY <2>1 DEF MarkShuttingDown, vars, probe
    <3>2. /\ pc \in [Prober -> {"idle", "load", "checking"}] /\ DOMAIN answer = Prober
          /\ current \in [Prober -> 1..N] /\ timer \in [Prober -> 0..CheckMax]
          BY DEF HealthInv, HealthTypeOK
    <3> QED  BY <3>1, <3>2, TimelessStep
  <2> QED  BY <2>1, ProbeSteps, PassStep, FailStep, FlipStep, TickStep DEF Next
<1> QED  BY <1>1, <1>2, PTL DEF Spec

\* A probe ends with the cached result, or with the check that decides it.
LEMMA AnswerSteps ==
  ASSUME HealthTypeOK, [Next]_vars, NEW p \in Prober, pc[p] # "idle", pc'[p] = "idle"
  PROVE  Cached(p) \/ CheckPasses(p) \/ CheckFails(p)
<1>0. pc \in [Prober -> {"idle", "load", "checking"}]
      BY DEF HealthTypeOK
<1>1. CASE \/ MarkShuttingDown \/ Tick \/ UNCHANGED vars
           \/ \E u \in Upstream : Flip(u)
           \/ \E q \in Prober : Leave(q)
      BY <1>1 DEF MarkShuttingDown, Tick, vars, Flip, Leave, probe
<1>2. ASSUME NEW q \in Prober, Probe(q) \/ Stale(q)
      PROVE  FALSE
  <2>1. pc' \in {pc, [pc EXCEPT ![q] = "load"], [pc EXCEPT ![q] = "checking"]}
        BY <1>2 DEF Probe, Stale
  <2> QED  BY <1>0, <2>1
<1>3. ASSUME NEW q \in Prober, Cached(q) \/ CheckPasses(q) \/ CheckFails(q)
      PROVE  q = p
  <2>1. pc' \in {pc, [pc EXCEPT ![q] = "idle"]}
        BY <1>3 DEF Cached, CheckPasses, CheckFails, Store
  <2> QED  BY <1>0, <2>1
<1> QED  BY <1>1, <1>2, <1>3 DEF Next

\* Ready is never old news (check and upstreamReady): a 200 of /readyz means that
\* every upstream was reachable within the TTL and the time of the other checks.
THEOREM ReadyRecent == Spec => ReadyIsRecent
<1>1. ASSUME HealthInv, [Next]_vars, NEW p \in Prober, Answers(p, "ready"), NEW u \in Upstream
      PROVE  lastUp[u] < Horizon
  <2>0. lastUp[u] \in Nat /\ DOMAIN answer = Prober
        BY <1>1, HealthFacts DEF HealthInv, HealthTypeOK
  <2>1. Cached(p) \/ CheckPasses(p) \/ CheckFails(p)
        BY <1>1, AnswerSteps DEF Answers, HealthInv
  <2>2. CASE Cached(p)
    <3>1. cache = "ok" /\ cacheAge < TTL
          BY <1>1, <2>0, <2>2 DEF Cached, Fresh, Verdict, Answers
    <3>2. lastUp[u] <= cacheAge + (N - 1) * CheckMax /\ cacheAge \in Nat
          BY <1>1, <3>1, HealthFacts DEF HealthInv, CacheExplained, HealthTypeOK
    <3> QED  BY <2>0, <3>1, <3>2, HealthFacts
  <2>3. CASE CheckPasses(p)
    <3>1. pc[p] = "checking" /\ reachable[Upstreams[current[p]]] /\ AfterLast(p)
          BY <1>1, <2>3 DEF CheckPasses, Answers
    <3>2. lastUp[u] <= (N - 1) * CheckMax
          BY <1>1, <3>1, AllPassed
    <3> QED  BY <2>0, <3>2, HealthFacts
  <2>4. CASE CheckFails(p)
        BY <1>1, <2>0, <2>4 DEF CheckFails, Store, Verdict, Answers
  <2> QED  BY <2>1, <2>2, <2>3, <2>4
<1>2. HealthInv /\ [Next]_vars =>
        [\A p \in Prober : Answers(p, "ready") => \A u \in Upstream : lastUp[u] < Horizon]_vars
      BY <1>1
<1> QED  BY <1>2, HealthInvariant, PTL DEF Spec, ReadyIsRecent

\* Not ready has a recent cause (check and upstreamReady): a prober that stays is
\* told 503 when an upstream was recently unreachable, or a departed prober's
\* canceled check was stored within the TTL.
THEOREM NotReadyHasCause == Spec => NotReadyExplained
<1>1. ASSUME HealthInv, [Next]_vars, NEW p \in Prober, Answers(p, "not_ready"), ~canceled[p]
      PROVE  (\E u \in Upstream : lastDown[u] < Horizon) \/ lastCut < TTL
  <2>0. /\ \A u \in Upstream : lastDown[u] \in Nat
        /\ DOMAIN answer = Prober /\ cacheAge \in Nat /\ lastCut \in Nat
        BY <1>1, HealthFacts DEF HealthInv, HealthTypeOK
  <2>1. Cached(p) \/ CheckPasses(p) \/ CheckFails(p)
        BY <1>1, AnswerSteps DEF Answers, HealthInv
  <2>2. CASE Cached(p)
    <3>1. cache = "error" /\ cacheAge < TTL
          BY <1>1, <2>0, <2>2 DEF Cached, Fresh, Verdict, Answers, HealthInv, HealthTypeOK
    <3>2. (\E u \in Upstream : lastDown[u] <= cacheAge) \/ lastCut <= cacheAge
          BY <1>1, <3>1 DEF HealthInv, CacheExplained
    <3> QED  BY <2>0, <3>1, <3>2, HealthFacts
  <2>3. CASE CheckPasses(p)
    <3>1. Store(p, "ok")
          BY <1>1, <2>3 DEF CheckPasses, Answers
    <3> QED  BY <1>1, <2>0, <3>1 DEF Store, Verdict, Answers
  <2>4. CASE CheckFails(p)
    <3>1. Upstreams[current[p]] \in Upstream /\ ~reachable[Upstreams[current[p]]]
          BY <1>1, <2>4, HealthFacts DEF CheckFails, HealthInv, HealthTypeOK
    <3>2. lastDown[Upstreams[current[p]]] = 0
          BY <1>1, <3>1 DEF HealthInv, HistoryExact
    <3> QED  BY <3>1, <3>2, HealthFacts
  <2> QED  BY <2>1, <2>2, <2>3, <2>4
<1>2. HealthInv /\ [Next]_vars =>
        [\A p \in Prober :
           Answers(p, "not_ready") /\ ~canceled[p] =>
             (\E u \in Upstream : lastDown[u] < Horizon) \/ lastCut < TTL]_vars
      BY <1>1
<1> QED  BY <1>2, HealthInvariant, PTL DEF Spec, NotReadyExplained
=============================================================================
