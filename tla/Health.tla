------------------------------- MODULE Health -------------------------------
(***************************************************************************)
(* internal/observability/health.go with main.go's upstreamReady: the      *)
(* readiness endpoint.  Concurrent probes read one cached result; a probe  *)
(* that finds none, or an old one, asks every upstream in turn, under the  *)
(* context of its own HTTP request, and stores what it found.              *)
(*                                                                         *)
(* Time is discrete.  The code only compares the cached result's age with  *)
(* the TTL, so cacheAge saturates there.  A check answers as soon as its   *)
(* upstream is reachable and fails when it is not, or at its timeout.      *)
(***************************************************************************)
EXTENDS Naturals, Sequences

CONSTANTS Prober,     \* concurrent probes
          Upstreams,  \* the upstreams of the readiness checks, in order
          TTL,        \* Health.cacheTTL, in ticks
          CheckMax    \* upstreamReady's timeout, in ticks

Upstream == {Upstreams[i] : i \in DOMAIN Upstreams}
N == Len(Upstreams)

ASSUME UpstreamsTyped == Upstreams \in Seq(Upstream) /\ N > 0
\* run() passes five seconds and two seconds.
ASSUME HealthTimes == TTL \in Nat \ {0} /\ CheckMax \in Nat

\* No probe can say ready on the ground of something older than this.
Horizon == TTL + (N - 1) * CheckMax

VARIABLES
  pc,        \* "idle", "load" (in check), "checking"
  current,   \* current[p]: the position of the check p is in
  timer,     \* timer[p]: the time left to that check
  canceled,  \* canceled[p]: r.Context() is done, the prober has gone
  cache,     \* cacheResult: "none", "ok" or "error"
  cacheAge,  \* time.Since(cached.at), saturated at TTL
  down,      \* Health.shutdown
  answer,    \* answer[p]: p's latest answer: "none", "ready", "not_ready", "shutdown"
  reachable, \* reachable[u]
  lastUp,    \* history: time since u was last reachable, saturated at Horizon
  lastDown,  \* history: time since u was last unreachable, saturated at Horizon
  lastCut    \* history: time since a departed prober's cancellation alone made a
             \* check fail, saturated at TTL

probe == <<pc, current, timer, canceled>>
world == <<reachable, lastUp, lastDown>>
vars == <<probe, cache, cacheAge, down, answer, world, lastCut>>

Init ==
  /\ pc = [p \in Prober |-> "idle"]
  /\ current = [p \in Prober |-> 1]
  /\ timer = [p \in Prober |-> 0]
  /\ canceled = [p \in Prober |-> FALSE]
  /\ cache = "none" /\ cacheAge = 0
  /\ down = FALSE
  /\ answer = [p \in Prober |-> "none"]
  /\ reachable \in [Upstream -> BOOLEAN]
  /\ lastUp = [u \in Upstream |-> IF reachable[u] THEN 0 ELSE Horizon]
  /\ lastDown = [u \in Upstream |-> IF reachable[u] THEN Horizon ELSE 0]
  /\ lastCut = TTL

-----------------------------------------------------------------------------
(* readyHandler and check *)

\* GET /readyz: during the shutdown it is refused at once.
Probe(p) ==
  /\ pc[p] = "idle"
  /\ IF down
     THEN answer' = [answer EXCEPT ![p] = "shutdown"] /\ UNCHANGED <<pc, canceled>>
     ELSE /\ pc' = [pc EXCEPT ![p] = "load"]
          /\ canceled' = [canceled EXCEPT ![p] = FALSE]
          /\ answer' = [answer EXCEPT ![p] = "none"]
  /\ UNCHANGED <<current, timer, cache, cacheAge, down, world, lastCut>>

\* Fault variant: a cached result is good for ever.
AnyCached == cache # "none"

\* cached != nil && time.Since(cached.at) < h.cacheTTL.
Fresh == cache # "none" /\ cacheAge < TTL

Verdict(result) == IF result = "ok" THEN "ready" ELSE "not_ready"

\* The cached result is returned.
Cached(p) ==
  /\ pc[p] = "load" /\ Fresh
  /\ answer' = [answer EXCEPT ![p] = Verdict(cache)]
  /\ pc' = [pc EXCEPT ![p] = "idle"]
  /\ UNCHANGED <<current, timer, canceled, cache, cacheAge, down, world, lastCut>>

\* The first check begins.
Stale(p) ==
  /\ pc[p] = "load" /\ ~Fresh
  /\ pc' = [pc EXCEPT ![p] = "checking"]
  /\ current' = [current EXCEPT ![p] = 1]
  /\ timer' = [timer EXCEPT ![p] = CheckMax]
  /\ UNCHANGED <<canceled, cache, cacheAge, down, answer, world, lastCut>>

\* h.cacheResult.Store(...), and p's answer.
Store(p, result) ==
  /\ cache' = result
  /\ cacheAge' = 0
  /\ answer' = [answer EXCEPT ![p] = Verdict(result)]
  /\ pc' = [pc EXCEPT ![p] = "idle"]

\* The loop over h.ready is over.
AfterLast(p) == current[p] = N

\* The upstream answers: the next check begins, or the result is stored.
CheckPasses(p) ==
  /\ pc[p] = "checking" /\ ~canceled[p]
  /\ reachable[Upstreams[current[p]]]
  /\ \/ /\ AfterLast(p)
        /\ Store(p, "ok")
        /\ UNCHANGED <<current, timer>>
     \/ /\ ~AfterLast(p)
        /\ current' = [current EXCEPT ![p] = @ + 1]
        /\ timer' = [timer EXCEPT ![p] = CheckMax]
        /\ UNCHANGED <<pc, cache, cacheAge, answer>>
  /\ UNCHANGED <<canceled, down, world, lastCut>>

\* The request fails: refused or timed out, or its context was canceled.
CheckFails(p) ==
  /\ pc[p] = "checking"
  /\ canceled[p] \/ ~reachable[Upstreams[current[p]]]
  /\ Store(p, "error")
  /\ lastCut' = IF reachable[Upstreams[current[p]]] THEN 0 ELSE lastCut
  /\ UNCHANGED <<current, timer, canceled, down, world>>

-----------------------------------------------------------------------------

\* MarkShuttingDown.
MarkShuttingDown ==
  /\ ~down /\ down' = TRUE
  /\ UNCHANGED <<probe, cache, cacheAge, answer, world, lastCut>>

\* The prober closes its connection, as one does whose own timeout is over.
Leave(p) ==
  /\ pc[p] # "idle" /\ ~canceled[p]
  /\ canceled' = [canceled EXCEPT ![p] = TRUE]
  /\ UNCHANGED <<pc, current, timer, cache, cacheAge, down, answer, world, lastCut>>

\* An upstream comes or goes.
Flip(u) ==
  /\ reachable' = [reachable EXCEPT ![u] = ~@]
  /\ lastUp' = [lastUp EXCEPT ![u] = 0]
  /\ lastDown' = [lastDown EXCEPT ![u] = 0]
  /\ UNCHANGED <<probe, cache, cacheAge, down, answer, lastCut>>

Older(n, limit) == IF n < limit THEN n + 1 ELSE limit

\* Probes compute in no time, and a check does not outlast its timeout.
Tick ==
  /\ \A p \in Prober : pc[p] # "load" /\ (pc[p] = "checking" => timer[p] > 0)
  /\ timer' = [p \in Prober |-> IF pc[p] = "checking" THEN timer[p] - 1 ELSE timer[p]]
  /\ cacheAge' = Older(cacheAge, TTL)
  /\ lastCut' = Older(lastCut, TTL)
  /\ lastUp' = [u \in Upstream |-> IF reachable[u] THEN 0 ELSE Older(lastUp[u], Horizon)]
  /\ lastDown' = [u \in Upstream |-> IF reachable[u] THEN Older(lastDown[u], Horizon) ELSE 0]
  /\ UNCHANGED <<pc, current, canceled, cache, down, answer, reachable>>

Next ==
  \/ \E p \in Prober : \/ Probe(p) \/ Cached(p) \/ Stale(p)
                       \/ CheckPasses(p) \/ CheckFails(p) \/ Leave(p)
  \/ MarkShuttingDown
  \/ \E u \in Upstream : Flip(u)
  \/ Tick

Spec == Init /\ [][Next]_vars

-----------------------------------------------------------------------------
(* Properties *)

Answers(p, a) == pc[p] # "idle" /\ pc'[p] = "idle" /\ answer'[p] = a

\* Ready is never old news: a probe that answers 200 does so when every upstream
\* has been reachable within the cache's TTL and the time the other checks take,
\* whatever concurrent probes found and in whichever order they stored it.
ReadyIsRecent ==
  [][\A p \in Prober : Answers(p, "ready") => \A u \in Upstream : lastUp[u] < Horizon]_vars

\* Not ready has a recent cause (main.go:275): a prober that waits for its answer
\* is told 503 only if some upstream was recently unreachable, or if the check of
\* a prober that went away was cut short within the cache's TTL.
NotReadyExplained ==
  [][\A p \in Prober :
       Answers(p, "not_ready") /\ ~canceled[p] =>
         (\E u \in Upstream : lastDown[u] < Horizon) \/ lastCut < TTL]_vars
=============================================================================
