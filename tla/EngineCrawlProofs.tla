------------------------- MODULE EngineCrawlProofs --------------------------
(***************************************************************************)
(* Proofs about EngineCrawl, for every number of callers and hosts, every  *)
(* capacity, timeout and round budget: how a crawl and the limiter go      *)
(* together, what becomes of a parsed thread, and that both engines use    *)
(* the limiter as HostGate specifies.                                      *)
(***************************************************************************)
EXTENDS EngineCrawl, FiniteSetTheorems, TLAPS

\* Where a crawl that has the limiter can be.
UnderLimiter == {"fetching", "expanding", "encoding", "loading", "releasing"}

\* Every crawl of the Reddit engine asks for Reddit's host, and only those do.
WantsReddit ==
  \A p \in Proc : phase[p] # "idle" => (wants[p] = RedditHost <=> url[p] # "page")

\* Where a crawl is says which engine's it is.
PageApart ==
  \A p \in Proc :
    /\ pc[p] = "loading" => url[p] = "page"
    /\ pc[p] \in {"resolving", "normalizing", "fetching", "expanding", "encoding"} =>
         url[p] # "page"

HostCap == \A h \in Host : Cardinality(Granted(h)) <= MaxConcurrent

\* The thread is parsed on the way from fetching to expanding, and from there a
\* crawl can only end with the document or with the encoder's error.
ThreadKept ==
  \A p \in Proc :
    /\ pc[p] \in {"idle", "resolving", "normalizing", "limiter", "fetching", "loading"} =>
         ~parsed[p]
    /\ pc[p] \in {"expanding", "encoding"} => parsed[p]
    /\ pc[p] \in {"releasing", "returned"} /\ parsed[p] => outcome[p] \in {"document", "encode"}

CrawlInv ==
  TypeOK /\ SlotHeldWhileCrawling /\ WantsReddit /\ PageApart /\ HostCap /\ ThreadKept

\* At most MaxConcurrent of Reddit's crawls are between Acquire's return and the
\* deferred release, whatever the pages of other sites do, so at most that many
\* drive the browser for a thread (reddit/engine.go:102).
CrawlCap ==
  Cardinality({p \in Proc : pc[p] \in UnderLimiter /\ url[p] # "page"}) <= MaxConcurrent

\* No more pages of a site than that are being loaded (crawl4ai/engine.go:79).
PageCap ==
  \A h \in Host :
    Cardinality({p \in Proc : pc[p] = "loading" /\ wants[p] = h}) <= MaxConcurrent

-----------------------------------------------------------------------------

\* The steps of a crawl that leave the limiter alone.
Local(p) ==
  \/ \E u \in {"share", "comments", "other"} : Start(p, u)
  \/ \E u \in {"comments", "other"} : Resolved(p, u)
  \/ ResolveFails(p) \/ NotAThread(p) \/ ThreadParsed(p) \/ ThreadFails(p)
  \/ ExpandRound(p) \/ ExpandEnds(p) \/ Encode(p) \/ PageLoaded(p) \/ PageFails(p)
  \/ Collected(p) \/ Cancel(p)

\* The steps of a crawl that concern the limiter.
Limiting(p) ==
  Acquire(p) \/ (\E h \in Host : StartPage(p, h)) \/ Acquired(p) \/ Release(p)

\* The steps of EngineCrawl, sorted by what they do to the limiter.
LEMMA NextCases ==
  ASSUME [Next]_vars
  PROVE  (\E p \in Proc : Local(p) \/ Limiting(p)) \/ Tick \/ UNCHANGED vars
BY DEF Next, Step, Local, Limiting

\* A step off the limiter leaves the gate's variables as they are.
LEMMA LocalGate ==
  ASSUME NEW p \in Proc, Local(p)
  PROVE  UNCHANGED gateVars
BY DEF Local, Start, Resolved, ResolveFails, NotAThread, ThreadParsed, ThreadFails,
       ExpandRound, ExpandEnds, Encode, PageLoaded, PageFails, Collected, Cancel

\* Every step keeps the variables in their types.
LEMMA TypeStep == TypeOK /\ [Next]_vars => TypeOK'
<1> SUFFICES ASSUME TypeOK, [Next]_vars
             PROVE  TypeOK'
    OBVIOUS
<1> USE TimeoutAssumption DEF TypeOK, Outcomes, crawlVars
<1>1. ASSUME NEW p \in Proc, Local(p)
      PROVE  TypeOK'
  <2>1. GateTypeOK'
        BY <1>1, LocalGate DEF GateTypeOK, gateVars
  <2>2. ASSUME NEW u \in {"share", "comments", "other"}, Start(p, u)
        PROVE  TypeOK'
        BY <2>1, <2>2 DEF Start
  <2>3. ASSUME NEW u \in {"comments", "other"}, Resolved(p, u)
        PROVE  TypeOK'
        BY <2>1, <2>3 DEF Resolved
  <2>4. CASE ResolveFails(p) \/ NotAThread(p) \/ ThreadParsed(p) \/ ThreadFails(p)
        BY <2>1, <2>4 DEF ResolveFails, NotAThread, ThreadParsed, ThreadFails
  <2>5. CASE ExpandRound(p)
        BY <2>1, <2>5 DEF ExpandRound, RoundLeft
  <2>6. CASE ExpandEnds(p) \/ Encode(p) \/ PageLoaded(p) \/ PageFails(p)
        BY <2>1, <2>6 DEF ExpandEnds, Encode, PageLoaded, PageFails
  <2>7. CASE Collected(p)
        BY <2>1, <2>7 DEF Collected
  <2>8. CASE Cancel(p)
        BY <2>1, <2>8 DEF Cancel
  <2> QED  BY <1>1, <2>2, <2>3, <2>4, <2>5, <2>6, <2>7, <2>8 DEF Local
<1>2. ASSUME NEW p \in Proc, Limiting(p)
      PROVE  TypeOK'
  <2>1. GateTypeOK'
        BY <1>2, RedditHostAssumption
        DEF GateTypeOK, Limiting, Acquire, StartPage, Acquired, Release, Ask, Grant, GiveBack
  <2> QED  BY <1>2, <2>1 DEF Limiting, Acquire, StartPage, Acquired, Release
<1>3. CASE Tick
      BY <1>3 DEF Tick, Timed, gateVars, GateTypeOK
<1>4. CASE UNCHANGED vars
      BY <1>4 DEF vars, gateVars, GateTypeOK
<1> QED  BY <1>1, <1>2, <1>3, <1>4, NextCases

\* Every step keeps the limiter held exactly while a crawl is under it: the
\* early errors return from outside, every later exit goes through the release.
LEMMA SlotStep == TypeOK /\ SlotHeldWhileCrawling /\ [Next]_vars => SlotHeldWhileCrawling'
<1> SUFFICES ASSUME TypeOK, SlotHeldWhileCrawling, [Next]_vars
             PROVE  SlotHeldWhileCrawling'
    OBVIOUS
<1> USE DEF TypeOK, GateTypeOK, SlotHeldWhileCrawling
<1>1. ASSUME NEW p \in Proc, Local(p)
      PROVE  SlotHeldWhileCrawling'
  <2>1. phase' = phase
        BY <1>1, LocalGate DEF gateVars
  <2> QED  BY <1>1, <2>1 DEF Local, Start, Resolved, ResolveFails, NotAThread, ThreadParsed,
             ThreadFails, ExpandRound, ExpandEnds, Encode, PageLoaded, PageFails, Collected, Cancel
<1>2. ASSUME NEW p \in Proc, Limiting(p)
      PROVE  SlotHeldWhileCrawling'
      BY <1>2 DEF Limiting, Acquire, StartPage, Acquired, Release, Ask, Grant, GiveBack
<1>3. CASE Tick \/ UNCHANGED vars
      BY <1>3 DEF Tick, vars, crawlVars, gateVars
<1> QED  BY <1>1, <1>2, <1>3, NextCases

\* Every step keeps the two engines' crawls apart, and Reddit's host the one that
\* the Reddit engine's ask for.
LEMMA EngineStep ==
  ASSUME TypeOK, SlotHeldWhileCrawling, WantsReddit, PageApart, [Next]_vars
  PROVE  WantsReddit' /\ PageApart'
<1> USE DEF TypeOK, GateTypeOK, SlotHeldWhileCrawling, WantsReddit, PageApart
<1>1. ASSUME NEW p \in Proc, Local(p)
      PROVE  WantsReddit' /\ PageApart'
  <2>1. phase' = phase /\ wants' = wants
        BY <1>1, LocalGate DEF gateVars
  <2>2. CASE \/ \E u \in {"share", "comments", "other"} : Start(p, u)
             \/ \E u \in {"comments", "other"} : Resolved(p, u)
        BY <2>1, <2>2 DEF Start, Resolved
  <2>3. CASE ResolveFails(p) \/ NotAThread(p) \/ ThreadParsed(p) \/ ThreadFails(p)
        BY <2>1, <2>3 DEF ResolveFails, NotAThread, ThreadParsed, ThreadFails
  <2>4. CASE \/ ExpandRound(p) \/ ExpandEnds(p) \/ Encode(p) \/ PageLoaded(p) \/ PageFails(p)
             \/ Cancel(p)
        BY <2>1, <2>4 DEF ExpandRound, ExpandEnds, Encode, PageLoaded, PageFails, Cancel
  <2>5. CASE Collected(p)
        BY <2>1, <2>5 DEF Collected
  <2> QED  BY <1>1, <2>2, <2>3, <2>4, <2>5 DEF Local
<1>2. ASSUME NEW p \in Proc, Limiting(p)
      PROVE  WantsReddit' /\ PageApart'
      BY <1>2 DEF Limiting, Acquire, StartPage, Acquired, Release, Ask, Grant, GiveBack
<1>3. CASE Tick \/ UNCHANGED vars
      BY <1>3 DEF Tick, vars, crawlVars, gateVars
<1> QED  BY <1>1, <1>2, <1>3, NextCases

\* Every step keeps the number of crawls that have the limiter for a host within
\* its capacity.
LEMMA CapStep == TypeOK /\ HostCap /\ [Next]_vars => HostCap'
<1> SUFFICES ASSUME TypeOK, HostCap, [Next]_vars, NEW h \in Host
             PROVE  Cardinality(Granted(h)') <= MaxConcurrent
    BY DEF HostCap
<1> USE MaxConcurrentAssumption DEF TypeOK, GateTypeOK
<1>0. /\ IsFiniteSet(Granted(h)) /\ Cardinality(Granted(h)) \in Nat
      /\ Cardinality(Granted(h)) <= MaxConcurrent
      BY ProcAssumption, FS_Subset, FS_CardinalityType DEF Granted, HostCap
<1>1. CASE UNCHANGED gateVars
      BY <1>0, <1>1 DEF gateVars, Granted
<1>2. ASSUME NEW p \in Proc, Acquire(p) \/ \E k \in Host : StartPage(p, k)
      PROVE  Cardinality(Granted(h)') <= MaxConcurrent
  <2>1. Granted(h)' = Granted(h)
        BY <1>2 DEF Acquire, StartPage, Ask, Granted
  <2> QED  BY <1>0, <2>1
<1>3. ASSUME NEW p \in Proc, Acquired(p)
      PROVE  Cardinality(Granted(h)') <= MaxConcurrent
  <2>1. CASE wants[p] = h
    <3>1. Granted(h)' = Granted(h) \cup {p}
          BY <1>3, <2>1 DEF Acquired, Grant, Granted
    <3>2. Cardinality(Granted(h)) < MaxConcurrent
          BY <1>3, <2>1 DEF Acquired, Grant
    <3>3. Cardinality(Granted(h) \cup {p}) =
            IF p \in Granted(h) THEN Cardinality(Granted(h)) ELSE Cardinality(Granted(h)) + 1
          BY <1>0, FS_AddElement
    <3> QED  BY <1>0, <3>1, <3>2, <3>3
  <2>2. CASE wants[p] # h
    <3>1. Granted(h)' = Granted(h)
          BY <1>3, <2>2 DEF Acquired, Grant, Granted
    <3> QED  BY <1>0, <3>1
  <2> QED  BY <2>1, <2>2
<1>4. ASSUME NEW p \in Proc, Release(p)
      PROVE  Cardinality(Granted(h)') <= MaxConcurrent
  <2>1. Granted(h)' = Granted(h) \ {p}
        BY <1>4, NoHostAssumption DEF Release, GiveBack, Granted
  <2>2. Cardinality(Granted(h) \ {p}) =
          IF p \in Granted(h) THEN Cardinality(Granted(h)) - 1 ELSE Cardinality(Granted(h))
        BY <1>0, FS_RemoveElement
  <2> QED  BY <1>0, <2>1, <2>2
<1>5. (Tick \/ UNCHANGED vars) => UNCHANGED gateVars
      BY DEF Tick, vars
<1> QED  BY <1>1, <1>2, <1>3, <1>4, <1>5, NextCases, LocalGate DEF Limiting

\* Every step keeps a parsed thread on its way to the caller.
LEMMA ThreadStep == TypeOK /\ ThreadKept /\ [Next]_vars => ThreadKept'
<1> SUFFICES ASSUME TypeOK, ThreadKept, [Next]_vars
             PROVE  ThreadKept'
    OBVIOUS
<1> USE DEF TypeOK, ThreadKept
<1>1. ASSUME NEW p \in Proc, Local(p)
      PROVE  ThreadKept'
  <2>1. ASSUME NEW u \in {"share", "comments", "other"}, Start(p, u)
        PROVE  ThreadKept'
        BY <2>1 DEF Start
  <2>2. ASSUME NEW u \in {"comments", "other"}, Resolved(p, u)
        PROVE  ThreadKept'
        BY <2>2 DEF Resolved
  <2>3. CASE ResolveFails(p) \/ NotAThread(p) \/ ThreadParsed(p) \/ ThreadFails(p)
        BY <2>3 DEF ResolveFails, NotAThread, ThreadParsed, ThreadFails
  <2>4. CASE ExpandRound(p) \/ ExpandEnds(p) \/ Encode(p) \/ PageLoaded(p) \/ PageFails(p)
        BY <2>4 DEF ExpandRound, ExpandEnds, Encode, PageLoaded, PageFails
  <2>5. CASE Collected(p) \/ Cancel(p)
        BY <2>5 DEF Collected, Cancel
  <2> QED  BY <1>1, <2>1, <2>2, <2>3, <2>4, <2>5 DEF Local
<1>2. ASSUME NEW p \in Proc, Limiting(p)
      PROVE  ThreadKept'
      BY <1>2 DEF Limiting, Acquire, StartPage, Acquired, Release
<1>3. CASE Tick \/ UNCHANGED vars
      BY <1>3 DEF Tick, vars, crawlVars
<1> QED  BY <1>1, <1>2, <1>3, NextCases

-----------------------------------------------------------------------------

\* CrawlInv is an inductive invariant of the engines' concurrent crawls.
THEOREM CrawlInvariant == Spec => []CrawlInv
<1>1. Init => CrawlInv
  <2> SUFFICES ASSUME Init PROVE CrawlInv
      OBVIOUS
  <2>1. TypeOK
        BY TimeoutAssumption DEF Init, GateInit, TypeOK, GateTypeOK, Outcomes
  <2>2. SlotHeldWhileCrawling /\ WantsReddit /\ PageApart /\ ThreadKept
        BY DEF Init, GateInit, SlotHeldWhileCrawling, WantsReddit, PageApart, ThreadKept
  <2>3. \A h \in Host : Granted(h) = {}
        BY DEF Init, GateInit, Granted
  <2>4. HostCap
        BY <2>3, FS_EmptySet, MaxConcurrentAssumption DEF HostCap
  <2> QED  BY <2>1, <2>2, <2>4 DEF CrawlInv
<1>2. CrawlInv /\ [Next]_vars => CrawlInv'
      BY TypeStep, SlotStep, EngineStep, CapStep, ThreadStep DEF CrawlInv
<1> QED  BY <1>1, <1>2, PTL DEF Spec

\* Every variable of a crawl keeps its type.
THEOREM TypeCorrect == Spec => []TypeOK
<1>1. CrawlInv => TypeOK
      BY DEF CrawlInv
<1> QED  BY <1>1, CrawlInvariant, PTL

\* No path out of Crawl keeps the limiter, and none gives it back twice.
THEOREM SlotHeld == Spec => []SlotHeldWhileCrawling
<1>1. CrawlInv => SlotHeldWhileCrawling
      BY DEF CrawlInv
<1> QED  BY <1>1, CrawlInvariant, PTL

\* A thread that was parsed is returned, whatever becomes of its expansion.
THEOREM PartialKept == Spec => []PartialThreadKept
<1>1. CrawlInv => PartialThreadKept
      BY DEF CrawlInv, ThreadKept, PartialThreadKept
<1> QED  BY <1>1, CrawlInvariant, PTL

\* No more crawls of threads than the limiter's capacity are fetching, expanding,
\* encoding or about to release, and no more pages of a site are being loaded.
THEOREM CrawlsCapped == Spec => [](CrawlCap /\ PageCap)
<1>1. CrawlInv => CrawlCap /\ PageCap
  <2> SUFFICES ASSUME CrawlInv PROVE CrawlCap /\ PageCap
      OBVIOUS
  <2> USE DEF CrawlInv, SlotHeldWhileCrawling, WantsReddit
  <2>1. {p \in Proc : pc[p] \in UnderLimiter /\ url[p] # "page"} = Granted(RedditHost)
        BY DEF UnderLimiter, Granted
  <2>2. ASSUME NEW h \in Host
        PROVE  Cardinality({p \in Proc : pc[p] = "loading" /\ wants[p] = h}) <= MaxConcurrent
    <3> DEFINE Loading == {p \in Proc : pc[p] = "loading" /\ wants[p] = h}
    <3>1. Loading \subseteq Granted(h)
          BY DEF Granted
    <3>2. IsFiniteSet(Granted(h)) /\ Cardinality(Granted(h)) <= MaxConcurrent
          BY ProcAssumption, FS_Subset DEF Granted, HostCap
    <3>3. /\ Cardinality(Loading) \in Nat /\ Cardinality(Granted(h)) \in Nat
          /\ Cardinality(Loading) <= Cardinality(Granted(h))
          BY <3>1, <3>2, FS_Subset, FS_CardinalityType
    <3> QED  BY <3>2, <3>3, MaxConcurrentAssumption
  <2>3. CrawlCap
        BY <2>1, RedditHostAssumption DEF CrawlCap, HostCap
  <2> QED  BY <2>2, <2>3 DEF PageCap
<1> QED  BY <1>1, CrawlInvariant, PTL

\* Both engines use the limiter as its specification allows: every crawl asks
\* while it has nothing, is granted the host and gives it back once.
THEOREM CrawlUsesGate == Spec => GateSpec
<1>1. Init => GateInit
      BY DEF Init
<1>2. [Next]_vars => [GateNext]_gateVars
  <2> SUFFICES ASSUME [Next]_vars PROVE [GateNext]_gateVars
      OBVIOUS
  <2>1. ASSUME NEW p \in Proc, Local(p)
        PROVE  UNCHANGED gateVars
        BY <2>1, LocalGate
  <2>2. ASSUME NEW p \in Proc, Limiting(p)
        PROVE  GateNext
        BY <2>2, RedditHostAssumption
        DEF Limiting, Acquire, StartPage, Acquired, Release, GateNext
  <2>3. CASE Tick \/ UNCHANGED vars
        BY <2>3 DEF Tick, vars
  <2> QED  BY <2>1, <2>2, <2>3, NextCases
<1> QED  BY <1>1, <1>2, PTL DEF Spec, GateSpec
=============================================================================
