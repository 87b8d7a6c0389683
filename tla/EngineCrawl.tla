---------------------------- MODULE EngineCrawl -----------------------------
(***************************************************************************)
(* Concurrent calls of Engine.Crawl, of both engines, over the one domain  *)
(* limiter (HostGate) they share.                                          *)
(*                                                                         *)
(* internal/engine/reddit/engine.go: a crawl resolves share links, waits   *)
(* for the limiter, fetches and parses the thread, expands its gaps,       *)
(* encodes it, and gives the limiter back in a deferred call.  What a      *)
(* round of expansion does to the thread is RedditExpansion's subject;     *)
(* here it is a request that succeeds or fails.                            *)
(*                                                                         *)
(* internal/engine/crawl4ai/engine.go: a crawl waits for the limiter, has  *)
(* crawl4ai load the page, and gives the limiter back in a deferred call.  *)
(* How the request and its reply are handled is UpstreamFetch's subject.   *)
(*                                                                         *)
(* left[p] is the time left to p: of the Reddit engine's timeout, or of    *)
(* what DoRetry may take for a page; none when the caller goes away.  A    *)
(* request whose context is over returns at once with an error, and local  *)
(* computation takes no time, so the clock only passes an expired crawl by *)
(* while it waits in Acquire, which takes no context.                      *)
(***************************************************************************)
EXTENDS HostGate

CONSTANTS RedditHost,  \* the host of "https://reddit.com" + permalink
          Timeout,     \* Reddit's Engine.timeout, and the most DoRetry takes for
                       \* a page, in ticks
          MaxRounds    \* Options.MaxRounds

ASSUME RedditHostAssumption == RedditHost \in Host
ASSUME TimeoutAssumption == Timeout \in Nat \ {0} /\ MaxRounds \in Nat

VARIABLES
  pc,       \* where p's Crawl is
  url,      \* of Reddit "share", "comments" (a thread's permalink) or "other";
            \* or "page", any other site's
  left,     \* time left to p
  round,    \* expansion rounds performed
  outcome,  \* "none", "document", or the step whose error is returned
  parsed    \* history: ParseThread has succeeded

crawlVars == <<pc, url, left, round, outcome, parsed>>
vars == <<crawlVars, gateVars>>

Outcomes == {"none", "document", "resolve", "normalize", "thread", "encode",
             "page"}

TypeOK ==
  /\ GateTypeOK
  /\ pc \in [Proc -> {"idle", "resolving", "normalizing", "limiter", "fetching",
                      "expanding", "encoding", "loading", "releasing", "returned"}]
  /\ url \in [Proc -> {"share", "comments", "other", "page"}]
  /\ left \in [Proc -> 0..Timeout]
  /\ round \in [Proc -> 0..MaxRounds]
  /\ outcome \in [Proc -> Outcomes]
  /\ parsed \in [Proc -> BOOLEAN]

Init ==
  /\ GateInit
  /\ pc = [p \in Proc |-> "idle"]
  /\ url = [p \in Proc |-> "other"]
  /\ left = [p \in Proc |-> 0]
  /\ round = [p \in Proc |-> 0]
  /\ outcome = [p \in Proc |-> "none"]
  /\ parsed = [p \in Proc |-> FALSE]

-----------------------------------------------------------------------------
(* Before the limiter: the Reddit engine *)

IsShareURL(u) == u = "share"

\* NormalizePermalink finds a permalink in u.
IsPermalink(u) == u = "comments"

\* Crawl(ctx, rawURL, opts) is called: the context gets its deadline, and a
\* share link is sent to the browser.
Start(p, u) ==
  /\ pc[p] = "idle"
  /\ url' = [url EXCEPT ![p] = u]
  /\ left' = [left EXCEPT ![p] = Timeout]
  /\ pc' = [pc EXCEPT ![p] = IF IsShareURL(u) THEN "resolving" ELSE "normalizing"]
  /\ UNCHANGED <<round, outcome, parsed, gateVars>>

\* ResolveShareURL returns a URL with "/comments/" in it, which may still not
\* be a permalink.
Resolved(p, u) ==
  /\ pc[p] = "resolving" /\ left[p] > 0
  /\ u \in {"comments", "other"}
  /\ url' = [url EXCEPT ![p] = u]
  /\ pc' = [pc EXCEPT ![p] = "normalizing"]
  /\ UNCHANGED <<left, round, outcome, parsed, gateVars>>

\* ResolveShareURL fails: nothing to release yet.
ResolveFails(p) ==
  /\ pc[p] = "resolving"
  /\ outcome' = [outcome EXCEPT ![p] = "resolve"]
  /\ pc' = [pc EXCEPT ![p] = "returned"]
  /\ UNCHANGED <<url, left, round, parsed, gateVars>>

\* NormalizePermalink fails.
NotAThread(p) ==
  /\ pc[p] = "normalizing" /\ ~IsPermalink(url[p])
  /\ outcome' = [outcome EXCEPT ![p] = "normalize"]
  /\ pc' = [pc EXCEPT ![p] = "returned"]
  /\ UNCHANGED <<url, left, round, parsed, gateVars>>

\* limiter.Acquire is called, for the host of every thread; it does not look at
\* the context.
Acquire(p) ==
  /\ pc[p] = "normalizing" /\ IsPermalink(url[p])
  /\ Ask(p, RedditHost)
  /\ pc' = [pc EXCEPT ![p] = "limiter"]
  /\ UNCHANGED <<url, left, round, outcome, parsed>>

-----------------------------------------------------------------------------
(* Before the limiter: the crawl4ai engine *)

\* Crawl(ctx, rawURL, _) is called, and calls limiter.Acquire for the page's own
\* host, which is none of Reddit's: hostMatcher sends those to the other engine.
\* No deadline is added to the context.
StartPage(p, h) ==
  /\ pc[p] = "idle" /\ h # RedditHost
  /\ Ask(p, h)
  /\ url' = [url EXCEPT ![p] = "page"]
  /\ left' = [left EXCEPT ![p] = Timeout]
  /\ pc' = [pc EXCEPT ![p] = "limiter"]
  /\ UNCHANGED <<round, outcome, parsed>>

-----------------------------------------------------------------------------
(* Under the limiter *)

\* limiter.Acquire returns, and FetchThread or DoRetry is called.
Acquired(p) ==
  /\ pc[p] = "limiter"
  /\ Grant(p)
  /\ pc' = [pc EXCEPT ![p] = IF url[p] = "page" THEN "loading" ELSE "fetching"]
  /\ UNCHANGED <<url, left, round, outcome, parsed>>

\* crawl4ai's reply is served (UpstreamFetch!Judge).
PageLoaded(p) ==
  /\ pc[p] = "loading" /\ left[p] > 0
  /\ outcome' = [outcome EXCEPT ![p] = "document"]
  /\ pc' = [pc EXCEPT ![p] = "releasing"]
  /\ UNCHANGED <<url, left, round, parsed, gateVars>>

\* DoRetry or the reading of the reply fails, or the reply is not served.
PageFails(p) ==
  /\ pc[p] = "loading"
  /\ outcome' = [outcome EXCEPT ![p] = "page"]
  /\ pc' = [pc EXCEPT ![p] = "releasing"]
  /\ UNCHANGED <<url, left, round, parsed, gateVars>>

\* FetchThread and ParseThread succeed.
ThreadParsed(p) ==
  /\ pc[p] = "fetching" /\ left[p] > 0
  /\ parsed' = [parsed EXCEPT ![p] = TRUE]
  /\ pc' = [pc EXCEPT ![p] = "expanding"]
  /\ UNCHANGED <<url, left, round, outcome, gateVars>>

\* Fault variant: the error return skips the release.
ThreadFailsHolding(p) ==
  /\ pc[p] = "fetching"
  /\ outcome' = [outcome EXCEPT ![p] = "thread"]
  /\ pc' = [pc EXCEPT ![p] = "returned"]
  /\ UNCHANGED <<url, left, round, parsed, gateVars>>

\* FetchThread or ParseThread fails.
ThreadFails(p) ==
  /\ pc[p] = "fetching"
  /\ outcome' = [outcome EXCEPT ![p] = "thread"]
  /\ pc' = [pc EXCEPT ![p] = "releasing"]
  /\ UNCHANGED <<url, left, round, parsed, gateVars>>

\* Fault variant: the round counter is not checked against the budget.
AnyRound(p) == TRUE

\* round < opts.MaxRounds.
RoundLeft(p) == round[p] < MaxRounds

\* A round of expandGaps succeeds.
ExpandRound(p) ==
  /\ pc[p] = "expanding" /\ left[p] > 0 /\ RoundLeft(p)
  /\ round' = [round EXCEPT ![p] = @ + 1]
  /\ UNCHANGED <<pc, url, left, outcome, parsed, gateVars>>

\* Fault variant: a failed round fails the crawl.
ExpandEndsInError(p) ==
  /\ pc[p] = "expanding"
  /\ \/ pc' = [pc EXCEPT ![p] = "encoding"] /\ UNCHANGED outcome
     \/ /\ left[p] = 0
        /\ pc' = [pc EXCEPT ![p] = "releasing"]
        /\ outcome' = [outcome EXCEPT ![p] = "thread"]
  /\ UNCHANGED <<url, left, round, parsed, gateVars>>

\* expandGaps returns: budget spent, nothing left to ask for, or a round failed
\* (as it does at once when the context is over); its gaps are stripped.
ExpandEnds(p) ==
  /\ pc[p] = "expanding"
  /\ pc' = [pc EXCEPT ![p] = "encoding"]
  /\ UNCHANGED <<url, left, round, outcome, parsed, gateVars>>

\* encode succeeds or fails.
Encode(p) ==
  /\ pc[p] = "encoding"
  /\ \E o \in {"document", "encode"} : outcome' = [outcome EXCEPT ![p] = o]
  /\ pc' = [pc EXCEPT ![p] = "releasing"]
  /\ UNCHANGED <<url, left, round, parsed, gateVars>>

\* The deferred release() runs and Crawl returns.
Release(p) ==
  /\ pc[p] = "releasing"
  /\ GiveBack(p)
  /\ pc' = [pc EXCEPT ![p] = "returned"]
  /\ UNCHANGED <<url, left, round, outcome, parsed>>

-----------------------------------------------------------------------------
(* The callers and the clock *)

\* The goroutine that called Crawl has its result and is free for another call;
\* what was local to this one is gone.
Collected(p) ==
  /\ pc[p] = "returned"
  /\ pc' = [pc EXCEPT ![p] = "idle"]
  /\ url' = [url EXCEPT ![p] = "other"]
  /\ left' = [left EXCEPT ![p] = 0]
  /\ round' = [round EXCEPT ![p] = 0]
  /\ outcome' = [outcome EXCEPT ![p] = "none"]
  /\ parsed' = [parsed EXCEPT ![p] = FALSE]
  /\ UNCHANGED gateVars

Crawling(p) == pc[p] \notin {"idle", "returned"}

\* The caller goes away: the context it passed is canceled.
Cancel(p) ==
  /\ Crawling(p) /\ left[p] > 0
  /\ left' = [left EXCEPT ![p] = 0]
  /\ UNCHANGED <<pc, url, round, outcome, parsed, gateVars>>

\* Time runs for p.  For a page it runs from the call of DoRetry on.
Timed(p) == Crawling(p) /\ left[p] > 0 /\ ~(url[p] = "page" /\ pc[p] = "limiter")

Tick ==
  /\ \E p \in Proc : Crawling(p)
  /\ \A p \in Proc : Crawling(p) /\ left[p] = 0 => pc[p] = "limiter"
  /\ left' = [p \in Proc |-> IF Timed(p) THEN left[p] - 1 ELSE left[p]]
  /\ UNCHANGED <<pc, url, round, outcome, parsed, gateVars>>

Step(p) ==
  \/ \E u \in {"comments", "other"} : Resolved(p, u)
  \/ ResolveFails(p) \/ NotAThread(p) \/ Acquire(p) \/ Acquired(p)
  \/ ThreadParsed(p) \/ ThreadFails(p) \/ ExpandRound(p) \/ ExpandEnds(p)
  \/ Encode(p) \/ PageLoaded(p) \/ PageFails(p) \/ Release(p)

Next ==
  \/ \E p \in Proc :
       \/ \E u \in {"share", "comments", "other"} : Start(p, u)
       \/ \E h \in Host : StartPage(p, h)
       \/ Step(p) \/ Collected(p) \/ Cancel(p)
  \/ Tick

Spec == Init /\ [][Next]_vars

\* Requests return (their contexts expire as time passes; DoRetry returns for a
\* page, UpstreamFetch!FetchReturns) and goroutines run.
\* The limiter serves its waiters in order (DomainLimiter!AcquireReturns), so a
\* crawl that could be granted the host again and again is granted it.
Fairness ==
  /\ WF_vars(Tick)
  /\ \A p \in Proc : WF_vars(Step(p)) /\ SF_vars(Acquired(p))

LiveSpec == Spec /\ Fairness

-----------------------------------------------------------------------------
(* Properties *)

\* The limiter is held from Acquire's return to the deferred release and at no
\* other time: no path out of Crawl, not the early errors nor an expired
\* context, keeps a slot or releases one twice.  With the gate's cap, at most
\* MaxConcurrent threads are being fetched or expanded (reddit/engine.go:102-103)
\* and at most as many pages of a host are being loaded (crawl4ai/engine.go:79-80).
SlotHeldWhileCrawling ==
  \A p \in Proc :
    /\ phase[p] = "waiting" <=> pc[p] = "limiter"
    /\ phase[p] = "granted" <=> pc[p] \in {"fetching", "expanding", "encoding", "loading", "releasing"}

\* Once a thread has been parsed, a failed or late expansion cannot lose it: the
\* crawl returns the document, unless it cannot be encoded.
PartialThreadKept ==
  \A p \in Proc : pc[p] = "returned" /\ parsed[p] => outcome[p] \in {"document", "encode"}

\* Every call of Crawl returns, of either engine, although Acquire ignores the
\* context and crawls of both wait for the same limiter.
CrawlReturns == \A p \in Proc : Crawling(p) ~> pc[p] = "returned"
=============================================================================
