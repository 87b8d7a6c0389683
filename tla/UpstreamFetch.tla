--------------------------- MODULE UpstreamFetch ----------------------------
(***************************************************************************)
(* One upstream request of an engine or of the searcher, from its call to  *)
(* its outcome: reddit/fetcher.go (FetchThread, FetchMoreChildren,         *)
(* ResolveShareURL), crawl4ai/engine.go (Crawl; the slot of the limiter it *)
(* takes before DoRetry and gives back on return is EngineCrawl's) and     *)
(* searxng/searcher.go (Search).  Each drives RetryClient, reads the       *)
(* response body and judges it layer by layer: upstream status, the        *)
(* reply's own success flags, the status of the page behind it, and the    *)
(* page.  observability.Reason names the outcome.                          *)
(*                                                                         *)
(* Of a text, what antibot can tell apart is kept: its length, and where   *)
(* the first of its bot-wall markers to end ends (0: it has no marker).    *)
(***************************************************************************)
EXTENDS RetryClient

CONSTANTS
  PageStatuses,   \* the statuses of the page behind a reply
  Texts,          \* the texts a reply may hold
  ScanLimit       \* antibot's scanLimit, in the unit of the texts' lengths

ASSUME PageStatusesNat == PageStatuses \subseteq Nat

ASSUME TextsTyped ==
  /\ Texts \subseteq {t \in [len : Nat, mark : Nat] : t.mark <= t.len}
  /\ ScanLimit \in Nat \ {0}

\* "thread", "more" and "share" go through a browser, "crawl" is the crawl4ai
\* engine, "search" the searcher.
Fetches == {"thread", "more"}
Browser == Fetches \cup {"share"}
Op == Browser \cup {"crawl", "search"}

\* crawl4ai's reply to a browser request: c4aResponse, decoded or not.  js is
\* the first JavaScript result (absent, no string, a string).
BrowserReply ==
  [decoded : BOOLEAN, success : BOOLEAN, results : {"none", "failed", "ok"},
   js : {"none", "other", "string"}]

\* The string a getJS or postJS snippet returned: fetchEnvelope, decoded or not,
\* with Reddit's status and body.
Envelope == [decoded : BOOLEAN, s : PageStatuses, json : BOOLEAN, b : Texts]

\* crawlResponse, decoded or not, with its first result.
CrawlReply ==
  [decoded : BOOLEAN, success : BOOLEAN, results : {"none", "some"},
   s : PageStatuses, fit : Texts, raw : Texts, cleaned : Texts]

\* What a 200 answer of the upstream may hold for operation o.
Replies(o) ==
  CASE o \in Fetches -> [exec : BrowserReply, env : Envelope]
    [] o = "share" -> [exec : BrowserReply, thread : BOOLEAN]
    [] o = "crawl" -> CrawlReply
    [] o = "search" -> [decoded : BOOLEAN]

NoReply == [none |-> TRUE]

\* An outcome: served, a domain.FetchError of a kind, or another error, of which
\* only errors.Is (its cause) tells anything.
Served == [type |-> "served"]
FetchError(kind) == [type |-> "fetchError", kind |-> kind]
Raw(cause) == [type |-> "raw", cause |-> cause]
Pending == [type |-> "pending"]

Kinds == {"captcha", "http_403", "http_429", "bot_block", "timeout",
          "upstream_error", "bad_response", "error"}
Causes == {"config", "request", "net", "timeout", "canceled", "deadline",
           "status", "decode", "elsewhere"}

VARIABLES
  op,          \* the operation
  configured,  \* crawl4aiURL is set; for a search, the query is not blank
  phase,       \* "start", "calling" (in DoRetry), "done"
  reply,       \* what the body held, once it was read
  outcome      \* what the operation returned

request == <<op, configured>>
fetchVars == <<vars, request, phase, reply, outcome>>

\* Fault variant: the zero RetryConfig, which means three attempts.
ZeroConfig(o) == 0

\* The MaxAttempts of the RetryConfig an operation passes to DoRetry.
RetryConfig(o) == IF o \in Browser THEN 1 ELSE 0

FetchTypeOK ==
  /\ TypeOK
  /\ op \in Op /\ configured \in BOOLEAN
  /\ phase \in {"start", "calling", "done"}
  /\ reply = NoReply \/ reply \in Replies(op)
  /\ \/ outcome \in {Pending, Served}
     \/ outcome \in {FetchError(k) : k \in Kinds} \cup {Raw(c) : c \in Causes}

FetchInit ==
  /\ op \in Op /\ configured \in BOOLEAN
  /\ Init /\ cfg = RetryConfig(op)
  /\ phase = "start"
  /\ reply = NoReply
  /\ outcome = Pending

-----------------------------------------------------------------------------
(* Judging a 200 answer *)

\* antibot.Detect: some marker lies wholly within the first ScanLimit of the text.
Detect(t) == t.mark # 0 /\ t.mark <= ScanLimit

\* a + "\n" + b, one string to Detect: a marker of b comes after all of a.  (No
\* marker holds a line break, so none spans the two.)
Joined(a, b) ==
  [len |-> a.len + 1 + b.len,
   mark |-> IF a.mark # 0 THEN a.mark
            ELSE IF b.mark # 0 THEN a.len + 1 + b.mark
            ELSE 0]

\* browserExec, from the decoding of the reply on.
browserExec(x) ==
  IF ~x.decoded THEN FetchError("bad_response")
  ELSE IF ~x.success \/ x.results # "ok" \/ x.js = "none" THEN FetchError("bot_block")
  ELSE IF x.js = "other" THEN FetchError("bad_response")
  ELSE Served

\* browserFetch after browserExec.
browserFetch(e) ==
  IF ~e.decoded THEN Raw("decode")
  ELSE IF e.s # 200 THEN FetchError(KindForStatus(e.s))
  ELSE IF ~e.json THEN FetchError(IF Detect(e.b) THEN "captcha" ELSE "bot_block")
  ELSE Served

\* Crawl: fit markdown, else raw markdown, else the cleaned HTML.
Content(r) ==
  IF r.fit.len # 0 THEN r.fit
  ELSE IF r.raw.len # 0 THEN r.raw
  ELSE r.cleaned

\* Fault variant: only what would be returned is scanned.
ScanContent(r) == Content(r)

\* Crawl scans the cleaned HTML too, before the content: markdown filtering may
\* drop the marker.  (Where the two are the same string the code scans it once,
\* which Detect cannot tell from twice.)
Scan(r) == IF r.cleaned.len # 0 THEN Joined(r.cleaned, Content(r)) ELSE Content(r)

\* Crawl, from the decoding of the reply on.  The result's own success flag is
\* not looked at.
CrawlJudge(r) ==
  IF ~r.decoded THEN FetchError("bad_response")
  ELSE IF ~r.success THEN FetchError("upstream_error")
  ELSE IF r.results = "none" THEN FetchError("bad_response")
  ELSE IF Detect(Scan(r)) THEN FetchError("captcha")
  ELSE IF r.s \in {403, 429} THEN FetchError(KindForStatus(r.s))
  ELSE Served

\* What the operation makes of the body of a 200 answer.
Judge(o, r) ==
  CASE o \in Fetches ->
         IF browserExec(r.exec) = Served THEN browserFetch(r.env) ELSE browserExec(r.exec)
    [] o = "share" ->
         IF browserExec(r.exec) # Served THEN browserExec(r.exec)
         ELSE IF r.thread THEN Served ELSE Raw("elsewhere")
    [] o = "crawl" -> CrawlJudge(r)
    [] o = "search" -> IF r.decoded THEN Served ELSE Raw("decode")

-----------------------------------------------------------------------------
(* The operation *)

Finish(o) == phase' = "done" /\ outcome' = o

\* The early return: no endpoint, or a blank query.
Unconfigured ==
  /\ phase = "start" /\ ~configured
  /\ Finish(Raw("config"))
  /\ UNCHANGED <<vars, request, reply>>

\* DoRetry is called.  (The crawl4ai engine has waited for its slot of the limiter
\* before, and has deferred its release: EngineCrawl!StartPage, Acquired, Release.)
Call ==
  /\ phase = "start" /\ configured
  /\ phase' = "calling"
  /\ UNCHANGED <<vars, request, reply, outcome>>

\* The fallback kind of the two engines.
FallbackOf(o) == IF o \in Browser THEN "bot_block" ELSE "upstream_error"

\* DoRetry fails: the engines classify the error, the searcher wraps it.
CallFailed ==
  /\ phase = "calling" /\ pc = "done" /\ result.type # "response"
  /\ Finish(IF op = "search" THEN Raw(result.type)
            ELSE FetchError(ClassifyClientError(result, FallbackOf(op))))
  /\ UNCHANGED <<vars, request, reply>>

Answered == phase = "calling" /\ pc = "done" /\ result.type = "response"

\* The deferred resp.Body.Close().
CloseBody ==
  /\ open' = open \ {attempt}
  /\ UNCHANGED <<pc, loop, caller, result, history>>

\* io.ReadAll fails: the connection breaks, Client.Timeout passes while the body
\* is read, or the context ends.  The error is returned unclassified.
ReadFails ==
  /\ Answered
  /\ \E c \in {"net", "timeout"} \cup ({ctx} \ {"live"}) : Finish(Raw(c))
  /\ CloseBody
  /\ UNCHANGED <<request, reply>>

\* The body is read, and the upstream's status is not 200.
StatusRefused ==
  /\ Answered /\ result.code # 200
  /\ Finish(IF op = "search" THEN Raw("status") ELSE FetchError(KindForStatus(result.code)))
  /\ CloseBody
  /\ UNCHANGED <<request, reply>>

\* The body of a 200 answer is read and judged.
Judged ==
  /\ Answered /\ result.code = 200
  /\ \E r \in Replies(op) : reply' = r /\ Finish(Judge(op, r))
  /\ CloseBody
  /\ UNCHANGED request

-----------------------------------------------------------------------------

\* The caller of a finished operation does not look at its context any more.
CtxEnds == phase # "done" /\ pc # "panic" /\ EndCtx /\ UNCHANGED <<request, phase, reply, outcome>>

DoRetryStep == phase = "calling" /\ Step /\ UNCHANGED <<request, phase, reply, outcome>>

ClockTick == phase = "calling" /\ Tick /\ UNCHANGED <<request, phase, reply, outcome>>

FetchStep ==
  \/ Unconfigured \/ Call \/ DoRetryStep \/ CallFailed
  \/ ReadFails \/ StatusRefused \/ Judged

\* The operation is over, or DoRetry panicked.
FetchOver == (phase = "done" \/ pc = "panic") /\ UNCHANGED fetchVars

FetchNext == FetchStep \/ CtxEnds \/ ClockTick \/ FetchOver

FetchSpec == FetchInit /\ [][FetchNext]_fetchVars

\* The goroutine is scheduled, every Do and every read of a body returns
\* (http.Client.Timeout bounds both), and timers fire; the context need never end.
FetchFairness == WF_fetchVars(FetchStep) /\ WF_fetchVars(ClockTick)

FetchLiveSpec == FetchSpec /\ FetchFairness

-----------------------------------------------------------------------------
(* observability.Reason *)

\* Fault variant: only a FetchError is told apart.
ReasonTypedOnly(o) ==
  IF o.type = "served" THEN "ok"
  ELSE IF o.type = "fetchError" THEN o.kind
  ELSE "error"

\* Reason(err); the engines wrap with %w, which errors.As and errors.Is see through.
Reason(o) ==
  IF o.type = "served" THEN "ok"
  ELSE IF o.type = "fetchError" THEN o.kind
  ELSE IF o.cause \in {"timeout", "canceled", "deadline"} THEN "timeout"
  ELSE "error"

-----------------------------------------------------------------------------
(* Properties *)

Returned == phase = "done"

\* The operation leaves no response body open, whichever of its exits it takes
\* and however many answers DoRetry threw away.
NoBodyLeak == open = IF Answered THEN {attempt} ELSE {}

\* A context that ended, or Client.Timeout, is reported as "timeout" wherever it
\* struck (in a backoff, on the wire, while the body was read), and nothing else
\* is.  (Except for a final answer that made it first.)
TimeoutNamed ==
  Returned /\ op # "search" =>
    LET timedOut == {Plain("timeout"), Plain("canceled"), Plain("deadline")}
        readCut == outcome.type = "raw" /\ outcome.cause \in {"timeout", "canceled", "deadline"} IN
    Reason(outcome) = "timeout" <=> result \in timedOut \/ readCut

\* The reply got as far as the status of the page behind it, which is 429.
PageLimited ==
  /\ reply # NoReply
  /\ \/ /\ op \in Fetches /\ browserExec(reply.exec) = Served
        /\ reply.env.decoded /\ reply.env.s = 429
     \/ /\ op = "crawl" /\ ~Detect(Scan(reply))
        /\ reply.decoded /\ reply.success /\ reply.results = "some" /\ reply.s = 429

\* Rate limiting is reported as "http_429" from whichever layer it comes: the
\* upstream's status once the attempts are used up, the status in Reddit's
\* envelope, or that of the crawled page, unless the page is a bot wall.
RateLimitNamed ==
  Returned /\ op # "search" /\ (result = Status(429) \/ PageLimited) =>
    Reason(outcome) = "http_429"

\* How far into the scanned string the content of a crawled page begins.
ContentAt(r) == IF r.cleaned.len # 0 THEN r.cleaned.len + 1 ELSE 0

\* What a served reply must be: Reddit's body is JSON that came with a 200; a
\* crawled page was not refused, its HTML has no marker within the scan limit, and
\* its content none within what the HTML scanned before it leaves of that limit.
Passable(o, r) ==
  /\ o \in Fetches => r.env.json /\ r.env.s = 200
  /\ o = "crawl" =>
       /\ r.s \notin {403, 429}
       /\ r.cleaned.mark \notin 1..ScanLimit
       /\ Content(r).mark \notin 1..(ScanLimit - ContentAt(r))

\* A bot wall that fits the scan limit (a challenge page is tiny, antibot.go:13) is
\* never handed on as content (crawl4ai/engine.go:166), whichever of the HTML and
\* the markdown made from it still holds the marker; nor are a page's 403 or 429
\* and anything of Reddit's that is not JSON.
WallNotServed == Returned /\ outcome = Served => Passable(op, reply)

\* A request is repeated only where that can help: never a browser's, where a block
\* answered as a 5xx would drive the browser again (fetcher.go:213), and another's
\* only after a network error, a 429 or a 5xx.
RetriesJustified ==
  /\ op \in Browser => Len(log) <= 1
  /\ \A i \in 1..(Len(log) - 1) :
       \/ log[i].type = "net"
       \/ log[i].type = "status" /\ (log[i].code = 429 \/ log[i].code >= 500)

\* The operation returns whatever the upstream does, unless its Retry-After
\* leaves the range of a Duration.
FetchReturns == <>(Returned \/ asked >= Half)
=============================================================================
