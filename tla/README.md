# omnifeed: a TLA+ model

omnifeed is a Go proxy that turns URLs into text for language models. Reddit
threads are fetched through a headless browser (a crawl4ai upstream) and their
hidden comments expanded; everything else is crawled by crawl4ai itself. Clients
talk to it over an Open WebUI loader endpoint (`POST /crawl`) or over MCP.

This directory holds TLA+ models of the parts that are hard to test, the TLC
configurations that check them, and TLAPS proofs. `PROJECT.json` lists the
components, the runs, which definition models which lines (`map`), one mutant per
property, the hazards found in the code, and the theorems.

Run a model with `tlc -config MCDomainLimiter.cfg MCDomainLimiter`, the proofs of a
component with `tlapm DomainLimiterProofs.tla` and its like.

## 1. The system

| Part | State | Operations | What is hard about it |
|---|---|---|---|
| Domain limiter (`httpx/limiter.go`) | a slot per host: a channel used as a semaphore, the time of the last release | `Acquire`, the release function | goroutines race for a slot's creation; the delay is computed from a value read before a sleep; no context |
| Retrying client (`httpx/retry.go`) | one call: attempt, backoff, last error | `DoRetry`, `ClassifyClientError` | every answer at every attempt, a context that ends at any moment, 64-bit durations |
| Gap expansion (`reddit/engine.go` `expandGaps`, `reddit/parser.go` `MergeExpanded`) | the thread's comments and gaps | rounds of collect, fetch, merge; the final strip | replies may repeat, omit or remove comments and bring new gaps; batches split gaps |
| The engines (`reddit/engine.go`, `crawl4ai/engine.go`: `Crawl`) | a crawl's context and limiter slot | one crawl | concurrent crawls of both over one limiter, an error exit after each step, a deadline that passes anywhere |
| Loader (`openwebui/server.go`, `engine/registry.go`, `httpx/ssrf.go`) | per request: a results slice and a WaitGroup; the request counter | `POST /crawl` | a goroutine per URL; validation twice, with DNS in between |
| Lifecycle (`cmd/omnifeed/main.go` `runServers`) | three servers, an error channel, a WaitGroup, a deadline | start, shutdown | a signal or a failure at any moment, streams that never end |
| Health (`observability/health.go`) | a cached readiness result, the shutdown flag | `/readyz`, `/livez` | concurrent probes store what they found in any order |
| MCP server and tools (`transport/mcp`) | the position in stdin, the counters | stdio loop, `dispatch`, tool calls, HTTP POST, event stream | a context that is only looked at between two lines; messages that decode, count or run in part |
| Reddit parser (`reddit/parser.go`) | none | `walkChildren` | a recursion that skips some nodes and keeps what is below them |
| Options and configuration (`config`, `buildEngineOptions`, `crawlHandler`, `resolveOptions`) | none | pure functions | four layers that merge settings; zero values that mean "default"; numbers beyond `int` |
| Reddit fetcher, the crawl4ai engine's request, anti-bot detection | none | one upstream call each | which of many answers is which failure; what a scan cut at 64 KiB can see |
| Searcher, auth, metrics, logging | configuration only | pure functions | - |

How they interact: the loader and the MCP tools call `Registry.Crawl`, which
validates the URL and calls an engine. Both engines share one limiter and one
retrying client. The Reddit engine takes the limiter once per crawl and holds it
over every browser request of that crawl. `runServers` runs the loader, MCP and
observability servers; the last one serves Health, whose shutdown flag
`runServers` sets.

## 2. Modules

`HostGate` (abstract limiter) is implemented by `DomainLimiter` and extended by
`EngineCrawl`, so the proof that the limiter implements the gate carries over to
what crawls rely on. `UpstreamFetch` extends `RetryClient`. `RedditThread` composes
`RedditExpansion`, `Parser` and `Options`; `McpServer` extends `Options`. Each `MC...` module gives its component's constants values,
and each `...Proofs` module extends its component (`UpstreamFetchProofs` is also about `RetryClient`, `RedditThreadProofs` about `RedditExpansion`, `Parser` and `Options`). A Go `switch` or a row of early
returns is a chain of IFs where its conditions overlap: the branches of a CASE have no
order.
Operators marked "Fault variant" are used by no specification; they are the
mutated forms `PROJECT.json` refers to.

**HostGate** - callers ask for a host, are granted it while fewer than
`MaxConcurrent` have it, and give it back.

**DomainLimiter** - one action per channel operation and per critical section of
`s.mu`. A slot is named by the goroutine that allocated it and its host, so a race
in `slotFor` is visible as two slots. The channel is the set of goroutines whose
token is in it, and a FIFO of blocked senders, as Go's channels are: a receive
hands the room to the oldest sender. Time since `lastSend` saturates at `MinDelay`.
`burst` counts the acquisitions that complete while `minDelay` is not over.

**RetryClient** - one call of `DoRetry` against any answers. A `Duration` has the
range `-Half..Half-1`, and only the product with `time.Second` can leave it
(`Wrap`); `rand.Int63n` of a non-positive number panics. `log` is the history of
what every request on the wire came to.

**UpstreamFetch** - extends `RetryClient`: one request of the Reddit fetcher, the
crawl4ai engine or the searcher, from the early return for a missing endpoint over
`DoRetry` and the reading of the body to the judgement of the reply. `browserExec`,
`browserFetch` and `CrawlJudge` are the code's decision tables in the code's order;
`Reason` names the outcome as the metrics do. A text is its length and the place where
the first of its bot-wall markers ends; `Joined` puts the content behind the HTML, as
the engine does before the scan, and `Detect` sees what ends within `ScanLimit`. The
slot of the limiter that the engines hold meanwhile is in `EngineCrawl`. `cfg` connects
the two modules: a browser request passes `MaxAttempts: 1`, the
others the zero value, which means three.

**Options** - the settings from the environment (`config.Load`) to their use: what
`run()` makes of them, what a query string or a tool's arguments change, and what
`resolveOptions` leaves of it. A variable's text is `Unset`, `Junk` or its value; a
JSON number beyond `int` is `Huge`, whose conversion Go leaves to the platform
(`IntOf`: amd64 gives the smallest `int`, arm64 the largest).

**Parser** - a listing is a function on positions, and `walkChildren` a recursive
function on the same positions: what the walk finds from a thing on is what `Visit`
makes of that thing, of its replies and of the rest of the list it is in (the recursion
and the loop of the code). For comparison, what the walk is to find, defined without
recursion: `LiveRows`, `MoreRows`, the reading order `Before`, and a set of positions as
a list in that order (`InOrder`). `IsListing` says which functions are listings.

**RedditThread** - one crawl from the request to the document: it starts with the
options of a request under some environment and the parsed listing, takes the steps
of `RedditExpansion` on parsed replies, and ends with the encoding. `fields` says
which optional fields the comments have, `live` and `rows` what Reddit has sent below
things that decode: a thing that does not is dropped with all that is below it
(`parser.go:95-97`).

**RedditExpansion** - `expandGaps` and `MergeExpanded`. A comment is its id;
a list of comments is a multiplicity per id. All gaps the thread ever had stay in
`gaps`, and `listed` says which are in `thread.Gaps`: positions then identify gaps
over time. Which ids of a gap go into a batch with no room for all is left open
(the code takes them in order). `SizeOf` counts ids per gap, as `len(batchIDs)`
does, so an id two gaps share counts twice.

**EngineCrawl** - concurrent calls of `Crawl` over `HostGate`, of the Reddit engine
(always for Reddit's host) and of the crawl4ai engine (for any other host). A request
whose context is over fails at once; only `Acquire` does not look at the context. A
round of expansion, and the loading of a page, is one step that succeeds or fails. The
crawl4ai engine adds no deadline of its own: a page's time runs while it is loaded
(`http.Client.Timeout` and the number of attempts), not while it waits.

**Loader** - the handler and its goroutines, one action per step that others can
observe. A URL is of one of four kinds; for `Fickle` ones the two validations may
disagree. A document is the URL it is about (for Reddit, `metadata.source` is that
URL's canonical form) and whether it is the error placeholder.

**McpServer** - the process as an MCP client sees it, from its start (`Boot`: `Load`,
stdio or HTTP, the authenticator or the refusal). The stdio loop and each HTTP
request are handlers with a message, a place and a reply; they share `Dispatch` and
the tools. A message is a class: empty, too long, undecodable, or a JSON-RPC message
with or without id, valid version, known method, tool and arguments. Responses are
`ok`, one of the five errors, or `void` (neither result nor error). A line's number is
its id, so order and pairing of responses can be stated. What a crawl does is
`EngineCrawl`'s and `UpstreamFetch`'s subject: here it succeeds or fails.

**Lifecycle** - `runServers`, the goroutine of each server, and what `http.Server`
does (external): `ListenAndServe` after `Shutdown` returns `ErrServerClosed`;
`Shutdown` closes the listener and waits for connections in use or its context. The
code skips a server whose address is empty; `Load` falls back to a default for an
empty variable, so that never happens and the model leaves it out.

**Health** - `readyHandler` and `check` for concurrent probes, and upstreams that
come and go. `lastUp[u]` and `lastDown[u]` say how long ago `u` was reachable and
unreachable, `lastCut` how long ago a prober that left made a check fail.

## 3. Runs

All `pass` runs end with no error; deadlock is checked in each (a component that
is done stutters in an explicit `Over` action).

| Run | Bounds | Shows |
|---|---|---|
| `limiter` | 3 goroutines, 2 hosts, capacity 2, delay 1, jitter 1 | the cap per host; `BurstBound`; the limiter is a `HostGate`; every `Acquire` returns |
| `fetch` | the five operations, 1 or 3 attempts, statuses 200/404/429/503, five Retry-After values, one overflowing, every combination of reply layers, five texts around a scan limit of 3 | the result is the last request's, only what may help is repeated and the browser is driven once, no leaked body, timeouts and rate limits are named as such from wherever they come, no bot wall that fits the scan limit is served, the operation returns |
| `thread` | 3 ids, batches of 2, up to 4 rounds; trees of up to 4 things of six kinds, 7 threads with gaps, 60 replies; 29 requests, six environments | the walk finds exactly the live comments and gaps in reading order; the thread has exactly the live comments Reddit sent below things that decode; no id is lost unasked, none is asked for twice from a gap, "continue" links stay, comments appear once; format, depth and rounds are those asked for, or configured; the loop ends |
| `crawl` | 3 crawls of either engine repeated for ever, 2 hosts, capacity 2, timeout 1, 1 round | the slot is held exactly while crawling, a parsed thread is returned, every crawl returns |
| `loader` | 2 requests of ten kinds, at most 2 URLs accepted | a complete answer in order, all-or-nothing rejection, exact counters, every request answered |
| `mcp` | 8 environments; stdio: 2 lines of 22 kinds; HTTP: 2 concurrent requests of 33 kinds; 0, 1 or 4 search hits | responses in order under their own ids and for the right lines; every tool run in the metrics and in the response; the transports are never open by accident; search limits; stdio ends when it should; every request is answered |
| `lifecycle` | 3 servers, 1 request and 1 stream each, 2 ticks of grace | nothing is left running and requests are cut by the deadline only, the drain is announced, the process ends |
| `health` | 2 probes, 2 upstreams, TTL 2, checks of 1 tick | 200 rests on recent evidence for every upstream, 503 has a recent cause |

Why these bounds are enough to be interesting: three goroutines at a capacity of
two have one sleeping, one releasing and one blocked at the same time; batches of
two out of three ids split a gap and leave a rest; trees of depth three have removed and
undecodable things above, beside and below live ones; two lines are enough for a
response to be missing, swapped or one too many; three servers give a failure
after the shutdown began and one before; two probes overlap in every order.

Four runs expect a **violation**: each checks one sentence of the repository that
the code does not keep (`findings`).

* `limiter_min_delay` - "the minimum delay since the last request ... has elapsed"
  (`limiter.go:40`). A goroutine that read `lastSend` before another's release wakes
  right after it. `BurstBound` is what does hold.
* `retry_after_capped` - Retry-After is "capped at MaxDelay" (`retry.go:59`), but the
  multiplication overflows before the comparison.
* `expansion_loss` - "removes fulfilled child IDs" (`parser.go:167`); requested ids
  are removed whether or not the reply had them.
* `thread_nocreated` - `?nocreated=1` is to "drop the created field" (`README.md:149`);
  `resolveOptions` can only turn the field on, and it is on by default.

Other differences met while reading, without a run of their own: the crawl4ai engine
ignores the `success` flag of the result itself and returns an empty page as a
document, although `bad_response` is for an "unparseable or empty upstream response"
(`errors.go:23`), and an envelope that does not decode is "error"
(`fetcher.go:281`); the 64 KiB that are scanned for a bot wall begin with the cleaned
HTML, so that a marker which only the content has is missed when the HTML before it
pushes it past the cut, however short the content is (`WallNotServed` allows for it); a
comment that does not decode, or whose replies do not, silently takes everything below
it along (`parser.go:95-97`; `LiveCommentsKept` is about the others); the jitter makes
retries start before Retry-After is over (`retry.go:77` and `:59`); the first
backoff is up to twice `BaseDelay` (`:103`, `:22`); crawls do not "serialize"
(`engine.go:103`) with the default capacity of two; share links are resolved outside
the limiter, so `OMNIFEED_PER_DOMAIN_CONCURRENCY` does not bound those requests; a
failed listener ends the process with status 0 (`main.go:272`); a crawl whose deadline
has passed or whose client has gone keeps waiting in the limiter, which takes no
context (`engine.go:105`, against "Bound wall-clock", `engine.go:83`); a prober that
hangs up has its canceled check cached as a failure for everybody (`health.go:80`,
against "if it isn't reachable", `main.go:275`; `NotReadyExplained` allows for it);
`expand=0`, within the documented 0-40 (`README.md:147`, `tools.go:48`), means the
default number of rounds (`engine.go:167`), a configured default is not capped at 40,
and a negative one means no rounds; a `web_search` limit beyond `int` is negative on
amd64 and then unlimited (`tools.go:123`; `SearchCapped` excepts it); `ServeStdio`
"blocks until ctx is canceled" (`server.go:117`) and, while the client is silent,
longer, and so it does while the client does not read its responses; a line without id whose version is wrong is answered, although notifications
"produce no response" (`server.go:115`), and `initialized` with an id gets a response
with neither result nor error; `OptionsFromQuery` is called by nobody; a limiter
capacity of zero or less is not refused.

**Fairness.** Weak fairness of each goroutine's steps (the Go scheduler runs what can
run) and of the clock. What ends by itself does so in the code: an HTTP call by
`http.Client.Timeout` or its context, a crawl by its context once it has the
limiter. `EngineCrawl` assumes strong fairness of being granted the host: the limiter
serves its waiters in FIFO order, and `AcquireReturns` checks that no waiter is
passed by for ever. `Lifecycle` assumes nothing of clients: they may stay silent, and
keep streams open, for ever. `McpServer` assumes one thing: a stdio client reads its
responses, because `out.Write` (`server.go:127`) blocks on a full pipe and does not look
at the context; an HTTP client need not, the server's `WriteTimeout` ends the write
(`main.go:201`). `RedditThread` assumes that requests return, as `FetchReturns` checks.

## 4. Proofs

Each component has a proof module that extends it; `tlapm XProofs.tla` checks it.
They hold for every value of the constants that satisfies the component's `ASSUME`s:
any number of goroutines, requests, probes or servers, any messages and replies, any
limits. Every theorem follows the same argument: an inductive invariant that holds
initially, that every action preserves (a lemma per part and action where it takes
some work), and that implies the property. Each invariant was model-checked on the
run's instance before it was proved.

| Module | Assumes | Theorems (properties of the runs in brackets) |
|---|---|---|
| `DomainLimiterProofs` | `ProcFinite`, `MaxConcurrentNat`, `DelayNat`, `NoSlotFresh`, `NoHostFresh` | `TypeCorrect` (`TypeOK`), `ConcurrencyCapped` (`ConcurrencyCap`), `BurstBounded` (`BurstBound`), `Refinement` (`ImplementsGate`), `MinDelayKept` |
| `EngineCrawlProofs` | `RedditHostAssumption`, `TimeoutAssumption`, those of `HostGate` | `TypeCorrect` (`TypeOK`), `SlotHeld` (`SlotHeldWhileCrawling`), `PartialKept` (`PartialThreadKept`), `CrawlsCapped`, `CrawlUsesGate` |
| `UpstreamFetchProofs` | `CfgAttemptsNat`, `DelaysNat`, `SecondNat`, `RetryAftersInt`, `StatusesNat`, `PageStatusesNat`, `TextsTyped` | `DoRetryResult` and `FetchResult` (`ResultIsLast`), `FetchTypeCorrect` (`FetchTypeOK`), `BodiesClosed` (`NoBodyLeak`), `TimeoutsNamed` (`TimeoutNamed`), `RateLimitsNamed` (`RateLimitNamed`), `WallsNotServed` (`WallNotServed`), `RetriesAreJustified` (`RetriesJustified`), `SleepsAreCapped`, `BackoffsAreSound` |
| `RedditThreadProofs` | `IDFinite`, `BoundsTyped`, `ParsedTyped`; of `RedditThread` also `ListingsTyped`, `RequestsTyped`, `OptionBounds`, `TextsDistinct` | of `RedditExpansion`: `TypeCorrect` (`TypeOK`), `NothingRerequested` (`NoRerequest`), `NothingLost` (`NothingUnaskedLost`), `CommentsGrow` (`CommentsGrowOnce`); of `RedditThread`: `ParsedThreadExpands` (the same four), `WalkCorrect` (`WalkExact`), `LiveCommentsAreKept` (`LiveCommentsKept`), `RequestsHonoured` (`RequestHonoured`) |
| `LoaderProofs` | `ReqFinite`, `UrlKinds`, `LimitsTyped`, `InputsTyped`, `NoDocFresh` | `AnswersComplete` (`AnswerComplete`), `RejectedRequestsNotCrawled` (`RejectedNotCrawled`), `MetricsAreExact` (`MetricsExact`) |
| `LifecycleProofs` | `ServersDistinct`, `ServerKinds`, `LifecycleBounds` | `ExitIsClean` (`CleanExit`), `DrainIsAnnounced` (`DrainAnnounced`) |
| `HealthProofs` | `UpstreamsTyped`, `HealthTimes` | `ReadyRecent` (`ReadyIsRecent`), `NotReadyHasCause` (`NotReadyExplained`) |
| `McpServerProofs` | `HandlersTyped`, `McpBounds`, `EnvironmentsTyped`, `MessagesTyped`, `PostsTyped`, `NoIdFresh`, `OptionBounds` | `AuthIsKept` (`AuthKept`), `SearchesCapped` (`SearchCapped`), `RepliesOrdered` (`RepliesInOrder`), `RunsAreAccounted` (`RunsAccounted`) |

The assumptions say what types the constants have; five say more. `TextsTyped` has a
text's marker end within the text. `HealthTimes` has a
positive TTL: with none, a result would be stored that is already old (`run()` passes
five seconds). `OptionBounds` has the package's defaults within its own limits.
`TextsDistinct` keeps the names for texts that are no numbers apart from numbers and
from each other. `ListingsTyped` has finite trees in which a thing has its parent and
the things before it, as JSON arrays do; it says nothing about kinds, so that things may
fail to decode anywhere, and replies may hang below anything.

Why the properties need more than themselves:

* **Limiter.** `ConcurrencyCap` speaks of goroutines past the sleep, while the cap is
  enforced at the channel. `IInv` therefore says that (a) a goroutine inside `Acquire`
  works on the slot stored for its host (`SlotsAgree`: the slot is never replaced, so
  all goroutines of a host share one channel), (b) the tokens in a channel are exactly
  those of the goroutines past the send (`SemAgrees`) and within the capacity
  (`SemCap`), (c) a queue holds blocked goroutines of its slot, each once
  (`QueueAgrees`: a hand-off replaces one token by another), and (d) `EarlyBound`: the
  early acquisitions since the last stamp together with the sleepers that will wake
  early are fewer than the capacity, because the goroutine that stamped `lastSend` had
  a token of its own and whoever reads `lastSend` afterwards sleeps long enough. For
  the refinement, (b) gives room in the abstract gate when `Acquire` returns: the
  returning goroutine itself is in the channel and not yet granted.
* **Crawls.** Where a crawl is and what it has of the limiter (`SlotHeldWhileCrawling`)
  is inductive only together with where it may have parsed its thread (`ThreadKept`)
  and with which engine's it is and which host that engine asks for (`PageApart`,
  `WantsReddit`), which turns the gate's cap per host (`HostCap`) into one on Reddit
  crawls and one on a site's pages (`CrawlsCapped`). `CrawlUsesGate` shows that the
  engines do with the limiter only what `HostGate` allows; `Refinement` is the other half.
* **Upstream requests.** `ResultIsLast` speaks of the end of `DoRetry`. Until then the
  loop variable counts the requests that were made (`LogCounted`), every one of them
  failed in a way that allows a repetition, and `lastErr` is the latest of these
  failures (`LastErrLatest`). `UpstreamFetch` adds that `cfg` is what the operation
  passes (`BudgetKept`, from which a browser's request is made once) and that nothing
  is judged before the end (`PhaseOrder`). How an outcome is named is then a fact about
  the decision tables, split by operation and by layer of the reply; `WallNotServed`
  follows from where `Joined` puts the markers. `SleepsAreCapped`:
  no sleep exceeds `MaxDelay`, overflow or not. `BackoffsAreSound`: under the hypothesis
  that no product overflows (`ProductsInRange`), `RetryAfterCapped` holds and DoRetry
  does not panic, so what the run `retry_after_capped` finds has no second cause.
* **Expansion.** `NoRerequest` is about the moment between two rounds. During a round
  the batch is both requested and still listed: a listed gap names no requested id
  outside the batch (`ListedFresh`), and the batch is part of what was requested
  (`BatchAsked`). The merge removes the batch from its gaps. The two action properties
  need it for the positions of gaps that a reply appends. The step lemmas are about
  `ExpansionStep`, in which a reply is any listing; the steps of `RedditExpansion` and
  those of `RedditThread`, where `Parser` has produced the replies, are such steps, so
  both specifications have the properties.
* **The walk.** `WalkExact` compares a recursion with a set comprehension, for trees of
  any size. The argument is an induction on `Rank`, the number of things that come from
  a position on (`Region`: the thing, what is below it, and its later siblings with what
  is below them). `RegionSplit` divides a region into the thing, the region of its first
  reply and that of its next sibling, both of which rank lower; `WalkUnfolds` shows from
  this that the recursion defines a function, and `WalkFinds` that it `Found` the live
  comments and gaps of its region: each once (`Lists`), in reading order, because
  everything below a thing is read after it and before its siblings, and only if
  everything above it decodes (`OwnFound`: below a thing that does not, nothing is
  reachable). Induction itself is derived from the well-foundedness of the naturals
  (`LeastNatural`, `SetInduction`), stated for sets, which the provers can instantiate.
* **A crawl of a thread.** `LiveCommentsKept` adds up what `ParsedFacts` says of each
  reply. `RequestHonoured` needs that the options stay those the request resolved to and
  that the budget is theirs (`RequestKept`), that comments of every reply were made with
  them (`FieldsKept`), and the format of the encoded thread (`DocumentKept`); what
  `resolveOptions` makes of a request is taken apart by transport (`LoaderFacts`,
  `McpFacts`, `ResolvedFacts`).
* **Loader.** That an answer is complete rests on the WaitGroup: it counts exactly the
  goroutines that were started and are not done (`WgExact`), they are started in order
  (`SpawnOrder`), each works on its own URL and place (`DocsInPlace`), so zero after the
  last start means that every place is filled. `AnswerOrder` says that an error is
  answered before the first of them starts.
* **Lifecycle.** `wg.Wait()` returns at zero; `WgCounts` makes this the absence of
  goroutines, a late `ListenAndServe` included. `CloseOrder` and `PastDrained` carry
  what each `Shutdown` has achieved over the rest of the loop: a server that is closed
  takes no new clients.
* **Health.** What a probe may say when it is done depends on when it passed each
  upstream: `PassedRecently` bounds how long ago that was by the checks it made since
  and the time left to the current one, `CacheExplained` the same for the cached result
  by its age. With one timeout per check this gives the horizon of `ReadyIsRecent`:
  the TTL and the time of all checks but one.
* **MCP.** `RepliesInOrder` and `SearchCapped` are part of the invariant; `Placed` says
  which line stdio is handling and that it can be answered, `RunsOnce` that a message
  runs at most one tool, at its dispatch, `RunsTold` that its response says so, and
  `RunsCounted` that the metrics lack only the runs in progress. The cardinalities are
  taken apart with lemmas on counting positions up to a bound.

**Only model-checked.** Liveness (`AcquireReturns`, `Terminates`, `CrawlReturns`,
`Answered`, `Exits`, `FetchReturns`, `StdioEnds`, `RequestsAnswered`): fairness and
`ENABLED` are outside the prover's reach. Every other property of the passing runs is
proved.

## 5. Not modelled

Text processing (`cleanBody`, the regular expressions for permalinks and share links,
formatting, JSON and TOON encoding), `OptionsFromQuery` (dead code), Prometheus and pprof endpoints, logging, the constant-time comparison of
tokens. What crawl4ai does with a browser session two crawls of one thread share is
not visible in this repository.

## 6. Plan

Done, in this order: `HostGate`, `DomainLimiter` with its proofs, `RetryClient`,
`RedditExpansion`, `EngineCrawl`, `Loader`, `Lifecycle`, `Health`, `UpstreamFetch`,
`Options`, `Parser`, `RedditThread`, `McpServer`; then the proofs of `EngineCrawl`,
`UpstreamFetch` with `RetryClient`, `RedditExpansion`, `Lifecycle`, `Loader`,
`McpServer` and `Health`; then `RedditThread` with the walk of `Parser` and the merging
of `Options`, and the bounds on what `DoRetry` sleeps.

Every safety property of the passing runs is now proved. Left is liveness, which stays
with TLC, and what section 5 lists.
