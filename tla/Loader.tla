------------------------------- MODULE Loader -------------------------------
(***************************************************************************)
(* internal/transport/openwebui/server.go with engine/registry.go and      *)
(* httpx.ValidateURL: POST /crawl.  A request is checked, one goroutine is *)
(* started per URL, the handler waits for all of them and answers with one *)
(* document per URL.  Requests run concurrently and share the metrics.     *)
(*                                                                         *)
(* What an engine's Crawl does is EngineCrawl's subject: here it returns a *)
(* document or an error.  A document is the URL it is about and whether it *)
(* is an error placeholder.                                                *)
(***************************************************************************)
EXTENDS Naturals, Sequences, FiniteSets

CONSTANTS Req,           \* requests
          Url,           \* URLs
          Malformed,     \* URLs without http(s) scheme or without host
          Private,       \* URLs of private or reserved addresses
          Fickle,        \* URLs whose host's DNS answers differ between lookups
          BlockPrivate,  \* BlockPrivateIPs
          MaxUrls,       \* maxURLsPerReq
          Inputs,        \* what clients send
          NoDoc          \* the zero loaderDocument

Input == [post : BOOLEAN, authorized : BOOLEAN, json : BOOLEAN, urls : Seq(Url)]

Doc == [source : Url, error : BOOLEAN]

ASSUME ReqFinite == IsFiniteSet(Req)
ASSUME UrlKinds == Malformed \subseteq Url /\ Private \subseteq Url /\ Fickle \subseteq Url
ASSUME LimitsTyped == BlockPrivate \in BOOLEAN /\ MaxUrls \in Nat
ASSUME InputsTyped == Inputs \subseteq Input
ASSUME NoDocFresh == NoDoc \notin Doc

VARIABLES
  pc,       \* the handler: "new", "spawning", "waiting", "answered"
  input,    \* the request
  spawned,  \* how many goroutines the handler has started
  task,     \* task[r][i]: the goroutine of the i-th URL
  wg,       \* wg[r]: the WaitGroup's counter
  doc,      \* doc[r][i]: what crawlOne is about to return in that goroutine
  results,  \* results[r][i]: the i-th document
  answer,   \* answer[r]: status code, and the body when it is 200
  metrics   \* metrics[s]: omnifeed_requests_total with status label s

vars == <<pc, input, spawned, task, wg, doc, results, answer, metrics>>

NoAnswer == [code |-> 0, body |-> <<>>]
Rejected(c) == [code |-> c, body |-> <<>>]

Init ==
  /\ pc = [r \in Req |-> "new"]
  /\ input \in [Req -> Inputs]
  /\ spawned = [r \in Req |-> 0]
  /\ task = [r \in Req |-> [i \in 1..Len(input[r].urls) |-> "none"]]
  /\ wg = [r \in Req |-> 0]
  /\ doc = [r \in Req |-> [i \in 1..Len(input[r].urls) |-> NoDoc]]
  /\ results = [r \in Req |-> [i \in 1..Len(input[r].urls) |-> NoDoc]]
  /\ answer = [r \in Req |-> NoAnswer]
  /\ metrics = [s \in {"ok", "error"} |-> 0]

-----------------------------------------------------------------------------
(* Checks *)

\* The verdicts ValidateURL may give: DNS is asked on every call.
ValidateURL(u) ==
  IF u \in Malformed THEN {FALSE}
  ELSE IF ~BlockPrivate THEN {TRUE}
  ELSE IF u \in Fickle THEN {TRUE, FALSE}
  ELSE {u \notin Private}

Urls(r) == input[r].urls

\* Fault variant: any valid URL is enough.
SomeValid(r, verdict) == \E i \in 1..Len(Urls(r)) : verdict[i]

\* Every URL is validated before any is crawled.
AllValid(r, verdict) == \A i \in 1..Len(Urls(r)) : verdict[i]

\* The status a request is rejected with, or 0.
Status(r, verdict) ==
  IF ~input[r].post THEN 405
  ELSE IF ~input[r].authorized THEN 401
  ELSE IF ~input[r].json THEN 400
  ELSE IF Len(Urls(r)) = 0 \/ Len(Urls(r)) > MaxUrls THEN 400
  ELSE IF ~AllValid(r, verdict) THEN 400
  ELSE 0

\* One verdict of ValidateURL for each URL of the request.
Verdicts(r) ==
  {v \in [1..Len(Urls(r)) -> BOOLEAN] :
     \A i \in 1..Len(Urls(r)) : v[i] \in ValidateURL(Urls(r)[i])}

\* The handler's checks, up to the fan-out.
Check(r) ==
  /\ pc[r] = "new"
  /\ \E v \in Verdicts(r) :
       IF Status(r, v) = 0
       THEN pc' = [pc EXCEPT ![r] = "spawning"] /\ UNCHANGED answer
       ELSE /\ pc' = [pc EXCEPT ![r] = "answered"]
            /\ answer' = [answer EXCEPT ![r] = Rejected(Status(r, v))]
  /\ UNCHANGED <<input, spawned, task, wg, doc, results, metrics>>

-----------------------------------------------------------------------------
(* Fan-out *)

\* wg.Add(1), before the go statement.
AddOne(r) == wg[r] + 1

\* One iteration of the loop over req.URLs.
Spawn(r) ==
  LET i == spawned[r] + 1 IN
  /\ pc[r] = "spawning" /\ spawned[r] < Len(Urls(r))
  /\ wg' = [wg EXCEPT ![r] = AddOne(r)]
  /\ task' = [task EXCEPT ![r][i] = "crawling"]
  /\ spawned' = [spawned EXCEPT ![r] = i]
  /\ UNCHANGED <<pc, input, doc, results, answer, metrics>>

\* The loop is over; the handler calls wg.Wait().
Wait(r) ==
  /\ pc[r] = "spawning" /\ spawned[r] = Len(Urls(r))
  /\ pc' = [pc EXCEPT ![r] = "waiting"]
  /\ UNCHANGED <<input, spawned, task, wg, doc, results, answer, metrics>>

\* wg.Wait() returns and the results are encoded.
Respond(r) ==
  /\ pc[r] = "waiting" /\ wg[r] = 0
  /\ answer' = [answer EXCEPT ![r] = [code |-> 200, body |-> results[r]]]
  /\ pc' = [pc EXCEPT ![r] = "answered"]
  /\ UNCHANGED <<input, spawned, task, wg, doc, results, metrics>>

-----------------------------------------------------------------------------
(* crawlOne, in the goroutine of URL i *)

\* Registry.Crawl validates the URL again, so a URL that passed the handler's
\* check may be refused now; otherwise the engine returns a document or an error.
Outcomes(u) == {error \in BOOLEAN : error \/ TRUE \in ValidateURL(u)}

\* registry.Crawl returns.
Crawled(r, i) ==
  /\ task[r][i] = "crawling"
  /\ \E e \in Outcomes(Urls(r)[i]) :
       doc' = [doc EXCEPT ![r][i] = [source |-> Urls(r)[i], error |-> e]]
  /\ task' = [task EXCEPT ![r][i] = "crawled"]
  /\ UNCHANGED <<pc, input, spawned, wg, results, answer, metrics>>

\* Fault variant: every crawl is counted as a success.
OkLabel(d) == "ok"

\* The status label of a crawl.
StatusLabel(d) == IF d.error THEN "error" ELSE "ok"

\* metrics.Observe.
Observe(r, i) ==
  /\ task[r][i] = "crawled"
  /\ metrics' = [metrics EXCEPT ![StatusLabel(doc[r][i])] = @ + 1]
  /\ task' = [task EXCEPT ![r][i] = "observed"]
  /\ UNCHANGED <<pc, input, spawned, wg, doc, results, answer>>

\* Fault variant: the loop variable, not the goroutine's own index, is used.
SharedIndex(r, i) == spawned[r]

\* The goroutine's argument idx.
OwnIndex(r, i) == i

\* results[idx] = s.crawlOne(...).
Store(r, i) ==
  /\ task[r][i] = "observed"
  /\ results' = [results EXCEPT ![r][OwnIndex(r, i)] = doc[r][i]]
  /\ task' = [task EXCEPT ![r][i] = "stored"]
  /\ UNCHANGED <<pc, input, spawned, wg, doc, answer, metrics>>

\* Fault variant: a failed crawl leaves the goroutine without wg.Done().
DoneOnSuccess(r, i) ==
  /\ task[r][i] = "stored"
  /\ wg' = [wg EXCEPT ![r] = IF doc[r][i].error THEN @ ELSE @ - 1]
  /\ task' = [task EXCEPT ![r][i] = "done"]
  /\ UNCHANGED <<pc, input, spawned, doc, results, answer, metrics>>

\* The deferred wg.Done().
Done(r, i) ==
  /\ task[r][i] = "stored"
  /\ wg' = [wg EXCEPT ![r] = @ - 1]
  /\ task' = [task EXCEPT ![r][i] = "done"]
  /\ UNCHANGED <<pc, input, spawned, doc, results, answer, metrics>>

-----------------------------------------------------------------------------

Handler(r) == Check(r) \/ Spawn(r) \/ Wait(r) \/ Respond(r)
Task(r, i) == Crawled(r, i) \/ Observe(r, i) \/ Store(r, i) \/ Done(r, i)

\* All requests have been answered.
Over == (\A r \in Req : pc[r] = "answered") /\ UNCHANGED vars

Next ==
  \/ \E r \in Req : Handler(r) \/ \E i \in 1..Len(Urls(r)) : Task(r, i)
  \/ Over

Spec == Init /\ [][Next]_vars

\* Goroutines are scheduled, and an engine's Crawl returns (EngineCrawl!CrawlReturns).
Fairness ==
  \A r \in Req : WF_vars(Handler(r)) /\ WF_vars(\E i \in 1..Len(Urls(r)) : Task(r, i))

LiveSpec == Spec /\ Fairness

-----------------------------------------------------------------------------
(* Properties *)

\* A 200 answer has one document per URL, each about the URL in its place,
\* whatever order the goroutines finish in.
AnswerComplete ==
  \A r \in Req : answer[r].code = 200 =>
    /\ Len(Urls(r)) > 0
    /\ \A i \in 1..Len(Urls(r)) :
         answer[r].body[i] # NoDoc /\ answer[r].body[i].source = Urls(r)[i]

\* A request is crawled as a whole or not at all: a rejected one starts no
\* goroutine, and none starts for a URL that could not have been accepted.
RejectedNotCrawled ==
  \A r \in Req :
    (\E i \in 1..Len(Urls(r)) : task[r][i] # "none") =>
      /\ answer[r].code \in {0, 200}
      /\ input[r].post /\ input[r].authorized /\ Len(Urls(r)) <= MaxUrls
      /\ \A i \in 1..Len(Urls(r)) : TRUE \in ValidateURL(Urls(r)[i])

\* Observed crawls of status s, over all requests.
Observed(s) ==
  {x \in UNION {{r} \X (1..Len(Urls(r))) : r \in Req} :
     /\ task[x[1]][x[2]] \in {"observed", "stored", "done"}
     /\ doc[x[1]][x[2]].error = (s = "error")}

\* omnifeed_requests_total counts every crawl once, under the status its caller
\* is told, when crawls of concurrent requests end in any order.
MetricsExact == \A s \in {"ok", "error"} : metrics[s] = Cardinality(Observed(s))

\* Every request is answered.
Answered == \A r \in Req : <>(pc[r] = "answered")
=============================================================================
