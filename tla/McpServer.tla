----------------------------- MODULE McpServer ------------------------------
(***************************************************************************)
(* internal/transport/mcp with its tools, as run() starts it: over stdio,  *)
(* where one loop reads lines, dispatches them and writes responses, or    *)
(* over HTTP, where requests are handled concurrently behind the           *)
(* authenticator and GET opens an event stream.  The stdio loop and each   *)
(* HTTP request are handlers; they share dispatch and the tools.           *)
(*                                                                         *)
(* A message has a form: "empty", "long" (beyond what the transport takes),*)
(* "bad" (does not decode) or "rpc".  Of an "rpc" message, version says    *)
(* that jsonrpc is "2.0", request that it has an id, and tool is "bad" when*)
(* the params of tools/call do not decode.  The id of a line is its number.*)
(***************************************************************************)
EXTENDS Options, Sequences, FiniteSets

CONSTANTS Environments,  \* what the process may be started with
          Messages,      \* what a client may send
          Request,       \* concurrent HTTP requests
          Posts,         \* HTTP requests: path, method, token and message
          Hits,          \* how many results SearXNG may have
          MaxLines,      \* bound on the lines a client writes
          Stdio,         \* the handler that is ServeStdio's loop
          NoPost, NoMessage, NoId

Handler == Request \cup {Stdio}

ASSUME HandlersTyped == Stdio \notin Request /\ IsFiniteSet(Request)
ASSUME McpBounds == Hits \subseteq Nat /\ MaxLines \in Nat
ASSUME EnvironmentsTyped == \A e \in Environments : e.noAuth \in BOOLEAN \cup {Unset, Junk}
ASSUME MessagesTyped ==
  \A m \in Messages : /\ m.form \in {"empty", "long", "bad", "rpc"}
                      /\ m.version \in BOOLEAN /\ m.request \in BOOLEAN
                      /\ m.args.limit \in Int \cup {Unset, Junk, Huge}
ASSUME PostsTyped == \A p \in Posts : p.message \in Messages
ASSUME NoIdFresh == NoId \notin Nat

VARIABLES
  started,   \* the environment the process was started with
  mode,      \* "boot", "stdio", "http" or "ended"
  at,        \* at[h]: "idle", "dispatch", "tool", "reply", "stream" or "done"
  msg,       \* msg[h]: the message h is handling
  reply,     \* reply[h]: what the rpcResponse for it holds: "ok", one of the errors
             \* "parse", "request", "method", "params", "internal", or "void": neither
  lines,     \* what the client has written to stdin
  read,      \* how many of them the loop has read
  eof,       \* stdin is closed
  out,       \* the responses written to stdout
  post,      \* post[r]: the HTTP request
  answer,    \* answer[r]: its status code and the response in its body
  gone,      \* gone[h]: h's context is canceled: a signal, or the client left
  observed,  \* how many tool runs the metrics have counted
  found,     \* found[h]: how many results h's latest search returned
  ran        \* history: the messages h ran a tool for, by their number

process == <<started, mode>>
handling == <<at, msg, reply>>
stdio == <<lines, read, eof, out>>
http == <<post, answer>>
tools == <<observed, found, ran>>
vars == <<process, handling, stdio, http, gone, tools>>

NoAnswer == [code |-> 0, body |-> "none"]

Init ==
  /\ started \in Environments
  /\ mode = "boot"
  /\ at = [h \in Handler |-> "idle"]
  /\ msg = [h \in Handler |-> NoMessage]
  /\ reply = [h \in Handler |-> "none"]
  /\ lines = <<>> /\ read = 0 /\ eof = FALSE
  /\ out = <<>>
  /\ post = [r \in Request |-> NoPost]
  /\ answer = [r \in Request |-> NoAnswer]
  /\ gone = [h \in Handler |-> FALSE]
  /\ observed = 0
  /\ found = [h \in Handler |-> 0]
  /\ ran = [h \in Handler |-> <<>>]

\* config.Load and run(): the stdio server, the HTTP servers, or a refusal.
Boot ==
  /\ mode = "boot"
  /\ mode' = IF LoadFails(started) THEN "ended"
             ELSE IF Config(started).MCPStdio THEN "stdio"
             ELSE IF authn(started) = "refuse" THEN "ended"
             ELSE "http"
  /\ UNCHANGED <<started, handling, stdio, http, gone, tools>>

-----------------------------------------------------------------------------
(* dispatch and the tools *)

\* Server.byName: web_search is there when a SearXNG is configured.
byName == {"fetch_url"} \cup (IF started.searxng = Unset THEN {} ELSE {"web_search"})

\* The handler of m's tool does not return InvalidParams.
ArgumentsValid(m) ==
  CASE m.tool = "fetch_url" -> m.args.url
    [] m.tool = "web_search" ->
         /\ m.args.query # "empty"
         /\ m.args.time_range \in {Unset, "day", "week", "month", "year"}

\* handleToolsCall gets to the crawl or the search.
RunsTool(m) == m.method = "tools/call" /\ m.tool \in byName /\ ArgumentsValid(m)

\* What dispatch returns for a message that runs no tool.
Immediate(m) ==
  CASE m.method \in {"initialize", "ping", "tools/list"} -> "ok"
    [] m.method \in {"initialized", "notifications/initialized"} -> "void"
    [] m.method = "tools/call" -> "params"
    [] OTHER -> "method"

Number(h) == IF h = Stdio THEN read ELSE 1

\* dispatch(ctx, req), up to a crawl or search.
Dispatch(h) ==
  /\ at[h] = "dispatch"
  /\ IF RunsTool(msg[h])
     THEN /\ at' = [at EXCEPT ![h] = "tool"]
          /\ ran' = [ran EXCEPT ![h] = Append(@, Number(h))]
          /\ UNCHANGED reply
     ELSE /\ at' = [at EXCEPT ![h] = "reply"]
          /\ reply' = [reply EXCEPT ![h] = Immediate(msg[h])]
          /\ UNCHANGED ran
  /\ UNCHANGED <<process, msg, stdio, http, gone, observed, found>>

\* Fault variant: results are not cut.
AllHits(n, limit) == n

\* The results Search keeps of n: a limit that is not positive keeps all.
Kept(n, limit) == IF limit > 0 /\ n > limit THEN limit ELSE n

\* Fault variant: only a success is observed.
CountedOk(ok) == IF ok THEN observed + 1 ELSE observed

\* metrics.Observe or ObserveSearch, whatever came of the call.
Counted(ok) == observed + 1

\* tool.Handle returns, and handleToolsCall answers accordingly.
HandleReturns(h, result) ==
  /\ reply' = [reply EXCEPT ![h] = result]
  /\ observed' = Counted(result = "ok")
  /\ at' = [at EXCEPT ![h] = "reply"]
  /\ UNCHANGED <<process, msg, stdio, http, gone, ran>>

\* reg.Crawl returns to fetch_url's handler.
FetchURL(h) ==
  /\ at[h] = "tool" /\ msg[h].tool = "fetch_url"
  /\ \E result \in {"ok", "internal"} : HandleReturns(h, result)
  /\ UNCHANGED found

\* searcher.Search returns to web_search's handler; it refuses a blank query.
WebSearch(h) ==
  /\ at[h] = "tool" /\ msg[h].tool = "web_search"
  /\ \/ /\ msg[h].args.query # "blank"
        /\ HandleReturns(h, "ok")
        /\ \E n \in Hits, limit \in searchLimits(msg[h].args, Config(started).SearchMaxResults) :
             found' = [found EXCEPT ![h] = Kept(n, limit)]
     \/ HandleReturns(h, "internal") /\ UNCHANGED found

-----------------------------------------------------------------------------
(* ServeStdio *)

IdOf(i) == IF lines[i].request THEN i ELSE NoId

\* writeResp.
Written(id, body) == Append(out, [id |-> id, body |-> body])

\* Fault variant: the context is not looked at.
NeverCanceled == FALSE

\* ctx.Err() != nil.
Canceled == gone[Stdio]

\* scanner.Scan returns a line: ends the loop, answers it, or hands it on.
Scan ==
  LET i == read + 1
      m == lines[i]
      stop == mode' = "ended" /\ UNCHANGED <<at, msg, read, out>>
      next(o) == read' = i /\ out' = o /\ UNCHANGED <<mode, at, msg>> IN
  /\ mode = "stdio" /\ at[Stdio] = "idle" /\ read < Len(lines)
  /\ IF m.form = "long" \/ Canceled THEN stop
     ELSE IF m.form = "empty" THEN next(out)
     ELSE IF m.form = "bad" THEN next(Written(NoId, "parse"))
     ELSE IF ~m.version THEN next(Written(IdOf(i), "request"))
     ELSE /\ msg' = [msg EXCEPT ![Stdio] = m]
          /\ at' = [at EXCEPT ![Stdio] = "dispatch"]
          /\ read' = i
          /\ UNCHANGED <<mode, out>>
  /\ UNCHANGED <<started, reply, lines, eof, http, gone, tools>>

\* Scan returns FALSE at the end of the input, and the process exits.
ScanEnds ==
  /\ mode = "stdio" /\ at[Stdio] = "idle" /\ read = Len(lines) /\ eof
  /\ mode' = "ended"
  /\ UNCHANGED <<started, handling, stdio, http, gone, tools>>

\* Fault variant: every message is answered.
AnswersAll(m) == TRUE

\* ! isNotification.
Answers(m) == m.request

\* The response is written, unless the line was a notification.
WriteResp ==
  /\ at[Stdio] = "reply"
  /\ out' = IF Answers(msg[Stdio]) THEN Written(IdOf(read), reply[Stdio]) ELSE out
  /\ at' = [at EXCEPT ![Stdio] = "idle"]
  /\ UNCHANGED <<process, msg, reply, lines, read, eof, http, gone, tools>>

-----------------------------------------------------------------------------
(* HTTP *)

\* SharedBearer and AlwaysAllow.
Authenticate(token) == authn(started) = "AlwaysAllow" \/ token = started.apiKey

Refuse(code, body) == [to |-> "done", answer |-> [code |-> code, body |-> body]]
Proceed(place) == [to |-> place, answer |-> NoAnswer]

\* What becomes of a message in a POST.
serveHTTPPost(m) ==
  IF m.form # "rpc" THEN Refuse(400, "parse")
  ELSE IF ~m.version THEN Refuse(400, "request")
  ELSE Proceed("dispatch")

ServeHTTP(p) ==
  CASE p.method = "POST" -> serveHTTPPost(p.message)
    [] p.method = "GET" -> Proceed("stream")
    [] OTHER -> Refuse(405, "none")

\* The two routes behind the authenticator.
requireAuth(p) ==
  IF ~Authenticate(p.token) THEN Refuse(401, "none")
  ELSE IF p.path = "/mcp/sse" THEN Proceed("stream")
  ELSE ServeHTTP(p)

\* A request arrives.
Receive(r, p) ==
  /\ mode = "http" /\ at[r] = "idle"
  /\ post' = [post EXCEPT ![r] = p]
  /\ msg' = [msg EXCEPT ![r] = p.message]
  /\ at' = [at EXCEPT ![r] = requireAuth(p).to]
  /\ answer' = [answer EXCEPT ![r] = requireAuth(p).answer]
  /\ UNCHANGED <<process, reply, stdio, gone, tools>>

\* serveHTTPPost answers: a notification is accepted without a body.
Respond(r) ==
  /\ at[r] = "reply"
  /\ answer' = [answer EXCEPT ![r] = IF Answers(msg[r]) THEN [code |-> 200, body |-> reply[r]]
                                     ELSE [code |-> 202, body |-> "none"]]
  /\ at' = [at EXCEPT ![r] = "done"]
  /\ UNCHANGED <<process, msg, reply, stdio, post, gone, tools>>

\* Fault variant: the loop looks neither at ctx nor at write errors.
StreamStays(r) == at[r] = "stream" /\ UNCHANGED vars

\* serveHTTPSSE returns: ctx is done, or a keepalive cannot be written.
StreamEnds(r) ==
  /\ at[r] = "stream" /\ gone[r]
  /\ at' = [at EXCEPT ![r] = "done"]
  /\ UNCHANGED <<process, msg, reply, stdio, http, gone, tools>>

-----------------------------------------------------------------------------
(* Clients *)

Write(m) ==
  /\ mode = "stdio" /\ ~eof /\ Len(lines) < MaxLines
  /\ lines' = Append(lines, m)
  /\ UNCHANGED <<process, handling, read, eof, out, http, gone, tools>>

Hangup ==
  /\ mode = "stdio" /\ ~eof
  /\ eof' = TRUE
  /\ UNCHANGED <<process, handling, lines, read, out, http, gone, tools>>

\* A signal cancels the context of stdio mode, a client that leaves that of its
\* request.
Leave(h) ==
  /\ ~gone[h]
  /\ IF h = Stdio THEN mode = "stdio" ELSE at[h] \notin {"idle", "done"}
  /\ gone' = [gone EXCEPT ![h] = TRUE]
  /\ UNCHANGED <<process, handling, stdio, http, tools>>

-----------------------------------------------------------------------------

Handle(h) == Dispatch(h) \/ FetchURL(h) \/ WebSearch(h)
Loop == Scan \/ ScanEnds \/ WriteResp
Serve(r) == Handle(r) \/ Respond(r) \/ StreamEnds(r)

Client ==
  \/ \E m \in Messages : Write(m)
  \/ Hangup
  \/ \E h \in Handler : Leave(h)
  \/ \E r \in Request, p \in Posts : Receive(r, p)

\* The process has ended, its stdin is silent, or its HTTP clients are done.
Idle ==
  /\ \/ mode = "ended"
     \/ mode = "stdio" /\ at[Stdio] = "idle" /\ read = Len(lines) /\ ~eof
     \/ mode = "http" /\ \A r \in Request : at[r] \in {"done", "stream"}
  /\ UNCHANGED vars

Next ==
  \/ Boot \/ Loop \/ Handle(Stdio)
  \/ \E r \in Request : Serve(r)
  \/ Client \/ Idle

Spec == Init /\ [][Next]_vars

\* Crawls and searches return (EngineCrawl, UpstreamFetch), handlers run.  A stdio
\* client is assumed to read its responses: out.Write (server.go:127) blocks while
\* the pipe is full, whatever the context says.  An HTTP client need not, since the
\* server's WriteTimeout (main.go:201) ends the write.  Either may stay silent for
\* ever, and HTTP clients may keep streams open for ever.
Fairness ==
  /\ WF_vars(Boot) /\ WF_vars(Loop) /\ WF_vars(Handle(Stdio))
  /\ \A r \in Request : WF_vars(Serve(r))

LiveSpec == Spec /\ Fairness

-----------------------------------------------------------------------------
(* Properties *)

\* The lines that get a response: requests, and what is no valid message, whether
\* or not it has an id (server.go:142, 146).
Responded(i) ==
  LET m == lines[i] IN m.form = "bad" \/ (m.form = "rpc" /\ (m.request \/ ~m.version))

\* Responses on stdout are those of the lines gone past, in their order, each once
\* and under the line's own id; a notification has none, although it is dispatched.
RepliesInOrder ==
  LET over == 1..(IF at[Stdio] = "idle" THEN read ELSE read - 1)
      due == {i \in over : Responded(i)} IN
  /\ Len(out) = Cardinality(due)
  /\ \A i \in due : LET k == Cardinality({j \in due : j <= i}) IN
                    out[k].id = IF lines[i].form = "bad" THEN NoId ELSE IdOf(i)

\* Every run of a tool is accounted for.  The metrics have counted each that is
\* over, failed or not, also those of notifications and of clients that left; and
\* the client can tell: "ok" or an internal error says that the tool ran, once,
\* and invalid params that nothing was crawled or searched.
RunsAccounted ==
  LET runs(h, n) == Cardinality({i \in DOMAIN ran[h] : ran[h][i] = n}) IN
  /\ observed = Cardinality(UNION {{h} \X DOMAIN ran[h] : h \in Handler})
                - Cardinality({h \in Handler : at[h] = "tool"})
  /\ \A k \in DOMAIN out :
       out[k].id # NoId /\ lines[out[k].id].method = "tools/call" =>
         runs(Stdio, out[k].id) = IF out[k].body \in {"ok", "internal"} THEN 1 ELSE 0
  /\ \A r \in Request :
       answer[r].code = 200 /\ msg[r].method = "tools/call" =>
         runs(r, 1) = IF answer[r].body \in {"ok", "internal"} THEN 1 ELSE 0

\* Fail closed (main.go:133): whoever gets past the check over HTTP has the key, or
\* there is none and OMNIFEED_DEV_NO_AUTH was set; nothing is run for the others.
AuthKept ==
  \A r \in Request :
    post[r] # NoPost /\ answer[r].code # 401 =>
      \/ started.apiKey # Unset /\ post[r].token = started.apiKey
      \/ started.apiKey = Unset /\ started.noAuth = TRUE

\* A search returns at most OMNIFEED_SEARCH_MAX_RESULTS results, at most the limit
\* asked for, and at most DefaultLimit when there is none, unless the limit is
\* beyond the range of int, where amd64 makes it a negative one.
SearchCapped ==
  \A h \in Handler :
    LET m == msg[h] IN
    /\ at[h] = "reply" /\ reply[h] = "ok"
    /\ m.method = "tools/call" /\ m.tool = "web_search" /\ m.args.limit # Huge
    =>
      /\ found[h] <= Config(started).SearchMaxResults
      /\ found[h] <= IF AtLeast(m.args.limit, 1) THEN m.args.limit ELSE DefaultLimit

\* The stdio server ends when its input does, and a signal ends it at the next line,
\* if the client reads its responses.  (Not at once: a silent client keeps it
\* waiting, see server.go:117.)
StdioEnds ==
  mode = "stdio" /\ (eof \/ (gone[Stdio] /\ read < Len(lines))) ~> mode = "ended"

\* Line i is after one that made the server give up, or after a signal.
GivenUp(i) ==
  mode = "ended" /\ (gone[Stdio] \/ \E j \in DOMAIN lines : j < i /\ lines[j].form = "long")

\* Every request gets its response, over stdio from a client that reads them and
\* unless the server ends before it, and streams are given up once their client has
\* left.
RequestsAnswered ==
  /\ \A i \in 1..MaxLines :
       i \in DOMAIN lines /\ lines[i].form = "rpc" /\ lines[i].request ~>
         GivenUp(i) \/ \E k \in DOMAIN out : out[k].id = i
  /\ \A r \in Request : at[r] = "dispatch" \/ (at[r] = "stream" /\ gone[r]) ~> at[r] = "done"
=============================================================================
