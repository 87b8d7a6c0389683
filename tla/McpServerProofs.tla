-------------------------- MODULE McpServerProofs ---------------------------
(***************************************************************************)
(* Proofs about McpServer, for any messages, any number of lines and of    *)
(* concurrent HTTP requests: who is let in, how many results a search      *)
(* returns, which runs of tools are counted and told, and in which order   *)
(* the responses are written to stdout.                                    *)
(***************************************************************************)
EXTENDS McpServer, FiniteSetTheorems, SequenceTheorems, TLAPS

Place == {"idle", "dispatch", "tool", "reply", "stream", "done"}

Body == {"none", "ok", "parse", "request", "method", "params", "internal", "void"}

Response == [id : Nat \cup {NoId}, body : Body]

McpTypeOK ==
  /\ started \in Environments /\ mode \in {"boot", "stdio", "http", "ended"}
  /\ at \in [Handler -> Place]
  /\ msg \in [Handler -> Messages \cup {NoMessage}]
  /\ reply \in [Handler -> Body]
  /\ lines \in Seq(Messages) /\ read \in 0..Len(lines)
  /\ out \in Seq(Response)
  /\ post \in [Request -> Posts \cup {NoPost}]
  /\ answer \in [Request -> [code : Nat, body : Body]]
  /\ observed \in Nat
  /\ found \in [Handler -> Nat]
  /\ ran \in [Handler -> Seq(Nat)]

\* Nothing is handled under a configuration that Load or run() refuses.
Loaded ==
  /\ mode \in {"stdio", "http"} \/ (\E h \in Handler : at[h] # "idle") => ~LoadFails(started)
  /\ mode = "http" => authn(started) # "refuse"

\* Where each handler may be, and what it is handling.
Placed ==
  /\ at[Stdio] \in {"idle", "dispatch", "tool", "reply"}
  /\ at[Stdio] # "idle" =>
       /\ read > 0 /\ msg[Stdio] = lines[read]
       /\ lines[read].form = "rpc" /\ lines[read].version
  /\ \A h \in Handler : at[h] \in {"dispatch", "tool", "reply"} => msg[h] \in Messages
  /\ \A h \in Handler : at[h] = "tool" => msg[h].method = "tools/call"

\* A request that was not authorized is over.
Admitted ==
  \A r \in Request :
    post[r] # NoPost =>
      \/ at[r] = "done" /\ answer[r].code = 401
      \/ started.apiKey # Unset /\ post[r].token = started.apiKey
      \/ started.apiKey = Unset /\ started.noAuth = TRUE

\* h ran a tool for its n-th message.
Ran(h, n) == \E k \in DOMAIN ran[h] : ran[h][k] = n

\* How far the stdio loop is: the lines it is done with.
Past == IF at[Stdio] = "idle" THEN read ELSE read - 1

\* A message of h runs at most one tool, when it is dispatched.
Once(h) ==
  /\ \A j, k \in DOMAIN ran[h] : ran[h][j] = ran[h][k] => j = k
  /\ \A k \in DOMAIN ran[h] : ran[h][k] <= Number(h)
  /\ h \in Request /\ at[h] = "idle" => ran[h] = <<>>
  /\ at[h] = "dispatch" => ~Ran(h, Number(h))
  /\ at[h] = "tool" => Ran(h, Number(h))
  /\ at[h] = "reply" /\ msg[h].method = "tools/call" =>
       (Ran(h, Number(h)) <=> reply[h] \in {"ok", "internal"})

RunsOnce == \A h \in Handler : Once(h)

\* A client is told of the runs: the k-th response, over stdio.
Told(k) ==
  out[k].id # NoId =>
    /\ out[k].id \in 1..Past
    /\ lines[out[k].id].method = "tools/call" =>
         (Ran(Stdio, out[k].id) <=> out[k].body \in {"ok", "internal"})

\* The answer to r, over HTTP.
AnswerTold(r) ==
  answer[r].code = 200 =>
    /\ at[r] = "done"
    /\ msg[r].method = "tools/call" =>
         (Ran(r, 1) <=> answer[r].body \in {"ok", "internal"})

RunsTold == (\A k \in DOMAIN out : Told(k)) /\ (\A r \in Request : AnswerTold(r))

\* All runs of tools, and the handlers in one.
AllRuns == UNION {{h} \X DOMAIN ran[h] : h \in Handler}
InTool == {h \in Handler : at[h] = "tool"}

\* The metrics count the runs that are over.
RunsCounted ==
  /\ IsFiniteSet(AllRuns)
  /\ observed = Cardinality(AllRuns) - Cardinality(InTool)

McpInv ==
  /\ McpTypeOK /\ Loaded /\ Placed /\ Admitted /\ RunsOnce /\ RunsTold /\ RunsCounted
  /\ RepliesInOrder /\ SearchCapped

-----------------------------------------------------------------------------
(* Steps *)

\* The steps of the server and of its clients, one by one.
Stepped ==
  \/ Boot
  \/ \E h \in Handler : Dispatch(h) \/ FetchURL(h) \/ WebSearch(h)
  \/ Scan \/ ScanEnds \/ WriteResp
  \/ \E r \in Request : Respond(r) \/ StreamEnds(r)
  \/ \E r \in Request, p \in Posts : Receive(r, p)
  \/ \E m \in Messages : Write(m)
  \/ Hangup
  \/ \E h \in Handler : Leave(h)
  \/ UNCHANGED vars

\* A step of the specification is one of them.
LEMMA StepKinds ==
  ASSUME [Next]_vars
  PROVE  Stepped
BY DEF Next, Loop, Handle, Serve, Client, Idle, Stepped, Handler

\* The number of the message a handler has is a natural number.
LEMMA NumberNat ==
  ASSUME McpTypeOK, NEW h
  PROVE  Number(h) \in Nat /\ read \in Nat /\ Len(lines) \in Nat
BY DEF McpTypeOK, Number

\* What dispatch returns at once is a response's content.
LEMMA ImmediateBody ==
  ASSUME NEW m
  PROVE  /\ Immediate(m) \in Body
         /\ m.method = "tools/call" => Immediate(m) = "params"
BY DEF Immediate, Body

\* What becomes of an HTTP request at once.
LEMMA RequireAuthFacts ==
  ASSUME NEW p \in Posts
  PROVE  /\ requireAuth(p).to \in {"done", "dispatch", "stream"}
         /\ requireAuth(p).answer \in [code : {0, 400, 401, 405}, body : Body]
         /\ ~Authenticate(p.token) =>
              requireAuth(p).to = "done" /\ requireAuth(p).answer.code = 401
BY DEF requireAuth, ServeHTTP, serveHTTPPost, Refuse, Proceed, NoAnswer, Body

\* The limits of a search are integers, none above SearchMaxResults, and none that
\* is not positive unless the limit asked for is beyond the range of int.
LEMMA LimitFacts ==
  ASSUME NEW m \in Messages, NEW max \in 1..100,
         NEW limit \in searchLimits(m.args, max)
  PROVE  /\ limit \in Int
         /\ m.args.limit # Huge =>
              /\ limit > 0 /\ limit <= max
              /\ limit <= IF AtLeast(m.args.limit, 1) THEN m.args.limit ELSE DefaultLimit
<1>1. m.args.limit \in Int \cup {Unset, Junk, Huge}
      BY MessagesTyped
<1>2. DefaultLimit \in Nat \ {0} /\ MaxInt \in Nat
      BY OptionBounds
<1>3. PICK n \in IF AtLeast(m.args.limit, 1) THEN IntOf(m.args.limit) ELSE {DefaultLimit} :
        limit = IF n > max THEN max ELSE n
      BY DEF searchLimits
<1>4. CASE ~AtLeast(m.args.limit, 1)
      BY <1>2, <1>3, <1>4
<1>5. CASE AtLeast(m.args.limit, 1) /\ m.args.limit # Huge
  <2>1. n = m.args.limit /\ n \in Int /\ n >= 1
        BY <1>1, <1>3, <1>5 DEF AtLeast, IntOf
  <2> QED  BY <1>3, <1>5, <2>1
<1>6. CASE m.args.limit = Huge
  <2>1. n \in Int
        BY <1>2, <1>3, <1>6 DEF IntOf
  <2> QED  BY <1>3, <1>6, <2>1
<1> QED  BY <1>4, <1>5, <1>6

\* Search keeps at most the limit of the results it has, when that is positive.
LEMMA KeptFacts ==
  ASSUME NEW n \in Hits, NEW limit \in Int
  PROVE  Kept(n, limit) \in Nat /\ (limit > 0 => Kept(n, limit) <= limit)
BY McpBounds DEF Kept

\* A configuration that is not refused has a search limit in range.
LEMMA LoadedLimit ==
  ASSUME ~LoadFails(started)
  PROVE  Config(started).SearchMaxResults \in 1..100
BY DEF LoadFails

\* The number of results of a search is typed, and within the limits.
LEMMA FoundFacts ==
  ASSUME McpTypeOK, Loaded, Placed, NEW h \in Handler, at[h] = "tool",
         NEW n \in Hits, NEW limit \in searchLimits(msg[h].args, Config(started).SearchMaxResults)
  PROVE  /\ Kept(n, limit) \in Nat
         /\ msg[h].args.limit # Huge =>
              /\ Kept(n, limit) <= Config(started).SearchMaxResults
              /\ Kept(n, limit) <= IF AtLeast(msg[h].args.limit, 1) THEN msg[h].args.limit
                                                                     ELSE DefaultLimit
<1>1. Config(started).SearchMaxResults \in 1..100
      BY LoadedLimit DEF Loaded
<1>2. msg[h] \in Messages
      BY DEF Placed
<1> DEFINE m == msg[h]
           max == Config(started).SearchMaxResults
           asked == IF AtLeast(m.args.limit, 1) THEN m.args.limit ELSE DefaultLimit
<1>3. asked \in Int \/ m.args.limit = Huge
      BY <1>2, MessagesTyped, OptionBounds DEF AtLeast
<1>4. limit \in Int /\ (m.args.limit # Huge => limit > 0 /\ limit <= max /\ limit <= asked)
      BY <1>1, <1>2, LimitFacts
<1>5. Kept(n, limit) \in Nat /\ (limit > 0 => Kept(n, limit) <= limit)
      BY <1>4, KeptFacts
<1> HIDE DEF m, max, asked
<1>6. m.args.limit # Huge => Kept(n, limit) <= max /\ Kept(n, limit) <= asked
      BY <1>1, <1>3, <1>4, <1>5 DEF max
<1> QED  BY <1>5, <1>6 DEF m, max, asked

\* Types are kept.
LEMMA TypeStep ==
  ASSUME McpTypeOK, Loaded, Placed, [Next]_vars
  PROVE  McpTypeOK'
<1> USE DEF McpTypeOK
<1>1. CASE Boot
      BY <1>1 DEF Boot, process, handling, stdio, http, tools
<1>2. ASSUME NEW h \in Handler, Dispatch(h)
      PROVE  McpTypeOK'
  <2>1. at' \in [Handler -> Place]
        BY <1>2 DEF Dispatch, Place
  <2>2. reply' \in [Handler -> Body]
    <3>1. Immediate(msg[h]) \in Body
          BY ImmediateBody
    <3> QED  BY <1>2, <3>1 DEF Dispatch
  <2>3. ran' \in [Handler -> Seq(Nat)]
    <3>1. ran[h] \in Seq(Nat) /\ Number(h) \in Nat
          BY NumberNat
    <3>2. Append(ran[h], Number(h)) \in Seq(Nat)
          BY <3>1, AppendProperties
    <3> QED  BY <1>2, <3>2 DEF Dispatch
  <2> QED  BY <1>2, <2>1, <2>2, <2>3 DEF Dispatch, process, stdio, http
<1>3. ASSUME NEW h \in Handler, NEW b \in {"ok", "internal"}, HandleReturns(h, b),
             found' \in [Handler -> Nat]
      PROVE  McpTypeOK'
  <2>1. /\ at' \in [Handler -> Place] /\ reply' \in [Handler -> Body] /\ observed' \in Nat
        BY <1>3 DEF HandleReturns, Counted, Place, Body
  <2> QED  BY <1>3, <2>1 DEF HandleReturns, process, stdio, http
<1>4. ASSUME NEW h \in Handler, FetchURL(h)
      PROVE  McpTypeOK'
      BY <1>3, <1>4 DEF FetchURL
<1>5. ASSUME NEW h \in Handler, WebSearch(h)
      PROVE  McpTypeOK'
  <2>1. CASE HandleReturns(h, "internal") /\ UNCHANGED found
        BY <1>3, <2>1
  <2>2. CASE /\ HandleReturns(h, "ok")
             /\ \E n \in Hits, limit \in searchLimits(msg[h].args, Config(started).SearchMaxResults) :
                  found' = [found EXCEPT ![h] = Kept(n, limit)]
    <3>1. found' \in [Handler -> Nat]
          BY <1>5, <2>2, FoundFacts DEF WebSearch
    <3> QED  BY <1>3, <2>2, <3>1
  <2> QED  BY <1>5, <2>1, <2>2 DEF WebSearch
<1>6. CASE Scan
  <2> DEFINE i == read + 1
  <2>1. i \in Nat /\ i \in 1..Len(lines) /\ lines[i] \in Messages /\ Stdio \in Handler
        BY <1>6, NumberNat DEF Scan, Handler
  <2>2. /\ started' = started /\ mode' \in {mode, "ended"}
        /\ read' \in {read, i} /\ lines' = lines /\ reply' = reply
        /\ post' = post /\ answer' = answer
        /\ observed' = observed /\ found' = found /\ ran' = ran
        BY <1>6 DEF Scan, http, tools
  <2>3. at' \in [Handler -> Place] /\ msg' \in [Handler -> Messages \cup {NoMessage}]
        BY <1>6, <2>1 DEF Scan, Place
  <2>4. out' \in {out, Written(NoId, "parse"), Written(IdOf(i), "request")}
        BY <1>6 DEF Scan
  <2>5. [id |-> NoId, body |-> "parse"] \in Response /\ [id |-> IdOf(i), body |-> "request"] \in Response
        BY <2>1 DEF Response, Body, IdOf
  <2>6. out' \in Seq(Response)
    <3>1. /\ Append(out, [id |-> NoId, body |-> "parse"]) \in Seq(Response)
          /\ Append(out, [id |-> IdOf(i), body |-> "request"]) \in Seq(Response)
          BY <2>5, AppendProperties
    <3> QED  BY <2>4, <3>1 DEF Written
  <2>7. read' \in 0..Len(lines')
        BY <2>1, <2>2, NumberNat
  <2> QED  BY <2>2, <2>3, <2>6, <2>7
<1>7. CASE ScanEnds
      BY <1>7 DEF ScanEnds, handling, stdio, http, tools
<1>8. CASE WriteResp
  <2>1. Stdio \in Handler /\ read \in Nat
        BY NumberNat DEF Handler
  <2>2. [id |-> IdOf(read), body |-> reply[Stdio]] \in Response
        BY <2>1 DEF Response, IdOf
  <2>3. out' \in Seq(Response)
    <3>1. Append(out, [id |-> IdOf(read), body |-> reply[Stdio]]) \in Seq(Response)
          BY <2>2, AppendProperties
    <3> QED  BY <1>8, <3>1 DEF WriteResp, Written
  <2>4. at' \in [Handler -> Place]
        BY <1>8, <2>1 DEF WriteResp, Place
  <2> QED  BY <1>8, <2>3, <2>4 DEF WriteResp, process, http, tools
<1>9. ASSUME NEW r \in Request, Respond(r)
      PROVE  McpTypeOK'
  <2>1. r \in Handler
        BY DEF Handler
  <2>2. at' \in [Handler -> Place]
        BY <1>9, <2>1 DEF Respond, Place
  <2>3. answer' \in [Request -> [code : Nat, body : Body]]
        BY <1>9, <2>1 DEF Respond, Body
  <2> QED  BY <1>9, <2>2, <2>3 DEF Respond, process, stdio, tools
<1>10. ASSUME NEW r \in Request, StreamEnds(r)
       PROVE  McpTypeOK'
  <2>1. at' \in [Handler -> Place]
        BY <1>10 DEF StreamEnds, Place, Handler
  <2> QED  BY <1>10, <2>1 DEF StreamEnds, process, stdio, http, tools
<1>11. ASSUME NEW r \in Request, NEW p \in Posts, Receive(r, p)
       PROVE  McpTypeOK'
  <2>1. at' \in [Handler -> Place]
        BY <1>11, RequireAuthFacts DEF Receive, Place, Handler
  <2>2. requireAuth(p).answer \in [code : Nat, body : Body]
    <3>1. requireAuth(p).answer \in [code : {0, 400, 401, 405}, body : Body]
          BY RequireAuthFacts
    <3> QED  BY <3>1
  <2>3. answer' \in [Request -> [code : Nat, body : Body]]
        BY <1>11, <2>2 DEF Receive
  <2>4. /\ msg' \in [Handler -> Messages \cup {NoMessage}]
        /\ post' \in [Request -> Posts \cup {NoPost}]
    <3>1. p.message \in Messages
          BY PostsTyped
    <3> QED  BY <1>11, <3>1 DEF Receive, Handler
  <2> QED  BY <1>11, <2>1, <2>3, <2>4 DEF Receive, process, stdio, tools
<1>12. ASSUME NEW m \in Messages, Write(m)
       PROVE  McpTypeOK'
  <2>1. lines' \in Seq(Messages) /\ Len(lines') = Len(lines) + 1
        BY <1>12, AppendProperties DEF Write
  <2>2. read' \in 0..Len(lines')
        BY <1>12, <2>1, NumberNat DEF Write
  <2> QED  BY <1>12, <2>1, <2>2 DEF Write, process, handling, http, tools
<1>13. CASE Hangup
       BY <1>13 DEF Hangup, process, handling, http, tools
<1>14. ASSUME NEW h \in Handler, Leave(h)
       PROVE  McpTypeOK'
       BY <1>14 DEF Leave, process, handling, stdio, http, tools
<1>15. CASE UNCHANGED vars
       BY <1>15 DEF vars, process, handling, stdio, http, tools
<1> HIDE DEF McpTypeOK
<1> QED
    BY StepKinds, <1>1, <1>2, <1>4, <1>5, <1>6, <1>7, <1>8, <1>9, <1>10, <1>11, <1>12,
       <1>13, <1>14, <1>15 DEF Stepped

-----------------------------------------------------------------------------
(* Where the handlers are *)

\* A handler starts only in a server that runs, and ends for good.
LEMMA AtFacts ==
  ASSUME McpTypeOK, [Next]_vars
  PROVE  /\ started' = started
         /\ Boot \/ mode' \in {mode, "ended"}
         /\ \A g \in Handler : at'[g] # "idle" => at[g] # "idle" \/ mode \in {"stdio", "http"}
         /\ \A g \in Handler : at[g] = "done" => at'[g] = "done"
<1>0. at \in [Handler -> Place] /\ Stdio \in Handler /\ \A r \in Request : r \in Handler
      BY DEF McpTypeOK, Handler
<1> DEFINE Facts == /\ started' = started
                    /\ Boot \/ mode' \in {mode, "ended"}
                    /\ \A g \in Handler : at'[g] # "idle" => at[g] # "idle" \/ mode \in {"stdio", "http"}
                    /\ \A g \in Handler : at[g] = "done" => at'[g] = "done"
<1>1. CASE Boot
      BY <1>1 DEF Boot, handling
<1>2. ASSUME NEW h \in Handler, Dispatch(h)
      PROVE  Facts
      BY <1>0, <1>2 DEF Dispatch, process
<1>3. ASSUME NEW h \in Handler, FetchURL(h) \/ WebSearch(h)
      PROVE  Facts
  <2>1. at[h] = "tool" /\ at' = [at EXCEPT ![h] = "reply"] /\ UNCHANGED process
        BY <1>3 DEF FetchURL, WebSearch, HandleReturns
  <2> QED  BY <1>0, <2>1 DEF process
<1>4. CASE Scan
  <2>1. /\ mode = "stdio" /\ at[Stdio] = "idle" /\ started' = started
        /\ mode' \in {mode, "ended"}
        /\ at' \in {at, [at EXCEPT ![Stdio] = "dispatch"]}
        BY <1>4 DEF Scan
  <2> QED  BY <1>0, <2>1
<1>5. CASE ScanEnds
      BY <1>5 DEF ScanEnds, handling
<1>6. CASE WriteResp
      BY <1>0, <1>6 DEF WriteResp, process
<1>7. ASSUME NEW r \in Request, Respond(r) \/ StreamEnds(r)
      PROVE  Facts
  <2>1. at[r] \in {"reply", "stream"} /\ at' = [at EXCEPT ![r] = "done"] /\ UNCHANGED process
        BY <1>7 DEF Respond, StreamEnds
  <2> QED  BY <1>0, <2>1 DEF process
<1>8. ASSUME NEW r \in Request, NEW p \in Posts, Receive(r, p)
      PROVE  Facts
      BY <1>0, <1>8 DEF Receive, process
<1>9. ASSUME UNCHANGED <<process, handling>>
      PROVE  Facts
      BY <1>9 DEF process, handling
<1>10. (\E m \in Messages : Write(m)) \/ Hangup \/ (\E h \in Handler : Leave(h)) \/ UNCHANGED vars
         => Facts
       BY <1>9 DEF Write, Hangup, Leave, vars
<1> QED  BY StepKinds, <1>1, <1>2, <1>3, <1>4, <1>5, <1>6, <1>7, <1>8, <1>10 DEF Stepped

\* Load and run() are passed before anything is handled.
LEMMA LoadedStep ==
  ASSUME McpTypeOK, Loaded, [Next]_vars
  PROVE  Loaded'
<1>1. CASE Boot
  <2>1. started' = started /\ at' = at
        BY <1>1 DEF Boot, handling
  <2>2. LoadFails(started)' = LoadFails(started) /\ authn(started)' = authn(started)
        BY <2>1
  <2>3. /\ mode' \in {"stdio", "http"} => ~LoadFails(started)
        /\ mode' = "http" => authn(started) # "refuse"
        BY <1>1 DEF Boot
  <2> QED  BY <2>1, <2>2, <2>3 DEF Loaded
<1>2. CASE ~Boot
  <2>1. started' = started /\ mode' \in {mode, "ended"}
        /\ \A g \in Handler : at'[g] # "idle" => at[g] # "idle" \/ mode \in {"stdio", "http"}
        BY <1>2, AtFacts
  <2>2. LoadFails(started)' = LoadFails(started) /\ authn(started)' = authn(started)
        BY <2>1
  <2> QED  BY <2>1, <2>2 DEF Loaded
<1> QED  BY <1>1, <1>2

\* Handlers have the message they are handling.
LEMMA PlacedStep ==
  ASSUME McpTypeOK, Placed, [Next]_vars
  PROVE  Placed'
<1>0. /\ at \in [Handler -> Place] /\ msg \in [Handler -> Messages \cup {NoMessage}]
      /\ lines \in Seq(Messages) /\ read \in Nat /\ read <= Len(lines) /\ Len(lines) \in Nat
      /\ Stdio \in Handler /\ \A r \in Request : r \in Handler /\ r # Stdio
      BY HandlersTyped, NumberNat DEF McpTypeOK, Handler
<1>1. ASSUME UNCHANGED <<handling, lines, read>>
      PROVE  Placed'
      BY <1>1 DEF Placed, handling
<1>2. ASSUME NEW h \in Handler, Dispatch(h)
      PROVE  Placed'
  <2>1. /\ at[h] = "dispatch" /\ msg' = msg /\ lines' = lines /\ read' = read
        /\ at' = [at EXCEPT ![h] = "tool"] \/ at' = [at EXCEPT ![h] = "reply"]
        /\ at' = [at EXCEPT ![h] = "tool"] => msg[h].method = "tools/call"
    <3>1. [at EXCEPT ![h] = "tool"] # [at EXCEPT ![h] = "reply"]
          BY <1>0
    <3> QED  BY <1>2, <3>1 DEF Dispatch, RunsTool, stdio
  <2>2. CASE at' = [at EXCEPT ![h] = "tool"]
        BY <1>0, <2>1, <2>2 DEF Placed
  <2>3. CASE at' = [at EXCEPT ![h] = "reply"]
        BY <1>0, <2>1, <2>3 DEF Placed
  <2> QED  BY <2>1, <2>2, <2>3
<1>3. ASSUME NEW h \in Handler, FetchURL(h) \/ WebSearch(h)
      PROVE  Placed'
  <2>1. /\ at[h] = "tool" /\ at' = [at EXCEPT ![h] = "reply"]
        /\ msg' = msg /\ lines' = lines /\ read' = read
        BY <1>3 DEF FetchURL, WebSearch, HandleReturns, stdio
  <2> QED  BY <1>0, <2>1 DEF Placed
<1>4. CASE Scan
  <2> DEFINE i == read + 1
  <2>1. i \in Nat /\ i > 0 /\ lines[i] \in Messages /\ lines' = lines /\ at[Stdio] = "idle"
        BY <1>0, <1>4 DEF Scan
  <2>2. lines[i].form \in {"empty", "long", "bad", "rpc"}
        BY <2>1, MessagesTyped
  <2>3. \/ at' = at /\ msg' = msg
        \/ /\ at' = [at EXCEPT ![Stdio] = "dispatch"] /\ msg' = [msg EXCEPT ![Stdio] = lines[i]]
           /\ read' = i /\ lines[i].form = "rpc" /\ lines[i].version
        BY <1>4, <2>2 DEF Scan
  <2>4. CASE at' = at /\ msg' = msg
        BY <2>1, <2>4 DEF Placed
  <2>5. CASE /\ at' = [at EXCEPT ![Stdio] = "dispatch"] /\ msg' = [msg EXCEPT ![Stdio] = lines[i]]
             /\ read' = i /\ lines[i].form = "rpc" /\ lines[i].version
        BY <1>0, <2>1, <2>5 DEF Placed
  <2> QED  BY <2>3, <2>4, <2>5
<1>5. CASE ScanEnds
      BY <1>1, <1>5 DEF ScanEnds, stdio
<1>6. CASE WriteResp
  <2>1. /\ at' = [at EXCEPT ![Stdio] = "idle"]
        /\ msg' = msg /\ lines' = lines /\ read' = read
        BY <1>6 DEF WriteResp
  <2> QED  BY <1>0, <2>1 DEF Placed
<1>7. ASSUME NEW r \in Request, Respond(r) \/ StreamEnds(r)
      PROVE  Placed'
  <2>1. /\ at' = [at EXCEPT ![r] = "done"]
        /\ msg' = msg /\ lines' = lines /\ read' = read
        BY <1>7 DEF Respond, StreamEnds, stdio
  <2> QED  BY <1>0, <2>1 DEF Placed
<1>8. ASSUME NEW r \in Request, NEW p \in Posts, Receive(r, p)
      PROVE  Placed'
  <2>1. /\ at' = [at EXCEPT ![r] = requireAuth(p).to]
        /\ msg' = [msg EXCEPT ![r] = p.message]
        /\ lines' = lines /\ read' = read
        BY <1>8 DEF Receive, stdio
  <2>2. requireAuth(p).to \in {"done", "dispatch", "stream"} /\ p.message \in Messages
        BY RequireAuthFacts, PostsTyped
  <2> QED  BY <1>0, <2>1, <2>2 DEF Placed
<1>9. ASSUME NEW m \in Messages, Write(m)
      PROVE  Placed'
  <2>1. lines' = Append(lines, m) /\ read' = read /\ at' = at /\ msg' = msg
        BY <1>9 DEF Write, handling
  <2>2. read > 0 => lines'[read] = lines[read]
        BY <1>0, <2>1, AppendProperties
  <2> QED  BY <2>1, <2>2 DEF Placed
<1>10. CASE Hangup
       BY <1>1, <1>10 DEF Hangup
<1>11. ASSUME NEW h \in Handler, Leave(h)
       PROVE  Placed'
       BY <1>1, <1>11 DEF Leave, stdio
<1>12. CASE UNCHANGED vars
       BY <1>1, <1>12 DEF vars, stdio
<1>13. CASE Boot
       BY <1>1, <1>13 DEF Boot, stdio
<1> QED
    BY StepKinds, <1>2, <1>3, <1>4, <1>5, <1>6, <1>7, <1>8, <1>9, <1>10, <1>11, <1>12, <1>13
    DEF Stepped

-----------------------------------------------------------------------------
(* Who is let in, and how much a search returns *)

\* Who passes the authenticator has the key, or needs none.
LEMMA AuthenticateFacts ==
  ASSUME McpTypeOK, Loaded, mode = "http", NEW token, Authenticate(token)
  PROVE  \/ started.apiKey # Unset /\ token = started.apiKey
         \/ started.apiKey = Unset /\ started.noAuth = TRUE
<1>1. authn(started) # "refuse" /\ ~LoadFails(started)
      BY DEF Loaded
<1>2. started.noAuth \in BOOLEAN \cup {Unset, Junk} /\ started.noAuth # Junk
      BY <1>1, EnvironmentsTyped DEF McpTypeOK, LoadFails
<1>3. CASE started.apiKey # Unset
  <2>1. authn(started) = "SharedBearer"
        BY <1>3 DEF authn
  <2> QED  BY <1>3, <2>1 DEF Authenticate
<1>4. CASE started.apiKey = Unset
  <2>1. Config(started).AllowNoAuth
        BY <1>1, <1>4 DEF authn
  <2>2. started.noAuth # Unset
        BY <2>1 DEF Config, env
  <2>3. started.noAuth
        BY <2>1, <2>2 DEF Config, env
  <2> QED  BY <1>2, <1>4, <2>2, <2>3
<1> QED  BY <1>3, <1>4

\* Only Receive lets a request in, and a rejected one stays rejected.
LEMMA AdmittedStep ==
  ASSUME McpTypeOK, Loaded, Admitted, [Next]_vars
  PROVE  Admitted'
<1>0. /\ at \in [Handler -> Place] /\ DOMAIN post = Request /\ DOMAIN answer = Request
      /\ \A r \in Request : r \in Handler
      /\ started' = started /\ \A g \in Handler : at[g] = "done" => at'[g] = "done"
      BY AtFacts DEF McpTypeOK, Handler
<1>1. ASSUME UNCHANGED http
      PROVE  Admitted'
      BY <1>0, <1>1 DEF Admitted, http
<1>2. ASSUME NEW r \in Request, Respond(r)
      PROVE  Admitted'
  <2>1. at[r] = "reply" /\ post' = post /\ \A q \in Request : q # r => answer'[q] = answer[q]
        BY <1>0, <1>2 DEF Respond
  <2> QED  BY <1>0, <2>1 DEF Admitted
<1>3. ASSUME NEW r \in Request, NEW p \in Posts, Receive(r, p)
      PROVE  Admitted'
  <2> SUFFICES ASSUME NEW q \in Request, post'[q] # NoPost
               PROVE  \/ at'[q] = "done" /\ answer'[q].code = 401
                      \/ started.apiKey # Unset /\ post'[q].token = started.apiKey
                      \/ started.apiKey = Unset /\ started.noAuth = TRUE
      BY <1>0 DEF Admitted
  <2>1. CASE q # r
    <3>1. post'[q] = post[q] /\ answer'[q] = answer[q] /\ at'[q] = at[q]
          BY <1>0, <1>3, <2>1 DEF Receive
    <3> QED  BY <3>1 DEF Admitted
  <2>2. CASE q = r
    <3>1. /\ mode = "http" /\ post'[q] = p /\ at'[q] = requireAuth(p).to
          /\ answer'[q] = requireAuth(p).answer
          BY <1>0, <1>3, <2>2 DEF Receive
    <3>2. CASE Authenticate(p.token)
          BY <3>1, <3>2, AuthenticateFacts
    <3>3. CASE ~Authenticate(p.token)
          BY <3>1, <3>3, RequireAuthFacts
    <3> QED  BY <3>2, <3>3
  <2> QED  BY <2>1, <2>2
<1>4. ASSUME NEW h \in Handler, Dispatch(h) \/ FetchURL(h) \/ WebSearch(h)
      PROVE  Admitted'
      BY <1>1, <1>4 DEF Dispatch, FetchURL, WebSearch, HandleReturns
<1>5. CASE Scan \/ ScanEnds \/ WriteResp
      BY <1>1, <1>5 DEF Scan, ScanEnds, WriteResp
<1>6. ASSUME NEW r \in Request, StreamEnds(r)
      PROVE  Admitted'
      BY <1>1, <1>6 DEF StreamEnds
<1>7. CASE \/ Boot \/ Hangup \/ UNCHANGED vars
           \/ \E m \in Messages : Write(m)
           \/ \E h \in Handler : Leave(h)
      BY <1>1, <1>7 DEF Boot, Hangup, Write, Leave, vars
<1> QED  BY StepKinds, <1>2, <1>3, <1>4, <1>5, <1>6, <1>7 DEF Stepped

\* What SearchCapped says of one handler.
Capped(h) ==
  LET m == msg[h] IN
  /\ at[h] = "reply" /\ reply[h] = "ok"
  /\ m.method = "tools/call" /\ m.tool = "web_search" /\ m.args.limit # Huge
  =>
    /\ found[h] <= Config(started).SearchMaxResults
    /\ found[h] <= IF AtLeast(m.args.limit, 1) THEN m.args.limit ELSE DefaultLimit

\* Only a search that succeeds sets the results, within the limits.
LEMMA CappedStep ==
  ASSUME McpTypeOK, Loaded, Placed, SearchCapped, [Next]_vars
  PROVE  SearchCapped'
<1>0. /\ at \in [Handler -> Place] /\ DOMAIN reply = Handler /\ DOMAIN found = Handler
      /\ DOMAIN msg = Handler /\ Stdio \in Handler /\ \A r \in Request : r \in Handler
      /\ started' = started
      BY AtFacts DEF McpTypeOK, Handler
<1>1. \A h \in Handler : Capped(h)
      BY DEF SearchCapped, Capped
<1>2. SUFFICES \A g \in Handler : Capped(g)'
      BY <1>2 DEF SearchCapped, Capped
<1>3. ASSUME NEW g \in Handler,
             at'[g] = "reply" =>
               /\ at[g] = "reply" /\ msg'[g] = msg[g] /\ reply'[g] = reply[g]
               /\ found'[g] = found[g]
      PROVE  Capped(g)'
      BY <1>0, <1>1, <1>3 DEF Capped
<1>4. ASSUME NEW h \in Handler, Dispatch(h), NEW g \in Handler
      PROVE  Capped(g)'
  <2>1. CASE g # h
        BY <1>0, <1>3, <1>4, <2>1 DEF Dispatch
  <2>2. CASE g = h /\ RunsTool(msg[h])
        BY <1>0, <1>4, <2>2 DEF Dispatch, Capped
  <2>3. CASE g = h /\ ~RunsTool(msg[h])
    <3>1. reply'[h] = Immediate(msg[h]) /\ msg' = msg
          BY <1>0, <1>4, <2>3 DEF Dispatch
    <3> QED  BY <2>3, <3>1, ImmediateBody DEF Capped
  <2> QED  BY <2>1, <2>2, <2>3
<1>5. ASSUME NEW h \in Handler, FetchURL(h), NEW g \in Handler
      PROVE  Capped(g)'
  <2>1. CASE g # h
        BY <1>0, <1>3, <1>5, <2>1 DEF FetchURL, HandleReturns
  <2>2. CASE g = h
        BY <1>0, <1>5, <2>2 DEF FetchURL, HandleReturns, Capped
  <2> QED  BY <2>1, <2>2
<1>6. ASSUME NEW h \in Handler, WebSearch(h), NEW g \in Handler
      PROVE  Capped(g)'
  <2>1. CASE g # h
        BY <1>0, <1>3, <1>6, <2>1 DEF WebSearch, HandleReturns
  <2>2. CASE g = h /\ HandleReturns(h, "internal")
    <3>1. reply'[h] = "internal"
          BY <1>0, <2>2 DEF HandleReturns
    <3> QED  BY <2>2, <3>1 DEF Capped
  <2>3. CASE /\ g = h /\ HandleReturns(h, "ok")
             /\ \E n \in Hits, limit \in searchLimits(msg[h].args, Config(started).SearchMaxResults) :
                  found' = [found EXCEPT ![h] = Kept(n, limit)]
    <3>1. at[h] = "tool" /\ msg' = msg
          BY <1>6, <2>3 DEF WebSearch, HandleReturns
    <3>2. PICK n \in Hits :
            \E limit \in searchLimits(msg[h].args, Config(started).SearchMaxResults) :
              found' = [found EXCEPT ![h] = Kept(n, limit)]
          BY <2>3
    <3>3. PICK limit \in searchLimits(msg[h].args, Config(started).SearchMaxResults) :
            found' = [found EXCEPT ![h] = Kept(n, limit)]
          BY <3>2
    <3>4. found'[h] = Kept(n, limit)
          BY <1>0, <3>3
    <3>5. msg[h].args.limit # Huge =>
            /\ Kept(n, limit) <= Config(started).SearchMaxResults
            /\ Kept(n, limit) <= IF AtLeast(msg[h].args.limit, 1) THEN msg[h].args.limit
                                                                   ELSE DefaultLimit
          BY <3>1, FoundFacts
    <3> QED  BY <1>0, <2>3, <3>1, <3>4, <3>5 DEF Capped
  <2> QED  BY <1>6, <2>1, <2>2, <2>3 DEF WebSearch
<1>7. ASSUME Scan, NEW g \in Handler
      PROVE  Capped(g)'
  <2>1. /\ \/ at' = at /\ msg' = msg
           \/ /\ at' = [at EXCEPT ![Stdio] = "dispatch"]
              /\ msg' = [msg EXCEPT ![Stdio] = lines[read + 1]]
        /\ reply' = reply /\ found' = found
        BY <1>7 DEF Scan, tools
  <2> QED  BY <1>0, <1>3, <2>1
<1>8. ASSUME WriteResp, NEW g \in Handler
      PROVE  Capped(g)'
      BY <1>0, <1>3, <1>8 DEF WriteResp, tools
<1>9. ASSUME NEW r \in Request, Respond(r) \/ StreamEnds(r), NEW g \in Handler
      PROVE  Capped(g)'
  <2>1. at' = [at EXCEPT ![r] = "done"] /\ msg' = msg /\ reply' = reply /\ found' = found
        BY <1>9 DEF Respond, StreamEnds, tools
  <2> QED  BY <1>0, <1>3, <2>1
<1>10. ASSUME NEW r \in Request, NEW p \in Posts, Receive(r, p), NEW g \in Handler
       PROVE  Capped(g)'
  <2>1. requireAuth(p).to # "reply"
        BY RequireAuthFacts
  <2> QED  BY <1>0, <1>3, <1>10, <2>1 DEF Receive, tools
<1>11. ASSUME UNCHANGED <<handling, tools>>, NEW g \in Handler
       PROVE  Capped(g)'
       BY <1>3, <1>11 DEF handling, tools
<1>12. CASE \/ Boot \/ ScanEnds \/ Hangup \/ UNCHANGED vars
            \/ \E m \in Messages : Write(m)
            \/ \E h \in Handler : Leave(h)
       BY <1>11, <1>12 DEF Boot, ScanEnds, Hangup, Write, Leave, vars
<1> QED
    BY StepKinds, <1>4, <1>5, <1>6, <1>7, <1>8, <1>9, <1>10, <1>12 DEF Stepped

-----------------------------------------------------------------------------
(* The runs of tools *)

\* Each message runs its tool once, and what its handler replies says so.
LEMMA OnceStep ==
  ASSUME McpTypeOK, Placed, RunsOnce, [Next]_vars
  PROVE  RunsOnce'
<1>0. /\ at \in [Handler -> Place] /\ DOMAIN reply = Handler /\ DOMAIN msg = Handler
      /\ ran \in [Handler -> Seq(Nat)] /\ read \in Nat
      /\ Stdio \in Handler /\ \A r \in Request : r \in Handler /\ r # Stdio
      BY HandlersTyped, NumberNat DEF McpTypeOK, Handler
<1>1. \A h \in Handler : Once(h)
      BY DEF RunsOnce
<1>2. SUFFICES \A g \in Handler : Once(g)'
      BY <1>2 DEF RunsOnce
<1>3. ASSUME NEW g \in Handler, at'[g] = at[g], msg'[g] = msg[g], reply'[g] = reply[g],
             ran'[g] = ran[g], Number(g)' = Number(g)
      PROVE  Once(g)'
      BY <1>1, <1>3 DEF Once, Ran
<1>4. ASSUME NEW g \in Handler, at'[g] \notin {"dispatch", "tool", "reply"},
             g \in Request => at'[g] # "idle", ran'[g] = ran[g], Number(g)' = Number(g)
      PROVE  Once(g)'
      BY <1>1, <1>4 DEF Once
<1>5. ASSUME read' = read, NEW g \in Handler
      PROVE  Number(g)' = Number(g)
      BY <1>5 DEF Number
<1>6. ASSUME NEW h \in Handler, Dispatch(h), NEW g \in Handler
      PROVE  Once(g)'
  <2>1. at[h] = "dispatch" /\ msg' = msg /\ read' = read
        BY <1>6 DEF Dispatch, stdio
  <2>2. CASE g # h
        BY <1>0, <1>3, <1>5, <1>6, <2>1, <2>2 DEF Dispatch
  <2>3. CASE g = h /\ RunsTool(msg[h])
    <3> DEFINE n == Number(h)
               s == ran[h]
    <3>1. at'[h] = "tool" /\ ran'[h] = Append(s, n) /\ Number(h)' = n
          BY <1>0, <1>5, <1>6, <2>1, <2>3 DEF Dispatch
    <3>2. s \in Seq(Nat) /\ n \in Nat /\ Len(s) \in Nat
          BY <1>0, NumberNat
    <3>3. \A k \in DOMAIN s : s[k] # n /\ s[k] <= n /\ \A j \in DOMAIN s : s[j] = s[k] => j = k
          BY <1>1, <2>1 DEF Once, Ran
    <3> HIDE DEF n, s
    <3>4. /\ DOMAIN Append(s, n) = (DOMAIN s) \cup {Len(s) + 1}
          /\ \A k \in DOMAIN s : Append(s, n)[k] = s[k]
          /\ Append(s, n)[Len(s) + 1] = n
          BY <3>2, AppendProperties
    <3>5. \A k \in DOMAIN ran'[h] : ran'[h][k] <= n
          BY <3>1, <3>2, <3>3, <3>4
    <3>6. \A j, k \in DOMAIN ran'[h] : ran'[h][j] = ran'[h][k] => j = k
          BY <3>1, <3>3, <3>4
    <3>7. \E k \in DOMAIN ran'[h] : ran'[h][k] = n
          BY <3>1, <3>4
    <3> QED  BY <2>3, <3>1, <3>5, <3>6, <3>7 DEF Once, Ran
  <2>4. CASE g = h /\ ~RunsTool(msg[h])
    <3>1. /\ at'[h] = "reply" /\ ran' = ran /\ Number(h)' = Number(h)
          /\ reply'[h] = Immediate(msg[h])
          BY <1>0, <1>5, <1>6, <2>1, <2>4 DEF Dispatch
    <3>2. Ran(h, Number(h))' = Ran(h, Number(h)) /\ ~Ran(h, Number(h))
          BY <1>1, <2>1, <3>1 DEF Once, Ran
    <3>3. msg[h].method = "tools/call" => reply'[h] \notin {"ok", "internal"}
          BY <3>1, ImmediateBody
    <3> QED  BY <1>1, <2>1, <2>4, <3>1, <3>2, <3>3 DEF Once
  <2> QED  BY <2>2, <2>3, <2>4
<1>7. ASSUME NEW h \in Handler, FetchURL(h) \/ WebSearch(h), NEW g \in Handler
      PROVE  Once(g)'
  <2>1. /\ at[h] = "tool" /\ at' = [at EXCEPT ![h] = "reply"] /\ msg' = msg /\ read' = read
        /\ \E b \in {"ok", "internal"} : reply' = [reply EXCEPT ![h] = b]
        /\ ran' = ran
        BY <1>7 DEF FetchURL, WebSearch, HandleReturns, stdio
  <2>2. CASE g # h
        BY <1>0, <1>3, <1>5, <2>1, <2>2
  <2>3. CASE g = h
    <3>1. Number(h)' = Number(h) /\ reply'[h] \in {"ok", "internal"} /\ at'[h] = "reply"
          BY <1>0, <1>5, <2>1
    <3>2. Ran(h, Number(h))' = Ran(h, Number(h)) /\ Ran(h, Number(h))
          BY <1>1, <2>1, <3>1 DEF Once, Ran
    <3> QED  BY <1>1, <2>1, <2>3, <3>1, <3>2 DEF Once
  <2> QED  BY <2>2, <2>3
<1>8. ASSUME Scan, NEW g \in Handler
      PROVE  Once(g)'
  <2>1. /\ at[Stdio] = "idle" /\ reply' = reply /\ ran' = ran
        /\ \/ at' = at /\ msg' = msg /\ read' \in {read, read + 1}
           \/ /\ at' = [at EXCEPT ![Stdio] = "dispatch"]
              /\ msg' = [msg EXCEPT ![Stdio] = lines[read + 1]]
              /\ read' = read + 1
        BY <1>8 DEF Scan, tools
  <2>2. CASE g # Stdio
    <3>1. Number(g)' = Number(g)
          BY <2>2 DEF Number
    <3>2. at'[g] = at[g] /\ msg'[g] = msg[g]
          BY <1>0, <2>1, <2>2
    <3> QED  BY <1>3, <2>1, <3>1, <3>2
  <2>3. CASE g = Stdio
    <3>1. /\ Number(g) = read /\ Number(g)' = read' /\ read' \in {read, read + 1}
          /\ at'[g] \in {"idle", "dispatch"} /\ (at'[g] = "dispatch" => read' = read + 1)
          BY <1>0, <2>1, <2>3 DEF Number
    <3>2. \A k \in DOMAIN ran[g] : ran[g][k] \in Nat /\ ran[g][k] <= read
          BY <1>0, <1>1, <3>1 DEF Once
    <3>3. \A k \in DOMAIN ran[g] : ran[g][k] <= read' /\ (read' = read + 1 => ran[g][k] # read')
          BY <1>0, <3>1, <3>2
    <3>4. at'[g] = "dispatch" => ~Ran(g, Number(g))'
          BY <2>1, <3>1, <3>3 DEF Ran
    <3> QED  BY <1>0, <1>1, <2>1, <2>3, <3>1, <3>3, <3>4 DEF Once
  <2> QED  BY <2>2, <2>3
<1>9. ASSUME WriteResp, NEW g \in Handler
      PROVE  Once(g)'
  <2>1. /\ at' = [at EXCEPT ![Stdio] = "idle"]
        /\ msg' = msg /\ reply' = reply /\ ran' = ran /\ read' = read
        BY <1>9 DEF WriteResp, tools
  <2>2. CASE g # Stdio
        BY <1>0, <1>3, <1>5, <2>1, <2>2
  <2>3. CASE g = Stdio
        BY <1>0, <1>4, <1>5, <2>1, <2>3
  <2> QED  BY <2>2, <2>3
<1>10. ASSUME NEW r \in Request, Respond(r) \/ StreamEnds(r), NEW g \in Handler
       PROVE  Once(g)'
  <2>1. /\ at' = [at EXCEPT ![r] = "done"]
        /\ msg' = msg /\ reply' = reply /\ ran' = ran /\ read' = read
        BY <1>10 DEF Respond, StreamEnds, tools, stdio
  <2>2. CASE g # r
        BY <1>0, <1>3, <1>5, <2>1, <2>2
  <2>3. CASE g = r
        BY <1>0, <1>4, <1>5, <2>1, <2>3
  <2> QED  BY <2>2, <2>3
<1>11. ASSUME NEW r \in Request, NEW p \in Posts, Receive(r, p), NEW g \in Handler
       PROVE  Once(g)'
  <2>1. /\ at[r] = "idle" /\ at' = [at EXCEPT ![r] = requireAuth(p).to]
        /\ msg' = [msg EXCEPT ![r] = p.message]
        /\ reply' = reply /\ ran' = ran /\ read' = read
        BY <1>11 DEF Receive, tools, stdio
  <2>2. CASE g # r
        BY <1>0, <1>3, <1>5, <2>1, <2>2
  <2>3. CASE g = r
    <3>1. at'[r] \in {"done", "dispatch", "stream"} /\ ran'[r] = <<>>
          BY <1>0, <1>1, <2>1, RequireAuthFacts DEF Once
    <3> QED  BY <2>3, <3>1 DEF Once, Ran
  <2> QED  BY <2>2, <2>3
<1>12. ASSUME UNCHANGED <<handling, read, tools>>, NEW g \in Handler
       PROVE  Once(g)'
       BY <1>3, <1>5, <1>12 DEF handling, tools
<1>13. CASE \/ Boot \/ ScanEnds \/ Hangup \/ UNCHANGED vars
            \/ \E m \in Messages : Write(m)
            \/ \E h \in Handler : Leave(h)
       BY <1>12, <1>13 DEF Boot, ScanEnds, Hangup, Write, Leave, vars, stdio
<1> QED
    BY StepKinds, <1>6, <1>7, <1>8, <1>9, <1>10, <1>11, <1>13 DEF Stepped

\* A run of h's tool for message n says nothing about its other messages.
LEMMA RanAppend ==
  ASSUME NEW h \in Handler, ran[h] \in Seq(Nat), NEW n \in Nat, NEW i,
         ran'[h] = Append(ran[h], n), i # n
  PROVE  Ran(h, i)' = Ran(h, i)
<1>1. /\ DOMAIN Append(ran[h], n) = (DOMAIN ran[h]) \cup {Len(ran[h]) + 1}
      /\ \A k \in DOMAIN ran[h] : Append(ran[h], n)[k] = ran[h][k]
      /\ Append(ran[h], n)[Len(ran[h]) + 1] = n
      BY AppendProperties
<1> QED  BY <1>1 DEF Ran

\* What the responses on stdout say of the runs.
LEMMA StdioToldStep ==
  ASSUME McpTypeOK, Placed, RunsOnce, RunsTold, [Next]_vars
  PROVE  (\A k \in DOMAIN out : Told(k))'
<1>0. /\ at \in [Handler -> Place] /\ ran \in [Handler -> Seq(Nat)]
      /\ lines \in Seq(Messages) /\ read \in Nat /\ read <= Len(lines) /\ Len(lines) \in Nat
      /\ out \in Seq(Response)
      /\ Stdio \in Handler /\ \A r \in Request : r \in Handler /\ r # Stdio
      BY HandlersTyped, NumberNat DEF McpTypeOK, Handler
<1>1. \A k \in DOMAIN out : Told(k)
      BY DEF RunsTold
<1>2. Past \in Int /\ Past <= Len(lines)
      BY <1>0 DEF Past
<1>3. \A k \in DOMAIN out : out[k].id # NoId => out[k].id \in 1..Past /\ out[k].id \in 1..Len(lines)
      BY <1>0, <1>1, <1>2 DEF Told
<1>4. ASSUME at'[Stdio] = at[Stdio] \/ (at[Stdio] # "idle" /\ at'[Stdio] # "idle"),
             read' = read, out' = out,
             \A i \in 1..Past : lines'[i].method = lines[i].method,
             \A i \in 1..Past : Ran(Stdio, i)' = Ran(Stdio, i)
      PROVE  (\A k \in DOMAIN out : Told(k))'
  <2>1. Past' = Past
        BY <1>4 DEF Past
  <2> QED  BY <1>1, <1>3, <1>4, <2>1 DEF Told
<1>5. ASSUME ran'[Stdio] = ran[Stdio], NEW i
      PROVE  Ran(Stdio, i)' = Ran(Stdio, i)
      BY <1>5 DEF Ran
<1>6. ASSUME NEW h \in Handler, Dispatch(h)
      PROVE  (\A k \in DOMAIN out : Told(k))'
  <2>1. /\ at[h] = "dispatch" /\ at'[h] # "idle" /\ \A g \in Handler : g # h => at'[g] = at[g]
        /\ read' = read /\ out' = out /\ lines' = lines
        /\ ran' = ran \/ ran' = [ran EXCEPT ![h] = Append(ran[h], Number(h))]
        BY <1>0, <1>6 DEF Dispatch, stdio
  <2>2. CASE ran'[Stdio] = ran[Stdio]
        BY <1>0, <1>4, <1>5, <2>1, <2>2
  <2>3. CASE h = Stdio /\ ran' = [ran EXCEPT ![h] = Append(ran[h], Number(h))]
    <3>1. ran'[Stdio] = Append(ran[Stdio], read) /\ Past = read - 1
          BY <1>0, <2>1, <2>3 DEF Number, Past
    <3>2. \A i \in 1..Past : Ran(Stdio, i)' = Ran(Stdio, i)
      <4> SUFFICES ASSUME NEW i \in 1..Past
                   PROVE  Ran(Stdio, i)' = Ran(Stdio, i)
          OBVIOUS
      <4>1. i # read /\ ran[Stdio] \in Seq(Nat)
            BY <1>0, <3>1
      <4> QED  BY <1>0, <3>1, <4>1, RanAppend
    <3> QED  BY <1>4, <2>1, <2>3, <3>2
  <2> QED  BY <1>0, <2>1, <2>2, <2>3
<1>7. ASSUME NEW h \in Handler, FetchURL(h) \/ WebSearch(h)
      PROVE  (\A k \in DOMAIN out : Told(k))'
  <2>1. /\ at[h] = "tool" /\ at' = [at EXCEPT ![h] = "reply"]
        /\ read' = read /\ out' = out /\ lines' = lines /\ ran' = ran
        BY <1>7 DEF FetchURL, WebSearch, HandleReturns, stdio
  <2> QED  BY <1>0, <1>4, <1>5, <2>1
<1>8. CASE Scan
  <2> DEFINE i == read + 1
             bad == [id |-> NoId, body |-> "parse"]
             refused == [id |-> IdOf(i), body |-> "request"]
  <2>1. at[Stdio] = "idle" /\ lines' = lines /\ ran' = ran /\ Past = read /\ i \in Nat
        BY <1>0, <1>8 DEF Scan, tools, Past
  <2>2. \/ at' = at /\ read' = read /\ out' = out
        \/ at' = [at EXCEPT ![Stdio] = "dispatch"] /\ read' = i /\ out' = out
        \/ at' = at /\ read' = i /\ out' \in {out, Append(out, bad), Append(out, refused)}
        BY <1>8 DEF Scan, Written
  <2>3. Past' \in {read, i} /\ 1..Past \subseteq 1..Past'
    <3>1. Past' \in {read, i}
          BY <1>0, <2>1, <2>2 DEF Past
    <3> QED  BY <1>0, <2>1, <3>1
  <2>4. ASSUME NEW k \in DOMAIN out, out'[k] = out[k]
        PROVE  Told(k)'
        BY <1>1, <1>3, <1>5, <2>1, <2>3, <2>4 DEF Told
  <2>5. CASE out' = out
        BY <2>4, <2>5
  <2>6. ASSUME NEW x \in {bad, refused}, out' = Append(out, x), Past' = i
        PROVE  (\A k \in DOMAIN out : Told(k))'
    <3>0. PICK n : n = Len(out) + 1
          OBVIOUS
    <3>1. /\ DOMAIN out' = (DOMAIN out) \cup {n}
          /\ \A k \in DOMAIN out : out'[k] = out[k]
          /\ out'[n] = x
          BY <1>0, <2>6, <3>0, AppendProperties
    <3>2. x.body \notin {"ok", "internal"} /\ x.id \in {NoId, i}
          BY <2>6 DEF IdOf
    <3>3. ~Ran(Stdio, i)
      <4>1. \A k \in DOMAIN ran[Stdio] : ran[Stdio][k] \in Nat /\ ran[Stdio][k] <= read
            BY <1>0 DEF RunsOnce, Once, Number
      <4> QED  BY <1>0, <4>1 DEF Ran
    <3>4. i \in 1..Past'
          BY <1>0, <2>6
    <3>5. Told(n)'
          BY <1>5, <2>1, <3>1, <3>2, <3>3, <3>4 DEF Told
    <3> QED  BY <2>4, <3>1, <3>5
  <2>7. at' = at /\ read' = i => Past' = i
        BY <2>1 DEF Past
  <2> QED  BY <2>2, <2>5, <2>6, <2>7
<1>9. CASE WriteResp
  <2> DEFINE x == [id |-> IdOf(read), body |-> reply[Stdio]]
  <2>1. /\ at[Stdio] = "reply" /\ lines' = lines /\ ran' = ran /\ read' = read
        /\ at'[Stdio] = "idle" /\ out' \in {out, Append(out, x)}
        BY <1>0, <1>9 DEF WriteResp, Written, tools
  <2>2. Past = read - 1 /\ Past' = read /\ 1..Past \subseteq 1..Past'
        BY <1>0, <2>1 DEF Past
  <2>3. ASSUME NEW k \in DOMAIN out, out'[k] = out[k]
        PROVE  Told(k)'
        BY <1>1, <1>3, <1>5, <2>1, <2>2, <2>3 DEF Told
  <2>4. CASE out' = out
        BY <2>3, <2>4
  <2>5. CASE out' = Append(out, x)
    <3>0. PICK n : n = Len(out) + 1
          OBVIOUS
    <3>1. /\ DOMAIN out' = (DOMAIN out) \cup {n}
          /\ \A k \in DOMAIN out : out'[k] = out[k]
          /\ out'[n] = x
          BY <1>0, <2>5, <3>0, AppendProperties
    <3>2. x.body = reply[Stdio] /\ x.id \in {NoId, read}
          BY DEF IdOf
    <3>3. read \in 1..Past'
          BY <1>0, <2>1, <2>2 DEF Placed
    <3>4. lines[read].method = "tools/call" =>
            (Ran(Stdio, read) <=> reply[Stdio] \in {"ok", "internal"})
          BY <1>0, <2>1 DEF Placed, RunsOnce, Once, Number
    <3>5. Told(n)'
          BY <1>5, <2>1, <3>1, <3>2, <3>3, <3>4 DEF Told
    <3> QED  BY <2>3, <3>1, <3>5
  <2> QED  BY <2>1, <2>4, <2>5
<1>10. ASSUME NEW r \in Request, Respond(r) \/ StreamEnds(r)
       PROVE  (\A k \in DOMAIN out : Told(k))'
  <2>1. /\ at' = [at EXCEPT ![r] = "done"]
        /\ read' = read /\ out' = out /\ lines' = lines /\ ran' = ran
        BY <1>10 DEF Respond, StreamEnds, tools, stdio
  <2> QED  BY <1>0, <1>4, <1>5, <2>1
<1>11. ASSUME NEW r \in Request, NEW p \in Posts, Receive(r, p)
       PROVE  (\A k \in DOMAIN out : Told(k))'
  <2>1. /\ at' = [at EXCEPT ![r] = requireAuth(p).to]
        /\ read' = read /\ out' = out /\ lines' = lines /\ ran' = ran
        BY <1>11 DEF Receive, tools, stdio
  <2> QED  BY <1>0, <1>4, <1>5, <2>1
<1>12. ASSUME NEW m \in Messages, Write(m)
       PROVE  (\A k \in DOMAIN out : Told(k))'
  <2>1. lines' = Append(lines, m) /\ read' = read /\ at' = at /\ out' = out /\ ran' = ran
        BY <1>12 DEF Write, handling, tools
  <2>2. \A i \in 1..Past : lines'[i] = lines[i]
        BY <1>0, <1>2, <2>1, AppendProperties
  <2> QED  BY <1>4, <1>5, <2>1, <2>2
<1>13. ASSUME UNCHANGED <<handling, lines, read, out, tools>>
       PROVE  (\A k \in DOMAIN out : Told(k))'
       BY <1>4, <1>5, <1>13 DEF handling, tools
<1>14. CASE \/ Boot \/ ScanEnds \/ Hangup \/ UNCHANGED vars
            \/ \E h \in Handler : Leave(h)
       BY <1>13, <1>14 DEF Boot, ScanEnds, Hangup, Leave, vars, stdio
<1> QED
    BY StepKinds, <1>6, <1>7, <1>8, <1>9, <1>10, <1>11, <1>12, <1>14 DEF Stepped

\* What the answers over HTTP say of the runs: a request that is answered is over.
LEMMA HttpToldStep ==
  ASSUME McpTypeOK, Placed, RunsOnce, RunsTold, [Next]_vars
  PROVE  (\A r \in Request : AnswerTold(r))'
<1>0. /\ at \in [Handler -> Place] /\ ran \in [Handler -> Seq(Nat)]
      /\ DOMAIN msg = Handler /\ DOMAIN answer = Request
      /\ Stdio \in Handler /\ \A r \in Request : r \in Handler /\ r # Stdio
      BY HandlersTyped DEF McpTypeOK, Handler
<1>1. \A r \in Request : AnswerTold(r)
      BY DEF RunsTold
<1>2. SUFFICES \A q \in Request : AnswerTold(q)'
      BY <1>2
<1>3. ASSUME NEW q \in Request, answer'[q] = answer[q],
             at[q] = "done" => at'[q] = "done" /\ msg'[q] = msg[q] /\ ran'[q] = ran[q]
      PROVE  AnswerTold(q)'
      BY <1>1, <1>3 DEF AnswerTold, Ran
<1>4. ASSUME NEW h \in Handler, at[h] # "done", UNCHANGED <<msg, answer>>,
             \A g \in Handler : g # h => at'[g] = at[g] /\ ran'[g] = ran[g],
             NEW q \in Request
      PROVE  AnswerTold(q)'
      BY <1>0, <1>3, <1>4
<1>5. ASSUME NEW h \in Handler, Dispatch(h)
      PROVE  \A q \in Request : AnswerTold(q)'
  <2>1. /\ at[h] # "done" /\ UNCHANGED <<msg, answer>>
        /\ \A g \in Handler : g # h => at'[g] = at[g] /\ ran'[g] = ran[g]
        BY <1>0, <1>5 DEF Dispatch, http
  <2> QED  BY <1>4, <2>1
<1>6. ASSUME NEW h \in Handler, FetchURL(h) \/ WebSearch(h)
      PROVE  \A q \in Request : AnswerTold(q)'
  <2>1. /\ at[h] = "tool" /\ at' = [at EXCEPT ![h] = "reply"]
        /\ UNCHANGED <<msg, answer>> /\ ran' = ran
        BY <1>6 DEF FetchURL, WebSearch, HandleReturns, http
  <2>2. at[h] # "done" /\ \A g \in Handler : g # h => at'[g] = at[g] /\ ran'[g] = ran[g]
        BY <1>0, <2>1
  <2> QED  BY <1>4, <2>1, <2>2
<1>7. CASE Scan
  <2>1. /\ \/ at' = at /\ msg' = msg
           \/ /\ at' = [at EXCEPT ![Stdio] = "dispatch"]
              /\ msg' = [msg EXCEPT ![Stdio] = lines[read + 1]]
        /\ answer' = answer /\ ran' = ran
        BY <1>7 DEF Scan, http, tools
  <2>2. \A q \in Request : at'[q] = at[q] /\ msg'[q] = msg[q]
        BY <1>0, <2>1
  <2> QED  BY <1>3, <2>1, <2>2
<1>8. CASE WriteResp
  <2>1. /\ at[Stdio] = "reply" /\ at' = [at EXCEPT ![Stdio] = "idle"]
        /\ UNCHANGED <<msg, answer>> /\ ran' = ran
        BY <1>8 DEF WriteResp, http, tools
  <2>2. at[Stdio] # "done" /\ \A g \in Handler : g # Stdio => at'[g] = at[g] /\ ran'[g] = ran[g]
        BY <1>0, <2>1
  <2> QED  BY <1>0, <1>4, <2>1, <2>2
<1>9. ASSUME NEW r \in Request, Respond(r), NEW q \in Request
      PROVE  AnswerTold(q)'
  <2>1. /\ at[r] = "reply" /\ at' = [at EXCEPT ![r] = "done"] /\ msg' = msg /\ ran' = ran
        BY <1>9 DEF Respond, tools
  <2>2. CASE q # r
        BY <1>0, <1>3, <1>9, <2>1, <2>2 DEF Respond
  <2>3. CASE q = r
    <3>1. at'[q] = "done"
          BY <1>0, <2>1, <2>3
    <3>2. answer'[q].code = 200 => answer'[q].body = reply[q]
          BY <1>0, <1>9, <2>3 DEF Respond
    <3>3. msg[q].method = "tools/call" => (Ran(q, 1) <=> reply[q] \in {"ok", "internal"})
          BY <1>0, <2>1, <2>3 DEF RunsOnce, Once, Number
    <3>4. Ran(q, 1)' = Ran(q, 1)
          BY <2>1 DEF Ran
    <3> QED  BY <2>1, <3>1, <3>2, <3>3, <3>4 DEF AnswerTold
  <2> QED  BY <2>2, <2>3
<1>10. ASSUME NEW r \in Request, StreamEnds(r)
       PROVE  \A q \in Request : AnswerTold(q)'
  <2>1. /\ at[r] = "stream" /\ at' = [at EXCEPT ![r] = "done"]
        /\ UNCHANGED <<msg, answer>> /\ ran' = ran
        BY <1>10 DEF StreamEnds, http, tools
  <2>2. at[r] # "done" /\ \A g \in Handler : g # r => at'[g] = at[g] /\ ran'[g] = ran[g]
        BY <1>0, <2>1
  <2> QED  BY <1>0, <1>4, <2>1, <2>2
<1>11. ASSUME NEW r \in Request, NEW p \in Posts, Receive(r, p), NEW q \in Request
       PROVE  AnswerTold(q)'
  <2>1. CASE q # r
    <3>1. answer'[q] = answer[q] /\ at'[q] = at[q] /\ msg'[q] = msg[q] /\ ran'[q] = ran[q]
          BY <1>0, <1>11, <2>1 DEF Receive, tools
    <3> QED  BY <1>3, <3>1
  <2>2. CASE q = r
    <3>1. answer'[q] = requireAuth(p).answer
          BY <1>0, <1>11, <2>2 DEF Receive
    <3>2. requireAuth(p).answer \in [code : {0, 400, 401, 405}, body : Body]
          BY RequireAuthFacts
    <3>3. answer'[q].code # 200
          BY <3>1, <3>2
    <3> QED  BY <3>3 DEF AnswerTold
  <2> QED  BY <2>1, <2>2
<1>12. ASSUME UNCHANGED <<handling, http, tools>>
       PROVE  \A q \in Request : AnswerTold(q)'
       BY <1>3, <1>12 DEF handling, http, tools
<1>13. CASE \/ Boot \/ ScanEnds \/ Hangup \/ UNCHANGED vars
            \/ \E m \in Messages : Write(m)
            \/ \E h \in Handler : Leave(h)
       BY <1>12, <1>13 DEF Boot, ScanEnds, Hangup, Write, Leave, vars
<1> QED
    BY StepKinds, <1>5, <1>6, <1>7, <1>8, <1>9, <1>10, <1>11, <1>13 DEF Stepped

\* The metrics count a run when its tool returns, and only then.
LEMMA CountedStep ==
  ASSUME McpTypeOK, RunsCounted, [Next]_vars
  PROVE  RunsCounted'
<1>0. /\ at \in [Handler -> Place] /\ ran \in [Handler -> Seq(Nat)] /\ observed \in Nat
      /\ Stdio \in Handler /\ \A r \in Request : r \in Handler /\ r # Stdio
      BY HandlersTyped DEF McpTypeOK, Handler
<1>1. IsFiniteSet(InTool)
  <2>1. IsFiniteSet(Handler)
        BY HandlersTyped, FS_AddElement DEF Handler
  <2> QED  BY <2>1, FS_Subset DEF InTool
<1>2. Cardinality(InTool) \in Nat /\ Cardinality(AllRuns) \in Nat
      BY <1>1, FS_CardinalityType DEF RunsCounted
<1>3. ASSUME ran' = ran, observed' = observed,
             \A h \in Handler : at'[h] = "tool" <=> at[h] = "tool"
      PROVE  RunsCounted'
  <2>1. AllRuns' = AllRuns
        BY <1>3 DEF AllRuns
  <2>2. InTool' = InTool
        BY <1>3 DEF InTool
  <2> QED  BY <1>3, <2>1, <2>2 DEF RunsCounted
<1>4. ASSUME NEW h \in Handler, Dispatch(h)
      PROVE  RunsCounted'
  <2>1. CASE ~RunsTool(msg[h])
        BY <1>0, <1>3, <1>4, <2>1 DEF Dispatch
  <2>2. CASE RunsTool(msg[h])
    <3>1. /\ at[h] = "dispatch" /\ at' = [at EXCEPT ![h] = "tool"] /\ observed' = observed
          /\ ran' = [ran EXCEPT ![h] = Append(ran[h], Number(h))]
          BY <1>4, <2>2 DEF Dispatch
    <3>2. PICK n : n = Len(ran[h]) + 1
          OBVIOUS
    <3>3. DOMAIN ran'[h] = (DOMAIN ran[h]) \cup {n} /\ n \notin DOMAIN ran[h]
      <4>1. ran'[h] = Append(ran[h], Number(h)) /\ ran[h] \in Seq(Nat) /\ Number(h) \in Nat
            BY <1>0, <3>1, NumberNat
      <4> QED  BY <3>2, <4>1, AppendProperties
    <3>4. \A g \in Handler : g # h => ran'[g] = ran[g]
          BY <1>0, <3>1
    <3>5. AllRuns' = AllRuns \cup {<<h, n>>}
          BY <3>3, <3>4 DEF AllRuns
    <3>6. <<h, n>> \notin AllRuns
          BY <3>3 DEF AllRuns
    <3>7. InTool' = InTool \cup {h} /\ h \notin InTool
          BY <1>0, <3>1 DEF InTool
    <3>8. IsFiniteSet(AllRuns \cup {<<h, n>>})
          /\ Cardinality(AllRuns \cup {<<h, n>>}) = Cardinality(AllRuns) + 1
          BY <3>6, FS_AddElement DEF RunsCounted
    <3>9. Cardinality(InTool \cup {h}) = Cardinality(InTool) + 1
          BY <1>1, <3>7, FS_AddElement
    <3>10. Cardinality(AllRuns') = Cardinality(AllRuns) + 1
           /\ Cardinality(InTool') = Cardinality(InTool) + 1 /\ IsFiniteSet(AllRuns')
           BY <3>5, <3>7, <3>8, <3>9
    <3>11. observed' = Cardinality(AllRuns') - Cardinality(InTool')
           BY <1>0, <1>2, <3>1, <3>10 DEF RunsCounted
    <3> QED  BY <3>10, <3>11 DEF RunsCounted
  <2> QED  BY <2>1, <2>2
<1>5. ASSUME NEW h \in Handler, FetchURL(h) \/ WebSearch(h)
      PROVE  RunsCounted'
  <2>1. /\ at[h] = "tool" /\ at' = [at EXCEPT ![h] = "reply"]
        /\ observed' = observed + 1 /\ ran' = ran
        BY <1>5 DEF FetchURL, WebSearch, HandleReturns, Counted
  <2>2. AllRuns' = AllRuns
        BY <2>1 DEF AllRuns
  <2>3. InTool' = InTool \ {h} /\ h \in InTool
        BY <1>0, <2>1 DEF InTool
  <2>4. Cardinality(InTool \ {h}) = Cardinality(InTool) - 1
        BY <1>1, <2>3, FS_RemoveElement
  <2>5. Cardinality(InTool') = Cardinality(InTool) - 1
        BY <2>3, <2>4
  <2>6. observed' = Cardinality(AllRuns) - Cardinality(InTool')
        BY <1>0, <1>2, <2>1, <2>5 DEF RunsCounted
  <2> QED  BY <2>2, <2>6 DEF RunsCounted
<1>6. CASE Scan
  <2>1. /\ at[Stdio] = "idle" /\ at' \in {at, [at EXCEPT ![Stdio] = "dispatch"]}
        /\ UNCHANGED tools
        BY <1>6 DEF Scan
  <2> QED  BY <1>0, <1>3, <2>1 DEF tools
<1>7. CASE WriteResp
      BY <1>0, <1>3, <1>7 DEF WriteResp, tools
<1>8. ASSUME NEW r \in Request, Respond(r) \/ StreamEnds(r)
      PROVE  RunsCounted'
  <2>1. at[r] \in {"reply", "stream"} /\ at' = [at EXCEPT ![r] = "done"] /\ UNCHANGED tools
        BY <1>8 DEF Respond, StreamEnds
  <2> QED  BY <1>0, <1>3, <2>1 DEF tools
<1>9. ASSUME NEW r \in Request, NEW p \in Posts, Receive(r, p)
      PROVE  RunsCounted'
  <2>1. requireAuth(p).to # "tool"
        BY RequireAuthFacts
  <2> QED  BY <1>0, <1>3, <1>9, <2>1 DEF Receive, tools
<1>10. ASSUME UNCHANGED <<handling, tools>>
       PROVE  RunsCounted'
       BY <1>3, <1>10 DEF handling, tools
<1>11. CASE \/ Boot \/ ScanEnds \/ Hangup \/ UNCHANGED vars
            \/ \E m \in Messages : Write(m)
            \/ \E h \in Handler : Leave(h)
       BY <1>10, <1>11 DEF Boot, ScanEnds, Hangup, Write, Leave, vars
<1> QED
    BY StepKinds, <1>4, <1>5, <1>6, <1>7, <1>8, <1>9, <1>11 DEF Stepped

-----------------------------------------------------------------------------
(* The responses on stdout *)

\* The sequence of responses o answers the lines in D, in order: f[i] is the id
\* that line i is answered under.
Numbered(D, o, f) ==
  /\ Len(o) = Cardinality(D)
  /\ \A i \in D : o[Cardinality({j \in D : j <= i})].id = f[i]

\* Lines with small numbers are finitely many; the one with number i has a rank.
LEMMA RankFacts ==
  ASSUME NEW p \in Int, NEW D \in SUBSET (1..p), NEW i \in D
  PROVE  /\ IsFiniteSet(D) /\ Cardinality(D) \in Nat
         /\ Cardinality({j \in D : j <= i}) \in 1..Cardinality(D)
<1>1. IsFiniteSet(D)
  <2>1. IsFiniteSet(1..p)
        BY FS_Interval
  <2> QED  BY <2>1, FS_Subset
<1> DEFINE R == {j \in D : j <= i}
<1>2. R \subseteq D /\ i \in R
      OBVIOUS
<1> HIDE DEF R
<1>3. IsFiniteSet(R) /\ Cardinality(R) <= Cardinality(D)
      BY <1>1, <1>2, FS_Subset
<1>4. Cardinality(R) \in Nat /\ Cardinality(D) \in Nat
      BY <1>1, <1>3, FS_CardinalityType
<1>5. Cardinality(R) # 0
      BY <1>2, <1>3, FS_EmptySet
<1> QED  BY <1>1, <1>3, <1>4, <1>5 DEF R

\* A response to a later line goes to the end.
LEMMA NumberedAppend ==
  ASSUME NEW p \in Nat, NEW D \in SUBSET (1..p), NEW o \in Seq(Response),
         NEW x \in Response, NEW f, f[p + 1] = x.id, Numbered(D, o, f)
  PROVE  Numbered(D \cup {p + 1}, Append(o, x), f)
<1> DEFINE q == p + 1
           E == D \cup {q}
<1>1. IsFiniteSet(D)
  <2>1. IsFiniteSet(1..p)
        BY FS_Interval
  <2> QED  BY <2>1, FS_Subset
<1>2. Cardinality(D) \in Nat /\ Len(o) = Cardinality(D)
      BY <1>1, FS_CardinalityType DEF Numbered
<1>3. q \notin D /\ \A j \in D : j <= q /\ ~(q <= j) /\ j \in Int
      OBVIOUS
<1>4. Cardinality(E) = Cardinality(D) + 1
      BY <1>1, <1>3, FS_AddElement
<1>5. /\ Len(Append(o, x)) = Len(o) + 1
      /\ \A k \in 1..Len(o) : Append(o, x)[k] = o[k]
      /\ Append(o, x)[Len(o) + 1] = x
      BY AppendProperties
<1>6. ASSUME NEW i \in D
      PROVE  Append(o, x)[Cardinality({j \in E : j <= i})].id = f[i]
  <2>1. {j \in E : j <= i} = {j \in D : j <= i}
        BY <1>3
  <2>2. Cardinality({j \in D : j <= i}) \in 1..Len(o)
    <3>1. p \in Int
          OBVIOUS
    <3>2. Cardinality({j \in D : j <= i}) \in 1..Cardinality(D)
          BY <3>1, RankFacts
    <3> QED  BY <1>2, <3>2
  <2>3. o[Cardinality({j \in D : j <= i})].id = f[i]
        BY DEF Numbered
  <2> QED  BY <1>5, <2>1, <2>2, <2>3
<1>7. Append(o, x)[Cardinality({j \in E : j <= q})].id = f[q]
  <2>1. \A j \in E : j <= q
        BY <1>3
  <2> HIDE DEF E, q
  <2>2. {j \in E : j <= q} = E
        BY <2>1
  <2>3. Cardinality({j \in E : j <= q}) = Len(o) + 1
        BY <1>2, <1>4, <2>2
  <2> QED  BY <1>5, <2>3 DEF q
<1> QED  BY <1>2, <1>4, <1>5, <1>6, <1>7 DEF Numbered

\* The lines gone past that get a response, and the id it is under.
Due == {i \in 1..Past : Responded(i)}
Named == [i \in 1..Len(lines) |-> IF lines[i].form = "bad" THEN NoId ELSE IdOf(i)]

\* RepliesInOrder says that the responses are numbered after these lines.
LEMMA RepliesAreNumbered ==
  ASSUME McpTypeOK
  PROVE  RepliesInOrder <=> Numbered(Due, out, Named)
<1>1. read \in Nat /\ read <= Len(lines) /\ Len(lines) \in Nat
      BY NumberNat DEF McpTypeOK
<1>2. Due \subseteq 1..Len(lines)
      BY <1>1 DEF Due, Past
<1>3. \A i \in Due : Named[i] = IF lines[i].form = "bad" THEN NoId ELSE IdOf(i)
      BY <1>2 DEF Named
<1> HIDE DEF Named
<1>4. RepliesInOrder <=>
        /\ Len(out) = Cardinality(Due)
        /\ \A i \in Due : out[Cardinality({j \in Due : j <= i})].id
                            = IF lines[i].form = "bad" THEN NoId ELSE IdOf(i)
      BY DEF RepliesInOrder, Due, Past
<1> QED  BY <1>3, <1>4 DEF Numbered

\* The same, after a step.
LEMMA RepliesAreNumberedNext ==
  ASSUME McpTypeOK'
  PROVE  RepliesInOrder' <=> Numbered(Due', out', Named')
<1>1. (McpTypeOK => (RepliesInOrder <=> Numbered(Due, out, Named)))'
      BY RepliesAreNumbered, PTL
<1> QED  BY <1>1 DEF Numbered

\* The loop goes past one line at a time, and writes its response, if it gets one.
LEMMA RepliesStep ==
  ASSUME McpTypeOK, McpTypeOK', Placed, RepliesInOrder, [Next]_vars
  PROVE  RepliesInOrder'
<1>0. /\ at \in [Handler -> Place] /\ out \in Seq(Response)
      /\ lines \in Seq(Messages) /\ read \in Nat /\ read <= Len(lines) /\ Len(lines) \in Nat
      /\ Stdio \in Handler /\ \A r \in Request : r \in Handler /\ r # Stdio
      BY HandlersTyped, NumberNat DEF McpTypeOK, Handler
<1>1. Numbered(Due, out, Named)
      BY RepliesAreNumbered
<1>2. SUFFICES Numbered(Due', out', Named')
      BY <1>2, RepliesAreNumberedNext
<1>3. Past \in Nat /\ Past <= Len(lines) /\ Due \subseteq 1..Past
  <2>1. at[Stdio] # "idle" => read > 0
        BY DEF Placed
  <2> QED  BY <1>0, <2>1 DEF Past, Due
<1>4. ASSUME at'[Stdio] = at[Stdio] \/ (at[Stdio] # "idle" /\ at'[Stdio] # "idle"),
             read' = read, out' = out, Len(lines') \in Nat, Len(lines') >= Len(lines),
             \A i \in 1..Len(lines) : lines'[i] = lines[i]
      PROVE  Numbered(Due', out', Named')
  <2>1. Past' = Past
        BY <1>4 DEF Past
  <2>2. \A i \in 1..Past : i \in 1..Len(lines) /\ i \in 1..Len(lines') /\ lines'[i] = lines[i]
        BY <1>0, <1>3, <1>4
  <2>3. Due' = Due
        BY <2>1, <2>2 DEF Due, Responded
  <2>4. \A i \in Due : Named'[i] = Named[i]
        BY <1>3, <2>2 DEF Named, IdOf
  <2> QED  BY <1>1, <1>4, <2>3, <2>4 DEF Numbered
<1>5. ASSUME lines' = lines, read' = read, out' = out, at'[Stdio] = at[Stdio]
      PROVE  Numbered(Due', out', Named')
      BY <1>0, <1>4, <1>5
<1>6. PICK q : q = Past + 1
      OBVIOUS
<1>7. ASSUME Past' = q, q <= Len(lines), lines' = lines,
             \/ ~Responded(q) /\ out' = out
             \/ /\ Responded(q)
                /\ \E x \in Response :
                     /\ x.id = IF lines[q].form = "bad" THEN NoId ELSE IdOf(q)
                     /\ out' = Append(out, x)
      PROVE  Numbered(Due', out', Named')
  <2>1. Named' = Named
        BY <1>7 DEF Named, IdOf
  <2>2. Due' = {i \in 1..q : Responded(i)}
        BY <1>7 DEF Due, Responded
  <2>3. 1..q = (1..Past) \cup {q} /\ q \in Nat /\ q \in 1..Len(lines)
        BY <1>0, <1>3, <1>6, <1>7
  <2>4. CASE ~Responded(q) /\ out' = out
    <3>1. Due' = Due
          BY <2>2, <2>3, <2>4 DEF Due
    <3> QED  BY <1>1, <2>1, <2>4, <3>1
  <2>5. ASSUME Responded(q), NEW x \in Response, out' = Append(out, x),
               x.id = IF lines[q].form = "bad" THEN NoId ELSE IdOf(q)
        PROVE  Numbered(Due', out', Named')
    <3>1. Due' = Due \cup {q}
          BY <2>2, <2>3, <2>5 DEF Due
    <3>2. Named[q] = x.id
          BY <2>3, <2>5 DEF Named
    <3>3. Numbered(Due \cup {q}, Append(out, x), Named)
          BY <1>0, <1>1, <1>3, <1>6, <3>2, NumberedAppend
    <3> QED  BY <2>1, <2>5, <3>1, <3>3
  <2> QED  BY <1>7, <2>4, <2>5
<1>8. ASSUME NEW h \in Handler, Dispatch(h) \/ FetchURL(h) \/ WebSearch(h)
      PROVE  Numbered(Due', out', Named')
  <2>1. /\ at[h] \in {"dispatch", "tool"}
        /\ at' \in {[at EXCEPT ![h] = "tool"], [at EXCEPT ![h] = "reply"]}
        /\ lines' = lines /\ read' = read /\ out' = out
        BY <1>8 DEF Dispatch, FetchURL, WebSearch, HandleReturns, stdio
  <2>2. at'[Stdio] = at[Stdio] \/ (at[Stdio] # "idle" /\ at'[Stdio] # "idle")
        BY <1>0, <2>1
  <2> QED  BY <1>0, <1>4, <2>1, <2>2
<1>9. CASE Scan
  <2>1. /\ at[Stdio] = "idle" /\ lines' = lines /\ Past = read /\ q = read + 1
        /\ q \in 1..Len(lines) /\ lines[q] \in Messages
        BY <1>0, <1>6, <1>9 DEF Scan, Past
  <2>2. lines[q].form \in {"empty", "long", "bad", "rpc"} /\ lines[q].version \in BOOLEAN
        BY <2>1, MessagesTyped
  <2>3. q <= Len(lines)
        BY <2>1, <1>0
  <2>4. CASE at' = at /\ read' = read /\ out' = out
        BY <1>5, <2>1, <2>4
  <2>5. CASE at' = [at EXCEPT ![Stdio] = "dispatch"] /\ read' = q /\ out' = out
    <3>1. Past' = Past
          BY <1>0, <2>1, <2>5 DEF Past
    <3>2. Due' = Due /\ Named' = Named
          BY <2>1, <3>1 DEF Due, Named, Responded, IdOf
    <3> QED  BY <1>1, <2>5, <3>2
  <2>6. CASE at' = at /\ read' = q /\ lines[q].form = "empty" /\ out' = out
    <3>1. Past' = q
          BY <2>1, <2>6 DEF Past
    <3>2. ~Responded(q)
          BY <2>6 DEF Responded
    <3> QED  BY <1>7, <2>1, <2>3, <2>6, <3>1, <3>2
  <2>7. CASE at' = at /\ read' = q /\ lines[q].form = "bad" /\ out' = Written(NoId, "parse")
    <3>1. Past' = q
          BY <2>1, <2>7 DEF Past
    <3>2. Responded(q)
          BY <2>7 DEF Responded
    <3> DEFINE x == [id |-> NoId, body |-> "parse"]
    <3>3. x \in Response /\ out' = Append(out, x)
          /\ x.id = IF lines[q].form = "bad" THEN NoId ELSE IdOf(q)
          BY <2>7 DEF Response, Body, Written
    <3> QED  BY <1>7, <2>1, <2>3, <3>1, <3>2, <3>3
  <2>8. CASE /\ at' = at /\ read' = q /\ lines[q].form = "rpc" /\ ~lines[q].version
             /\ out' = Written(IdOf(q), "request")
    <3>1. Past' = q
          BY <2>1, <2>8 DEF Past
    <3>2. Responded(q)
          BY <2>8 DEF Responded
    <3> DEFINE x == [id |-> IdOf(q), body |-> "request"]
    <3>3. x \in Response /\ out' = Append(out, x)
          /\ x.id = IF lines[q].form = "bad" THEN NoId ELSE IdOf(q)
          BY <2>1, <2>8 DEF Response, Body, Written, IdOf
    <3> QED  BY <1>7, <2>1, <2>3, <3>1, <3>2, <3>3
  <2>9. \/ at' = at /\ read' = read /\ out' = out
        \/ at' = [at EXCEPT ![Stdio] = "dispatch"] /\ read' = q /\ out' = out
        \/ at' = at /\ read' = q /\ lines[q].form = "empty" /\ out' = out
        \/ at' = at /\ read' = q /\ lines[q].form = "bad" /\ out' = Written(NoId, "parse")
        \/ /\ at' = at /\ read' = q /\ lines[q].form = "rpc" /\ ~lines[q].version
           /\ out' = Written(IdOf(q), "request")
        BY <1>9, <2>1, <2>2 DEF Scan
  <2> QED  BY <2>4, <2>5, <2>6, <2>7, <2>8, <2>9
<1>10. CASE WriteResp
  <2>1. /\ at[Stdio] = "reply" /\ at'[Stdio] = "idle" /\ lines' = lines /\ read' = read
        /\ out' = IF Answers(msg[Stdio]) THEN Written(IdOf(read), reply[Stdio]) ELSE out
        BY <1>0, <1>10 DEF WriteResp
  <2>2. read = q /\ Past' = q
        BY <1>0, <1>6, <2>1 DEF Past
  <2>3. msg[Stdio] = lines[q] /\ lines[q].form = "rpc" /\ lines[q].version /\ q > 0
        BY <2>1, <2>2 DEF Placed
  <2>4. Responded(q) <=> Answers(msg[Stdio])
        BY <2>3 DEF Responded, Answers
  <2> DEFINE x == [id |-> IdOf(q), body |-> reply[Stdio]]
  <2>5. x \in Response /\ x.id = IF lines[q].form = "bad" THEN NoId ELSE IdOf(q)
        BY <1>0, <2>2, <2>3 DEF Response, IdOf, McpTypeOK
  <2>6. CASE Answers(msg[Stdio])
    <3>1. out' = Append(out, x)
          BY <2>1, <2>2, <2>6 DEF Written
    <3> QED  BY <1>0, <1>7, <2>1, <2>2, <2>4, <2>5, <2>6, <3>1
  <2>7. CASE ~Answers(msg[Stdio])
        BY <1>0, <1>7, <2>1, <2>2, <2>4, <2>7
  <2> QED  BY <2>6, <2>7
<1>11. ASSUME NEW r \in Request, Respond(r) \/ StreamEnds(r)
       PROVE  Numbered(Due', out', Named')
  <2>1. at' = [at EXCEPT ![r] = "done"] /\ UNCHANGED stdio
        BY <1>11 DEF Respond, StreamEnds
  <2> QED  BY <1>0, <1>5, <2>1 DEF stdio
<1>12. ASSUME NEW r \in Request, NEW p \in Posts, Receive(r, p)
       PROVE  Numbered(Due', out', Named')
       BY <1>0, <1>5, <1>12 DEF Receive, stdio
<1>13. ASSUME NEW m \in Messages, Write(m)
       PROVE  Numbered(Due', out', Named')
  <2>1. lines' = Append(lines, m) /\ read' = read /\ at' = at /\ out' = out
        BY <1>13 DEF Write, handling
  <2>2. Len(lines') = Len(lines) + 1 /\ \A i \in 1..Len(lines) : lines'[i] = lines[i]
        BY <1>0, <2>1, AppendProperties
  <2> QED  BY <1>0, <1>4, <2>1, <2>2
<1>14. ASSUME UNCHANGED <<handling, lines, read, out>>
       PROVE  Numbered(Due', out', Named')
       BY <1>5, <1>14 DEF handling
<1>15. CASE \/ Boot \/ ScanEnds \/ Hangup \/ UNCHANGED vars
            \/ \E h \in Handler : Leave(h)
       BY <1>14, <1>15 DEF Boot, ScanEnds, Hangup, Leave, vars, stdio
<1> QED
    BY StepKinds, <1>8, <1>9, <1>10, <1>11, <1>12, <1>13, <1>15 DEF Stepped

-----------------------------------------------------------------------------
(* The theorems *)

\* A process that was just started has handled nothing.
LEMMA McpInitial ==
  ASSUME Init
  PROVE  McpInv
<1> USE DEF Init
<1>0. Stdio \in Handler /\ \A r \in Request : r \in Handler
      BY DEF Handler
<1>1. McpTypeOK
  <2>1. <<>> \in Seq(Messages) /\ <<>> \in Seq(Response) /\ <<>> \in Seq(Nat) /\ Len(<<>>) = 0
        BY EmptySeq
  <2>2. lines \in Seq(Messages) /\ read \in 0..Len(lines) /\ out \in Seq(Response)
        BY <2>1
  <2>3. ran \in [Handler -> Seq(Nat)]
        BY <2>1
  <2>4. answer \in [Request -> [code : Nat, body : Body]]
        BY DEF NoAnswer, Body
  <2> QED  BY <2>2, <2>3, <2>4 DEF McpTypeOK, Place, Body
<1>2. Loaded
      BY DEF Loaded
<1>3. Placed
      BY <1>0 DEF Placed
<1>4. Admitted
      BY DEF Admitted
<1>5. RunsOnce
      BY <1>0 DEF RunsOnce, Once
<1>6. RunsTold
  <2>1. DOMAIN out = {}
        OBVIOUS
  <2>2. \A r \in Request : answer[r].code = 0
        BY DEF NoAnswer
  <2> QED  BY <2>1, <2>2 DEF RunsTold, AnswerTold
<1>7. RunsCounted
  <2>1. AllRuns = {}
        BY DEF AllRuns
  <2>2. InTool = {}
        BY DEF InTool
  <2>3. IsFiniteSet(AllRuns) /\ Cardinality(AllRuns) = 0 /\ Cardinality(InTool) = 0
        BY <2>1, <2>2, FS_EmptySet
  <2> QED  BY <2>3 DEF RunsCounted
<1>8. RepliesInOrder
  <2>1. Due = {} /\ Len(out) = 0
        BY <1>0 DEF Due, Past
  <2>2. Numbered(Due, out, Named)
        BY <2>1, FS_EmptySet DEF Numbered
  <2> QED  BY <1>1, <2>2, RepliesAreNumbered
<1>9. SearchCapped
      BY DEF SearchCapped
<1> QED  BY <1>1, <1>2, <1>3, <1>4, <1>5, <1>6, <1>7, <1>8, <1>9 DEF McpInv

\* The MCP server keeps its invariant, over either transport.
THEOREM McpInvariant == Spec => []McpInv
<1>1. Init => McpInv
      BY McpInitial
<1>2. McpInv /\ [Next]_vars => McpInv'
  <2> SUFFICES ASSUME McpInv, [Next]_vars
               PROVE  McpInv'
      OBVIOUS
  <2> USE DEF McpInv
  <2>1. McpTypeOK'
        BY TypeStep
  <2>2. Loaded' /\ Placed' /\ Admitted'
        BY LoadedStep, PlacedStep, AdmittedStep
  <2>3. RunsOnce' /\ RunsCounted'
        BY OnceStep, CountedStep
  <2>4. RunsTold'
        BY StdioToldStep, HttpToldStep DEF RunsTold
  <2>5. RepliesInOrder' /\ SearchCapped'
        BY <2>1, RepliesStep, CappedStep
  <2> QED  BY <2>1, <2>2, <2>3, <2>4, <2>5
<1> QED  BY <1>1, <1>2, PTL DEF Spec

\* Fail closed (run() and requireAuth): whoever gets past the check over HTTP has
\* the key, or there is none and OMNIFEED_DEV_NO_AUTH was set.
THEOREM AuthIsKept == Spec => []AuthKept
<1>1. McpInv => AuthKept
      BY DEF McpInv, Admitted, AuthKept
<1> QED  BY <1>1, McpInvariant, PTL

\* web_search returns no more results than configured, asked for, or the default,
\* for every limit an int can hold.
THEOREM SearchesCapped == Spec => []SearchCapped
<1>1. McpInv => SearchCapped
      BY DEF McpInv
<1> QED  BY <1>1, McpInvariant, PTL

\* ServeStdio answers the lines in order, each that is due once, under its id.
THEOREM RepliesOrdered == Spec => []RepliesInOrder
<1>1. McpInv => RepliesInOrder
      BY DEF McpInv
<1> QED  BY <1>1, McpInvariant, PTL

\* h ran no tool for message n, or one.
LEMMA RunCount ==
  ASSUME McpTypeOK, RunsOnce, NEW h \in Handler, NEW n
  PROVE  Cardinality({i \in DOMAIN ran[h] : ran[h][i] = n}) = IF Ran(h, n) THEN 1 ELSE 0
<1>1. CASE ~Ran(h, n)
  <2>1. {i \in DOMAIN ran[h] : ran[h][i] = n} = {}
        BY <1>1 DEF Ran
  <2> QED  BY <1>1, <2>1, FS_EmptySet
<1>2. CASE Ran(h, n)
  <2>1. PICK k \in DOMAIN ran[h] : ran[h][k] = n
        BY <1>2 DEF Ran
  <2>2. \A j \in DOMAIN ran[h] : ran[h][j] = n => j = k
        BY <2>1 DEF RunsOnce, Once
  <2>3. {i \in DOMAIN ran[h] : ran[h][i] = n} = {k}
        BY <2>1, <2>2
  <2> QED  BY <1>2, <2>3, FS_Singleton
<1> QED  BY <1>1, <1>2

\* Every run of a tool is counted by the metrics when it is over, and every
\* answered tools/call tells its client whether its tool ran, which it did once.
THEOREM RunsAreAccounted == Spec => []RunsAccounted
<1>1. McpInv => RunsAccounted
  <2> SUFFICES ASSUME McpInv
               PROVE  RunsAccounted
      OBVIOUS
  <2> USE DEF McpInv
  <2> DEFINE runs(h, n) == Cardinality({i \in DOMAIN ran[h] : ran[h][i] = n})
  <2>1. observed = Cardinality(UNION {{h} \X DOMAIN ran[h] : h \in Handler})
                   - Cardinality({h \in Handler : at[h] = "tool"})
        BY DEF RunsCounted, AllRuns, InTool
  <2>2. Stdio \in Handler /\ \A r \in Request : r \in Handler
        BY DEF Handler
  <2>3. ASSUME NEW k \in DOMAIN out, out[k].id # NoId,
               lines[out[k].id].method = "tools/call"
        PROVE  runs(Stdio, out[k].id) = IF out[k].body \in {"ok", "internal"} THEN 1 ELSE 0
    <3>1. Ran(Stdio, out[k].id) <=> out[k].body \in {"ok", "internal"}
          BY <2>3 DEF RunsTold, Told
    <3>2. runs(Stdio, out[k].id) = IF Ran(Stdio, out[k].id) THEN 1 ELSE 0
          BY <2>2, RunCount
    <3> QED  BY <3>1, <3>2
  <2>4. ASSUME NEW r \in Request, answer[r].code = 200, msg[r].method = "tools/call"
        PROVE  runs(r, 1) = IF answer[r].body \in {"ok", "internal"} THEN 1 ELSE 0
    <3>1. Ran(r, 1) <=> answer[r].body \in {"ok", "internal"}
          BY <2>4 DEF RunsTold, AnswerTold
    <3>2. runs(r, 1) = IF Ran(r, 1) THEN 1 ELSE 0
          BY <2>2, RunCount
    <3> QED  BY <3>1, <3>2
  <2> QED  BY <2>1, <2>3, <2>4 DEF RunsAccounted
<1> QED  BY <1>1, McpInvariant, PTL
=============================================================================
