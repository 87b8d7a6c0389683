---------------------------- MODULE MCMcpServer -----------------------------
(* McpServer for TLC. *)
EXTENDS McpServer

CONSTANT key

Plain == [format |-> Unset, rounds |-> Unset, searchMax |-> 2, stdio |-> Unset,
          noAuth |-> Unset, others |-> Unset, apiKey |-> Unset, searxng |-> "http",
          crawl4ai |-> "http"]

\* Both transports, with and without a key, a search tool, a search limit below and
\* one above the default, and settings Load refuses.
MCEnvironments ==
  {[Plain EXCEPT !.stdio = TRUE], [Plain EXCEPT !.stdio = TRUE, !.searxng = Unset],
   [Plain EXCEPT !.apiKey = key], [Plain EXCEPT !.apiKey = key, !.noAuth = TRUE, !.searchMax = 5],
   [Plain EXCEPT !.noAuth = TRUE], Plain,
   [Plain EXCEPT !.stdio = TRUE, !.searchMax = 0], [Plain EXCEPT !.stdio = TRUE, !.others = Junk]}

NoArgs == [url |-> FALSE, query |-> "empty", limit |-> Unset, time_range |-> Unset]
Call(tool, args) ==
  [form |-> "rpc", version |-> TRUE, request |-> TRUE, method |-> "tools/call",
   tool |-> tool, args |-> args]
Rpc(method) == [Call("none", NoArgs) EXCEPT !.method = method]
Fetch == Call("fetch_url", [NoArgs EXCEPT !.url = TRUE])
Search(query, limit, range) ==
  Call("web_search", [NoArgs EXCEPT !.query = query, !.limit = limit, !.time_range = range])
Notification(m) == [m EXCEPT !.request = FALSE]

MCMessages ==
  {[Rpc("ping") EXCEPT !.form = f] : f \in {"empty", "long", "bad"}}
  \cup {Rpc("ping"), Rpc("initialized"), Notification(Rpc("initialized")), Rpc("resources/list")}
  \cup {[Fetch EXCEPT !.version = FALSE], [Notification(Fetch) EXCEPT !.version = FALSE]}
  \cup {Call("bad", NoArgs), Call("shell", NoArgs), Call("fetch_url", NoArgs)}
  \cup {Fetch, Notification(Fetch)}
  \cup {Search("text", n, Unset) : n \in {Unset, 0, 1, 9, Huge}}
  \cup {Search("empty", 1, Unset), Search("blank", 1, Unset), Search("text", 1, "decade")}

\* Every message with the key, and every other kind of request.
Post(path, method, token, m) ==
  [path |-> path, method |-> method, token |-> token, message |-> m]
MCPosts ==
  {Post("/mcp", "POST", key, m) : m \in MCMessages}
  \cup {Post("/mcp", m, t, Fetch) : m \in {"POST", "GET", "PUT"}, t \in {Unset, key, "other"}}
  \cup {Post("/mcp/sse", "POST", t, Fetch) : t \in {Unset, key, "other"}}
=============================================================================
