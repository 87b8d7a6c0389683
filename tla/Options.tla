------------------------------ MODULE Options -------------------------------
(***************************************************************************)
(* Where settings come from and how they are merged: the environment       *)
(* (config.Load), run()'s defaults and its choice of an authenticator, the *)
(* loader's query string, the arguments of the MCP tools, and the Reddit   *)
(* engine's resolveOptions, which every crawl's options go through.        *)
(*                                                                         *)
(* The text of a number is Unset (absent or empty), Junk (does not parse,  *)
(* or leaves the range of int) or the integer it parses to.  A JSON number *)
(* is its floor, which the code's comparisons and conversions cannot tell  *)
(* from it, or Huge, beyond the range of int: there Go leaves int(x) to    *)
(* the platform, and the two that are built for disagree.                  *)
(***************************************************************************)
EXTENDS Integers

CONSTANTS Unset, Junk, Huge,
          Full,                \* expand's "full", "all" and "max"
          MaxExpansionRounds,  \* 40 in the code
          DefaultRounds,       \* 3
          DefaultLimit,        \* defaultSearchLimit
          MaxInt               \* stands for 2^63 - 1

ASSUME OptionBounds ==
  /\ MaxExpansionRounds \in Nat \ {0} /\ DefaultRounds \in 1..MaxExpansionRounds
  /\ DefaultLimit \in Nat \ {0}
  /\ MaxInt \in Nat /\ MaxInt > MaxExpansionRounds /\ MaxInt > 100
ASSUME TextsDistinct ==
  /\ \A x \in {Unset, Junk, Huge, Full} : x \notin Int
  /\ Unset \notin {Junk, Huge, Full} /\ Junk \notin {Huge, Full} /\ Huge # Full

-----------------------------------------------------------------------------
(* config.Load *)

\* env, envInt, envBool and envDuration: an empty variable is an absent one.
env(v, fallback) == IF v = Unset THEN fallback ELSE v

ToLower(s) == CASE s = "JSON" -> "json" [] s = "TOON" -> "toon" [] OTHER -> s

\* The configuration, before it is checked.  (The flag -mcp-stdio sets MCPStdio
\* as the variable does.)
Config(e) ==
  [RedditFormat |-> ToLower(env(e.format, "toon")),
   RedditMaxRounds |-> env(e.rounds, DefaultRounds),
   SearchMaxResults |-> env(e.searchMax, 25),
   MCPStdio |-> env(e.stdio, FALSE),
   AllowNoAuth |-> env(e.noAuth, FALSE)]

\* Load returns an error, and the process exits with status 2.
LoadFails(e) ==
  \/ e.rounds = Junk \/ e.searchMax = Junk \/ e.stdio = Junk \/ e.noAuth = Junk
  \/ e.others = Junk
  \/ Config(e).RedditFormat \notin {"toon", "json"}
  \/ Config(e).SearchMaxResults \notin 1..100
  \/ e.crawl4ai = Unset

-----------------------------------------------------------------------------
(* run *)

redditDefaults(cfg) ==
  [KeepDepth |-> FALSE, KeepCreated |-> TRUE,
   MaxRounds |-> cfg.RedditMaxRounds, Format |-> cfg.RedditFormat]

\* Fault variant: the key is not looked at when DEV_NO_AUTH is set.
authnNoAuthFirst(e) ==
  IF Config(e).AllowNoAuth THEN "AlwaysAllow"
  ELSE IF e.apiKey # Unset THEN "SharedBearer"
  ELSE "refuse"

\* The authenticator of the HTTP transports, or the refusal to start them.
authn(e) ==
  IF e.apiKey # Unset THEN "SharedBearer"
  ELSE IF Config(e).AllowNoAuth THEN "AlwaysAllow"
  ELSE "refuse"

-----------------------------------------------------------------------------
(* The options of one request *)

\* parseIntDefault.
parseIntDefault(s, fallback) == IF s = Junk \/ s < 0 THEN fallback ELSE s

\* The loader's buildEngineOptions, from the query string q.
buildEngineOptions(q, defaults) ==
  [KeepDepth |-> defaults.KeepDepth \/ q.depth,
   KeepCreated |-> defaults.KeepCreated /\ ~q.nocreated,
   Format |-> IF q.format \in {"toon", "json"} THEN q.format ELSE defaults.Format,
   MaxRounds |-> CASE q.expand = Unset -> defaults.MaxRounds
                   [] q.expand = Full -> MaxExpansionRounds
                   [] OTHER -> parseIntDefault(q.expand, defaults.MaxRounds)]

\* int(x) of a JSON number: amd64 gives the smallest int, arm64 the largest.
IntOf(x) == IF x = Huge THEN {-MaxInt - 1, MaxInt} ELSE {x}

\* args[...].(float64) succeeds with a value of at least n.
AtLeast(x, n) == x \notin {Unset, Junk} /\ (x = Huge \/ x >= n)

\* fetch_url's crawlHandler, from the tool's arguments: one value for each that
\* int(expand) may have.
crawlHandler(args, defaults) ==
  {[KeepDepth |-> defaults.KeepDepth,
    KeepCreated |-> defaults.KeepCreated,
    Format |-> IF args.format \in {"toon", "json"} THEN args.format ELSE defaults.Format,
    MaxRounds |-> n] :
     n \in IF AtLeast(args.expand, 0) THEN IntOf(args.expand) ELSE {defaults.MaxRounds}}

\* Fault variant: the cap is left to the transports.
cappedNot(n) == n

\* Rounds above the cap are the cap.
capped(n) == IF n > MaxExpansionRounds THEN MaxExpansionRounds ELSE n

\* Engine.resolveOptions: a zero value means the default, and so does FALSE.
resolveOptions(eo, defaults) ==
  LET asked == IF eo.MaxRounds > 0 THEN capped(eo.MaxRounds) ELSE defaults.MaxRounds IN
  [KeepDepth |-> defaults.KeepDepth \/ eo.KeepDepth,
   KeepCreated |-> defaults.KeepCreated \/ eo.KeepCreated,
   Format |-> IF eo.Format \in {"toon", "json"} THEN eo.Format ELSE defaults.Format,
   MaxRounds |-> IF asked = 0 THEN DefaultRounds ELSE asked]

\* WebSearch's limit, from the tool's arguments.
searchLimits(args, maxResults) ==
  {IF n > maxResults THEN maxResults ELSE n :
     n \in IF AtLeast(args.limit, 1) THEN IntOf(args.limit) ELSE {DefaultLimit}}
=============================================================================
