---------------------------- MODULE RedditThread ----------------------------
(***************************************************************************)
(* One Reddit crawl from the request to the document: the options of a     *)
(* request that came through the loader or through MCP (Options), the      *)
(* parsing of what Reddit sends (Parser), and the expansion of the gaps    *)
(* (RedditExpansion), whose steps are taken here on parsed listings.       *)
(***************************************************************************)
EXTENDS RedditExpansion, Options, Parser

CONSTANTS Scenarios,      \* an environment, a request and the thread's listing
          ReplyListings   \* what /api/morechildren may answer

ASSUME ListingsTyped ==
  /\ \A s \in Scenarios : IsListing(s.listing, ID)
  /\ \A raw \in ReplyListings : IsListing(raw, ID)
ASSUME RequestsTyped ==
  \A s \in Scenarios :
    LET r == s.request IN
    /\ s.env.rounds \in Int \cup {Unset, Junk}
    /\ \/ r.via = "loader" /\ r.expand \in Int \cup {Unset, Junk, Full} /\ r.depth \in BOOLEAN
       \/ r.via = "mcp" /\ r.expand \in Int \cup {Unset, Junk, Huge}

VARIABLES
  scenario,  \* the scenario
  opts,      \* what resolveOptions returned
  fields,    \* which optional fields the thread's comments have: a set of records
  live,      \* history: the ids of the comments with content that Reddit sent below
             \* things that decode
  rows,      \* history: the ids of all comments it so sent, removed ones included
  document   \* the format of the encoded thread, or "none"

requestVars == <<scenario, opts>>
threadVars == <<vars, requestVars, fields, live, rows, document>>

\* How often each id is in a list of comments.
Counts(cs) == [id \in ID |-> Cardinality({i \in DOMAIN cs : cs[i].id = id})]

\* What a parsed listing is to expandGaps and MergeExpanded.
Parsed(raw, o) ==
  LET p == Parse(raw, o) IN [comments |-> Counts(p.comments), gaps |-> p.gaps]

\* Which optional fields the comments of a list have, without those in seen.
Fields(cs, seen) ==
  {[Depth |-> cs[i].Depth, Created |-> cs[i].Created] : i \in {j \in DOMAIN cs : cs[j].id \notin seen}}

\* The EngineOptions a transport passes to the registry.
EngineOptions(request, defaults) ==
  CASE request.via = "loader" -> {buildEngineOptions(request, defaults)}
    [] request.via = "mcp" -> crawlHandler(request, defaults)

\* The crawl's options are resolved, the thread fetched and parsed.
ThreadInit ==
  \E s \in Scenarios :
    LET defaults == redditDefaults(Config(s.env)) IN
    /\ ~LoadFails(s.env)
    /\ scenario = s
    /\ \E eo \in EngineOptions(s.request, defaults) : opts = resolveOptions(eo, defaults)
    /\ Begin(Parsed(s.listing, opts), opts.MaxRounds)
    /\ fields = Fields(Parse(s.listing, opts).comments, {})
    /\ live = {s.listing[p].id : p \in LiveRows(s.listing)}
    /\ rows = {s.listing[p].id : p \in Rows(s.listing)}
    /\ document = "none"

Quiet(A) == A /\ UNCHANGED <<requestVars, fields, live, rows, document>>

\* A reply of /api/morechildren is parsed with the same options, and merged.
MergeReply(raw) ==
  LET seen == {id \in ID : comments[id] > 0} IN
  /\ Merge(Parsed(raw, opts))
  /\ fields' = fields \cup Fields(Parse(raw, opts).comments, seen)
  /\ live' = live \cup {raw[p].id : p \in LiveRows(raw)}
  /\ rows' = rows \cup {raw[p].id : p \in Rows(raw)}
  /\ UNCHANGED <<requestVars, document>>

\* The gaps are stripped and the thread is encoded.
Encode ==
  /\ Strip
  /\ document' = IF opts.Format = "json" THEN "json" ELSE "toon"
  /\ UNCHANGED <<requestVars, fields, live, rows>>

ThreadStep ==
  \/ Quiet(Collect) \/ Quiet(Stop) \/ Quiet(FetchFails)
  \/ \E raw \in ReplyListings : MergeReply(raw)
  \/ Encode

ThreadOver == pc = "done" /\ UNCHANGED threadVars

ThreadNext == ThreadStep \/ ThreadOver

ThreadSpec == ThreadInit /\ [][ThreadNext]_threadVars

\* Every FetchMoreChildren returns: the crawl's context has a deadline.
ThreadLiveSpec == ThreadSpec /\ WF_threadVars(ThreadStep)

-----------------------------------------------------------------------------
(* Properties *)

\* The walk over the thread's listing finds what a reader would: the comments
\* with content below things that decode, also below removed ones, each once and
\* in reading order, and likewise the gaps (parser.go:98-100).
WalkExact ==
  pc = "collect" /\ round = 0 =>
    LET raw == scenario.listing
        p == Parse(raw, opts) IN
    /\ \E s \in InOrder(LiveRows(raw)) :
         p.comments = [i \in DOMAIN s |-> makeComment(raw[s[i]], opts)]
    /\ \E s \in InOrder(MoreRows(raw)) : p.gaps = [i \in DOMAIN s |-> makeGap(raw[s[i]])]

\* Over all rounds the thread has exactly the comments with content that Reddit has
\* sent below things that decode, at any depth of the listing or of a reply: no
\* removed comment takes along what is below it or beside it, and no merge loses a
\* comment or makes one up.  (A thing that does not decode does take along all that
\* is below it, parser.go:95-97.)
LiveCommentsKept == {id \in ID : comments[id] > 0} = live

\* The numbers of rounds a request may stand for: what it asks for up to
\* MaxExpansionRounds, the configured number (which that does not bound, and which is
\* DefaultRounds for zero) if it asks for none, and either beyond the range of int.
RoundsAsked(r, e) ==
  LET n == Config(e).RedditMaxRounds
      configured == IF n = 0 THEN DefaultRounds ELSE n IN
  CASE r.expand = Full -> {MaxExpansionRounds}
    [] r.expand = Huge -> {MaxExpansionRounds, configured}
    [] r.expand \in {Unset, Junk} -> {configured}
    [] OTHER -> {IF r.expand > 0 THEN Min({r.expand, MaxExpansionRounds}) ELSE configured}

\* The request decides, whichever transport it came through: the document has the
\* format asked for (or else the configured one), depths only if asked for, and no
\* more rounds are performed than it stands for; zero, a negative number and one
\* that is none stand for the configured one.
RequestHonoured ==
  LET r == scenario.request IN
  /\ document = "none" \/ document = IF r.format \in {"toon", "json"} THEN r.format
                                     ELSE Config(scenario.env).RedditFormat
  /\ \A f \in fields : f.Depth <=> r.via = "loader" /\ r.depth
  /\ rounds = 0 \/ \E n \in RoundsAsked(r, scenario.env) : rounds <= n

\* parser.go:166-168: MergeExpanded "removes fulfilled child IDs from the gaps
\* that triggered the fetch": an id that has been requested in a completed round
\* was delivered, or some gap still names it.
OnlyFulfilledRemoved ==
  pc = "collect" => \A id \in Asked : id \in rows \/ id \in Pending

\* README.md:149: "?nocreated=1 - drop the created field": a loader request that
\* says so gets a document whose comments are without it.
CreatedDropped ==
  document # "none" /\ scenario.request.via = "loader" /\ scenario.request.nocreated =>
    \A f \in fields : ~f.Created
=============================================================================
