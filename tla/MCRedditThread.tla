--------------------------- MODULE MCRedditThread ---------------------------
(* RedditThread for TLC: three comments, small trees, requests of both kinds. *)
EXTENDS RedditThread, TLC

CONSTANTS a, b, c

MCID == {a, b, c}

-----------------------------------------------------------------------------
(* Things and listings *)

Comment(id, scrubbed, marker, replies) ==
  [kind |-> "t1", id |-> id, scrubbed |-> scrubbed, marker |-> marker,
   replies |-> replies, count |-> 0, children |-> {}]
Live(id) == Comment(id, FALSE, FALSE, "listing")
Removed(id) == Comment(id, TRUE, TRUE, "listing")
More(n, S) == [Live(a) EXCEPT !.kind = "more", !.count = n, !.children = S]
Undecodable == [Live(a) EXCEPT !.kind = "bad"]
Unknown == [Live(a) EXCEPT !.kind = "t5"]

\* The listing of a sequence of things without replies.
Flat(things) == [p \in {<<i>> : i \in DOMAIN things} |-> things[p[1]]]

\* Trees of up to four things, where gaps are "continue" links only.
Shapes ==
  {{<<1>>, <<2>>}, {<<1>>, <<1, 1>>, <<2>>}, {<<1>>, <<1, 1>>, <<1, 2>>},
   {<<1>>, <<1, 1>>, <<1, 1, 1>>, <<2>>}}
TreeThings ==
  {Live(a), Removed(b), Comment(b, TRUE, FALSE, "none"), Comment(c, FALSE, TRUE, "bad"),
   Undecodable, More(0, {})}
Trees == UNION {[s -> TreeThings] : s \in Shapes}

\* Threads that show one comment and hide others behind one or two gaps, which may
\* overlap, be smaller than their count, be a "continue" link, or lie deeper.
Gapped ==
  {Flat(<<Live(a)>> \o g) :
     g \in {<<>>,
            <<More(3, {a, b, c})>>,
            <<More(1, {b}), More(2, {b, c})>>,
            <<More(0, {}), More(2, {b, c})>>,
            <<More(3, {a, b, c}), More(0, {})>>,
            <<More(2, {}), More(2, {a, c})>>}}
  \cup {(<<1>> :> Removed(a)) @@ (<<1, 1>> :> More(3, {a, b, c})) @@ (<<2>> :> Live(b))}

\* Replies: up to two things, or a subtree.
ReplyThings == {Live(a), Live(b), Live(c), Removed(c),
                More(0, {}), More(3, {a}), More(3, {b, c})}
MCReplyListings ==
  {Flat(things) : things \in UNION {[1..n -> ReplyThings] : n \in 0..2}}
  \cup {(<<1>> :> Removed(b)) @@ (<<1, 1>> :> Live(c)) @@ (<<1, 1, 1>> :> Live(a)),
        Flat(<<Live(a), Live(b), Live(c)>>), Flat(<<Unknown, More(3, {})>>)}

-----------------------------------------------------------------------------
(* Settings and requests *)

Plain == [format |-> Unset, rounds |-> Unset, searchMax |-> Unset, stdio |-> Unset,
          noAuth |-> Unset, others |-> Unset, apiKey |-> Unset, searxng |-> Unset,
          crawl4ai |-> "http"]
Environments ==
  {[Plain EXCEPT !.rounds = n] : n \in {Unset, -1, 0, 4}}
  \cup {[Plain EXCEPT !.format = "JSON"], [Plain EXCEPT !.rounds = Junk]}

Query == [via |-> "loader", format |-> Unset, expand |-> Unset, depth |-> FALSE,
          nocreated |-> FALSE]
Requests ==
  {[Query EXCEPT !.expand = n] : n \in {Unset, Junk, Full, -1, 0, 1, 9}}
  \cup {[Query EXCEPT !.format = f, !.depth = d, !.nocreated = nc] :
          f \in {"toon", "json", "xml"}, d \in BOOLEAN, nc \in BOOLEAN}
  \cup {[via |-> "mcp", format |-> f, expand |-> n] :
          f \in {Unset, "json"}, n \in {Unset, -1, 0, 2, Huge}}

\* Every request under the default settings, the ones about rounds under others,
\* and a plain request for every thread.
MCScenarios ==
  LET simple == Flat(<<Live(a), More(2, {a, b})>>) IN
  {[env |-> Plain, request |-> r, listing |-> simple] : r \in Requests}
  \cup {[env |-> e, request |-> [Query EXCEPT !.expand = n], listing |-> simple] :
          e \in Environments, n \in {Unset, 0, 1}}
  \cup {[env |-> Plain, request |-> Query, listing |-> l] : l \in Trees \cup Gapped}

-----------------------------------------------------------------------------
(* The constants of RedditExpansion, as the scenarios give them *)

SomeOptions == [KeepDepth |-> FALSE, KeepCreated |-> TRUE, Format |-> "toon", MaxRounds |-> 2]
MCThreads == {Parsed(s.listing, SomeOptions) : s \in MCScenarios}
MCReplies == {Parsed(raw, SomeOptions) : raw \in MCReplyListings}
MCBudgets == -1..4
=============================================================================
