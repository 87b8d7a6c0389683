------------------------------- MODULE Parser -------------------------------
(***************************************************************************)
(* internal/engine/reddit/parser.go: walkChildren, the recursion that      *)
(* turns a tree of Reddit things into a flat list of comments and a list   *)
(* of gaps, for a thread's listing and for the replies of morechildren.    *)
(*                                                                         *)
(* A listing is a function on positions: raw[<<2>>] is the listing's       *)
(* second thing and raw[<<2, 1>>] the first reply to it.  A thing has      *)
(*   kind     "t1", "more", anything else, or "bad" if it does not decode  *)
(*   id       of a comment                                                 *)
(*   scrubbed the author is "[deleted]" or empty                           *)
(*   marker   the body is one of Reddit's removal markers, or empty        *)
(*   replies  "none", "listing", or "bad" if the object does not decode    *)
(*   count, children   of a "more"                                         *)
(***************************************************************************)
EXTENDS Naturals, Sequences, FiniteSets

\* makeGap(d): a "more" thing with count 0 is a "continue this thread" link.
makeGap(d) ==
  IF d.count = 0
  THEN [type |-> "continue", children |-> {}, count |-> 0]
  ELSE [type |-> "more", children |-> d.children, count |-> d.count]

\* makeComment(d, opts): Depth and Created say whether the field is there.
makeComment(d, opts) ==
  [id |-> d.id, Depth |-> opts.KeepDepth, Created |-> opts.KeepCreated]

\* Fault variant: a scrubbed author is enough.
isScrubbed(d) == d.scrubbed

isRemovedComment(d) == d.scrubbed /\ d.marker

\* Fault variant: the replies to a removed comment go with it.
hasLiveReplies(d) == d.replies = "listing" /\ ~isRemovedComment(d)

\* hasRepliesListing(d.Replies), and it decodes.
hasReplies(d) == d.replies = "listing"

Nothing == [comments |-> <<>>, gaps |-> <<>>]
Both(x, y) == [comments |-> x.comments \o y.comments, gaps |-> x.gaps \o y.gaps]

\* What a walk w finds from position p on, in the list p is in.
From(w, p) == IF p \in DOMAIN w THEN w[p] ELSE Nothing

FirstReply(p) == Append(p, 1)
NextTo(p) == [p EXCEPT ![Len(p)] = @ + 1]

\* One turn of walkChildren's loop, with the turns after it: w is the walk.
Visit(w, raw, p, opts) ==
  LET thing == raw[p]
      own == IF thing.kind = "t1" /\ ~isRemovedComment(thing)
             THEN [comments |-> <<makeComment(thing, opts)>>, gaps |-> <<>>]
             ELSE IF thing.kind = "more"
             THEN [comments |-> <<>>, gaps |-> <<makeGap(thing)>>]
             ELSE Nothing
      below == IF thing.kind = "t1" /\ hasReplies(thing) THEN From(w, FirstReply(p)) ELSE Nothing IN
  Both(Both(own, below), From(w, NextTo(p)))

walkChildren(raw, opts) ==
  LET walk[p \in DOMAIN raw] == Visit(walk, raw, p, opts) IN walk

\* ParseThread and ParseMoreChildren, once the envelope has been decoded.
Parse(raw, opts) == From(walkChildren(raw, opts), <<1>>)

-----------------------------------------------------------------------------
(* What the walk is to find, without recursion. *)

\* The thing at q is a reply to the one at p, or to a reply to it, and so on.
Above(p, q) == Len(p) < Len(q) /\ \A n \in 1..Len(p) : p[n] = q[n]

\* Everything above the thing at p decodes.
Reachable(raw, p) ==
  \A q \in DOMAIN raw : Above(q, p) => raw[q].kind = "t1" /\ raw[q].replies = "listing"

Rows(raw) == {p \in DOMAIN raw : Reachable(raw, p) /\ raw[p].kind = "t1"}

\* The comments with content: an author, or a text that is no removal marker.
LiveRows(raw) == {p \in Rows(raw) : ~raw[p].scrubbed \/ ~raw[p].marker}

MoreRows(raw) == {p \in DOMAIN raw : Reachable(raw, p) /\ raw[p].kind = "more"}

\* The order in which a reader meets positions: a parent, then its replies.
Before(p, q) ==
  \/ Above(p, q)
  \/ \E n \in 1..Len(p) : /\ n <= Len(q) /\ p[n] < q[n]
                          /\ \A k \in 1..(n - 1) : p[k] = q[k]

\* S as a list in that order (there is one).
InOrder(S) ==
  {s \in [1..Cardinality(S) -> S] : \A i, j \in 1..Cardinality(S) : i < j => Before(s[i], s[j])}

\* raw is a listing of things with these ids: finite, and with every thing there
\* are those above it and those before them.
IsListing(raw, ids) ==
  LET Thing == [kind : STRING, id : ids, scrubbed : BOOLEAN, marker : BOOLEAN,
                replies : STRING, count : Nat, children : SUBSET ids] IN
  /\ IsFiniteSet(DOMAIN raw)
  /\ \A p \in DOMAIN raw :
       /\ p \in Seq(Nat \ {0}) /\ p # <<>> /\ raw[p] \in Thing
       /\ \A n \in 1..Len(p) : \A i \in 1..p[n] :
            [SubSeq(p, 1, n) EXCEPT ![n] = i] \in DOMAIN raw
=============================================================================
