-------------------------- MODULE RedditExpansion ---------------------------
(***************************************************************************)
(* internal/engine/reddit: Engine.expandGaps and parser.MergeExpanded, the *)
(* loop that asks Reddit's /api/morechildren for the comments a thread     *)
(* listing left out, against a Reddit that may answer anything.            *)
(*                                                                         *)
(* A comment is its id, and a list of comments is how often each id is in  *)
(* it.  gaps holds every gap the thread ever had, in order, and listed     *)
(* says which of them are in thread.Gaps: the code keeps the order, drops  *)
(* some and appends the new ones.  The ids of a gap are a set; which of    *)
(* them go first into a batch that has no room for all is left open.       *)
(***************************************************************************)
EXTENDS Integers, Sequences, FiniteSets, FiniteSetsExt

CONSTANTS ID,         \* comment ids
          Threads,    \* what ParseThread may return
          Replies,    \* what ParseMoreChildren may return
          MaxBatch,   \* expandGaps' maxBatch
          Budgets     \* Options.MaxRounds after resolveOptions

Gap == [type : {"more", "continue"}, children : SUBSET ID, count : Nat]

Listing == [comments : [ID -> Nat], gaps : Seq(Gap)]

ASSUME IDFinite == IsFiniteSet(ID)
ASSUME BoundsTyped == MaxBatch \in Nat \ {0} /\ Budgets \subseteq Int
ASSUME ParsedTyped == Threads \subseteq Listing /\ Replies \subseteq Listing

VARIABLES
  pc,        \* "collect", "fetch", "strip" or "done"
  comments,  \* thread.Comments
  gaps,      \* every gap of the thread, oldest first
  listed,    \* the positions of gaps that are in thread.Gaps
  budget,    \* opts.MaxRounds
  round,     \* the loop variable
  rounds,    \* what expandGaps returns: the rounds performed
  take,      \* take[i]: the ids of gap i that are in batchIDs
  askedOf    \* history: askedOf[i] are the ids of gap i ever requested

vars == <<pc, comments, gaps, listed, budget, round, rounds, take, askedOf>>

Positions == DOMAIN gaps

TypeOK ==
  /\ pc \in {"collect", "fetch", "strip", "done"}
  /\ comments \in [ID -> Nat]
  /\ gaps \in Seq(Gap)
  /\ listed \subseteq 1..Len(gaps)
  /\ budget \in Int
  /\ round \in Nat /\ rounds \in Nat
  /\ round > 0 => round <= budget
  /\ rounds > 0 => rounds <= budget
  /\ take \in [1..Len(gaps) -> SUBSET ID]
  /\ askedOf \in [1..Len(gaps) -> SUBSET ID]

-----------------------------------------------------------------------------

\* ParseThread has returned the thread t, and n is opts.MaxRounds.
Begin(t, n) ==
  /\ pc = "collect"
  /\ comments = t.comments
  /\ gaps = t.gaps
  /\ listed = 1..Len(t.gaps)
  /\ budget = n
  /\ round = 0 /\ rounds = 0
  /\ take = [i \in 1..Len(t.gaps) |-> {}]
  /\ askedOf = [i \in 1..Len(t.gaps) |-> {}]

Init == \E t \in Threads, n \in Budgets : Begin(t, n)

\* The gaps the batch is collected from.
Expandable == {i \in listed : gaps[i].type = "more" /\ gaps[i].children # {}}

SizeOf(f) == MapThenSumSet(LAMBDA i : Cardinality(f[i]), DOMAIN f)

\* The batches the collecting loop can come up with: the gaps before the k-th
\* whole, as much of the k-th as there is room for, and the batch full or nothing
\* left.
Batches ==
  LET offer(i) == IF i \in Expandable THEN gaps[i].children ELSE {}
      all == [i \in Positions |-> offer(i)]
      upTo(k, part) ==
        [i \in Positions |-> IF i < k THEN offer(i) ELSE IF i = k THEN part ELSE {}] IN
  {t \in UNION {{upTo(k, part) : part \in SUBSET offer(k)} : k \in Expandable} :
     SizeOf(t) = Min({MaxBatch, SizeOf(all)})}

Used(t) == {i \in DOMAIN t : t[i] # {}}
Requested(t) == UNION {t[i] : i \in DOMAIN t}

\* Fault variant: one round too many.
BudgetExceeded == round <= budget

\* round < opts.MaxRounds.
BudgetLeft == round < budget

\* Fault variant: only a thread without gaps ends the loop.
NoGaps == listed = {}

\* len(batchIDs) == 0.
NothingLeft == Expandable = {}

\* A round begins: batchIDs and usedGapIdx are collected.
Collect ==
  /\ pc = "collect" /\ BudgetLeft
  /\ take' \in {t \in Batches : Used(t) # {}}
  /\ askedOf' = [i \in Positions |-> askedOf[i] \cup take'[i]]
  /\ pc' = "fetch"
  /\ UNCHANGED <<comments, gaps, listed, budget, round, rounds>>

\* The loop ends: the budget is spent, or no gap has ids left.
Stop ==
  /\ pc = "collect"
  /\ ~BudgetLeft \/ NothingLeft
  /\ pc' = "strip"
  /\ UNCHANGED <<comments, gaps, listed, budget, round, rounds, take, askedOf>>

\* FetchMoreChildren or ParseMoreChildren fails: the thread is kept as it is.
FetchFails ==
  /\ pc = "fetch"
  /\ pc' = "strip"
  /\ UNCHANGED <<comments, gaps, listed, budget, round, rounds, take, askedOf>>

-----------------------------------------------------------------------------
(* MergeExpanded *)

\* Fault variant: seen is not updated while the new comments are appended.
DedupeOld(new) == [id \in ID |-> IF comments[id] > 0 THEN comments[id] ELSE new[id]]

\* New comments are appended unless their id has been seen.
Dedupe(new) ==
  [id \in ID |-> IF comments[id] > 0 \/ new[id] = 0 THEN comments[id] ELSE 1]

\* Fault variant: nothing is taken off the gaps.
RemainingAll(i) == gaps[i].children

\* What is left of a gap the batch drew from: every requested id counts as
\* fulfilled, whatever the reply brought.
Remaining(i) == gaps[i].children \ Requested(take)

\* Fault variant: the type of an empty gap is not looked at.
DropsEmpty(g) == g.children = {}

\* The gaps MergeExpanded drops.
Drops(g) == g.type = "more" /\ g.children = {}

\* The gaps after the requested ids are removed and the counts reset.
Reduced ==
  [i \in Positions |->
     IF i \in Used(take)
     THEN [gaps[i] EXCEPT !.children = Remaining(i), !.count = Cardinality(Remaining(i))]
     ELSE gaps[i]]

NoComments(r) == \A id \in ID : r.comments[id] = 0

\* A reply r is parsed and merged; a reply without comments or gaps (which is
\* also how an API error parses) ends the loop.
Merge(r) ==
  LET old == Len(gaps)
      new == Len(r.gaps) IN
  /\ pc = "fetch"
  /\ comments' = Dedupe(r.comments)
  /\ gaps' = [i \in 1..(old + new) |-> IF i <= old THEN Reduced[i] ELSE r.gaps[i - old]]
  /\ listed' = {i \in listed : ~Drops(Reduced[i])} \cup (old + 1)..(old + new)
  /\ rounds' = round + 1
  /\ IF NoComments(r) /\ r.gaps = <<>>
     THEN pc' = "strip" /\ UNCHANGED round
     ELSE pc' = "collect" /\ round' = round + 1
  /\ take' = [i \in 1..(old + new) |-> {}]
  /\ askedOf' = [i \in 1..(old + new) |-> IF i <= old THEN askedOf[i] ELSE {}]
  /\ UNCHANGED budget

\* Crawl strips the ids of the gaps that are left before it encodes the thread.
Strip ==
  /\ pc = "strip"
  /\ gaps' = [i \in Positions |->
                IF i \in listed /\ gaps[i].type = "more"
                THEN [gaps[i] EXCEPT !.children = {}] ELSE gaps[i]]
  /\ pc' = "done"
  /\ UNCHANGED <<comments, listed, budget, round, rounds, take, askedOf>>

\* The thread has been encoded.
Over == pc = "done" /\ UNCHANGED vars

Step == Collect \/ Stop \/ FetchFails \/ (\E r \in Replies : Merge(r)) \/ Strip

Next == Step \/ Over

Spec == Init /\ [][Next]_vars

\* Every FetchMoreChildren returns: the crawl's context has a deadline.
LiveSpec == Spec /\ WF_vars(Step)

-----------------------------------------------------------------------------
(* Properties *)

Asked == UNION {askedOf[i] : i \in Positions}
Pending == UNION {gaps[i].children : i \in listed}

\* A step never loses what it has not asked Reddit for: until the final strip, an
\* id some listed gap names is named by one afterwards or has been requested,
\* however batches split gaps and merges drop and append them, and a "continue"
\* link, which has no ids, stays to the end.
NothingUnaskedLost ==
  [][/\ pc' # "done" => \A id \in Pending : id \in Pending' \/ id \in Asked'
     /\ \A i \in listed : gaps[i].type = "continue" => i \in listed']_vars

\* A comment is never removed nor added twice, whatever a reply repeats.
CommentsGrowOnce ==
  [][\A id \in ID : \/ comments'[id] = comments[id]
                    \/ comments[id] = 0 /\ comments'[id] = 1]_vars

\* No round repeats another: what a gap still lists was not requested from it,
\* so every round makes progress on the gaps it draws from.
NoRerequest ==
  pc = "collect" =>
    \A i \in listed : gaps[i].children \cap askedOf[i] = {}

\* The loop ends.
Terminates == <>(pc = "done")
=============================================================================
