------------------------- MODULE RedditThreadProofs -------------------------
(***************************************************************************)
(* Proofs about RedditExpansion and about RedditThread, which composes it  *)
(* with the parser and the options, for every set of ids, listings of any  *)
(* size and depth, every batch size and every budget: what a batch may     *)
(* hold, what the merges do to gaps and comments, what the parser's        *)
(* recursion finds, and which options a crawl ends up with.                *)
(***************************************************************************)
EXTENDS RedditThread, FiniteSetTheorems, FunctionTheorems, SequenceTheorems, TLAPS

\* A round is performed within the budget.
RoundInBudget == pc = "fetch" => round < budget

\* What is in the batch counts as requested, and between rounds there is none.
BatchAsked ==
  /\ \A i \in 1..Len(gaps) : take[i] \subseteq askedOf[i]
  /\ pc = "collect" => \A i \in 1..Len(gaps) : take[i] = {}

\* Of the ids a listed gap names, only those in the batch have been requested.
ListedFresh == \A i \in listed : gaps[i].children \cap askedOf[i] \subseteq take[i]

ExpansionInv == TypeOK /\ RoundInBudget /\ BatchAsked /\ ListedFresh

\* A step of the expansion, on anything that Reddit may have sent.
ExpansionStep ==
  \/ Collect \/ Stop \/ FetchFails \/ (\E r \in Listing : Merge(r)) \/ Strip
  \/ UNCHANGED vars

\* What NothingUnaskedLost and CommentsGrowOnce say of one step.
Kept ==
  /\ pc' # "done" => \A id \in Pending : id \in Pending' \/ id \in Asked'
  /\ \A i \in listed : gaps[i].type = "continue" => i \in listed'
Grow ==
  \A id \in ID : \/ comments'[id] = comments[id]
                 \/ comments[id] = 0 /\ comments'[id] = 1

-----------------------------------------------------------------------------
(* Facts about the operators of the expansion *)

\* A function on an initial segment of the naturals is a sequence of that length.
LEMMA SegmentSeq ==
  ASSUME NEW S, NEW n \in Nat, NEW f \in [1..n -> S]
  PROVE  f \in Seq(S) /\ Len(f) = n /\ DOMAIN f = 1..n
OBVIOUS

\* Any set of ids has a size.
LEMMA IDSetSize ==
  ASSUME NEW S \in SUBSET ID
  PROVE  Cardinality(S) \in Nat
BY IDFinite, FS_Subset, FS_CardinalityType

\* The positions of the gaps.
LEMMA PositionsFact ==
  ASSUME TypeOK
  PROVE  /\ Len(gaps) \in Nat /\ Positions = 1..Len(gaps)
         /\ \A i \in 1..Len(gaps) : gaps[i] \in Gap
BY DEF TypeOK, Positions

\* A batch draws on the ids that the gaps name, and on nothing else.
LEMMA BatchFacts ==
  ASSUME TypeOK, NEW t \in Batches
  PROVE  /\ t \in [1..Len(gaps) -> SUBSET ID]
         /\ \A i \in 1..Len(gaps) : t[i] \subseteq gaps[i].children
<1> DEFINE offer(i) == IF i \in Expandable THEN gaps[i].children ELSE {}
           upTo(k, part) ==
             [i \in Positions |-> IF i < k THEN offer(i) ELSE IF i = k THEN part ELSE {}]
<1>1. PICK k \in Expandable : \E part \in SUBSET offer(k) : t = upTo(k, part)
      BY DEF Batches
<1>2. \A i \in 1..Len(gaps) : offer(i) \subseteq gaps[i].children /\ offer(i) \subseteq ID
      BY PositionsFact DEF Gap
<1> QED  BY <1>1, <1>2, PositionsFact

\* Taking requested ids off a gap leaves a gap, with the ids not requested.
LEMMA ReducedFacts ==
  ASSUME TypeOK, NEW i \in 1..Len(gaps)
  PROVE  /\ Reduced[i] \in Gap /\ Reduced[i].type = gaps[i].type
         /\ Reduced[i].children = IF i \in Used(take) THEN gaps[i].children \ Requested(take)
                                                      ELSE gaps[i].children
<1>1. gaps[i] \in Gap /\ i \in Positions
      BY PositionsFact
<1>2. gaps[i].children \ Requested(take) \in SUBSET ID
      BY <1>1 DEF Gap
<1>3. Cardinality(gaps[i].children \ Requested(take)) \in Nat
      BY <1>2, IDSetSize
<1>4. Reduced[i] = IF i \in Used(take)
                   THEN [gaps[i] EXCEPT !.children = Remaining(i),
                                        !.count = Cardinality(Remaining(i))]
                   ELSE gaps[i]
      BY <1>1 DEF Reduced
<1> QED  BY <1>1, <1>2, <1>3, <1>4 DEF Remaining, Gap

\* The gaps after a merge: the reduced ones, and those of the reply.
LEMMA MergedGaps ==
  ASSUME TypeOK, NEW r \in Listing, Merge(r)
  PROVE  /\ gaps' \in Seq(Gap) /\ Len(gaps') = Len(gaps) + Len(r.gaps) /\ Len(r.gaps) \in Nat
         /\ \A i \in 1..Len(gaps) : gaps'[i] = Reduced[i]
<1>1. r.gaps \in Seq(Gap)
      BY DEF Listing
<1>2. Len(gaps) \in Nat /\ Len(r.gaps) \in Nat
      BY <1>1, PositionsFact
<1>3. \A i \in 1..Len(gaps) : Reduced[i] \in Gap
      BY ReducedFacts
<1>4. \A i \in 1..(Len(gaps) + Len(r.gaps)) :
        i \notin 1..Len(gaps) => r.gaps[i - Len(gaps)] \in Gap
      BY <1>1, <1>2
<1>5. gaps' \in [1..(Len(gaps) + Len(r.gaps)) -> Gap]
      BY <1>2, <1>3, <1>4 DEF Merge
<1>6. \A i \in 1..Len(gaps) : gaps'[i] = Reduced[i]
      BY <1>2 DEF Merge
<1>7. Len(gaps) + Len(r.gaps) \in Nat
      BY <1>2
<1>8. gaps' \in Seq(Gap) /\ Len(gaps') = Len(gaps) + Len(r.gaps)
      BY <1>5, <1>7, SegmentSeq
<1> QED  BY <1>2, <1>6, <1>8

-----------------------------------------------------------------------------
(* The steps of the expansion *)

\* Every step keeps the variables in their types and the rounds in the budget.
LEMMA TypeStep ==
  ASSUME ExpansionInv, ExpansionStep
  PROVE  TypeOK' /\ RoundInBudget'
<1> USE DEF ExpansionInv, RoundInBudget
<1>1. CASE Collect
  <2>1. take' \in [1..Len(gaps) -> SUBSET ID]
        BY <1>1, BatchFacts DEF Collect
  <2>2. askedOf' \in [1..Len(gaps) -> SUBSET ID]
    <3>1. \A i \in 1..Len(gaps) : askedOf[i] \cup take'[i] \in SUBSET ID
          BY <2>1 DEF TypeOK
    <3> QED  BY <1>1, <3>1, PositionsFact DEF Collect
  <2> QED  BY <1>1, <2>1, <2>2 DEF Collect, BudgetLeft, TypeOK
<1>2. CASE Stop \/ FetchFails
      BY <1>2 DEF Stop, FetchFails, TypeOK
<1>3. ASSUME NEW r \in Listing, Merge(r)
      PROVE  TypeOK' /\ RoundInBudget'
  <2> DEFINE n == Len(gaps) + Len(r.gaps)
  <2>1. gaps' \in Seq(Gap) /\ Len(gaps') = n /\ Len(gaps) \in Nat /\ Len(r.gaps) \in Nat
        BY <1>3, MergedGaps, PositionsFact
  <2>2. comments' \in [ID -> Nat]
    <3>1. r.comments \in [ID -> Nat]
          BY DEF Listing
    <3> QED  BY <1>3, <3>1 DEF Merge, Dedupe, TypeOK
  <2>3. listed' \subseteq 1..n
    <3>1. 1..Len(gaps) \subseteq 1..n /\ (Len(gaps) + 1)..n \subseteq 1..n
          BY <2>1
    <3>2. listed' \subseteq listed \cup (Len(gaps) + 1)..n
          BY <1>3 DEF Merge
    <3> QED  BY <3>1, <3>2 DEF TypeOK
  <2>4. take' \in [1..n -> SUBSET ID]
        BY <1>3 DEF Merge
  <2>5. askedOf' \in [1..n -> SUBSET ID]
        BY <1>3, <2>1 DEF Merge, TypeOK
  <2>6. /\ round' \in Nat /\ rounds' \in Nat /\ budget' = budget /\ pc' \in {"strip", "collect"}
        /\ round' > 0 => round' <= budget
        /\ rounds' > 0 => rounds' <= budget
        BY <1>3 DEF Merge, TypeOK
  <2> QED  BY <2>1, <2>2, <2>3, <2>4, <2>5, <2>6 DEF TypeOK
<1>4. CASE Strip
  <2>1. \A i \in 1..Len(gaps) : /\ gaps[i] \in Gap
                                /\ [gaps[i] EXCEPT !.children = {}] \in Gap
        BY PositionsFact DEF Gap
  <2>2. gaps' \in [1..Len(gaps) -> Gap]
        BY <1>4, <2>1, PositionsFact DEF Strip
  <2>3. gaps' \in Seq(Gap) /\ Len(gaps') = Len(gaps)
        BY <2>2, PositionsFact, SegmentSeq
  <2> QED  BY <1>4, <2>3 DEF Strip, TypeOK
<1>5. CASE UNCHANGED vars
      BY <1>5 DEF vars, TypeOK
<1> QED  BY <1>1, <1>2, <1>3, <1>4, <1>5 DEF ExpansionStep

\* Every step keeps the batch among the requested ids.
LEMMA BatchStep ==
  ASSUME ExpansionInv, ExpansionStep
  PROVE  BatchAsked'
<1> USE DEF ExpansionInv, BatchAsked
<1>1. CASE Collect
      BY <1>1, PositionsFact DEF Collect
<1>2. CASE Stop \/ FetchFails
      BY <1>2 DEF Stop, FetchFails
<1>3. ASSUME NEW r \in Listing, Merge(r)
      PROVE  BatchAsked'
      BY <1>3, MergedGaps DEF Merge
<1>4. CASE Strip
  <2>1. Len(gaps') = Len(gaps)
    <3>1. gaps' \in [1..Len(gaps) -> Gap]
          BY <1>4, PositionsFact DEF Strip, Gap
    <3> QED  BY <3>1, PositionsFact, SegmentSeq
  <2> QED  BY <1>4, <2>1 DEF Strip
<1>5. CASE UNCHANGED vars
      BY <1>5 DEF vars
<1> QED  BY <1>1, <1>2, <1>3, <1>4, <1>5 DEF ExpansionStep

\* Every step keeps requested ids off the gaps, apart from the batch.
LEMMA FreshStep ==
  ASSUME ExpansionInv, ExpansionStep
  PROVE  ListedFresh'
<1> USE DEF ExpansionInv, ListedFresh
<1>0. listed \subseteq 1..Len(gaps) /\ Len(gaps) \in Nat /\ Positions = 1..Len(gaps)
      BY PositionsFact DEF TypeOK
<1>1. CASE Collect
  <2>1. \A i \in listed : gaps[i].children \cap askedOf[i] = {}
        BY <1>0, <1>1 DEF Collect, BatchAsked
  <2>2. \A i \in listed : askedOf'[i] = askedOf[i] \cup take'[i]
        BY <1>0, <1>1 DEF Collect
  <2> QED  BY <1>1, <2>1, <2>2 DEF Collect
<1>2. CASE Stop \/ FetchFails
      BY <1>2 DEF Stop, FetchFails
<1>3. ASSUME NEW r \in Listing, Merge(r)
      PROVE  ListedFresh'
  <2>1. SUFFICES ASSUME NEW i \in listed'
                 PROVE  gaps'[i].children \cap askedOf'[i] = {}
        OBVIOUS
  <2>2. Len(r.gaps) \in Nat /\ \A j \in 1..Len(gaps) : gaps'[j] = Reduced[j]
        BY <1>3, MergedGaps
  <2>3. CASE i \in 1..Len(gaps)
    <3>1. i \in listed /\ askedOf'[i] = askedOf[i]
          BY <1>0, <1>3, <2>2, <2>3 DEF Merge
    <3>2. gaps[i].children \cap askedOf[i] \subseteq take[i]
          BY <3>1
    <3>3. i \in DOMAIN take
          BY <2>3 DEF TypeOK
    <3>4. gaps'[i].children = IF i \in Used(take) THEN gaps[i].children \ Requested(take)
                                                  ELSE gaps[i].children
          BY <2>2, <2>3, ReducedFacts
    <3>5. CASE i \in Used(take)
          BY <3>1, <3>2, <3>3, <3>4, <3>5 DEF Requested
    <3>6. CASE i \notin Used(take)
      <4>1. take[i] = {}
            BY <3>3, <3>6 DEF Used
      <4> QED  BY <3>1, <3>2, <3>4, <3>6, <4>1
    <3> QED  BY <3>5, <3>6
  <2>4. CASE i \notin 1..Len(gaps)
    <3>1. i \in (Len(gaps) + 1)..(Len(gaps) + Len(r.gaps))
          BY <1>0, <1>3, <2>4 DEF Merge
    <3>2. askedOf'[i] = {}
          BY <1>0, <1>3, <2>2, <3>1 DEF Merge
    <3> QED  BY <3>2
  <2> QED  BY <2>3, <2>4
<1>4. CASE Strip
  <2>1. \A i \in listed : gaps'[i].children \subseteq gaps[i].children
        BY <1>0, <1>4, PositionsFact DEF Strip, Gap
  <2> QED  BY <1>4, <2>1 DEF Strip
<1>5. CASE UNCHANGED vars
      BY <1>5 DEF vars
<1> QED  BY <1>1, <1>2, <1>3, <1>4, <1>5 DEF ExpansionStep

\* No step loses an id that was never asked for, nor a "continue" link.
LEMMA KeptStep ==
  ASSUME ExpansionInv, ExpansionStep
  PROVE  Kept \/ UNCHANGED vars
<1> USE DEF Kept
<1>0. listed \subseteq 1..Len(gaps) /\ Len(gaps) \in Nat /\ Positions = 1..Len(gaps)
      BY PositionsFact DEF ExpansionInv, TypeOK
<1>1. CASE Collect \/ Stop \/ FetchFails
      BY <1>1 DEF Collect, Stop, FetchFails, Pending
<1>2. CASE Strip
      BY <1>2 DEF Strip
<1>3. ASSUME NEW r \in Listing, Merge(r)
      PROVE  Kept
  <2>1. /\ Len(r.gaps) \in Nat /\ Len(gaps') = Len(gaps) + Len(r.gaps) /\ gaps' \in Seq(Gap)
        /\ \A j \in 1..Len(gaps) : gaps'[j] = Reduced[j]
        BY <1>3, MergedGaps DEF ExpansionInv
  <2>2. ASSUME NEW i \in listed, gaps[i].type = "continue"
        PROVE  i \in listed'
    <3>1. ~Drops(Reduced[i])
          BY <1>0, <2>2, ReducedFacts DEF ExpansionInv, Drops
    <3> QED  BY <1>3, <3>1 DEF Merge
  <2>3. ASSUME NEW id \in Pending
        PROVE  id \in Pending' \/ id \in Asked'
    <3>1. PICK i \in listed : id \in gaps[i].children
          BY DEF Pending
    <3>2. i \in 1..Len(gaps)
          BY <1>0
    <3>3. CASE id \in Reduced[i].children
      <4>1. i \in listed' /\ gaps'[i] = Reduced[i]
            BY <1>3, <2>1, <3>2, <3>3 DEF Merge, Drops
      <4> QED  BY <3>3, <4>1 DEF Pending
    <3>4. CASE id \notin Reduced[i].children
      <4>1. id \in Requested(take)
            BY <3>1, <3>2, <3>4, ReducedFacts DEF ExpansionInv
      <4>2. PICK j \in 1..Len(gaps) : id \in take[j]
            BY <4>1 DEF Requested, ExpansionInv, TypeOK
      <4>3. id \in askedOf[j]
            BY <4>2 DEF ExpansionInv, BatchAsked
      <4>4. j \in Positions' /\ askedOf'[j] = askedOf[j]
            BY <1>0, <1>3, <2>1 DEF Merge, Positions
      <4> QED  BY <4>3, <4>4 DEF Asked
    <3> QED  BY <3>3, <3>4
  <2> QED  BY <2>2, <2>3
<1> QED  BY <1>1, <1>2, <1>3 DEF ExpansionStep

\* No step removes a comment, and none adds one that is there.
LEMMA GrowStep ==
  ASSUME ExpansionInv, ExpansionStep
  PROVE  Grow \/ UNCHANGED vars
<1> USE DEF Grow
<1>1. ASSUME NEW r \in Listing, Merge(r)
      PROVE  Grow
  <2>1. r.comments \in [ID -> Nat] /\ comments \in [ID -> Nat]
        BY DEF Listing, ExpansionInv, TypeOK
  <2> QED  BY <1>1, <2>1 DEF Merge, Dedupe
<1>2. CASE Collect \/ Stop \/ FetchFails \/ Strip
      BY <1>2 DEF Collect, Stop, FetchFails, Strip
<1> QED  BY <1>1, <1>2 DEF ExpansionStep

-----------------------------------------------------------------------------
(* The expansion by itself *)

\* The steps of RedditExpansion.
LEMMA NextIsStep ==
  ASSUME [Next]_vars
  PROVE  ExpansionStep
BY ParsedTyped DEF Next, Step, Over, ExpansionStep

\* The loop begins in the invariant.
LEMMA BeginInv ==
  ASSUME NEW t \in Listing, NEW n \in Int, Begin(t, n)
  PROVE  ExpansionInv
<1>1. t.comments \in [ID -> Nat] /\ t.gaps \in Seq(Gap)
      BY DEF Listing
<1>2. TypeOK
      BY <1>1 DEF Begin, TypeOK
<1> QED  BY <1>2 DEF Begin, ExpansionInv, RoundInBudget, BatchAsked, ListedFresh

\* ExpansionInv is an inductive invariant of the expansion loop.
THEOREM ExpansionInvariant == Spec => []ExpansionInv
<1>1. Init => ExpansionInv
      BY BeginInv, ParsedTyped, BoundsTyped DEF Init
<1>2. ExpansionInv /\ [Next]_vars => ExpansionInv'
      BY NextIsStep, TypeStep, BatchStep, FreshStep DEF ExpansionInv
<1> QED  BY <1>1, <1>2, PTL DEF Spec

\* Every variable of the loop keeps its type, and no more rounds are performed
\* than the budget allows.
THEOREM TypeCorrect == Spec => []TypeOK
<1>1. ExpansionInv => TypeOK
      BY DEF ExpansionInv
<1> QED  BY <1>1, ExpansionInvariant, PTL

\* Between rounds requested ids are off the gaps.
LEMMA InvFresh ==
  ASSUME ExpansionInv
  PROVE  NoRerequest
BY DEF ExpansionInv, TypeOK, BatchAsked, ListedFresh, NoRerequest

\* No round asks for an id again that an earlier one asked for from the same gap.
THEOREM NothingRerequested == Spec => []NoRerequest
BY InvFresh, ExpansionInvariant, PTL

\* No step loses an id that was never asked for, nor a "continue" link.
THEOREM NothingLost == Spec => NothingUnaskedLost
<1>1. ExpansionInv /\ [Next]_vars => [Kept]_vars
      BY NextIsStep, KeptStep
<1>2. Spec => [][Kept]_vars
      BY <1>1, ExpansionInvariant, PTL DEF Spec
<1> QED  BY <1>2 DEF NothingUnaskedLost, Kept

\* No step removes a comment, and none adds one that is there.
THEOREM CommentsGrow == Spec => CommentsGrowOnce
<1>1. ExpansionInv /\ [Next]_vars => [Grow]_vars
      BY NextIsStep, GrowStep
<1>2. Spec => [][Grow]_vars
      BY <1>1, ExpansionInvariant, PTL DEF Spec
<1> QED  BY <1>2 DEF CommentsGrowOnce, Grow

-----------------------------------------------------------------------------
(* Induction *)

\* Every set of naturals with a member has a least one.
LEMMA LeastNatural ==
  ASSUME NEW T \in SUBSET Nat, T # {}
  PROVE  \E n \in T : \A m \in T : n <= m
<1> DEFINE R == {s \in Nat \X Nat : s[1] < s[2]}
<1>1. \A m, n \in Nat : <<m, n>> \notin R => n <= m
      OBVIOUS
<1>2. IsWellFoundedOn(R, Nat)
      BY NatLessThanWellFounded, Zenon DEF OpToRel
<1>3. \E n \in T : \A m \in T : <<m, n>> \notin R
  <2> HIDE DEF R
  <2> QED  BY <1>2, WFMin
<1> QED  BY <1>1, <1>3

\* A set of naturals with zero and with every member's successor has them all.
LEMMA SetInduction ==
  ASSUME NEW S \in SUBSET Nat, 0 \in S, \A n \in S : n + 1 \in S
  PROVE  \A n \in Nat : n \in S
<1> SUFFICES ASSUME Nat \ S # {} PROVE FALSE
    OBVIOUS
<1>1. PICK n \in Nat \ S : \A m \in Nat \ S : n <= m
      BY LeastNatural
<1>2. n - 1 \in S
      BY <1>1
<1> QED  BY <1>1, <1>2

-----------------------------------------------------------------------------
(* Positions *)

Position == {p \in Seq(Nat \ {0}) : p # <<>>}

\* The entries of a position, of its first reply's and of the next one's.
LEMMA PositionFacts ==
  ASSUME NEW p \in Position
  PROVE  /\ Len(p) \in Nat \ {0} /\ DOMAIN p = 1..Len(p)
         /\ \A k \in 1..Len(p) : p[k] \in Nat \ {0}
         /\ FirstReply(p) \in Position /\ Len(FirstReply(p)) = Len(p) + 1
         /\ \A k \in 1..Len(p) : FirstReply(p)[k] = p[k]
         /\ FirstReply(p)[Len(p) + 1] = 1
         /\ NextTo(p) \in Position /\ Len(NextTo(p)) = Len(p)
         /\ \A k \in 1..Len(p) : NextTo(p)[k] = IF k = Len(p) THEN p[k] + 1 ELSE p[k]
<1>1. p \in Seq(Nat \ {0}) /\ p # <<>>
      BY DEF Position
<1>2. Len(p) \in Nat \ {0} /\ DOMAIN p = 1..Len(p) /\ \A k \in 1..Len(p) : p[k] \in Nat \ {0}
      BY <1>1, EmptySeq, LenProperties, ElementOfSeq
<1>3. /\ FirstReply(p) \in Position /\ Len(FirstReply(p)) = Len(p) + 1
      /\ \A k \in 1..Len(p) : FirstReply(p)[k] = p[k]
      /\ FirstReply(p)[Len(p) + 1] = 1
      BY <1>1, <1>2, AppendProperties DEF FirstReply, Position
<1>4. /\ NextTo(p) \in Position /\ Len(NextTo(p)) = Len(p)
      /\ \A k \in 1..Len(p) : NextTo(p)[k] = IF k = Len(p) THEN p[k] + 1 ELSE p[k]
  <2>1. p[Len(p)] + 1 \in Nat \ {0} /\ Len(p) \in 1..Len(p)
        BY <1>2
  <2>2. NextTo(p) = [p EXCEPT ![Len(p)] = p[Len(p)] + 1]
        BY DEF NextTo
  <2>3. /\ NextTo(p) \in Seq(Nat \ {0}) /\ Len(NextTo(p)) = Len(p)
        /\ \A k \in 1..Len(p) : NextTo(p)[k] = IF k = Len(p) THEN p[Len(p)] + 1 ELSE p[k]
        BY <1>1, <2>1, <2>2, ExceptSeq
  <2> QED  BY <1>2, <2>3, EmptySeq DEF Position
<1> QED  BY <1>2, <1>3, <1>4

\* The things the walk goes through from p on: p, what is below it, and the later
\* things of its list with what is below them.
Region(raw, p) ==
  {q \in DOMAIN raw : /\ Len(p) <= Len(q) /\ p[Len(p)] <= q[Len(p)]
                      /\ \A k \in 1..(Len(p) - 1) : p[k] = q[k]}

\* The region of p is p itself, the region of its first reply, which is what is
\* below p, and the region of the next thing, in this order.
LEMMA RegionSplit ==
  ASSUME NEW raw, DOMAIN raw \subseteq Position, NEW p \in DOMAIN raw
  PROVE  /\ Region(raw, p) = {p} \cup Region(raw, FirstReply(p)) \cup Region(raw, NextTo(p))
         /\ p \notin Region(raw, FirstReply(p)) /\ p \notin Region(raw, NextTo(p))
         /\ \A q \in DOMAIN raw : q \in Region(raw, FirstReply(p)) <=> Above(p, q)
         /\ \A q \in Region(raw, FirstReply(p)) : Before(p, q)
         /\ \A q \in Region(raw, NextTo(p)) : Before(p, q)
         /\ \A q \in Region(raw, FirstReply(p)), t \in Region(raw, NextTo(p)) : Before(q, t)
<1> DEFINE m == Len(p)
           F == Region(raw, FirstReply(p))
           N == Region(raw, NextTo(p))
<1>1. /\ m \in Nat \ {0} /\ \A k \in 1..m : p[k] \in Nat \ {0}
      /\ Len(FirstReply(p)) = m + 1 /\ \A k \in 1..m : FirstReply(p)[k] = p[k]
      /\ FirstReply(p)[m + 1] = 1
      /\ Len(NextTo(p)) = m
      /\ \A k \in 1..m : NextTo(p)[k] = IF k = m THEN p[k] + 1 ELSE p[k]
      BY PositionFacts
<1>2. \A q \in DOMAIN raw : /\ Len(q) \in Nat \ {0}
                            /\ \A k \in 1..Len(q) : q[k] \in Nat \ {0}
      BY PositionFacts
<1>3. \A q \in DOMAIN raw : q \in F <=> Above(p, q)
  <2> SUFFICES ASSUME NEW q \in DOMAIN raw PROVE q \in F <=> Above(p, q)
      OBVIOUS
  <2>1. q \in F <=> /\ m + 1 <= Len(q) /\ 1 <= q[m + 1]
                    /\ \A k \in 1..m : p[k] = q[k]
        BY <1>1 DEF Region
  <2> QED  BY <1>1, <1>2, <2>1 DEF Above
<1>4. \A q \in DOMAIN raw : q \in N <=> /\ m <= Len(q) /\ p[m] < q[m]
                                       /\ \A k \in 1..(m - 1) : p[k] = q[k]
  <2> SUFFICES ASSUME NEW q \in DOMAIN raw
               PROVE  q \in N <=> /\ m <= Len(q) /\ p[m] < q[m]
                                  /\ \A k \in 1..(m - 1) : p[k] = q[k]
      OBVIOUS
  <2>1. q \in N <=> /\ m <= Len(q) /\ p[m] + 1 <= q[m]
                    /\ \A k \in 1..(m - 1) : p[k] = q[k]
        BY <1>1 DEF Region
  <2>2. m <= Len(q) => q[m] \in Nat /\ p[m] \in Nat
        BY <1>1, <1>2
  <2> QED  BY <2>1, <2>2
<1>5. \A q \in DOMAIN raw : q \in Region(raw, p) <=> q = p \/ q \in F \/ q \in N
  <2> SUFFICES ASSUME NEW q \in DOMAIN raw
               PROVE  q \in Region(raw, p) <=> q = p \/ q \in F \/ q \in N
      OBVIOUS
  <2>1. q \in Region(raw, p) <=> /\ m <= Len(q) /\ p[m] <= q[m]
                                 /\ \A k \in 1..(m - 1) : p[k] = q[k]
        BY DEF Region
  <2>2. CASE m <= Len(q) /\ p[m] = q[m] /\ \A k \in 1..(m - 1) : p[k] = q[k]
    <3>1. \A k \in 1..m : p[k] = q[k]
          BY <1>1, <2>2
    <3>2. m = Len(q) => p = q
          BY <3>1, SeqEqual DEF Position
    <3> QED  BY <1>1, <1>2, <1>3, <2>1, <2>2, <3>1, <3>2 DEF Above
  <2>3. CASE ~(m <= Len(q) /\ p[m] = q[m] /\ \A k \in 1..(m - 1) : p[k] = q[k])
    <3>1. q # p /\ ~Above(p, q)
          BY <1>1, <1>2, <2>3 DEF Above
    <3>2. m <= Len(q) => q[m] \in Nat /\ p[m] \in Nat
          BY <1>1, <1>2
    <3> QED  BY <1>3, <1>4, <2>1, <2>3, <3>1, <3>2
  <2> QED  BY <2>2, <2>3
<1>6. p \notin F /\ p \notin N
      BY <1>1, <1>3, <1>4 DEF Above
<1>7. ASSUME NEW q \in N PROVE Before(p, q)
  <2>1. q \in DOMAIN raw
        BY DEF Region
  <2>2. m \in 1..Len(p) /\ m <= Len(q) /\ p[m] < q[m] /\ \A k \in 1..(m - 1) : p[k] = q[k]
        BY <1>1, <1>4, <2>1
  <2> QED  BY <2>2, Zenon DEF Before
<1>8. ASSUME NEW q \in F, NEW t \in N PROVE Before(q, t)
  <2>1. q \in DOMAIN raw /\ t \in DOMAIN raw
        BY DEF Region
  <2>2. m < Len(q) /\ m <= Len(t) /\ q[m] < t[m] /\ \A k \in 1..(m - 1) : q[k] = t[k]
        BY <1>1, <1>3, <1>4, <2>1 DEF Above
  <2>3. m \in 1..Len(q)
        BY <1>1, <1>2, <2>1, <2>2
  <2> QED  BY <2>2, <2>3, Zenon DEF Before
<1>9. F \subseteq DOMAIN raw /\ N \subseteq DOMAIN raw /\ Region(raw, p) \subseteq DOMAIN raw
      BY DEF Region
<1> QED  BY <1>3, <1>5, <1>6, <1>7, <1>8, <1>9 DEF Before

-----------------------------------------------------------------------------
(* walkChildren is well defined *)

\* How many things the walk goes through from p on.
Rank(raw, p) == Cardinality(Region(raw, p))

\* A listing's positions are positions, and if one thing is in a region, so is the
\* thing the region starts with.
LEMMA ListingFacts ==
  ASSUME NEW raw, NEW ids, IsListing(raw, ids)
  PROVE  /\ IsFiniteSet(DOMAIN raw) /\ DOMAIN raw \subseteq Position
         /\ \A p \in Position : Region(raw, p) # {} => p \in DOMAIN raw
<1>1. IsFiniteSet(DOMAIN raw) /\ DOMAIN raw \subseteq Position
      BY DEF IsListing, Position
<1>2. ASSUME NEW p \in Position, NEW q \in Region(raw, p)
      PROVE  p \in DOMAIN raw
  <2> DEFINE m == Len(p)
             t == [SubSeq(q, 1, m) EXCEPT ![m] = p[m]]
  <2>1. /\ q \in DOMAIN raw /\ m <= Len(q) /\ p[m] <= q[m]
        /\ \A k \in 1..(m - 1) : p[k] = q[k]
        BY <1>2 DEF Region
  <2>2. /\ m \in Nat \ {0} /\ \A k \in 1..m : p[k] \in Nat \ {0}
        /\ Len(q) \in Nat \ {0} /\ \A k \in 1..Len(q) : q[k] \in Nat \ {0}
        BY <1>1, <2>1, PositionFacts
  <2>3. m \in 1..Len(q) /\ p[m] \in 1..q[m]
        BY <2>1, <2>2
  <2>4. t \in DOMAIN raw
        BY <2>1, <2>3 DEF IsListing
  <2>5. /\ SubSeq(q, 1, m) \in Seq(Nat \ {0}) /\ Len(SubSeq(q, 1, m)) = m
        /\ \A k \in 1..m : SubSeq(q, 1, m)[k] = q[k]
    <3>1. \A k \in 1..m : q[k] \in Nat \ {0}
          BY <2>2, <2>3
    <3>2. m \in Int /\ 1 \in Int
          BY <2>2
    <3>3. /\ SubSeq(q, 1, m) \in Seq(Nat \ {0})
          /\ Len(SubSeq(q, 1, m)) = IF 1 <= m THEN m - 1 + 1 ELSE 0
          /\ \A k \in 1..(m - 1 + 1) : SubSeq(q, 1, m)[k] = q[1 + k - 1]
      <4> HIDE DEF m
      <4> QED  BY <3>1, <3>2, SubSeqProperties
    <3> QED  BY <2>2, <3>3
  <2>6. /\ t \in Seq(Nat \ {0}) /\ Len(t) = m
        /\ \A k \in 1..m : t[k] = IF k = m THEN p[m] ELSE q[k]
    <3> DEFINE s == SubSeq(q, 1, m)
               e == p[m]
    <3>1. s \in Seq(Nat \ {0}) /\ Len(s) = m /\ \A k \in 1..m : s[k] = q[k]
          BY <2>5
    <3>2. m \in 1..Len(s) /\ e \in Nat \ {0}
          BY <2>2, <3>1
    <3>3. t = [s EXCEPT ![m] = e]
          OBVIOUS
    <3> HIDE DEF m, s, e, t
    <3>4. /\ [s EXCEPT ![m] = e] \in Seq(Nat \ {0}) /\ Len([s EXCEPT ![m] = e]) = Len(s)
          /\ \A k \in 1..Len(s) : [s EXCEPT ![m] = e][k] = IF k = m THEN e ELSE s[k]
          BY <3>1, <3>2, ExceptSeq
    <3> QED  BY <3>1, <3>3, <3>4 DEF e
  <2>7. \A k \in 1..m : t[k] = p[k]
    <3> HIDE DEF t
    <3> QED  BY <2>1, <2>2, <2>6
  <2>8. t = p
    <3> HIDE DEF t
    <3> QED  BY <2>6, <2>7, SeqEqual DEF Position
  <2> QED  BY <2>4, <2>8
<1> QED  BY <1>1, <1>2

\* The walk goes on to regions with fewer things.
LEMMA RankFacts ==
  ASSUME NEW raw, NEW ids, IsListing(raw, ids), NEW p \in DOMAIN raw
  PROVE  /\ Rank(raw, p) \in Nat
         /\ Rank(raw, FirstReply(p)) < Rank(raw, p)
         /\ Rank(raw, NextTo(p)) < Rank(raw, p)
<1> DEFINE F == Region(raw, FirstReply(p))
           N == Region(raw, NextTo(p))
           R == Region(raw, p)
<1>1. IsFiniteSet(DOMAIN raw) /\ DOMAIN raw \subseteq Position
      BY ListingFacts
<1>2. R = {p} \cup F \cup N /\ p \notin F /\ p \notin N /\ R \subseteq DOMAIN raw
      BY <1>1, RegionSplit DEF Region
<1> HIDE DEF F, N, R
<1>3. IsFiniteSet(R) /\ Cardinality(R) \in Nat
      BY <1>1, <1>2, FS_Subset, FS_CardinalityType
<1>4. F \subseteq R /\ F # R /\ N \subseteq R /\ N # R
      BY <1>2
<1>5. Cardinality(F) < Cardinality(R) /\ Cardinality(N) < Cardinality(R)
      BY <1>3, <1>4, FS_Subset, FS_CardinalityType
<1> QED  BY <1>3, <1>5 DEF Rank, F, N, R

\* The recursion has a solution: from the end of the listing backwards, a walk over
\* the things of rank less than n gives one over those of rank n.
LEMMA WalkUnfolds ==
  ASSUME NEW raw, NEW ids, IsListing(raw, ids), NEW o
  PROVE  walkChildren(raw, o) =
           [p \in DOMAIN raw |-> Visit(walkChildren(raw, o), raw, p, o)]
<1> DEFINE D(n) == {p \in DOMAIN raw : Rank(raw, p) < n}
           Solves(w, n) == w = [p \in D(n) |-> Visit(w, raw, p, o)]
           S == {n \in Nat : \E w : Solves(w, n)}
<1>1. 0 \in S
  <2>1. D(0) = {}
        BY RankFacts
  <2>2. \A w : [p \in {} |-> Visit(w, raw, p, o)] = [p \in {} |-> Nothing]
        OBVIOUS
  <2>3. Solves([p \in {} |-> Nothing], 0)
        BY <2>1, <2>2
  <2> QED  BY <2>3
<1>2. ASSUME NEW n \in S PROVE n + 1 \in S
  <2>1. n \in Nat
        OBVIOUS
  <2>2. PICK w : Solves(w, n)
        OBVIOUS
  <2> DEFINE v == [p \in D(n + 1) |-> Visit(w, raw, p, o)]
  <2>3. DOMAIN w = D(n) /\ \A p \in D(n) : w[p] = Visit(w, raw, p, o)
        BY <2>2
  <2>4. D(n) \subseteq D(n + 1)
        BY <2>1, RankFacts
  <2>5. DOMAIN v = D(n + 1) /\ \A p \in D(n) : v[p] = w[p]
        BY <2>3, <2>4
  <2>6. ASSUME NEW p \in D(n + 1)
        PROVE  Visit(v, raw, p, o) = Visit(w, raw, p, o)
    <3>1. \A q \in {FirstReply(p), NextTo(p)} : q \in DOMAIN raw => q \in D(n)
          BY <2>1, RankFacts
    <3>2. D(n) \subseteq DOMAIN raw /\ D(n + 1) \subseteq DOMAIN raw
          OBVIOUS
    <3>3. \A q \in {FirstReply(p), NextTo(p)} : From(v, q) = From(w, q)
      <4> HIDE DEF v, D
      <4> QED  BY <2>3, <2>4, <2>5, <3>1, <3>2 DEF From
    <3> HIDE DEF v, D
    <3> QED  BY <3>3 DEF Visit
  <2>7. v = [p \in D(n + 1) |-> Visit(v, raw, p, o)]
    <3> HIDE DEF D
    <3>1. [p \in D(n + 1) |-> Visit(v, raw, p, o)] = [p \in D(n + 1) |-> Visit(w, raw, p, o)]
      <4> HIDE DEF v
      <4> QED  BY <2>6
    <3> QED  BY <3>1
  <2>8. Solves(v, n + 1)
        BY <2>7
  <2> QED
    <3> HIDE DEF v, Solves
    <3> QED  BY <2>1, <2>8
<1>3. PICK n \in Nat : D(n) = DOMAIN raw
  <2>1. IsFiniteSet(DOMAIN raw)
        BY ListingFacts
  <2>2. \A p \in DOMAIN raw : Rank(raw, p) <= Cardinality(DOMAIN raw)
        BY <2>1, FS_Subset DEF Rank, Region
  <2>3. Cardinality(DOMAIN raw) + 1 \in Nat /\ Cardinality(DOMAIN raw) \in Nat
        BY <2>1, FS_CardinalityType
  <2>4. D(Cardinality(DOMAIN raw) + 1) = DOMAIN raw
        BY <2>2, <2>3, RankFacts
  <2> QED  BY <2>3, <2>4
<1>4. n \in S
  <2> HIDE DEF S
  <2>1. S \in SUBSET Nat
        BY DEF S
  <2> QED  BY <1>1, <1>2, <2>1, SetInduction
<1>5. \E w : w = [p \in DOMAIN raw |-> Visit(w, raw, p, o)]
      BY <1>3, <1>4
<1> QED  BY <1>5 DEF walkChildren

-----------------------------------------------------------------------------
(* What the walk finds *)

\* s goes through S in reading order.
Lists(s, S) ==
  /\ s \in Seq(S) /\ \A x \in S : \E i \in 1..Len(s) : s[i] = x
  /\ \A i, j \in 1..Len(s) : i < j => Before(s[i], s[j])

\* A walk that found r has found the live comments and the gaps that are in Q.
Found(raw, o, r, Q) ==
  \E s, g : /\ Lists(s, LiveRows(raw) \cap Q) /\ Lists(g, MoreRows(raw) \cap Q)
            /\ r = [comments |-> [i \in 1..Len(s) |-> makeComment(raw[s[i]], o)],
                    gaps |-> [i \in 1..Len(g) |-> makeGap(raw[g[i]])]]

\* Two lists one after the other.
LEMMA ListsConcat ==
  ASSUME NEW S, NEW T, NEW s, NEW t, Lists(s, S), Lists(t, T),
         \A x \in S, y \in T : Before(x, y)
  PROVE  Lists(s \o t, S \cup T)
<1>1. /\ s \in Seq(S \cup T) /\ t \in Seq(S \cup T) /\ Len(s) \in Nat /\ Len(t) \in Nat
      /\ \A i \in 1..Len(s) : s[i] \in S
      /\ \A i \in 1..Len(t) : t[i] \in T
      BY LenProperties, ElementOfSeq, SeqMonotonic DEF Lists
<1>2. /\ s \o t \in Seq(S \cup T) /\ Len(s \o t) = Len(s) + Len(t)
      /\ \A i \in 1..(Len(s) + Len(t)) :
           (s \o t)[i] = IF i <= Len(s) THEN s[i] ELSE t[i - Len(s)]
      BY <1>1, ConcatProperties
<1>3. ASSUME NEW x \in S \cup T PROVE \E i \in 1..Len(s \o t) : (s \o t)[i] = x
  <2>1. CASE x \in S
    <3>1. PICK i \in 1..Len(s) : s[i] = x
          BY <2>1 DEF Lists
    <3>2. i \in 1..Len(s \o t) /\ (s \o t)[i] = x
          BY <1>1, <1>2, <3>1
    <3> QED  BY <3>2
  <2>2. CASE x \in T
    <3>1. PICK i \in 1..Len(t) : t[i] = x
          BY <2>2 DEF Lists
    <3>2. Len(s) + i \in 1..Len(s \o t) /\ (s \o t)[Len(s) + i] = x
          BY <1>1, <1>2, <3>1
    <3> QED  BY <3>2
  <2> QED  BY <2>1, <2>2
<1>4. ASSUME NEW i \in 1..Len(s \o t), NEW j \in 1..Len(s \o t), i < j
      PROVE  Before((s \o t)[i], (s \o t)[j])
  <2>1. CASE j <= Len(s)
        BY <1>1, <1>2, <1>4, <2>1 DEF Lists
  <2>2. CASE i <= Len(s) /\ Len(s) < j
    <3>1. (s \o t)[i] = s[i] /\ i \in 1..Len(s)
          BY <1>1, <1>2, <2>2
    <3>2. (s \o t)[j] = t[j - Len(s)] /\ j - Len(s) \in 1..Len(t)
          BY <1>1, <1>2, <2>2
    <3> QED  BY <1>1, <3>1, <3>2
  <2>3. CASE Len(s) < i
    <3>1. /\ (s \o t)[i] = t[i - Len(s)] /\ (s \o t)[j] = t[j - Len(s)]
          /\ i - Len(s) \in 1..Len(t) /\ j - Len(s) \in 1..Len(t) /\ i - Len(s) < j - Len(s)
          BY <1>1, <1>2, <1>4, <2>3
    <3> QED  BY <3>1 DEF Lists
  <2> QED  BY <1>1, <1>2, <1>4, <2>1, <2>2, <2>3
<1> QED  BY <1>2, <1>3, <1>4 DEF Lists

\* The list of what there is of nothing.
LEMMA ListsEmpty == Lists(<<>>, {})
BY EmptySeq DEF Lists

\* The list of one thing.
LEMMA ListsOne ==
  ASSUME NEW x
  PROVE  Lists(<<x>>, {x})
BY DEF Lists

\* Lists of two walks, one after the other.
LEMMA FoundBoth ==
  ASSUME NEW raw, NEW o, NEW x, NEW y, NEW P, NEW Q, Found(raw, o, x, P), Found(raw, o, y, Q),
         \A p \in P, q \in Q : Before(p, q)
  PROVE  Found(raw, o, Both(x, y), P \cup Q)
<1> DEFINE comment(p) == makeComment(raw[p], o)
           gap(p) == makeGap(raw[p])
<1>1. PICK s, g : /\ Lists(s, LiveRows(raw) \cap P) /\ Lists(g, MoreRows(raw) \cap P)
                  /\ x = [comments |-> [i \in 1..Len(s) |-> comment(s[i])],
                          gaps |-> [i \in 1..Len(g) |-> gap(g[i])]]
      BY DEF Found
<1>2. PICK t, h : /\ Lists(t, LiveRows(raw) \cap Q) /\ Lists(h, MoreRows(raw) \cap Q)
                  /\ y = [comments |-> [i \in 1..Len(t) |-> comment(t[i])],
                          gaps |-> [i \in 1..Len(h) |-> gap(h[i])]]
      BY DEF Found
<1>3. /\ Lists(s \o t, (LiveRows(raw) \cap P) \cup (LiveRows(raw) \cap Q))
      /\ Lists(g \o h, (MoreRows(raw) \cap P) \cup (MoreRows(raw) \cap Q))
      BY <1>1, <1>2, ListsConcat
<1>4. /\ (LiveRows(raw) \cap P) \cup (LiveRows(raw) \cap Q) = LiveRows(raw) \cap (P \cup Q)
      /\ (MoreRows(raw) \cap P) \cup (MoreRows(raw) \cap Q) = MoreRows(raw) \cap (P \cup Q)
      OBVIOUS
<1>5. Both(x, y) = [comments |-> [i \in 1..Len(s \o t) |-> comment((s \o t)[i])],
                    gaps |-> [i \in 1..Len(g \o h) |-> gap((g \o h)[i])]]
  <2>1. s \in Seq(DOMAIN raw) /\ t \in Seq(DOMAIN raw)
        BY <1>1, <1>2, SeqMonotonic DEF Lists, LiveRows, Rows
  <2>2. g \in Seq(DOMAIN raw) /\ h \in Seq(DOMAIN raw)
        BY <1>1, <1>2, SeqMonotonic DEF Lists, MoreRows
  <2> HIDE DEF comment, gap
  <2>3. [i \in 1..Len(s) |-> comment(s[i])] \o [i \in 1..Len(t) |-> comment(t[i])]
          = [i \in 1..Len(s \o t) |-> comment((s \o t)[i])]
        BY <2>1, ConcatProperties
  <2>4. [i \in 1..Len(g) |-> gap(g[i])] \o [i \in 1..Len(h) |-> gap(h[i])]
          = [i \in 1..Len(g \o h) |-> gap((g \o h)[i])]
        BY <2>2, ConcatProperties
  <2> QED  BY <1>1, <1>2, <2>3, <2>4 DEF Both
<1> QED  BY <1>3, <1>4, <1>5 DEF Found

\* There is nothing to find where there are no live comments and no gaps.
LEMMA FoundNothing ==
  ASSUME NEW raw, NEW o, NEW Q, LiveRows(raw) \cap Q = {}, MoreRows(raw) \cap Q = {}
  PROVE  Found(raw, o, Nothing, Q)
<1>1. Nothing = [comments |-> [i \in 1..Len(<<>>) |-> makeComment(raw[<<>>[i]], o)],
                 gaps |-> [i \in 1..Len(<<>>) |-> makeGap(raw[<<>>[i]])]]
  <2>1. 1..Len(<<>>) = {} /\ \A f : DOMAIN f = {} /\ f = [i \in {} |-> f[i]] => f = <<>>
        OBVIOUS
  <2> QED  BY <2>1 DEF Nothing
<1> QED  BY <1>1, ListsEmpty DEF Found

\* What is above a thing's first reply, and above the next thing of its list.
LEMMA AboveFacts ==
  ASSUME NEW p \in Position, NEW q \in Position
  PROVE  /\ Above(q, FirstReply(p)) <=> Above(q, p) \/ q = p
         /\ Above(q, NextTo(p)) <=> Above(q, p)
<1>1. /\ Len(p) \in Nat \ {0} /\ \A k \in 1..Len(p) : p[k] \in Nat \ {0}
      /\ Len(FirstReply(p)) = Len(p) + 1 /\ \A k \in 1..Len(p) : FirstReply(p)[k] = p[k]
      /\ Len(NextTo(p)) = Len(p)
      /\ \A k \in 1..Len(p) : NextTo(p)[k] = IF k = Len(p) THEN p[k] + 1 ELSE p[k]
      /\ Len(q) \in Nat \ {0}
      BY PositionFacts
<1>2. Len(q) = Len(p) /\ (\A k \in 1..Len(q) : q[k] = p[k]) => q = p
      BY SeqEqual DEF Position
<1>3. Above(q, FirstReply(p)) <=> Len(q) < Len(p) + 1 /\ \A k \in 1..Len(q) : q[k] = p[k]
      BY <1>1 DEF Above
<1>4. Above(q, NextTo(p)) <=> Above(q, p)
      BY <1>1 DEF Above
<1> QED  BY <1>1, <1>2, <1>3, <1>4 DEF Above

\* A thing by itself is a live comment, a gap, or nothing the walk is to find.
LEMMA OwnFound ==
  ASSUME NEW raw, NEW o, NEW p \in DOMAIN raw, Reachable(raw, p),
         NEW own,
         own = IF raw[p].kind = "t1" /\ ~isRemovedComment(raw[p])
               THEN [comments |-> <<makeComment(raw[p], o)>>, gaps |-> <<>>]
               ELSE IF raw[p].kind = "more"
               THEN [comments |-> <<>>, gaps |-> <<makeGap(raw[p])>>]
               ELSE Nothing
  PROVE  Found(raw, o, own, {p})
<1>0. /\ Len(<<p>>) = 1 /\ <<p>>[1] = p /\ Len(<<>>) = 0
      /\ \A x : <<x>> = [i \in 1..1 |-> x] /\ <<>> = [i \in 1..0 |-> x]
      OBVIOUS
<1>1. CASE raw[p].kind = "t1" /\ ~isRemovedComment(raw[p])
  <2>1. LiveRows(raw) \cap {p} = {p} /\ MoreRows(raw) \cap {p} = {}
        BY <1>1 DEF LiveRows, MoreRows, Rows, isRemovedComment
  <2>2. Lists(<<p>>, LiveRows(raw) \cap {p}) /\ Lists(<<>>, MoreRows(raw) \cap {p})
        BY <2>1, ListsOne, ListsEmpty
  <2>3. /\ <<makeComment(raw[p], o)>> = [i \in 1..Len(<<p>>) |-> makeComment(raw[<<p>>[i]], o)]
        /\ <<>> = [i \in 1..Len(<<>>) |-> makeGap(raw[<<>>[i]])]
        BY <1>0
  <2>4. own = [comments |-> [i \in 1..Len(<<p>>) |-> makeComment(raw[<<p>>[i]], o)],
               gaps |-> [i \in 1..Len(<<>>) |-> makeGap(raw[<<>>[i]])]]
        BY <1>1, <2>3
  <2> QED  BY <2>2, <2>4, Zenon DEF Found
<1>2. CASE raw[p].kind = "more"
  <2>1. LiveRows(raw) \cap {p} = {} /\ MoreRows(raw) \cap {p} = {p}
        BY <1>2 DEF LiveRows, MoreRows, Rows
  <2>2. Lists(<<>>, LiveRows(raw) \cap {p}) /\ Lists(<<p>>, MoreRows(raw) \cap {p})
        BY <2>1, ListsOne, ListsEmpty
  <2>3. /\ <<>> = [i \in 1..Len(<<>>) |-> makeComment(raw[<<>>[i]], o)]
        /\ <<makeGap(raw[p])>> = [i \in 1..Len(<<p>>) |-> makeGap(raw[<<p>>[i]])]
        BY <1>0
  <2>4. own = [comments |-> [i \in 1..Len(<<>>) |-> makeComment(raw[<<>>[i]], o)],
               gaps |-> [i \in 1..Len(<<p>>) |-> makeGap(raw[<<p>>[i]])]]
        BY <1>2, <2>3
  <2> QED  BY <2>2, <2>4, Zenon DEF Found
<1>3. CASE raw[p].kind # "more" /\ (raw[p].kind = "t1" => isRemovedComment(raw[p]))
  <2>1. LiveRows(raw) \cap {p} = {} /\ MoreRows(raw) \cap {p} = {}
        BY <1>3 DEF LiveRows, MoreRows, Rows, isRemovedComment
  <2> QED  BY <1>3, <2>1, FoundNothing
<1> QED  BY <1>1, <1>2, <1>3

\* From any thing that the walk comes to, it finds what is in the thing's region.
LEMMA WalkFinds ==
  ASSUME NEW raw, NEW ids, IsListing(raw, ids), NEW o,
         NEW p \in DOMAIN raw, Reachable(raw, p)
  PROVE  Found(raw, o, walkChildren(raw, o)[p], Region(raw, p))
<1> DEFINE w == walkChildren(raw, o)
           Right(q) == Found(raw, o, w[q], Region(raw, q))
           S == {n \in Nat : \A q \in DOMAIN raw :
                               Rank(raw, q) < n /\ Reachable(raw, q) => Right(q)}
<1>0. /\ DOMAIN w = DOMAIN raw /\ \A q \in DOMAIN raw : w[q] = Visit(w, raw, q, o)
      /\ DOMAIN raw \subseteq Position
      /\ \A q \in Position : Region(raw, q) # {} => q \in DOMAIN raw
      BY WalkUnfolds, ListingFacts
<1> HIDE DEF w
<1>1. 0 \in S
      BY RankFacts
<1>2. ASSUME NEW n \in S PROVE n + 1 \in S
  <2> SUFFICES ASSUME NEW q \in DOMAIN raw, Rank(raw, q) < n + 1, Reachable(raw, q)
               PROVE  Right(q)
      OBVIOUS
  <2> DEFINE F == Region(raw, FirstReply(q))
             N == Region(raw, NextTo(q))
             own == IF raw[q].kind = "t1" /\ ~isRemovedComment(raw[q])
                    THEN [comments |-> <<makeComment(raw[q], o)>>, gaps |-> <<>>]
                    ELSE IF raw[q].kind = "more"
                    THEN [comments |-> <<>>, gaps |-> <<makeGap(raw[q])>>]
                    ELSE Nothing
             below == IF raw[q].kind = "t1" /\ hasReplies(raw[q])
                      THEN From(w, FirstReply(q)) ELSE Nothing
  <2>1. /\ Region(raw, q) = {q} \cup F \cup N
        /\ \A t \in DOMAIN raw : t \in F <=> Above(q, t)
        /\ \A t \in F : Before(q, t)
        /\ \A t \in N : Before(q, t)
        /\ \A t \in F, u \in N : Before(t, u)
        BY <1>0, RegionSplit
  <2>2. w[q] = Both(Both(own, below), From(w, NextTo(q)))
        BY <1>0 DEF Visit
  <2>3. Found(raw, o, own, {q})
        BY OwnFound
  <2>4. ASSUME NEW t \in {FirstReply(q), NextTo(q)},
               t \in DOMAIN raw => Reachable(raw, t)
        PROVE  Found(raw, o, From(w, t), Region(raw, t))
    <3>1. CASE t \in DOMAIN raw
      <4>1. Rank(raw, t) < Rank(raw, q) /\ Rank(raw, t) \in Nat /\ Rank(raw, q) \in Nat
            BY <3>1, RankFacts
      <4>2. Rank(raw, t) < n
            BY <4>1
      <4>3. Right(t)
            BY <2>4, <3>1, <4>2
      <4> QED  BY <1>0, <3>1, <4>3 DEF From
    <3>2. CASE t \notin DOMAIN raw
      <4>1. Region(raw, t) = {}
            BY <1>0, <3>2, PositionFacts
      <4> QED  BY <1>0, <3>2, <4>1, FoundNothing DEF From
    <3> QED  BY <3>1, <3>2
  <2>5. Found(raw, o, From(w, NextTo(q)), N)
    <3>1. NextTo(q) \in DOMAIN raw => Reachable(raw, NextTo(q))
          BY <1>0, AboveFacts DEF Reachable
    <3> QED  BY <2>4, <3>1
  <2>6. Found(raw, o, below, F)
    <3>1. CASE raw[q].kind = "t1" /\ hasReplies(raw[q])
      <4>1. FirstReply(q) \in DOMAIN raw => Reachable(raw, FirstReply(q))
            BY <1>0, <3>1, AboveFacts DEF Reachable, hasReplies
      <4> QED  BY <2>4, <3>1, <4>1
    <3>2. CASE ~(raw[q].kind = "t1" /\ hasReplies(raw[q]))
      <4>1. \A t \in F : t \in DOMAIN raw /\ ~Reachable(raw, t)
            BY <2>1, <3>2 DEF Region, Reachable, hasReplies
      <4>2. LiveRows(raw) \cap F = {} /\ MoreRows(raw) \cap F = {}
            BY <4>1 DEF LiveRows, Rows, MoreRows
      <4> QED  BY <3>2, <4>2, FoundNothing
    <3> QED  BY <3>1, <3>2
  <2> HIDE DEF own, below, F, N
  <2>7. Found(raw, o, Both(own, below), {q} \cup F)
        BY <2>1, <2>3, <2>6, FoundBoth
  <2>8. Found(raw, o, Both(Both(own, below), From(w, NextTo(q))), ({q} \cup F) \cup N)
        BY <2>1, <2>5, <2>7, FoundBoth
  <2> QED  BY <2>1, <2>2, <2>8
<1>3. Rank(raw, p) \in Nat
      BY RankFacts
<1>4. Rank(raw, p) + 1 \in S
  <2>1. S \in SUBSET Nat
        OBVIOUS
  <2> HIDE DEF S
  <2> QED  BY <1>1, <1>2, <1>3, <2>1, SetInduction
<1>5. Rank(raw, p) < Rank(raw, p) + 1
      BY <1>3
<1>6. Right(p)
      BY <1>4, <1>5
<1> QED  BY <1>6 DEF w

\* ParseThread and ParseMoreChildren find the live comments and the gaps of any
\* listing, in reading order (parser.go:84-121).
LEMMA ParseFinds ==
  ASSUME NEW raw, NEW ids, IsListing(raw, ids), NEW o
  PROVE  Found(raw, o, Parse(raw, o), DOMAIN raw)
<1>1. /\ DOMAIN walkChildren(raw, o) = DOMAIN raw /\ DOMAIN raw \subseteq Position
      /\ \A q \in Position : Region(raw, q) # {} => q \in DOMAIN raw
      BY WalkUnfolds, ListingFacts
<1>2. <<1>> \in Position /\ Len(<<1>>) = 1 /\ <<1>>[1] = 1
      BY DEF Position
<1>3. Region(raw, <<1>>) = DOMAIN raw
  <2>1. \A q \in DOMAIN raw : Len(q) \in Nat \ {0} /\ q[1] \in Nat \ {0}
        BY <1>1, PositionFacts
  <2>2. \A q \in DOMAIN raw : 1 <= Len(q) /\ 1 <= q[1] /\ 1..(1 - 1) = {}
        BY <2>1
  <2> QED  BY <1>2, <2>2 DEF Region
<1>4. CASE <<1>> \in DOMAIN raw
  <2>1. \A q \in DOMAIN raw : ~(Len(q) < 1)
        BY <1>1, PositionFacts
  <2>2. Reachable(raw, <<1>>)
        BY <1>2, <2>1 DEF Reachable, Above
  <2> QED  BY <1>1, <1>3, <1>4, <2>2, WalkFinds DEF Parse, From
<1>5. CASE <<1>> \notin DOMAIN raw
  <2>1. DOMAIN raw = {}
        BY <1>1, <1>2, <1>3, <1>5
  <2> QED  BY <1>1, <1>5, <2>1, FoundNothing DEF Parse, From
<1> QED  BY <1>4, <1>5

-----------------------------------------------------------------------------
(* What a parsed listing is to the expansion *)

\* A list in reading order has every position once.
LEMMA ListsInOrder ==
  ASSUME NEW S \in SUBSET Position, NEW s, Lists(s, S)
  PROVE  s \in InOrder(S) /\ DOMAIN s = 1..Len(s)
<1>1. /\ s \in [1..Len(s) -> S] /\ Len(s) \in Nat /\ DOMAIN s = 1..Len(s)
      /\ \A i \in 1..Len(s) : s[i] \in Position
      BY LenProperties, ElementOfSeq DEF Lists
<1>2. \A p \in Position : ~Before(p, p)
  <2> SUFFICES ASSUME NEW p \in Position PROVE ~Before(p, p)
      OBVIOUS
  <2>1. Len(p) \in Nat /\ \A n \in 1..Len(p) : p[n] \in Nat
        BY PositionFacts
  <2> QED  BY <2>1 DEF Before, Above
<1>3. \A i, j \in 1..Len(s) : s[i] = s[j] => i = j
  <2> SUFFICES ASSUME NEW i \in 1..Len(s), NEW j \in 1..Len(s), s[i] = s[j], i < j
               PROVE  FALSE
      BY <1>1
  <2>1. Before(s[i], s[j])
        BY DEF Lists
  <2> QED  BY <1>1, <1>2, <2>1
<1>4. s \in Bijection(1..Len(s), S)
      BY <1>1, <1>3, Fun_IsBij DEF Lists
<1>5. Cardinality(S) = Len(s)
      BY <1>1, <1>4, FS_CountingElements DEF ExistsBijection
<1> QED  BY <1>1, <1>5 DEF InOrder, Lists

\* The lists a walk returns come from the positions s and g.
ParsedFrom(raw, o, s, g) ==
  /\ Lists(s, LiveRows(raw)) /\ Lists(g, MoreRows(raw))
  /\ DOMAIN s = 1..Len(s) /\ DOMAIN g = 1..Len(g)
  /\ Parse(raw, o).comments = [i \in DOMAIN s |-> makeComment(raw[s[i]], o)]
  /\ Parse(raw, o).gaps = [i \in DOMAIN g |-> makeGap(raw[g[i]])]

\* They are the positions of the live comments and of the gaps, in reading order.
LEMMA ParseLists ==
  ASSUME NEW raw, NEW ids, IsListing(raw, ids), NEW o
  PROVE  \E s \in InOrder(LiveRows(raw)), g \in InOrder(MoreRows(raw)) :
           ParsedFrom(raw, o, s, g)
<1>1. LiveRows(raw) \subseteq DOMAIN raw /\ MoreRows(raw) \subseteq DOMAIN raw
      BY DEF LiveRows, Rows, MoreRows
<1>2. DOMAIN raw \subseteq Position
      BY ListingFacts
<1>3. /\ LiveRows(raw) \cap DOMAIN raw = LiveRows(raw)
      /\ MoreRows(raw) \cap DOMAIN raw = MoreRows(raw)
      BY <1>1
<1>4. PICK s, g : /\ Lists(s, LiveRows(raw)) /\ Lists(g, MoreRows(raw))
                  /\ Parse(raw, o) =
                       [comments |-> [i \in 1..Len(s) |-> makeComment(raw[s[i]], o)],
                        gaps |-> [i \in 1..Len(g) |-> makeGap(raw[g[i]])]]
      BY <1>3, ParseFinds DEF Found
<1>5. /\ s \in InOrder(LiveRows(raw)) /\ DOMAIN s = 1..Len(s)
      /\ g \in InOrder(MoreRows(raw)) /\ DOMAIN g = 1..Len(g)
      BY <1>1, <1>2, <1>4, ListsInOrder
<1>6. /\ Parse(raw, o).comments = [i \in DOMAIN s |-> makeComment(raw[s[i]], o)]
      /\ Parse(raw, o).gaps = [i \in DOMAIN g |-> makeGap(raw[g[i]])]
      BY <1>4, <1>5
<1>7. ParsedFrom(raw, o, s, g)
      BY <1>4, <1>5, <1>6 DEF ParsedFrom
<1> QED  BY <1>5, <1>7

\* A parsed listing is one the expansion can use, with the live comments' ids.
LEMMA ParsedFacts ==
  ASSUME NEW raw, IsListing(raw, ID), NEW o
  PROVE  /\ Parsed(raw, o) \in Listing
         /\ {id \in ID : Parsed(raw, o).comments[id] > 0} = {raw[p].id : p \in LiveRows(raw)}
<1> DEFINE cs == Parse(raw, o).comments
           gs == Parse(raw, o).gaps
           C(id) == {i \in DOMAIN cs : cs[i].id = id}
<1>0. PICK s, g : ParsedFrom(raw, o, s, g)
      BY ParseLists
<1>1. /\ Lists(s, LiveRows(raw)) /\ Lists(g, MoreRows(raw))
      /\ DOMAIN s = 1..Len(s) /\ DOMAIN g = 1..Len(g)
      /\ cs = [i \in DOMAIN s |-> makeComment(raw[s[i]], o)]
      /\ gs = [i \in DOMAIN g |-> makeGap(raw[g[i]])]
      BY <1>0 DEF ParsedFrom
<1>2. Parsed(raw, o) = [comments |-> [id \in ID |-> Cardinality(C(id))], gaps |-> gs]
      BY DEF Parsed, Counts
<1>3. Len(s) \in Nat /\ Len(g) \in Nat
      BY <1>1, LenProperties DEF Lists
<1>4. \A p \in DOMAIN raw : /\ raw[p].id \in ID /\ raw[p].count \in Nat
                            /\ raw[p].children \in SUBSET ID
      BY DEF IsListing
<1>5. /\ \A i \in 1..Len(s) : s[i] \in LiveRows(raw) /\ s[i] \in DOMAIN raw
      /\ \A i \in 1..Len(g) : g[i] \in DOMAIN raw
      /\ \A p \in LiveRows(raw) : \E i \in 1..Len(s) : s[i] = p
      BY <1>1, ElementOfSeq DEF Lists, LiveRows, Rows, MoreRows
<1>6. DOMAIN cs = 1..Len(s) /\ \A i \in 1..Len(s) : cs[i].id = raw[s[i]].id
      BY <1>1 DEF makeComment
<1>7. gs \in Seq(Gap)
  <2>1. \A i \in 1..Len(g) : makeGap(raw[g[i]]) \in Gap
        BY <1>4, <1>5 DEF makeGap, Gap
  <2>2. gs \in [1..Len(g) -> Gap]
        BY <1>1, <2>1
  <2> HIDE DEF gs
  <2> QED  BY <1>3, <2>2, SegmentSeq
<1> HIDE DEF cs, gs
<1>8. ASSUME NEW id \in ID
      PROVE  Cardinality(C(id)) \in Nat /\ (Cardinality(C(id)) > 0 <=> C(id) # {})
  <2>1. IsFiniteSet(1..Len(s))
        BY <1>3, FS_Interval
  <2>2. IsFiniteSet(C(id))
        BY <1>6, <2>1, FS_Subset
  <2> QED  BY <2>2, FS_CardinalityType, FS_EmptySet
<1>9. \A id \in ID : C(id) # {} <=> id \in {raw[p].id : p \in LiveRows(raw)}
      BY <1>5, <1>6
<1>10. {raw[p].id : p \in LiveRows(raw)} \subseteq ID
      BY <1>4 DEF LiveRows, Rows
<1> HIDE DEF C
<1>11. [id \in ID |-> Cardinality(C(id))] \in [ID -> Nat]
      BY <1>8
<1>12. Parsed(raw, o) \in Listing
      BY <1>2, <1>7, <1>11 DEF Listing
<1>13. \A id \in ID : Parsed(raw, o).comments[id] > 0 <=> C(id) # {}
      BY <1>2, <1>8
<1> QED  BY <1>9, <1>10, <1>12, <1>13

\* The optional fields of a parsed comment are those of the options.
LEMMA FieldsFacts ==
  ASSUME NEW raw, IsListing(raw, ID), NEW o, NEW seen,
         NEW f \in Fields(Parse(raw, o).comments, seen)
  PROVE  f.Depth = o.KeepDepth /\ f.Created = o.KeepCreated
<1>1. PICK s, g : ParsedFrom(raw, o, s, g)
      BY ParseLists
<1> QED  BY <1>1 DEF ParsedFrom, Fields, makeComment

-----------------------------------------------------------------------------
(* The options of a crawl *)

Defaults(s) == redditDefaults(Config(s.env))

\* What Load accepts: a number of rounds, and one of the two formats.
LEMMA LoadedFacts ==
  ASSUME NEW s \in Scenarios, ~LoadFails(s.env)
  PROVE  /\ Defaults(s).KeepDepth = FALSE
         /\ Defaults(s).MaxRounds = Config(s.env).RedditMaxRounds /\ Defaults(s).MaxRounds \in Int
         /\ Defaults(s).Format = Config(s.env).RedditFormat
         /\ Config(s.env).RedditFormat \in {"toon", "json"}
<1>1. s.env.rounds \in Int \cup {Unset}
      BY RequestsTyped DEF LoadFails
<1>2. DefaultRounds \in Int
      BY OptionBounds
<1>3. Config(s.env).RedditMaxRounds \in Int
      BY <1>1, <1>2 DEF Config, env
<1>4. Config(s.env).RedditFormat \in {"toon", "json"}
      BY DEF LoadFails
<1> QED  BY <1>3, <1>4 DEF Defaults, redditDefaults

\* A loader's request: what becomes of its query string.
LEMMA LoaderFacts ==
  ASSUME NEW s \in Scenarios, ~LoadFails(s.env), s.request.via = "loader",
         NEW eo \in EngineOptions(s.request, Defaults(s))
  PROVE  /\ eo.KeepDepth = s.request.depth
         /\ eo.Format = IF s.request.format \in {"toon", "json"} THEN s.request.format
                        ELSE Config(s.env).RedditFormat
         /\ eo.MaxRounds \in Int
         /\ s.request.expand = Full => eo.MaxRounds = MaxExpansionRounds
         /\ s.request.expand \in Nat => eo.MaxRounds = s.request.expand
         /\ s.request.expand \notin Nat \cup {Full} => eo.MaxRounds = Defaults(s).MaxRounds
         /\ s.request.expand # Huge
<1> DEFINE r == s.request
           d == Defaults(s)
<1>1. /\ d.KeepDepth = FALSE /\ d.MaxRounds \in Int
      /\ d.Format = Config(s.env).RedditFormat
      BY LoadedFacts
<1>2. r.expand \in Int \cup {Unset, Junk, Full} /\ r.depth \in BOOLEAN
      BY RequestsTyped
<1>3. eo = buildEngineOptions(r, d)
      BY DEF EngineOptions
<1>4. eo.KeepDepth = r.depth
      BY <1>1, <1>2, <1>3 DEF buildEngineOptions
<1>5. eo.Format = IF r.format \in {"toon", "json"} THEN r.format ELSE d.Format
      BY <1>3 DEF buildEngineOptions
<1>6. /\ eo.MaxRounds \in Int
      /\ r.expand = Full => eo.MaxRounds = MaxExpansionRounds
      /\ r.expand \in Nat => eo.MaxRounds = r.expand
      /\ r.expand \notin Nat \cup {Full} => eo.MaxRounds = d.MaxRounds
  <2>1. eo.MaxRounds = CASE r.expand = Unset -> d.MaxRounds
                         [] r.expand = Full -> MaxExpansionRounds
                         [] OTHER -> parseIntDefault(r.expand, d.MaxRounds)
        BY <1>3 DEF buildEngineOptions
  <2>2. Unset \notin Int /\ Full \notin Int /\ Junk \notin Int /\ Unset # Full /\ Junk # Full
        BY TextsDistinct
  <2>3. CASE r.expand = Unset
        BY <1>1, <2>1, <2>2, <2>3
  <2>4. CASE r.expand = Full
        BY <2>1, <2>2, <2>4, OptionBounds
  <2>5. CASE r.expand \notin {Unset, Full}
    <3>1. eo.MaxRounds = IF r.expand = Junk \/ r.expand < 0 THEN d.MaxRounds ELSE r.expand
          BY <2>1, <2>5 DEF parseIntDefault
    <3> HIDE DEF r, d
    <3> QED  BY <1>1, <1>2, <2>2, <2>5, <3>1
  <2> QED  BY <2>3, <2>4, <2>5
<1>7. r.expand # Huge
      BY <1>2, TextsDistinct
<1> QED  BY <1>1, <1>4, <1>5, <1>6, <1>7

\* A call of fetch_url: what becomes of its arguments, whatever int(x) gives for a
\* number beyond the range of int.
LEMMA McpFacts ==
  ASSUME NEW s \in Scenarios, ~LoadFails(s.env), s.request.via = "mcp",
         NEW eo \in EngineOptions(s.request, Defaults(s))
  PROVE  /\ eo.KeepDepth = FALSE
         /\ eo.Format = IF s.request.format \in {"toon", "json"} THEN s.request.format
                        ELSE Config(s.env).RedditFormat
         /\ eo.MaxRounds \in Int
         /\ s.request.expand # Full
         /\ s.request.expand \in Nat => eo.MaxRounds = s.request.expand
         /\ s.request.expand \notin Nat \cup {Huge} => eo.MaxRounds = Defaults(s).MaxRounds
<1> DEFINE r == s.request
           d == Defaults(s)
<1>1. /\ d.KeepDepth = FALSE /\ d.MaxRounds \in Int
      /\ d.Format = Config(s.env).RedditFormat
      BY LoadedFacts
<1>2. r.expand \in Int \cup {Unset, Junk, Huge}
      BY RequestsTyped
<1>3. Unset \notin Int /\ Junk \notin Int /\ Huge \notin Int /\ Full \notin Int
      BY TextsDistinct
<1>4. r.expand # Full
      BY <1>2, TextsDistinct
<1>5. PICK n \in IF AtLeast(r.expand, 0) THEN IntOf(r.expand) ELSE {d.MaxRounds} :
        eo = [KeepDepth |-> d.KeepDepth, KeepCreated |-> d.KeepCreated,
              Format |-> IF r.format \in {"toon", "json"} THEN r.format ELSE d.Format,
              MaxRounds |-> n]
      BY DEF EngineOptions, crawlHandler
<1>6. /\ n \in Int
      /\ r.expand \in Nat => n = r.expand
      /\ r.expand \notin Nat \cup {Huge} => n = d.MaxRounds
  <2>1. -MaxInt - 1 \in Int /\ MaxInt \in Int
        BY OptionBounds
  <2>2. r.expand \in Nat => AtLeast(r.expand, 0) /\ IntOf(r.expand) = {r.expand}
    <3> HIDE DEF r
    <3> QED  BY <1>3 DEF AtLeast, IntOf
  <2>3. AtLeast(r.expand, 0) => IntOf(r.expand) \subseteq Int
    <3> HIDE DEF r
    <3> QED  BY <1>2, <2>1 DEF AtLeast, IntOf
  <2>4. r.expand \notin Nat \cup {Huge} => ~AtLeast(r.expand, 0)
    <3> HIDE DEF r
    <3> QED  BY <1>2 DEF AtLeast
  <2> QED  BY <1>1, <1>5, <2>2, <2>3, <2>4
<1> QED  BY <1>1, <1>4, <1>5, <1>6

\* What resolveOptions makes of either: the format and the depths asked for, and no
\* more rounds than the request stands for (engine.go:156-181).
LEMMA ResolvedFacts ==
  ASSUME NEW s \in Scenarios, ~LoadFails(s.env),
         NEW eo \in EngineOptions(s.request, Defaults(s)),
         NEW o, o = resolveOptions(eo, Defaults(s))
  PROVE  /\ o.Format = IF s.request.format \in {"toon", "json"} THEN s.request.format
                       ELSE Config(s.env).RedditFormat
         /\ o.Format \in {"toon", "json"}
         /\ o.KeepDepth <=> s.request.via = "loader" /\ s.request.depth
         /\ o.MaxRounds \in Int
         /\ \E n \in RoundsAsked(s.request, s.env) : n \in Int /\ o.MaxRounds <= n
<1> DEFINE r == s.request
           d == Defaults(s)
<1>1. /\ d.KeepDepth = FALSE /\ d.MaxRounds \in Int /\ d.MaxRounds = Config(s.env).RedditMaxRounds
      /\ d.Format = Config(s.env).RedditFormat
      /\ Config(s.env).RedditFormat \in {"toon", "json"}
      BY LoadedFacts
<1>2. /\ r.via \in {"loader", "mcp"} /\ (r.via = "loader" => r.depth \in BOOLEAN)
      /\ r.expand \in Int \cup {Unset, Junk, Huge, Full}
      BY RequestsTyped
<1>3. /\ eo.KeepDepth = IF r.via = "loader" THEN r.depth ELSE FALSE
      /\ eo.Format = IF r.format \in {"toon", "json"} THEN r.format ELSE d.Format
      /\ eo.MaxRounds \in Int
      /\ r.expand = Full => eo.MaxRounds = MaxExpansionRounds
      /\ r.expand \in Nat => eo.MaxRounds = r.expand
      /\ r.expand \notin Nat \cup {Full, Huge} => eo.MaxRounds = d.MaxRounds
      BY <1>1, <1>2, LoaderFacts, McpFacts
<1>4. /\ o.KeepDepth = (d.KeepDepth \/ eo.KeepDepth)
      /\ o.Format = IF eo.Format \in {"toon", "json"} THEN eo.Format ELSE d.Format
      BY DEF resolveOptions
<1>5. o.MaxRounds = LET asked == IF eo.MaxRounds > 0 THEN capped(eo.MaxRounds) ELSE d.MaxRounds
                    IN IF asked = 0 THEN DefaultRounds ELSE asked
      BY DEF resolveOptions
<1> HIDE DEF r, d
<1>6. o.KeepDepth <=> r.via = "loader" /\ r.depth
      BY <1>1, <1>2, <1>3, <1>4
<1>7. /\ o.Format = IF r.format \in {"toon", "json"} THEN r.format ELSE Config(s.env).RedditFormat
      /\ o.Format \in {"toon", "json"}
      BY <1>1, <1>3, <1>4
<1> DEFINE configured == IF d.MaxRounds = 0 THEN DefaultRounds ELSE d.MaxRounds
<1>8. /\ o.MaxRounds \in Int /\ configured \in Int /\ MaxExpansionRounds \in Nat \ {0}
      /\ eo.MaxRounds > 0 => o.MaxRounds <= eo.MaxRounds /\ o.MaxRounds <= MaxExpansionRounds
      /\ ~(eo.MaxRounds > 0) => o.MaxRounds = configured
      BY <1>1, <1>3, <1>5, OptionBounds DEF capped
<1>9. \E n \in RoundsAsked(r, s.env) : n \in Int /\ o.MaxRounds <= n
  <2>1. RoundsAsked(r, s.env) =
          CASE r.expand = Full -> {MaxExpansionRounds}
            [] r.expand = Huge -> {MaxExpansionRounds, configured}
            [] r.expand \in {Unset, Junk} -> {configured}
            [] OTHER -> {IF r.expand > 0 THEN Min({r.expand, MaxExpansionRounds}) ELSE configured}
        BY <1>1 DEF RoundsAsked
  <2> HIDE DEF configured
  <2>2. CASE r.expand = Full
    <3>1. RoundsAsked(r, s.env) = {MaxExpansionRounds}
          BY <2>1, <2>2, TextsDistinct
    <3>2. o.MaxRounds <= MaxExpansionRounds
          BY <1>3, <1>8, <2>2
    <3> QED  BY <1>8, <3>1, <3>2
  <2>3. CASE r.expand = Huge
    <3>1. RoundsAsked(r, s.env) = {MaxExpansionRounds, configured}
          BY <2>1, <2>3, TextsDistinct
    <3> QED  BY <1>8, <3>1
  <2>4. CASE r.expand \in {Unset, Junk}
    <3>1. RoundsAsked(r, s.env) = {configured}
          BY <2>1, <2>4, TextsDistinct
    <3>2. o.MaxRounds <= configured
          BY <1>1, <1>3, <1>8, <2>4, TextsDistinct DEF configured
    <3> QED  BY <1>8, <3>1, <3>2
  <2>5. CASE r.expand \in Int
    <3>1. RoundsAsked(r, s.env) =
            {IF r.expand > 0 THEN Min({r.expand, MaxExpansionRounds}) ELSE configured}
          BY <2>1, <2>5, TextsDistinct
    <3>2. CASE r.expand > 0
      <4>1. Min({r.expand, MaxExpansionRounds}) \in {r.expand, MaxExpansionRounds}
            BY <1>8, <2>5, <3>2 DEF Min
      <4>2. o.MaxRounds <= r.expand /\ o.MaxRounds <= MaxExpansionRounds
            BY <1>3, <1>8, <2>5, <3>2
      <4> QED  BY <1>8, <2>5, <3>1, <3>2, <4>1, <4>2
    <3>3. CASE ~(r.expand > 0)
      <4>1. o.MaxRounds <= configured
            BY <1>1, <1>3, <1>8, <2>5, <3>3, TextsDistinct DEF configured
      <4> QED  BY <1>8, <3>1, <3>3, <4>1
    <3> QED  BY <3>2, <3>3
  <2> QED  BY <1>2, <2>2, <2>3, <2>4, <2>5
<1> QED  BY <1>6, <1>7, <1>8, <1>9 DEF r

-----------------------------------------------------------------------------
(* The crawl of a thread *)

\* The crawl is one that Load let start, with the options its request resolves to
\* and their number of rounds for a budget.
RequestKept ==
  /\ scenario \in Scenarios /\ ~LoadFails(scenario.env)
  /\ \E eo \in EngineOptions(scenario.request, Defaults(scenario)) :
       opts = resolveOptions(eo, Defaults(scenario))
  /\ budget = opts.MaxRounds

\* Every comment was made with these options, whichever reply brought it.
FieldsKept == \A f \in fields : f.Depth = opts.KeepDepth /\ f.Created = opts.KeepCreated

DocumentKept == document # "none" => document = IF opts.Format = "json" THEN "json" ELSE "toon"

ThreadInv ==
  ExpansionInv /\ RequestKept /\ FieldsKept /\ LiveCommentsKept /\ DocumentKept

\* The steps of a crawl are steps of the expansion on parsed listings.
LEMMA ThreadNextIsStep ==
  ASSUME [ThreadNext]_threadVars
  PROVE  ExpansionStep
<1>1. ASSUME NEW raw \in ReplyListings, MergeReply(raw)
      PROVE  ExpansionStep
  <2>1. Parsed(raw, opts) \in Listing
        BY ParsedFacts, ListingsTyped
  <2> QED  BY <1>1, <2>1 DEF MergeReply, ExpansionStep
<1>2. CASE UNCHANGED threadVars
      BY <1>2 DEF threadVars, ExpansionStep
<1> QED  BY <1>1, <1>2 DEF ThreadNext, ThreadStep, ThreadOver, Quiet, Encode, ExpansionStep

\* A crawl begins in the invariant.
LEMMA ThreadInitInv ==
  ASSUME ThreadInit
  PROVE  ThreadInv
<1>1. PICK s \in Scenarios :
        /\ ~LoadFails(s.env) /\ scenario = s
        /\ \E eo \in EngineOptions(s.request, Defaults(s)) : opts = resolveOptions(eo, Defaults(s))
        /\ Begin(Parsed(s.listing, opts), opts.MaxRounds)
        /\ fields = Fields(Parse(s.listing, opts).comments, {})
        /\ live = {s.listing[p].id : p \in LiveRows(s.listing)}
        /\ document = "none"
      BY DEF ThreadInit, Defaults
<1>2. opts.MaxRounds \in Int
      BY <1>1, ResolvedFacts
<1>3. IsListing(s.listing, ID)
      BY ListingsTyped
<1>4. /\ Parsed(s.listing, opts) \in Listing
      /\ {id \in ID : Parsed(s.listing, opts).comments[id] > 0} = live
      BY <1>1, <1>3, ParsedFacts
<1>5. ExpansionInv
      BY <1>1, <1>2, <1>4, BeginInv
<1>6. RequestKept
      BY <1>1 DEF RequestKept, Begin
<1>7. FieldsKept
      BY <1>1, <1>3, FieldsFacts DEF FieldsKept
<1>8. LiveCommentsKept
      BY <1>1, <1>4 DEF LiveCommentsKept, Begin
<1> QED  BY <1>1, <1>5, <1>6, <1>7, <1>8 DEF ThreadInv, DocumentKept

\* Every step of a crawl keeps the invariant.
LEMMA ThreadNextInv ==
  ASSUME ThreadInv, [ThreadNext]_threadVars
  PROVE  ThreadInv'
<1>1. ExpansionInv'
      BY ThreadNextIsStep, TypeStep, BatchStep, FreshStep DEF ExpansionInv, ThreadInv
<1>2. UNCHANGED <<scenario, opts, budget>>
      BY DEF ThreadNext, ThreadStep, ThreadOver, threadVars, requestVars, vars, Quiet, Encode,
             MergeReply, Collect, Stop, FetchFails, Merge, Strip
<1>3. RequestKept'
      BY <1>2 DEF ThreadInv, RequestKept
<1>4. CASE \E raw \in ReplyListings : MergeReply(raw)
  <2>1. PICK raw \in ReplyListings : MergeReply(raw)
        BY <1>4
  <2>2. IsListing(raw, ID)
        BY ListingsTyped
  <2>3. FieldsKept'
    <3> DEFINE seen == {id \in ID : comments[id] > 0}
    <3>1. fields' = fields \cup Fields(Parse(raw, opts).comments, seen)
          BY <2>1 DEF MergeReply
    <3>2. \A f \in Fields(Parse(raw, opts).comments, seen) :
            f.Depth = opts.KeepDepth /\ f.Created = opts.KeepCreated
          BY <2>2, FieldsFacts
    <3> HIDE DEF seen
    <3> QED  BY <1>2, <3>1, <3>2 DEF ThreadInv, FieldsKept
  <2>4. LiveCommentsKept'
    <3> DEFINE r == Parsed(raw, opts)
    <3>1. /\ r.comments \in [ID -> Nat]
          /\ {id \in ID : r.comments[id] > 0} = {raw[p].id : p \in LiveRows(raw)}
          BY <2>2, ParsedFacts DEF Listing
    <3>2. comments \in [ID -> Nat] /\ comments' = Dedupe(r.comments)
          BY <2>1 DEF ThreadInv, ExpansionInv, TypeOK, MergeReply, Merge
    <3>3. live' = live \cup {raw[p].id : p \in LiveRows(raw)}
          BY <2>1 DEF MergeReply
    <3> HIDE DEF r
    <3>4. \A id \in ID : comments'[id] > 0 <=> comments[id] > 0 \/ r.comments[id] > 0
          BY <3>1, <3>2 DEF Dedupe
    <3> QED  BY <3>1, <3>3, <3>4 DEF ThreadInv, LiveCommentsKept
  <2>5. DocumentKept'
        BY <1>2, <2>1 DEF ThreadInv, DocumentKept, MergeReply
  <2> QED  BY <1>1, <1>3, <2>3, <2>4, <2>5 DEF ThreadInv
<1>5. CASE Encode \/ Quiet(Collect) \/ Quiet(Stop) \/ Quiet(FetchFails) \/ UNCHANGED threadVars
  <2>1. UNCHANGED <<comments, fields, live>>
        BY <1>5 DEF threadVars, vars, Quiet, Encode, Collect, Stop, FetchFails, Strip
  <2>2. FieldsKept' /\ LiveCommentsKept'
        BY <1>2, <2>1 DEF ThreadInv, FieldsKept, LiveCommentsKept
  <2>3. DocumentKept'
        BY <1>2, <1>5 DEF ThreadInv, DocumentKept, Encode, Quiet, threadVars
  <2> QED  BY <1>1, <1>3, <2>2, <2>3 DEF ThreadInv
<1> QED  BY <1>4, <1>5 DEF ThreadNext, ThreadStep, ThreadOver

\* ThreadInv is an inductive invariant of the crawl of a thread.
THEOREM ThreadInvariant == ThreadSpec => []ThreadInv
<1>1. ThreadInit => ThreadInv
      BY ThreadInitInv
<1>2. ThreadInv /\ [ThreadNext]_threadVars => ThreadInv'
      BY ThreadNextInv
<1> QED  BY <1>1, <1>2, PTL DEF ThreadSpec

\* On parsed listings the expansion keeps its types, asks for nothing twice, loses
\* nothing that it has not asked for, and adds every comment once.
THEOREM ParsedThreadExpands ==
  ThreadSpec => []TypeOK /\ []NoRerequest /\ NothingUnaskedLost /\ CommentsGrowOnce
<1>1. ThreadInv => TypeOK /\ NoRerequest
      BY InvFresh DEF ThreadInv, ExpansionInv
<1>2. ThreadInv /\ [ThreadNext]_threadVars => [Kept]_vars /\ [Grow]_vars
      BY ThreadNextIsStep, KeptStep, GrowStep DEF ThreadInv
<1>3. ThreadSpec => [][Kept]_vars /\ [][Grow]_vars
      BY <1>2, ThreadInvariant, PTL DEF ThreadSpec
<1>4. ThreadSpec => NothingUnaskedLost /\ CommentsGrowOnce
      BY <1>3 DEF NothingUnaskedLost, Kept, CommentsGrowOnce, Grow
<1> QED  BY <1>1, <1>4, ThreadInvariant, PTL

\* The walk finds what a reader of the thread would, in a listing of any size and
\* depth: every live comment below things that decode, also below removed ones,
\* once and in reading order, and likewise every gap (parser.go:84-121).
THEOREM WalkCorrect == ThreadSpec => []WalkExact
<1>1. ThreadInv => WalkExact
  <2> SUFFICES ASSUME ThreadInv PROVE WalkExact
      OBVIOUS
  <2> DEFINE raw == scenario.listing
  <2>1. IsListing(raw, ID)
        BY ListingsTyped DEF ThreadInv, RequestKept
  <2>2. PICK s \in InOrder(LiveRows(raw)), g \in InOrder(MoreRows(raw)) :
          ParsedFrom(raw, opts, s, g)
        BY <2>1, ParseLists
  <2>3. /\ Parse(raw, opts).comments = [i \in DOMAIN s |-> makeComment(raw[s[i]], opts)]
        /\ Parse(raw, opts).gaps = [i \in DOMAIN g |-> makeGap(raw[g[i]])]
        BY <2>2 DEF ParsedFrom
  <2> QED  BY <2>3 DEF WalkExact
<1> QED  BY <1>1, ThreadInvariant, PTL

\* Through any number of rounds the thread has exactly the comments with content
\* that Reddit has sent below things that decode, in the listing and in every reply
\* and at any depth of them.
THEOREM LiveCommentsAreKept == ThreadSpec => []LiveCommentsKept
<1>1. ThreadInv => LiveCommentsKept
      BY DEF ThreadInv
<1> QED  BY <1>1, ThreadInvariant, PTL

\* The document has the format and the depths its request asks for, and no more
\* rounds are performed than the request stands for, through either transport and
\* whatever int(x) gives for a number beyond the range of int.
THEOREM RequestsHonoured == ThreadSpec => []RequestHonoured
<1>1. ThreadInv => RequestHonoured
  <2> SUFFICES ASSUME ThreadInv PROVE RequestHonoured
      OBVIOUS
  <2> DEFINE r == scenario.request
  <2>1. /\ opts.Format = IF r.format \in {"toon", "json"} THEN r.format
                         ELSE Config(scenario.env).RedditFormat
        /\ opts.Format \in {"toon", "json"}
        /\ opts.KeepDepth <=> r.via = "loader" /\ r.depth
        /\ opts.MaxRounds \in Int
        /\ \E n \in RoundsAsked(r, scenario.env) : n \in Int /\ opts.MaxRounds <= n
        BY ResolvedFacts DEF ThreadInv, RequestKept
  <2>2. rounds \in Nat /\ budget = opts.MaxRounds /\ (rounds > 0 => rounds <= budget)
        BY DEF ThreadInv, ExpansionInv, TypeOK, RequestKept
  <2> HIDE DEF r
  <2>3. document = "none" \/ document = IF r.format \in {"toon", "json"} THEN r.format
                                        ELSE Config(scenario.env).RedditFormat
        BY <2>1 DEF ThreadInv, DocumentKept
  <2>4. \A f \in fields : f.Depth <=> r.via = "loader" /\ r.depth
        BY <2>1 DEF ThreadInv, FieldsKept
  <2>5. rounds = 0 \/ \E n \in RoundsAsked(r, scenario.env) : rounds <= n
        BY <2>1, <2>2
  <2> QED  BY <2>3, <2>4, <2>5 DEF RequestHonoured, r
<1> QED  BY <1>1, ThreadInvariant, PTL
=============================================================================
