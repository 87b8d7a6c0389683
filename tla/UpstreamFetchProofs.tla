------------------------ MODULE UpstreamFetchProofs -------------------------
(***************************************************************************)
(* Proofs about RetryClient and UpstreamFetch, for every retry budget and  *)
(* delay, every set of statuses and of Retry-After values, and every width *)
(* of a Duration: what DoRetry returns, that no response body stays open,  *)
(* and that the outcome is named for what happened.                        *)
(***************************************************************************)
EXTENDS UpstreamFetch, SequenceTheorems, TLAPS

\* What a request that is tried again came to.
Failed(e) == e = Plain("net") \/ \E c \in Statuses : Retryable(c) /\ e = Status(c)

\* An attempt is made only while attempts are left.
AttemptCounted == pc \in {"sleep", "send", "wire"} => attempt < MaxAttempts

\* The loop variable counts the requests that failed; all but the last one of a
\* call that is over are requests to be repeated.
LogCounted ==
  /\ pc # "done" => Len(log) = attempt
  /\ Len(log) <= MaxAttempts
  /\ \A i \in 1..Len(log) : pc # "done" \/ i < Len(log) => Failed(log[i])

\* lastErr is the error of the last request, while the call is in progress.
LastErrLatest == pc # "done" /\ attempt > 0 => lastErr = log[attempt]

\* Nothing is returned before the end, and a request that cannot be built is
\* never sent.
ReturnLate ==
  /\ pc # "done" => result = Plain("none")
  /\ ~goodReq => pc # "wire" /\ log = <<>>

RetryInv ==
  /\ TypeOK
  /\ AttemptCounted /\ LogCounted /\ LastErrLatest /\ ReturnLate
  /\ ResultIsLast

-----------------------------------------------------------------------------
(* DoRetry *)

\* RetryConfig.defaults gives at least one attempt.
LEMMA MaxAttemptsPositive ==
  ASSUME cfg \in CfgAttempts
  PROVE  MaxAttempts \in Nat /\ MaxAttempts > 0
BY CfgAttemptsNat DEF MaxAttempts

\* The delay after an answer is an integer, wrapped or not.
LEMMA DelayAfterInt ==
  ASSUME delay \in Int, NEW s \in RetryAfters
  PROVE  DelayAfter(s) \in Int /\ s * Second \in Int
<1>1. s \in Int /\ Second \in Int
      BY RetryAftersInt, SecondNat
<1>2. s * Second \in Int
      BY <1>1
<1>3. 2 * Half \in Nat \ {0} /\ s * Second + Half \in Int
      BY <1>2, SecondNat
<1>4. Wrap(s * Second) \in Int
      BY <1>3, SecondNat DEF Wrap
<1> QED  BY <1>2, <1>4, DelaysNat DEF DelayAfter, SmallerOf, nextBackoff

\* Appending leaves the earlier entries of the log alone.
LEMMA LogAppend ==
  ASSUME log \in Seq(Results), NEW e \in Results, log' = Append(log, e)
  PROVE  /\ log' \in Seq(Results)
         /\ Len(log') = Len(log) + 1
         /\ \A i \in 1..Len(log) : log'[i] = log[i]
         /\ log'[Len(log) + 1] = e
         /\ log' # <<>>
OBVIOUS

\* A step of DoRetry, of its context or of its timer keeps RetryInv.
LEMMA RetryInvStep ==
  RetryInv /\ (Step \/ EndCtx \/ Tick \/ UNCHANGED vars) => RetryInv'
<1> SUFFICES ASSUME RetryInv, Step \/ EndCtx \/ Tick \/ UNCHANGED vars
             PROVE  RetryInv'
    OBVIOUS
<1> USE DEF RetryInv, AttemptCounted, LogCounted, LastErrLatest, ReturnLate
<1>0. MaxAttempts \in Nat /\ MaxAttempts > 0
      BY MaxAttemptsPositive DEF TypeOK
<1>a. /\ Plain("net") \in Errs /\ Plain("timeout") \in Errs
      /\ Plain("net") \in Results /\ Plain("timeout") \in Results
      /\ ctx # "live" => Plain(ctx) \in CtxErrs
      /\ Plain("none").type = "none"
      BY DEF Results, Errs, NetErrs, CtxErrs, TypeOK, Plain
<1>b. CtxErrs \subseteq Errs /\ Errs \subseteq Results
      BY DEF Results, Errs
<1>1. CASE Exhausted
  <2>1. attempt = MaxAttempts /\ Len(log) = attempt /\ lastErr = log[Len(log)]
        BY <1>0, <1>1 DEF Exhausted, AttemptLeft, TypeOK
  <2>2. log # <<>> /\ Failed(lastErr)
        BY <1>0, <1>1, <2>1 DEF Exhausted
  <2>3. lastErr.type \in {"net", "status"}
        BY <2>2 DEF Failed, Plain, Status
  <2>4. TypeOK'
        BY <1>1, <1>b DEF Exhausted, TypeOK, Return, loop, caller, history, MaxAttempts
  <2>5. ResultIsLast'
        BY <1>1, <2>1, <2>2, <2>3
        DEF Exhausted, Return, loop, caller, history, MaxAttempts, ResultIsLast
  <2> QED  BY <1>1, <2>1, <2>4, <2>5
           DEF Exhausted, Return, loop, caller, history, MaxAttempts
<1>2. CASE FirstAttempt \/ SleepOver \/ Send
      BY <1>2 DEF FirstAttempt, SleepOver, Send, AttemptLeft, TypeOK, loop, caller,
                  history, MaxAttempts, ResultIsLast
<1>3. CASE Jitter
  <2>1. TypeOK'
        BY <1>3 DEF Jitter, TypeOK, caller, history, MaxAttempts
  <2> QED  BY <1>3, <2>1 DEF Jitter, AttemptLeft, caller, history, MaxAttempts, ResultIsLast
<1>4. CASE SleepCut
      BY <1>0, <1>4, <1>a, <1>b DEF SleepCut, Return, TypeOK, loop, caller, history, MaxAttempts,
                  ResultIsLast
<1>5. CASE BadRequest
  <2>1. Plain("request") \in Results
        BY DEF Results, Errs
  <2> QED  BY <1>0, <1>5, <2>1 DEF BadRequest, Return, TypeOK, loop, caller, history,
                  MaxAttempts, ResultIsLast
<1>6. CASE DoCut
  <2>1. Plain(ctx) \in CtxErrs /\ Plain(ctx) \in Errs /\ Plain(ctx) \in Results
        BY <1>6, <1>a, <1>b DEF DoCut
  <2>2. ResultIsLast'
        BY <1>6, <2>1 DEF DoCut, Return, caller, ResultIsLast
  <2>3. CASE UNCHANGED log
        BY <1>0, <1>6, <2>1, <2>2, <2>3 DEF DoCut, Return, caller, MaxAttempts, TypeOK
  <2>4. CASE pc = "wire" /\ log' = Append(log, Plain(ctx))
    <3>1. /\ log' \in Seq(Results) /\ Len(log') = Len(log) + 1
          /\ \A i \in 1..Len(log) : log'[i] = log[i]
          BY <2>1, <2>4, LogAppend DEF TypeOK
    <3>2. TypeOK'
          BY <1>6, <2>1, <3>1 DEF DoCut, Return, caller, MaxAttempts, TypeOK
    <3>3. Len(log) \in Nat
          BY LenProperties DEF TypeOK
    <3>4. LogCounted'
          BY <1>0, <1>6, <2>4, <3>1, <3>3 DEF DoCut, Return, caller, MaxAttempts, TypeOK
    <3> QED  BY <1>6, <2>2, <2>4, <3>2, <3>4 DEF DoCut, Return, caller, MaxAttempts
  <2> QED  BY <1>6, <2>3, <2>4 DEF DoCut
<1>7. CASE DoTimeout
  <2>1. /\ log' \in Seq(Results) /\ Len(log') = Len(log) + 1
        /\ \A i \in 1..Len(log) : log'[i] = log[i]
        /\ log'[Len(log) + 1] = Plain("timeout") /\ log' # <<>>
        BY <1>7, <1>a, LogAppend DEF TypeOK, DoTimeout
  <2>2. Len(log) \in Nat
        BY LenProperties DEF TypeOK
  <2>3. TypeOK'
        BY <1>7, <1>a, <2>1 DEF DoTimeout, Return, caller, MaxAttempts, TypeOK
  <2>4. ResultIsLast'
        BY <1>7, <2>1, <2>2 DEF DoTimeout, Return, ResultIsLast, Plain
  <2>5. LogCounted'
        BY <1>0, <1>7, <2>1, <2>2 DEF DoTimeout, Return, caller, MaxAttempts, TypeOK
  <2> QED  BY <1>7, <2>3, <2>4, <2>5 DEF DoTimeout, Return, caller, MaxAttempts
<1>8. CASE DoFails
  <2>1. /\ log' \in Seq(Results) /\ Len(log') = Len(log) + 1
        /\ \A i \in 1..Len(log) : log'[i] = log[i]
        /\ log'[Len(log) + 1] = Plain("net")
        BY <1>8, <1>a, LogAppend DEF TypeOK, DoFails
  <2>2. Len(log) \in Nat /\ Failed(Plain("net"))
        BY LenProperties DEF TypeOK, Failed
  <2>3. delay' \in Int
        BY <1>8, DelaysNat DEF DoFails, nextBackoff, SmallerOf, TypeOK
  <2>4. TypeOK'
        BY <1>0, <1>8, <1>a, <2>1, <2>3 DEF DoFails, caller, MaxAttempts, TypeOK
  <2>5. LogCounted'
        BY <1>0, <1>8, <2>1, <2>2 DEF DoFails, caller, MaxAttempts, TypeOK
  <2> QED  BY <1>0, <1>8, <2>1, <2>2, <2>4, <2>5 DEF DoFails, caller, MaxAttempts, TypeOK, ResultIsLast
<1>9. ASSUME NEW c \in Statuses, Answer(c)
      PROVE  RetryInv'
  <2>0. Response(c) \in Results /\ Response(c).type = "response" /\ Response(c).code = c
        BY DEF Results, Response
  <2>1. /\ log' \in Seq(Results) /\ Len(log') = Len(log) + 1
        /\ \A i \in 1..Len(log) : log'[i] = log[i]
        /\ log'[Len(log) + 1] = Response(c) /\ log' # <<>>
        BY <1>9, <2>0, LogAppend DEF TypeOK, Answer
  <2>2. Len(log) \in Nat
        BY LenProperties DEF TypeOK
  <2>3. TypeOK'
        BY <1>9, <2>0, <2>1 DEF Answer, Return, loop, caller, MaxAttempts, TypeOK
  <2>4. ResultIsLast'
        BY <1>9, <2>0, <2>1, <2>2 DEF Answer, Return, ResultIsLast
  <2>5. LogCounted'
        BY <1>0, <1>9, <2>1, <2>2 DEF Answer, Return, loop, caller, MaxAttempts, TypeOK
  <2> QED  BY <1>9, <2>3, <2>4, <2>5 DEF Answer, Return, loop, caller, MaxAttempts
<1>10. ASSUME NEW c \in Statuses, NEW s \in RetryAfters, Refuse(c, s)
       PROVE  RetryInv'
  <2>0. Status(c) \in Errs /\ Status(c) \in Results
        BY DEF Results, Errs
  <2>1. /\ log' \in Seq(Results) /\ Len(log') = Len(log) + 1
        /\ \A i \in 1..Len(log) : log'[i] = log[i]
        /\ log'[Len(log) + 1] = Status(c)
        BY <1>10, <2>0, LogAppend DEF TypeOK, Refuse
  <2>2. Len(log) \in Nat /\ Failed(Status(c))
        BY <1>10, LenProperties DEF TypeOK, Failed, Refuse
  <2>3. delay' \in Int /\ asked' \in Int
        BY <1>10, DelayAfterInt DEF Refuse, TypeOK
  <2>4. TypeOK'
        BY <1>0, <1>10, <2>0, <2>1, <2>3
        DEF Refuse, StatusError, DrainAndClose, caller, MaxAttempts, TypeOK
  <2>5. LogCounted'
        BY <1>0, <1>10, <2>1, <2>2 DEF Refuse, caller, MaxAttempts, TypeOK
  <2> QED  BY <1>0, <1>10, <2>1, <2>2, <2>4, <2>5
           DEF Refuse, StatusError, caller, MaxAttempts, TypeOK, ResultIsLast
<1>11. CASE EndCtx
       BY <1>11 DEF EndCtx, TypeOK, loop, history, MaxAttempts, ResultIsLast
<1>12. CASE Tick
       BY <1>12 DEF Tick, TypeOK, caller, MaxAttempts, ResultIsLast
<1>13. CASE UNCHANGED vars
       BY <1>13 DEF vars, TypeOK, loop, caller, history, MaxAttempts, ResultIsLast
<1> QED  BY <1>1, <1>2, <1>3, <1>4, <1>5, <1>6, <1>7, <1>8, <1>9, <1>10, <1>11, <1>12, <1>13
         DEF Step

\* A call that begins satisfies RetryInv.
LEMMA RetryInvInit == Init => RetryInv
<1> SUFFICES ASSUME Init PROVE RetryInv
    OBVIOUS
<1>1. MaxAttempts \in Nat /\ MaxAttempts > 0
      BY MaxAttemptsPositive DEF Init
<1>2. Plain("none") \in Errs /\ Plain("none") \in Results
      BY DEF Errs, Results
<1>3. TypeOK
      BY <1>1, <1>2, DelaysNat DEF Init, TypeOK
<1> QED  BY <1>1, <1>3 DEF Init, RetryInv, AttemptCounted, LogCounted, LastErrLatest,
                           ReturnLate, ResultIsLast

\* Whatever the server does, and whenever the context ends, DoRetry returns what
\* its last request came to.
THEOREM DoRetryResult == Spec => []ResultIsLast
<1>1. RetryInv /\ [Next]_vars => RetryInv'
      BY RetryInvStep DEF Next, Over
<1>2. RetryInv => ResultIsLast
      BY DEF RetryInv
<1> QED  BY <1>1, <1>2, RetryInvInit, PTL DEF Spec

-----------------------------------------------------------------------------
(* How long DoRetry sleeps *)

\* No backoff before a retry is longer than MaxDelay, nor what is left of a sleep.
SleepCapped ==
  /\ attempt > 0 => delay <= MaxDelay
  /\ sleepLeft <= MaxDelay

\* No number of seconds that a server may ask for leaves the range of a Duration.
ProductsInRange == \A s \in RetryAfters : s * Second < Half

\* The backoff is what was asked for, capped, and never an argument that rand.Int63n
\* refuses.
BackoffSound == delay >= 0 /\ pc # "panic" /\ RetryAfterCapped

\* A wrapped delay is capped like any other.
LEMMA DelaysCapped ==
  ASSUME delay \in Int, NEW s \in RetryAfters
  PROVE  nextBackoff(delay) <= MaxDelay /\ DelayAfter(s) <= MaxDelay
<1>1. s * Second \in Int /\ 2 * Half \in Nat \ {0} /\ s * Second + Half \in Int
      BY DelayAfterInt, SecondNat
<1>2. Wrap(s * Second) \in Int
      BY <1>1, SecondNat DEF Wrap
<1> QED  BY <1>2, DelaysNat DEF DelayAfter, SmallerOf, nextBackoff

\* A product within the range is not changed by its width.
LEMMA WrapInRange ==
  ASSUME NEW n \in Nat, n < Half
  PROVE  Wrap(n) = n
<1>1. n + Half \in 0..(2 * Half - 1) /\ 2 * Half \in Nat \ {0}
      BY SecondNat
<1>2. (n + Half) % (2 * Half) = n + Half
  <2> DEFINE a == n + Half
             b == 2 * Half
  <2>1. a \in Nat /\ b \in Nat /\ a < b
        BY <1>1
  <2> HIDE DEF a, b
  <2>2. a % b = a
        BY <2>1
  <2> QED  BY <2>2 DEF a, b
<1> QED  BY <1>2, SecondNat DEF Wrap

\* Every step keeps sleeps capped, and backoffs sound where products are in range.
LEMMA SleepStep ==
  ASSUME RetryInv, SleepCapped, [Next]_vars
  PROVE  SleepCapped' /\ (ProductsInRange /\ BackoffSound => BackoffSound')
<1> USE DelaysNat DEF SleepCapped, BackoffSound, RetryAfterCapped
<1>0. delay \in Int /\ sleepLeft \in Nat /\ attempt \in Nat /\ MaxDelay \in Nat
      BY MaxAttemptsPositive DEF RetryInv, TypeOK
<1>1. CASE Jitter
      BY <1>0, <1>1 DEF Jitter, history
<1>2. CASE DoFails
  <2>1. delay' = SmallerOf(2 * delay, MaxDelay) /\ sleepLeft' = sleepLeft /\ asked' = -1
        BY <1>2 DEF DoFails, nextBackoff
  <2> QED  BY <1>0, <1>2, <2>1 DEF DoFails, SmallerOf
<1>3. ASSUME NEW c \in Statuses, NEW s \in RetryAfters, Refuse(c, s)
      PROVE  SleepCapped' /\ (ProductsInRange /\ BackoffSound => BackoffSound')
  <2>1. delay' = DelayAfter(s) /\ sleepLeft' = sleepLeft /\ pc' = "loop"
        BY <1>3 DEF Refuse
  <2>2. DelayAfter(s) <= MaxDelay /\ DelayAfter(s) \in Int /\ s * Second \in Int
        BY <1>0, DelaysCapped, DelayAfterInt
  <2>3. ASSUME ProductsInRange, BackoffSound
        PROVE  BackoffSound'
    <3>1. CASE parsed(s)
      <4>1. s \in Nat /\ Second \in Nat
            BY <3>1, RetryAftersInt, SecondNat DEF parsed
      <4>2. s * Second \in Nat /\ s * Second < Half
            BY <2>3, <4>1 DEF ProductsInRange
      <4>3. delay' = SmallerOf(s * Second, MaxDelay) /\ asked' = s * Second
            BY <1>3, <2>1, <3>1, <4>2, WrapInRange DEF DelayAfter, Refuse
      <4> QED  BY <2>1, <4>2, <4>3 DEF SmallerOf
    <3>2. CASE ~parsed(s)
      <4>1. delay' = SmallerOf(2 * delay, MaxDelay) /\ asked' = -1
            BY <1>3, <2>1, <3>2 DEF DelayAfter, nextBackoff, Refuse
      <4> QED  BY <1>0, <2>1, <2>3, <4>1 DEF SmallerOf
    <3> QED  BY <3>1, <3>2
  <2> QED  BY <2>1, <2>2, <2>3
<1>4. CASE Tick
      BY <1>0, <1>4 DEF Tick
<1>5. CASE \/ Exhausted \/ FirstAttempt \/ SleepOver \/ SleepCut \/ BadRequest \/ Send
           \/ DoCut \/ DoTimeout \/ (\E c \in Statuses : Answer(c)) \/ EndCtx \/ UNCHANGED vars
      BY <1>0, <1>5 DEF Exhausted, FirstAttempt, SleepOver, SleepCut, BadRequest, Send, DoCut,
             DoTimeout, Answer, EndCtx, vars, loop, history, Return
<1> QED  BY <1>1, <1>2, <1>3, <1>4, <1>5 DEF Next, Step, Over

\* However long a server asks DoRetry to wait, and whatever the overflow makes of
\* it, no backoff is longer than MaxDelay (retry.go:22, "cap on any single backoff").
THEOREM SleepsAreCapped == Spec => []SleepCapped
<1>1. Init => SleepCapped
      BY DelaysNat DEF Init, SleepCapped
<1>2. RetryInv /\ SleepCapped /\ [Next]_vars => RetryInv' /\ SleepCapped'
      BY SleepStep, RetryInvStep DEF Next, Over
<1> QED  BY <1>1, <1>2, RetryInvInit, PTL DEF Spec

\* Where no product with time.Second overflows, Retry-After is honoured up to
\* MaxDelay and DoRetry does not panic: the overflow is the only way in which
\* RetryAfterCapped fails (retry.go:59, :120).
THEOREM BackoffsAreSound ==
  ASSUME ProductsInRange
  PROVE  Spec => []BackoffSound
<1>1. Init => BackoffSound /\ SleepCapped
      BY DelaysNat DEF Init, SleepCapped, BackoffSound, RetryAfterCapped
<1>2. RetryInv /\ SleepCapped /\ BackoffSound /\ [Next]_vars
        => RetryInv' /\ SleepCapped' /\ BackoffSound'
      BY SleepStep, RetryInvStep, ProductsInRange DEF Next, Over
<1> QED  BY <1>1, <1>2, RetryInvInit, PTL DEF Spec

-----------------------------------------------------------------------------
(* The operation around it *)

\* The budget DoRetry works with is the one the operation passed.
BudgetKept == cfg = RetryConfig(op)

\* DoRetry is not entered before the call, and nothing is known of the reply or
\* the outcome before the operation returns.
PhaseOrder ==
  /\ phase = "start" => pc = "loop"
  /\ phase # "done" => reply = NoReply /\ outcome = Pending

FetchInv ==
  /\ RetryInv /\ FetchTypeOK /\ BudgetKept /\ PhaseOrder /\ NoBodyLeak
  /\ TimeoutNamed /\ RateLimitNamed /\ WallNotServed

\* The label Reason gives each form of outcome.
LEMMA ReasonFacts ==
  /\ Reason(Served) = "ok" /\ Served.type = "served"
  /\ \A k : /\ Reason(FetchError(k)) = k
           /\ FetchError(k) # Served /\ FetchError(k).type = "fetchError"
  /\ \A c : /\ Reason(Raw(c)) = IF c \in {"timeout", "canceled", "deadline"}
                                THEN "timeout" ELSE "error"
           /\ Raw(c) # Served /\ Raw(c).type = "raw" /\ Raw(c).cause = c
BY DEF Reason, Served, FetchError, Raw

\* The kind of a status is never "timeout".
LEMMA KindFacts ==
  ASSUME NEW c \in Nat
  PROVE  /\ KindForStatus(c) \in Kinds \ {"timeout"}
         /\ c = 429 => KindForStatus(c) = "http_429"
BY DEF KindForStatus, Kinds

\* Judging a 200 answer serves it, or refuses it with an error that is not a
\* timeout.
LEMMA JudgeFacts ==
  ASSUME NEW o \in Op, NEW r \in Replies(o)
  PROVE  \/ Judge(o, r) = Served
         \/ \E k \in Kinds \ {"timeout"} : Judge(o, r) = FetchError(k)
         \/ \E c \in {"decode", "elsewhere"} : Judge(o, r) = Raw(c)
<1>1. ASSUME NEW x
      PROVE  \/ browserExec(x) = Served
             \/ \E k \in Kinds \ {"timeout"} : browserExec(x) = FetchError(k)
      BY DEF browserExec, Kinds
<1>2. CASE o \in Fetches
  <2>1. r.env.s \in Nat
        BY <1>2, PageStatusesNat DEF Replies, Fetches, Envelope
  <2>2. \/ browserFetch(r.env) = Served
        \/ \E k \in Kinds \ {"timeout"} : browserFetch(r.env) = FetchError(k)
        \/ browserFetch(r.env) = Raw("decode")
        BY <2>1, KindFacts DEF browserFetch, Kinds
  <2>3. Judge(o, r) = IF browserExec(r.exec) = Served THEN browserFetch(r.env)
                                                     ELSE browserExec(r.exec)
        BY <1>2 DEF Judge, Fetches
  <2> QED  BY <1>1, <2>2, <2>3
<1>3. CASE o = "share"
  <2>1. \/ Judge(o, r) = browserExec(r.exec)
        \/ Judge(o, r) = Served
        \/ Judge(o, r) = Raw("elsewhere")
        BY <1>3 DEF Judge, Fetches
  <2> QED  BY <1>1, <2>1
<1>4. CASE o = "crawl"
  <2>1. r.s \in Nat
        BY <1>4, PageStatusesNat DEF Replies, Fetches, CrawlReply
  <2>2. Judge(o, r) = CrawlJudge(r)
        BY <1>4 DEF Judge, Fetches
  <2> QED  BY <2>1, <2>2, KindFacts DEF CrawlJudge, Kinds
<1>5. CASE o = "search"
      BY <1>5 DEF Judge, Fetches
<1> QED  BY <1>2, <1>3, <1>4, <1>5 DEF Op, Browser, Fetches

\* A 429 of the page behind the reply becomes the outcome's kind.
LEMMA JudgeRateLimit ==
  ASSUME NEW o \in Op, NEW r \in Replies(o),
         \/ /\ o \in Fetches /\ browserExec(r.exec) = Served
            /\ r.env.decoded /\ r.env.s = 429
         \/ /\ o = "crawl" /\ ~Detect(Scan(r))
            /\ r.decoded /\ r.success /\ r.results = "some" /\ r.s = 429
  PROVE  Judge(o, r) = FetchError("http_429")
<1>1. KindForStatus(429) = "http_429"
      BY KindFacts
<1>2. CASE o \in Fetches
  <2>1. browserFetch(r.env) = FetchError("http_429")
        BY <1>1, <1>2 DEF browserFetch, Fetches
  <2> QED  BY <1>2, <2>1 DEF Judge, Fetches
<1>3. CASE o = "crawl"
  <2>1. CrawlJudge(r) = FetchError("http_429")
        BY <1>1, <1>3 DEF CrawlJudge, Fetches
  <2> QED  BY <1>3, <2>1 DEF Judge, Fetches
<1> QED  BY <1>2, <1>3

\* What is served has passed every test on the way.
LEMMA JudgeServed ==
  ASSUME NEW o \in Op, NEW r \in Replies(o), Judge(o, r) = Served
  PROVE  Passable(o, r)
<1>1. CASE o \in Fetches
  <2>1. browserFetch(r.env) = Served
        BY <1>1 DEF Judge, Fetches
  <2>2. r.env.json \in BOOLEAN /\ r.env.decoded \in BOOLEAN
        BY <1>1 DEF Replies, Fetches, Envelope
  <2> QED  BY <1>1, <2>1, <2>2, ReasonFacts DEF browserFetch, Fetches, Passable
<1>2. CASE o = "crawl"
  <2>1. CrawlJudge(r) = Served
        BY <1>2 DEF Judge, Fetches
  <2>2. ~Detect(Scan(r)) /\ r.s \notin {403, 429}
        BY <2>1, ReasonFacts DEF CrawlJudge
  <2>3. r.cleaned \in Texts /\ Content(r) \in Texts
        BY <1>2 DEF Replies, Fetches, CrawlReply, Content
  <2>4. /\ r.cleaned.len \in Nat /\ r.cleaned.mark \in Nat /\ r.cleaned.mark <= r.cleaned.len
        /\ Content(r).len \in Nat /\ Content(r).mark \in Nat
        /\ ScanLimit \in Nat
        BY <2>3, TextsTyped
  <2>5. r.cleaned.mark \notin 1..ScanLimit /\ Content(r).mark \notin 1..(ScanLimit - ContentAt(r))
    <3>1. CASE r.cleaned.len = 0
          BY <2>2, <2>4, <3>1 DEF Detect, Scan, ContentAt
    <3>2. CASE r.cleaned.len # 0
      <4>1. ~Detect(Joined(r.cleaned, Content(r)))
            BY <2>2, <3>2 DEF Scan
      <4> QED  BY <2>4, <3>2, <4>1 DEF Detect, Joined, ContentAt
    <3> QED  BY <3>1, <3>2
  <2> QED  BY <1>2, <2>2, <2>5 DEF Fetches, Passable
<1>3. CASE o \notin Fetches \cup {"crawl"}
      BY <1>3 DEF Passable
<1> QED  BY <1>1, <1>2, <1>3

\* The result of a call of DoRetry that is over.
LEMMA ResultFacts ==
  ASSUME RetryInv, pc = "done"
  PROVE  /\ result.type \in {"canceled", "deadline", "request", "response", "timeout",
                             "net", "status"}
         /\ result.type \in {"canceled", "deadline", "timeout"} => result = Plain(result.type)
         /\ result.type \in {"response", "status"} => result.code \in Nat
         /\ result.type = "response" => result # Status(429)
<1> USE DEF RetryInv, TypeOK
<1>1. result # Plain("none")
      BY DEF ResultIsLast, CtxErrs, Plain
<1>2. \/ result \in {Plain("canceled"), Plain("deadline"), Plain("net"), Plain("timeout"),
                     Plain("request")}
      \/ \E c \in Statuses : result = Status(c)
      \/ \E c \in Statuses : result = Response(c)
      BY <1>1 DEF Results, Errs, CtxErrs, NetErrs
<1> QED  BY <1>2, StatusesNat DEF Plain, Status, Response

\* The kind an error of DoRetry is given.
LEMMA ClassifyFacts ==
  ASSUME RetryInv, pc = "done", result.type # "response",
         NEW f \in {"bot_block", "upstream_error"}
  PROVE  /\ ClassifyClientError(result, f) \in Kinds
         /\ ClassifyClientError(result, f) = "timeout"
              <=> result.type \in {"canceled", "deadline", "timeout"}
         /\ result = Status(429) => ClassifyClientError(result, f) = "http_429"
<1>1. result = Status(429) => result.type = "status" /\ result.code = 429
      BY DEF Status
<1>2. CASE result.type = "status"
      BY <1>1, <1>2, ResultFacts, KindFacts DEF ClassifyClientError, Kinds
<1>3. CASE result.type # "status"
      BY <1>1, <1>3, ResultFacts DEF ClassifyClientError, Kinds
<1> QED  BY <1>2, <1>3

\* Reading or judging a response closes its body and touches nothing else of
\* DoRetry's state.
LEMMA CloseBodyStep ==
  ASSUME RetryInv, CloseBody
  PROVE  RetryInv' /\ cfg' = cfg /\ result' = result /\ pc' = pc
BY DEF CloseBody, RetryInv, TypeOK, AttemptCounted, LogCounted, LastErrLatest, ReturnLate,
       ResultIsLast, MaxAttempts, loop, caller, history

\* The ways an operation returns.
Finishes ==
  Unconfigured \/ CallFailed \/ ReadFails \/ StatusRefused \/ Judged

\* A step is one of DoRetry's, a return of the operation, or the call.
LEMMA FetchCases ==
  ASSUME [FetchNext]_fetchVars
  PROVE  \/ Finishes
         \/ /\ Step \/ EndCtx \/ Tick \/ UNCHANGED vars
            /\ UNCHANGED <<op, configured, reply, outcome>>
            /\ \/ phase' = phase /\ (phase = "calling" \/ UNCHANGED vars \/ EndCtx)
               \/ Call
            /\ phase = "done" => UNCHANGED vars
BY DEF FetchNext, FetchStep, CtxEnds, DoRetryStep, ClockTick, FetchOver, Finishes, Call,
       fetchVars, request

\* The operation's returns leave DoRetry's result and the request alone.
LEMMA FinishFrame ==
  ASSUME RetryInv, Finishes
  PROVE  /\ RetryInv' /\ phase' = "done" /\ phase # "done"
         /\ UNCHANGED <<op, configured, cfg, result, pc>>
<1>1. CASE Unconfigured \/ CallFailed
  <2>1. UNCHANGED vars /\ phase' = "done" /\ phase # "done" /\ UNCHANGED <<op, configured>>
        BY <1>1 DEF Unconfigured, CallFailed, Finish, request
  <2> QED  BY <2>1, RetryInvStep DEF vars, caller
<1>2. CASE ReadFails \/ StatusRefused \/ Judged
  <2>1. CloseBody /\ phase' = "done" /\ phase # "done" /\ UNCHANGED <<op, configured>>
        BY <1>2 DEF ReadFails, StatusRefused, Judged, Finish, request, Answered
  <2> QED  BY <2>1, CloseBodyStep
<1> QED  BY <1>1, <1>2 DEF Finishes

-----------------------------------------------------------------------------

\* Every step keeps RetryInv, the budget and the order of phases.
LEMMA FetchFrame ==
  ASSUME FetchInv, [FetchNext]_fetchVars
  PROVE  RetryInv' /\ BudgetKept' /\ PhaseOrder'
<1>1. CASE Finishes
      BY <1>1, FinishFrame DEF FetchInv, BudgetKept, PhaseOrder
<1>2. CASE ~Finishes
  <2>1. RetryInv'
        BY <1>2, FetchCases, RetryInvStep DEF FetchInv
  <2>2. cfg' = cfg /\ op' = op
        BY <1>2, FetchCases
        DEF Step, EndCtx, Tick, vars, caller, Exhausted, FirstAttempt, Jitter, SleepOver,
            SleepCut, BadRequest, Send, DoCut, DoTimeout, DoFails, Answer, Refuse
  <2>3. phase' = "start" => phase = "start" /\ pc' = pc
        BY <1>2, FetchCases DEF Call, EndCtx, vars
  <2>4. phase' # "done" => reply' = NoReply /\ outcome' = Pending
        BY <1>2, FetchCases DEF Call, FetchInv, PhaseOrder
  <2> QED  BY <2>1, <2>2, <2>3, <2>4 DEF FetchInv, BudgetKept, PhaseOrder
<1> QED  BY <1>1, <1>2

\* Every step keeps the types of the operation's own variables.
LEMMA FetchTypeStep ==
  ASSUME FetchInv, [FetchNext]_fetchVars
  PROVE  FetchTypeOK'
<1>0. TypeOK'
      BY FetchFrame DEF RetryInv
<1>1. ASSUME Finishes
      PROVE  FetchTypeOK'
  <2>0. op' = op /\ configured' = configured /\ phase' = "done"
        BY <1>1, FinishFrame DEF FetchInv
  <2>1. CASE Unconfigured
        BY <1>0, <2>0, <2>1 DEF Unconfigured, Finish, FetchInv, FetchTypeOK, Causes
  <2>2. CASE CallFailed
    <3>1. FallbackOf(op) \in {"bot_block", "upstream_error"}
          BY DEF FallbackOf
    <3>2. pc = "done" /\ result.type # "response" /\ RetryInv
          BY <2>2 DEF CallFailed, FetchInv
    <3>3. result.type \in Causes /\ ClassifyClientError(result, FallbackOf(op)) \in Kinds
          BY <3>1, <3>2, ResultFacts, ClassifyFacts DEF Causes
    <3>4. reply' = reply /\ outcome' \in {FetchError(k) : k \in Kinds} \cup {Raw(c) : c \in Causes}
          BY <2>2, <3>3 DEF CallFailed, Finish
    <3> QED  BY <1>0, <2>0, <3>4 DEF FetchInv, FetchTypeOK
  <2>3. CASE ReadFails
    <3>1. \A c \in {"net", "timeout"} \cup ({ctx} \ {"live"}) : c \in Causes
          BY DEF FetchInv, RetryInv, TypeOK, Causes
    <3>2. reply' = reply /\ outcome' \in {Raw(c) : c \in Causes}
          BY <2>3, <3>1 DEF ReadFails, Finish
    <3> QED  BY <1>0, <2>0, <3>2 DEF FetchInv, FetchTypeOK
  <2>4. CASE StatusRefused
    <3>1. result.code \in Nat
          BY <2>4, ResultFacts DEF StatusRefused, Answered, FetchInv
    <3>2. reply' = reply /\ outcome' \in {FetchError(k) : k \in Kinds} \cup {Raw(c) : c \in Causes}
          BY <2>4, <3>1, KindFacts DEF StatusRefused, Finish, Causes
    <3> QED  BY <1>0, <2>0, <3>2 DEF FetchInv, FetchTypeOK
  <2>5. CASE Judged
    <3>1. PICK r \in Replies(op) : reply' = r /\ outcome' = Judge(op, r)
          BY <2>5 DEF Judged, Finish
    <3>2. outcome' \in {Pending, Served} \cup {FetchError(k) : k \in Kinds}
                         \cup {Raw(c) : c \in Causes}
          BY <3>1, JudgeFacts DEF FetchInv, FetchTypeOK, Causes
    <3> QED  BY <1>0, <2>0, <3>1, <3>2 DEF FetchInv, FetchTypeOK
  <2> QED  BY <1>1, <2>1, <2>2, <2>3, <2>4, <2>5 DEF Finishes
<1>2. CASE ~Finishes
      BY <1>0, <1>2, FetchCases DEF Call, FetchInv, FetchTypeOK
<1> QED  BY <1>1, <1>2

\* Every step keeps exactly the body of an answer that is being read open.
LEMMA NoBodyLeakStep ==
  ASSUME FetchInv, [FetchNext]_fetchVars
  PROVE  NoBodyLeak'
<1> USE DEF FetchInv, NoBodyLeak, Answered
<1>1. CASE Finishes
  <2>1. phase' = "done"
        BY <1>1, FinishFrame
  <2>2. CASE Unconfigured \/ CallFailed
        BY <2>1, <2>2 DEF Unconfigured, CallFailed, vars
  <2>3. CASE ReadFails \/ StatusRefused \/ Judged
        BY <2>1, <2>3 DEF ReadFails, StatusRefused, Judged, CloseBody
  <2> QED  BY <1>1, <2>2, <2>3 DEF Finishes
<1>2. CASE ~Finishes /\ UNCHANGED vars /\ (phase' = phase \/ Call)
  <2>1. phase = "start" => pc # "done"
        BY DEF PhaseOrder
  <2> QED  BY <1>2, <2>1 DEF vars, loop, Call
<1>3. CASE ~Finishes /\ phase' = phase /\ (EndCtx \/ Tick)
      BY <1>3 DEF EndCtx, Tick, loop
<1>4. CASE ~Finishes /\ phase' = phase /\ phase = "calling" /\ Step
  <2>1. pc # "done"
        BY <1>4 DEF Step, Exhausted, FirstAttempt, Jitter, SleepOver, SleepCut, BadRequest,
                    Send, DoCut, DoTimeout, DoFails, Answer, Refuse
  <2>2. open = {}
        BY <2>1
  <2>3. ASSUME NEW c \in Statuses, Answer(c)
        PROVE  NoBodyLeak'
        BY <1>4, <2>2, <2>3 DEF Answer, Return, Response, loop
  <2>4. ASSUME NEW c \in Statuses, NEW s \in RetryAfters, Refuse(c, s)
        PROVE  NoBodyLeak'
        BY <2>2, <2>4 DEF Refuse, DrainAndClose
  <2>5. CASE Exhausted
    <3>1. RetryInv' /\ lastErr \in Errs
          BY FetchFrame DEF RetryInv, TypeOK
    <3>2. lastErr.type # "response"
          BY <3>1 DEF Errs, CtxErrs, NetErrs, Plain, Status
    <3> QED  BY <2>2, <2>5, <3>2 DEF Exhausted, Return
  <2>6. CASE FirstAttempt \/ Jitter \/ SleepOver \/ Send \/ DoFails
        BY <2>2, <2>6 DEF FirstAttempt, Jitter, SleepOver, Send, DoFails
  <2>7. CASE SleepCut \/ BadRequest \/ DoCut \/ DoTimeout
    <3>1. Plain(ctx).type # "response"
          BY DEF RetryInv, TypeOK, Plain
    <3>2. open' = {} /\ result'.type # "response"
          BY <2>2, <2>7, <3>1 DEF SleepCut, BadRequest, DoCut, DoTimeout, Return, Plain
    <3> QED  BY <3>2
  <2> QED  BY <1>4, <2>3, <2>4, <2>5, <2>6, <2>7 DEF Step
<1>5. \/ Finishes
      \/ UNCHANGED vars /\ (phase' = phase \/ Call)
      \/ phase' = phase /\ (EndCtx \/ Tick)
      \/ phase' = phase /\ phase = "calling" /\ Step
      BY FetchCases DEF Call
<1> QED  BY <1>1, <1>2, <1>3, <1>4, <1>5

\* The three properties below are decided when the operation returns, by what it
\* returns; no later step undoes them.
LEMMA DecidedAtReturn ==
  ASSUME FetchInv, [FetchNext]_fetchVars, ~Finishes, phase' = "done"
  PROVE  phase = "done" /\ UNCHANGED <<op, reply, outcome, result>>
BY FetchCases DEF Call, vars

\* A return keeps the link between a timeout and its label.
LEMMA TimeoutNamedStep ==
  ASSUME FetchInv, [FetchNext]_fetchVars
  PROVE  TimeoutNamed'
<1> USE DEF FetchInv, TimeoutNamed, Returned
<1>1. CASE ~Finishes
      BY <1>1, DecidedAtReturn
<1>2. CASE Finishes
  <2>0. op' = op /\ result' = result /\ phase' = "done" /\ phase # "done"
        BY <1>2, FinishFrame
  <2> DEFINE timedOut == {Plain("timeout"), Plain("canceled"), Plain("deadline")}
             cut == {"timeout", "canceled", "deadline"}
  <2>a. SUFFICES ASSUME op # "search"
                 PROVE  Reason(outcome') = "timeout"
                          <=> \/ result \in timedOut
                              \/ outcome'.type = "raw" /\ outcome'.cause \in cut
        BY <2>0
  <2>b. result \in timedOut => result.type \in cut
        BY DEF Plain
  <2>1. CASE Unconfigured
    <3>1. result = Plain("none")
          BY <2>1 DEF Unconfigured, PhaseOrder, RetryInv, ReturnLate
    <3>2. result \notin timedOut
          BY <3>1 DEF Plain
    <3>3. outcome' = Raw("config")
          BY <2>1 DEF Unconfigured, Finish
    <3> QED  BY <3>2, <3>3, ReasonFacts
  <2>2. CASE CallFailed
    <3>1. FallbackOf(op) \in {"bot_block", "upstream_error"} /\ pc = "done"
            /\ result.type # "response"
          BY <2>2 DEF FallbackOf, CallFailed
    <3>2. outcome' = FetchError(ClassifyClientError(result, FallbackOf(op)))
          BY <2>2, <2>a DEF CallFailed, Finish
    <3>3. Reason(outcome') = "timeout" <=> result.type \in cut
          BY <3>1, <3>2, ClassifyFacts, ReasonFacts
    <3>4. result.type \in cut => result \in timedOut
          BY <3>1, ResultFacts
    <3> QED  BY <2>b, <3>2, <3>3, <3>4, ReasonFacts
  <2>3. CASE ReadFails
    <3>1. result.type = "response" /\ \E c : outcome' = Raw(c)
          BY <2>3 DEF ReadFails, Finish, Answered
    <3>2. result \notin timedOut
          BY <2>b, <3>1
    <3> QED  BY <3>1, <3>2, ReasonFacts
  <2>4. CASE StatusRefused
    <3>1. result.type = "response" /\ pc = "done"
          BY <2>4 DEF StatusRefused, Answered
    <3>2. outcome' = FetchError(KindForStatus(result.code)) /\ result.code \in Nat
          BY <2>4, <2>a, <3>1, ResultFacts DEF StatusRefused, Finish
    <3>3. result \notin timedOut /\ KindForStatus(result.code) # "timeout"
          BY <2>b, <3>1, <3>2, KindFacts
    <3> QED  BY <3>2, <3>3, ReasonFacts
  <2>5. CASE Judged
    <3>1. result.type = "response" /\ op \in Op
          BY <2>5 DEF Judged, Answered, FetchTypeOK
    <3>2. PICK r \in Replies(op) : outcome' = Judge(op, r)
          BY <2>5 DEF Judged, Finish
    <3>3. result \notin timedOut
          BY <2>b, <3>1
    <3>4. \/ outcome' = Served
          \/ \E k \in Kinds \ {"timeout"} : outcome' = FetchError(k)
          \/ \E c \in {"decode", "elsewhere"} : outcome' = Raw(c)
          BY <3>1, <3>2, JudgeFacts
    <3> QED  BY <3>3, <3>4, ReasonFacts
  <2> QED  BY <1>2, <2>1, <2>2, <2>3, <2>4, <2>5 DEF Finishes
<1> QED  BY <1>1, <1>2

\* A return keeps a 429 labelled as one, whichever layer it comes from.
LEMMA RateLimitNamedStep ==
  ASSUME FetchInv, [FetchNext]_fetchVars
  PROVE  RateLimitNamed'
<1> USE DEF FetchInv, RateLimitNamed, Returned
<1>1. CASE ~Finishes
      BY <1>1, DecidedAtReturn DEF PageLimited
<1>2. CASE Finishes
  <2>0. op' = op /\ result' = result /\ phase' = "done" /\ reply = NoReply
        BY <1>2, FinishFrame DEF PhaseOrder
  <2>a. SUFFICES ASSUME op # "search", result = Status(429) \/ PageLimited'
                 PROVE  Reason(outcome') = "http_429"
        BY <2>0
  <2>1. CASE Unconfigured
    <3>1. result = Plain("none") /\ ~PageLimited'
          BY <2>0, <2>1 DEF Unconfigured, PhaseOrder, RetryInv, ReturnLate, PageLimited
    <3> QED  BY <2>a, <3>1 DEF Plain, Status
  <2>2. CASE CallFailed
    <3>1. FallbackOf(op) \in {"bot_block", "upstream_error"} /\ pc = "done"
            /\ result.type # "response"
          BY <2>2 DEF FallbackOf, CallFailed
    <3>2. outcome' = FetchError(ClassifyClientError(result, FallbackOf(op)))
          BY <2>2, <2>a DEF CallFailed, Finish
    <3>3. result = Status(429)
          BY <2>0, <2>2, <2>a DEF CallFailed, PageLimited
    <3> QED  BY <3>1, <3>2, <3>3, ClassifyFacts, ReasonFacts
  <2>3. CASE ReadFails \/ StatusRefused
    <3>1. result.type = "response" /\ pc = "done" /\ ~PageLimited'
          BY <2>0, <2>3 DEF ReadFails, StatusRefused, Answered, PageLimited
    <3> QED  BY <2>a, <3>1, ResultFacts
  <2>4. CASE Judged
    <3>1. PICK r \in Replies(op) : reply' = r /\ outcome' = Judge(op, r)
          BY <2>4 DEF Judged, Finish
    <3>2. result # Status(429) /\ op \in Op
          BY <2>4, ResultFacts DEF Judged, Answered, FetchTypeOK
    <3>3. Judge(op, r) = FetchError("http_429")
          BY <2>0, <2>a, <3>1, <3>2, JudgeRateLimit DEF PageLimited
    <3> QED  BY <3>1, <3>3, ReasonFacts
  <2> QED  BY <1>2, <2>1, <2>2, <2>3, <2>4 DEF Finishes
<1> QED  BY <1>1, <1>2

\* A return serves only what Judge let through.
LEMMA WallNotServedStep ==
  ASSUME FetchInv, [FetchNext]_fetchVars
  PROVE  WallNotServed'
<1> USE DEF FetchInv, WallNotServed, Returned
<1>1. CASE ~Finishes
      BY <1>1, DecidedAtReturn
<1>2. CASE Finishes /\ ~Judged
  <2>1. outcome' # Served
        BY <1>2, ReasonFacts
        DEF Finishes, Unconfigured, CallFailed, ReadFails, StatusRefused, Finish
  <2> QED  BY <2>1
<1>3. CASE Judged
  <2>1. PICK r \in Replies(op) : reply' = r /\ outcome' = Judge(op, r)
        BY <1>3 DEF Judged, Finish
  <2>2. op' = op /\ op \in Op
        BY <1>3 DEF Judged, request, FetchTypeOK
  <2>3. Passable(op, reply)' <=> Passable(op, r)
        BY <2>1, <2>2 DEF Passable, Content, ContentAt
  <2>4. ASSUME outcome' = Served
        PROVE  Passable(op, r)
    <3>1. Judge(op, r) = Served
          BY <2>1, <2>4
    <3> QED  BY ONLY <2>1, <2>2, <3>1, JudgeServed
  <2> QED  BY <2>1, <2>3, <2>4
<1> QED  BY <1>1, <1>2, <1>3

-----------------------------------------------------------------------------

\* FetchInv is an inductive invariant of an upstream operation.
THEOREM FetchInvariant == FetchSpec => []FetchInv
<1>1. FetchInit => FetchInv
  <2> SUFFICES ASSUME FetchInit PROVE FetchInv
      OBVIOUS
  <2>1. RetryInv /\ pc = "loop" /\ open = {}
        BY RetryInvInit DEF FetchInit, Init
  <2>2. FetchTypeOK
        BY <2>1 DEF FetchInit, FetchTypeOK, RetryInv
  <2>3. BudgetKept /\ PhaseOrder /\ NoBodyLeak
        BY <2>1 DEF FetchInit, BudgetKept, PhaseOrder, NoBodyLeak, Answered
  <2>4. TimeoutNamed /\ RateLimitNamed /\ WallNotServed
        BY DEF FetchInit, TimeoutNamed, RateLimitNamed, WallNotServed, Returned
  <2> QED  BY <2>1, <2>2, <2>3, <2>4 DEF FetchInv
<1>2. FetchInv /\ [FetchNext]_fetchVars => FetchInv'
      BY FetchFrame, FetchTypeStep, NoBodyLeakStep, TimeoutNamedStep, RateLimitNamedStep,
         WallNotServedStep DEF FetchInv
<1> QED  BY <1>1, <1>2, PTL DEF FetchSpec

\* Every variable of an operation and of its DoRetry keeps its type.
THEOREM FetchTypeCorrect == FetchSpec => []FetchTypeOK
<1>1. FetchInv => FetchTypeOK
      BY DEF FetchInv
<1> QED  BY <1>1, FetchInvariant, PTL

\* No exit of an operation leaves a response body open.
THEOREM BodiesClosed == FetchSpec => []NoBodyLeak
<1>1. FetchInv => NoBodyLeak
      BY DEF FetchInv
<1> QED  BY <1>1, FetchInvariant, PTL

\* Within an operation, too, DoRetry returns what its last request came to.
THEOREM FetchResult == FetchSpec => []ResultIsLast
<1>1. FetchInv => ResultIsLast
      BY DEF FetchInv, RetryInv
<1> QED  BY <1>1, FetchInvariant, PTL

\* A timeout is reported as one, wherever it struck, and nothing else is.
THEOREM TimeoutsNamed == FetchSpec => []TimeoutNamed
<1>1. FetchInv => TimeoutNamed
      BY DEF FetchInv
<1> QED  BY <1>1, FetchInvariant, PTL

\* Rate limiting is reported as such from every layer.
THEOREM RateLimitsNamed == FetchSpec => []RateLimitNamed
<1>1. FetchInv => RateLimitNamed
      BY DEF FetchInv
<1> QED  BY <1>1, FetchInvariant, PTL

\* No bot wall that the scan can see is handed on as content.
THEOREM WallsNotServed == FetchSpec => []WallNotServed
<1>1. FetchInv => WallNotServed
      BY DEF FetchInv
<1> QED  BY <1>1, FetchInvariant, PTL

\* A browser's request is never repeated, another's only after a failure that a
\* repetition may cure.
THEOREM RetriesAreJustified == FetchSpec => []RetriesJustified
<1>1. FetchInv => RetriesJustified
  <2> SUFFICES ASSUME FetchInv PROVE RetriesJustified
      OBVIOUS
  <2>1. Len(log) \in Nat /\ Len(log) <= MaxAttempts
        BY LenProperties DEF FetchInv, RetryInv, TypeOK, LogCounted
  <2>2. op \in Browser => MaxAttempts = 1
        BY DEF FetchInv, BudgetKept, RetryConfig, MaxAttempts
  <2>3. ASSUME NEW i \in 1..(Len(log) - 1)
        PROVE  Failed(log[i])
        BY <2>1 DEF FetchInv, RetryInv, LogCounted
  <2>4. ASSUME NEW e, Failed(e)
        PROVE  \/ e.type = "net"
               \/ e.type = "status" /\ (e.code = 429 \/ e.code >= 500)
        BY <2>4 DEF Failed, Plain, Status, Retryable
  <2> QED  BY <2>1, <2>2, <2>3, <2>4 DEF RetriesJustified
<1> QED  BY <1>1, FetchInvariant, PTL
=============================================================================
