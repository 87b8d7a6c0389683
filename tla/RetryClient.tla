---------------------------- MODULE RetryClient -----------------------------
(***************************************************************************)
(* internal/httpx/retry.go: one call of Client.DoRetry, from its first     *)
(* attempt to its return, against a server that may answer anything and a  *)
(* context that may end at any moment.                                     *)
(*                                                                         *)
(* Durations are integers of a 64-bit type in the code: Half stands for    *)
(* 2^63, and the one product that can leave the range wraps (Wrap).        *)
(***************************************************************************)
EXTENDS Integers, Sequences

CONSTANTS CfgAttempts,   \* the values callers give RetryConfig.MaxAttempts
          BaseDelay,     \* RetryConfig.BaseDelay after defaults()
          MaxDelay,      \* RetryConfig.MaxDelay after defaults()
          Second,        \* time.Second, in ticks
          RetryAfters,   \* the numbers of seconds a server may ask for
          Statuses,      \* the status codes a server may answer with
          Half           \* half the range of a Duration

ASSUME CfgAttemptsNat == CfgAttempts \subseteq Nat
ASSUME DelaysNat == BaseDelay \in Nat /\ MaxDelay \in Nat
ASSUME SecondNat == Second \in Nat \ {0} /\ Half \in Nat \ {0}
ASSUME RetryAftersInt == RetryAfters \subseteq Int
ASSUME StatusesNat == Statuses \subseteq Nat

VARIABLES
  pc,        \* "loop", "sleep", "send", "wire" (in Client.Do), "done", "panic"
  attempt,   \* the loop variable
  delay,     \* the current backoff
  sleepLeft, \* what is left of the jittered sleep
  lastErr,   \* the error of the latest failed attempt
  ctx,       \* "live", or why the context ended: "canceled", "deadline"
  cfg,       \* the caller's RetryConfig.MaxAttempts
  goodReq,   \* whether http.NewRequestWithContext accepts method and url
  open,      \* the attempts whose response body is open
  result,    \* what DoRetry returned
  log,       \* history: what each request on the wire came to
  asked      \* history: the last answer's Retry-After in ticks, or -1

loop == <<attempt, delay, sleepLeft, lastErr>>
caller == <<ctx, cfg, goodReq>>
history == <<log, asked>>
vars == <<pc, loop, caller, open, result, history>>

\* RetryConfig.defaults for the attempts: zero means three.
MaxAttempts == IF cfg = 0 THEN 3 ELSE cfg

\* Errors and results, told apart by what errors.Is / errors.As tell apart.
Plain(t) == [type |-> t, code |-> 0]
Status(c) == [type |-> "status", code |-> c]       \* *StatusError
Response(c) == [type |-> "response", code |-> c]

CtxErrs == {Plain("canceled"), Plain("deadline")}
\* "timeout" is http.Client.Timeout, which errors.Is DeadlineExceeded.
NetErrs == {Plain("net"), Plain("timeout")}
Errs == CtxErrs \cup NetErrs \cup {Plain("none"), Plain("request")}
          \cup {Status(c) : c \in Statuses}
Results == Errs \cup {Response(c) : c \in Statuses}

\* The statuses DoRetry does not return.
Retryable(c) == c >= 500 \/ c = 429

TypeOK ==
  /\ pc \in {"loop", "sleep", "send", "wire", "done", "panic"}
  /\ attempt \in 0..MaxAttempts
  /\ delay \in Int
  /\ sleepLeft \in Nat
  /\ lastErr \in Errs
  /\ ctx \in {"live", "canceled", "deadline"}
  /\ cfg \in CfgAttempts
  /\ goodReq \in BOOLEAN
  /\ open \subseteq 0..MaxAttempts
  /\ result \in Results
  /\ log \in Seq(Results)
  /\ asked \in Int

Init ==
  /\ pc = "loop"
  /\ attempt = 0
  /\ delay = BaseDelay
  /\ sleepLeft = 0
  /\ lastErr = Plain("none")
  /\ ctx = "live"
  /\ cfg \in CfgAttempts
  /\ goodReq \in BOOLEAN
  /\ open = {}
  /\ result = Plain("none")
  /\ log = <<>>
  /\ asked = -1

-----------------------------------------------------------------------------
(* Backoff arithmetic *)

\* A product of Durations, truncated to the type's width.
Wrap(n) == ((n + Half) % (2 * Half)) - Half

SmallerOf(a, b) == IF a > b THEN b ELSE a

\* nextBackoff(d, max).
nextBackoff(d) == SmallerOf(2 * d, MaxDelay)

\* Fault variant: parseRetryAfter accepts negative numbers.
parsedAny(secs) == secs \in Int

\* parseRetryAfter: a header that is absent, malformed or negative (all
\* represented by negative numbers) does not count.
parsed(secs) == secs >= 0

\* The next backoff after a retryable answer.
DelayAfter(secs) ==
  IF parsed(secs) THEN SmallerOf(Wrap(secs * Second), MaxDelay) ELSE nextBackoff(delay)

-----------------------------------------------------------------------------
(* The loop *)

\* Fault variant: one attempt too many.
AttemptTooMany == attempt <= MaxAttempts

\* for attempt := 0; attempt < cfg.MaxAttempts; attempt++
AttemptLeft == attempt < MaxAttempts

Return(r) == pc' = "done" /\ result' = r

\* The loop ends: every attempt failed.
Exhausted ==
  /\ pc = "loop" /\ ~AttemptLeft
  /\ Return(lastErr)
  /\ UNCHANGED <<loop, caller, open, history>>

\* The first attempt does not wait.
FirstAttempt ==
  /\ pc = "loop" /\ AttemptLeft /\ attempt = 0
  /\ pc' = "send"
  /\ UNCHANGED <<loop, caller, open, result, history>>

\* rand.Int63n(delay + 1), which panics unless its argument is positive.
Jitter ==
  /\ pc = "loop" /\ AttemptLeft /\ attempt > 0
  /\ \/ /\ delay >= 0
        /\ \E j \in 0..delay : sleepLeft' = j
        /\ pc' = "sleep"
     \/ /\ delay < 0
        /\ pc' = "panic"
        /\ UNCHANGED sleepLeft
  /\ UNCHANGED <<attempt, delay, lastErr, caller, open, result, history>>

\* select: case <-time.After(jittered).
SleepOver ==
  /\ pc = "sleep" /\ sleepLeft = 0
  /\ pc' = "send"
  /\ UNCHANGED <<loop, caller, open, result, history>>

\* select: case <-ctx.Done(); when both are ready either may be taken.
SleepCut ==
  /\ pc = "sleep" /\ ctx # "live"
  /\ Return(Plain(ctx))
  /\ UNCHANGED <<loop, caller, open, history>>

\* http.NewRequestWithContext fails: no attempt can succeed.
BadRequest ==
  /\ pc = "send" /\ ~goodReq
  /\ Return(Plain("request"))
  /\ UNCHANGED <<loop, caller, open, history>>

\* Client.Do puts the request on the wire, unless the context is already done.
Send ==
  /\ pc = "send" /\ goodReq /\ ctx = "live"
  /\ pc' = "wire"
  /\ UNCHANGED <<loop, caller, open, result, history>>

\* Client.Do fails because the context ended, before or after it was sent.
DoCut ==
  /\ ctx # "live"
  /\ \/ pc = "send" /\ goodReq /\ UNCHANGED log
     \/ pc = "wire" /\ log' = Append(log, Plain(ctx))
  /\ lastErr' = Plain(ctx)
  /\ Return(Plain(ctx))
  /\ UNCHANGED <<attempt, delay, sleepLeft, caller, open, asked>>

\* Client.Timeout: not retried, because it is a DeadlineExceeded too.
DoTimeout ==
  /\ pc = "wire"
  /\ log' = Append(log, Plain("timeout"))
  /\ lastErr' = Plain("timeout")
  /\ Return(Plain("timeout"))
  /\ UNCHANGED <<attempt, delay, sleepLeft, caller, open, asked>>

\* Any other error of Client.Do is retried.
DoFails ==
  /\ pc = "wire"
  /\ log' = Append(log, Plain("net"))
  /\ lastErr' = Plain("net")
  /\ delay' = nextBackoff(delay)
  /\ attempt' = attempt + 1
  /\ pc' = "loop"
  /\ asked' = -1
  /\ UNCHANGED <<sleepLeft, caller, open, result>>

\* An answer that is not retryable is returned with its body open.
Answer(c) ==
  /\ pc = "wire" /\ ~Retryable(c)
  /\ log' = Append(log, Response(c))
  /\ open' = open \cup {attempt}
  /\ Return(Response(c))
  /\ UNCHANGED <<loop, caller, asked>>

\* Fault variant: the body of a retryable answer is left open.
LeftOpen == open \cup {attempt}

\* io.Copy(io.Discard, resp.Body); resp.Body.Close().
DrainAndClose == open

\* Fault variant: a retryable answer does not replace an earlier error.
FirstErr(c) == IF attempt = 0 THEN Status(c) ELSE lastErr

\* &StatusError{StatusCode: resp.StatusCode}.
StatusError(c) == Status(c)

\* A 429 or 5xx: the body is drained and closed, Retry-After sets the backoff.
Refuse(c, secs) ==
  /\ pc = "wire" /\ Retryable(c)
  /\ log' = Append(log, Status(c))
  /\ open' = DrainAndClose
  /\ lastErr' = StatusError(c)
  /\ delay' = DelayAfter(secs)
  /\ attempt' = attempt + 1
  /\ pc' = "loop"
  /\ asked' = IF parsed(secs) THEN secs * Second ELSE -1
  /\ UNCHANGED <<sleepLeft, caller, result>>

-----------------------------------------------------------------------------

\* The caller cancels, or its deadline passes.
EndCtx ==
  /\ ctx = "live"
  /\ ctx' \in {"canceled", "deadline"}
  /\ UNCHANGED <<pc, loop, cfg, goodReq, open, result, history>>

Tick ==
  /\ sleepLeft > 0
  /\ sleepLeft' = sleepLeft - 1
  /\ UNCHANGED <<pc, attempt, delay, lastErr, caller, open, result, log, asked>>

\* What DoRetry does by itself, a Do that returns included.
Step ==
  \/ Exhausted \/ FirstAttempt \/ Jitter \/ SleepOver \/ SleepCut
  \/ BadRequest \/ Send \/ DoCut \/ DoTimeout \/ DoFails
  \/ \E c \in Statuses : Answer(c) \/ \E s \in RetryAfters : Refuse(c, s)

\* The call is over.
Over == pc \in {"done", "panic"} /\ UNCHANGED vars

Next == Step \/ EndCtx \/ Tick \/ Over

Spec == Init /\ [][Next]_vars

-----------------------------------------------------------------------------
(* ClassifyClientError and domain.KindForStatus *)

\* Fault variant: every StatusError is classified by the fallback.
FallbackKind(e, fallback) ==
  IF e.type \in {"canceled", "deadline", "timeout"} THEN "timeout" ELSE fallback

\* domain.KindForStatus.
KindForStatus(c) ==
  CASE c = 403 -> "http_403"
    [] c = 429 -> "http_429"
    [] c >= 500 -> "upstream_error"
    [] OTHER -> "error"

\* ClassifyClientError(err, fallback).
ClassifyClientError(e, fallback) ==
  CASE e.type = "status" -> IF e.code >= 500 THEN fallback ELSE KindForStatus(e.code)
    [] e.type \in {"canceled", "deadline", "timeout"} -> "timeout"
    [] OTHER -> fallback

-----------------------------------------------------------------------------
(* Properties *)

\* DoRetry gives up on what the last request came to: an error is the context's
\* end, or Client.Timeout, or the failure of the last of MaxAttempts requests,
\* never an earlier one's; a response is the last request's and not retryable.
ResultIsLast ==
  pc = "done" =>
    \/ result \in CtxErrs /\ ctx # "live"
    \/ result = Plain("request") /\ log = <<>>
    \/ /\ log # <<>> /\ result = log[Len(log)]
       /\ \/ result.type = "response" /\ ~Retryable(result.code)
          \/ result.type = "timeout"
          \/ result.type \in {"net", "status"} /\ Len(log) = MaxAttempts

\* retry.go:59: a Retry-After, however large, becomes a backoff of at most
\* MaxDelay and not of something else.
RetryAfterCapped ==
  pc = "loop" /\ asked >= 0 => delay = SmallerOf(asked, MaxDelay)
=============================================================================
