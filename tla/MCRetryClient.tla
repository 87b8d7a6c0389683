--------------------------- MODULE MCRetryClient ----------------------------
(* RetryClient for TLC. *)
EXTENDS RetryClient

\* A success, a final client error, rate limiting and an upstream fault.
MCStatuses == {200, 404, 429, 503}

\* No (usable) header, at once, a delay below and one above MaxDelay.
MCRetryAfters == {-1, 0, 2, 9}

\* The same, and a number of seconds whose product leaves the Duration range.
MCHugeRetryAfters == MCRetryAfters \cup {40}
=============================================================================
