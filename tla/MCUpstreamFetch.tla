-------------------------- MODULE MCUpstreamFetch ---------------------------
(* UpstreamFetch for TLC. *)
EXTENDS UpstreamFetch

\* A success, a final client error, rate limiting and an upstream fault.
MCStatuses == {200, 404, 429, 503}

\* A page may also be forbidden.
MCPageStatuses == {200, 403, 429, 503}

\* With a ScanLimit of 3: nothing; a short text, with and without a marker; a
\* text after which even the shortest marker lies past the limit; and a long one
\* whose marker lies past the limit by itself.
MCTexts ==
  {[len |-> 0, mark |-> 0], [len |-> 1, mark |-> 0], [len |-> 1, mark |-> 1],
   [len |-> 2, mark |-> 0], [len |-> 4, mark |-> 4]}

\* No (usable) header, at once, a delay below and one above MaxDelay, and a number of seconds
\* whose product leaves the Duration range.
MCRetryAfters == {-1, 0, 1, 9, 40}
=============================================================================
