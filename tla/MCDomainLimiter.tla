-------------------------- MODULE MCDomainLimiter ---------------------------
(* DomainLimiter for TLC: every value comes from the cfg. *)
EXTENDS DomainLimiter, TLC

\* Goroutines are interchangeable, and so are hosts (safety runs only).
Symmetry == Permutations(Proc) \cup Permutations(Host)
=============================================================================
