------------------------------ MODULE MCHealth ------------------------------
(* Health for TLC. *)
EXTENDS Health, TLC

CONSTANTS crawl4ai, searxng

\* The checks of run(), in its order.
MCUpstreams == <<crawl4ai, searxng>>

\* Probes are interchangeable.
Symmetry == Permutations(Prober)
=============================================================================
