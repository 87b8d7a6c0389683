---------------------------- MODULE MCLifecycle -----------------------------
(* Lifecycle for TLC. *)
EXTENDS Lifecycle

CONSTANTS loader, mcp, observability

\* The servers of run(), in its order.
MCServers == <<loader, mcp, observability>>
=============================================================================
