--------------------------- MODULE MCEngineCrawl ----------------------------
(* EngineCrawl for TLC: every value comes from the cfg. *)
EXTENDS EngineCrawl
=============================================================================
