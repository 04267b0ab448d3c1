----------------------------- MODULE MCFallback ------------------------------
(* Fallback with two calls for one domain, one of them under disable_cache. *)
EXTENDS Fallback

CONSTANTS c1, c2
MCCalls == {c1, c2}
MCDisableCache == {c2}
=============================================================================
