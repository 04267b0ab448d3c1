-------------------------- MODULE MCUpstreamGroup ---------------------------
(* UpstreamGroup with up to three upstreams. *)
EXTENDS UpstreamGroup

CONSTANTS n1, n2, n3
MCNameservers == {n1, n2, n3}
=============================================================================
