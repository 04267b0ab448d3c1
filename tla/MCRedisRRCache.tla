--------------------------- MODULE MCRedisRRCache ---------------------------
(* RedisRRCache with two callers that share one key. *)
EXTENDS RedisRRCache, TLC

CONSTANTS p1, p2, k1, r1, r2

MCCallers == {p1, p2}
MCKeys == {k1}
MCRRs == {r1, r2}
MCUnreadable == {r2}

(* One record above the cap; and the same one expiring at once, beside one *)
(* that does not decode.                                                   *)
MCRRsets == {{[rr |-> r1, ttl |-> 2]},
             {[rr |-> r1, ttl |-> 0], [rr |-> r2, ttl |-> 1]}}

Symmetry == Permutations(MCCallers)
=============================================================================
