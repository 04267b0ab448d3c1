------------------------------ MODULE MCRRCache ------------------------------
(* RRCache with two callers and two keys, the CNAME of a name and the       *)
(* address of its target.                                                   *)
EXTENDS RRCache, TLC

CONSTANTS p1, p2, cname, addr, r1, r2

MCCallers == {p1, p2}
MCKeys == {cname, addr}
MCAliases == {cname}
MCRRs == {r1, r2}

(* An RRset of one record at the cap, and one whose records expire at       *)
(* different times, the first at once and the second above the cap.         *)
MCReplies == {{[rr |-> r1, ttl |-> 1]},
              {[rr |-> r1, ttl |-> 0], [rr |-> r2, ttl |-> 2]}}

Symmetry == Permutations(MCCallers)
=============================================================================
