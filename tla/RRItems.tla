------------------------------- MODULE RRItems -------------------------------
(***************************************************************************)
(* The TTL arithmetic of RRCacheItem (cache/dns_cache.go), which both DNS  *)
(* caches use.  Time is counted in ticks, Second of them to the second,    *)
(* because expiry compares exact durations while RemainingTTL truncates to *)
(* whole seconds.                                                          *)
(***************************************************************************)
EXTENDS Integers

CONSTANTS RRs,      \* record data
          MaxTTL,   \* maxTTL, in seconds (24 hours in main.go)
          Second    \* ticks of the clock per second

ASSUME TTLAssumption ==
    /\ MaxTTL \in Nat \ {0}
    /\ Second \in Nat \ {0}

Item == [rr : RRs, ttl : Nat, at : Nat]
Answer == [rr : RRs, ttl : Nat]

(* Mutant: seconds rounded up. *)
WholeSecondsUp(d) == (d + Second - 1) \div Second

(* int(d.Seconds()) truncates towards zero; d is negative when the caller  *)
(* fixed its `now` before another caller stored the item.                  *)
WholeSeconds(d) == IF d >= 0 THEN d \div Second ELSE -((-d) \div Second)

RemainingTTL(i, t) ==
    LET remaining == i.ttl - WholeSeconds(t - i.at)
    IN  IF remaining < 0 THEN 0 ELSE remaining

(* Mutant: no maxTTL. *)
CapNone(ttl) == ttl

Cap(ttl) == IF ttl > MaxTTL THEN MaxTTL ELSE ttl

(* Mutant: the items are handed out as they are, without a TTL rewrite. *)
ServedAsStored(live, t) == live

(* What ResolveCNAMEChain appends to its answers for the items of a hit. *)
Served(live, t) == {[rr |-> i.rr, ttl |-> RemainingTTL(i, t)] : i \in live}
=============================================================================
