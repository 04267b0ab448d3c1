------------------------------- MODULE RRCache -------------------------------
(***************************************************************************)
(* The in-memory DNS cache (cache/dns_cache.go, MemoryDNSCache) under the  *)
(* concurrent calls of the queries that use it.  A caller is one run of    *)
(* Router.Route: it walks the cached CNAME chain with GetRRs, may ask      *)
(* upstream, and stores the merged answer with one SetRRs per key.         *)
(*                                                                         *)
(* Every call that takes the mutex twice, or reads the clock before it     *)
(* takes the mutex, is split at those points: the steps between two        *)
(* accesses of c.mu are where other callers come in.                       *)
(*                                                                         *)
(* An RR list is a set of items: the order of the records is left out.     *)
(***************************************************************************)
EXTENDS RRItems, FiniteSets

CONSTANTS Callers,  \* concurrent runs of Route
          Keys,     \* cache keys: name, type and class
          Aliases,  \* the keys of CNAME records among them
          Replies,  \* RRsets an upstream may deliver: sets of [rr, ttl]
          MaxReplies,  \* bound on the upstream answers of a behaviour
          MaxTime      \* bound on the clock

ASSUME ConstantsAssumption ==
    /\ Keys # {}
    /\ Aliases \subseteq Keys
    /\ MaxReplies \in Nat
    /\ MaxTime \in Nat
    /\ Replies \subseteq SUBSET Answer

VARIABLES now,      \* the clock, in ticks
          storage,  \* c.storage; {} stands for an absent key
          pc,       \* where each caller is
          key,      \* the key of the GetRRs or SetRRs in progress
          items,    \* the list read under RLock, or about to be stored
          valid,    \* validItems, the part of it not expired
          asof,     \* the `now` of ResolveCNAMEChain
          resp,     \* answer section so far, by the key of its records
          replies   \* upstream answers so far, counted for MaxReplies

vars == <<now, storage, pc, key, items, valid, asof, resp, replies>>

Steps == {"idle", "chain", "hit", "filter", "delete", "shrink", "caching", "store"}

TypeOK ==
    /\ now \in Nat
    /\ storage \in [Keys -> SUBSET Item]
    /\ pc \in [Callers -> Steps]
    /\ key \in [Callers -> Keys]
    /\ items \in [Callers -> SUBSET Item]
    /\ valid \in [Callers -> SUBSET Item]
    /\ asof \in [Callers -> Nat]
    /\ resp \in [Callers -> [Keys -> SUBSET Answer]]
    /\ replies \in Nat

-----------------------------------------------------------------------------
IsExpired(i, t) == t - i.at >= i.ttl * Second

(* The loop of SetRRs over its items. *)
Stamp(answers) == {[rr |-> a.rr, ttl |-> Cap(a.ttl), at |-> now] : a \in answers}

NoAnswer == [k \in Keys |-> {}]
AnyKey == CHOOSE k \in Keys : TRUE  \* the key of a caller inside no call

-----------------------------------------------------------------------------
Init ==
    /\ now = 0
    /\ storage = [k \in Keys |-> {}]
    /\ pc = [p \in Callers |-> "idle"]
    /\ key = [p \in Callers |-> AnyKey]
    /\ items = [p \in Callers |-> {}]
    /\ valid = [p \in Callers |-> {}]
    /\ asof = [p \in Callers |-> 0]
    /\ resp = [p \in Callers |-> NoAnswer]
    /\ replies = 0

(* ResolveCNAMEChain reads the clock once, before its first lookup. *)
StartChain(p) ==
    /\ pc[p] = "idle"
    /\ pc' = [pc EXCEPT ![p] = "chain"]
    /\ asof' = [asof EXCEPT ![p] = now]
    /\ UNCHANGED <<now, storage, key, items, valid, resp, replies>>

(* GetRRs up to RUnlock.  A chain without a loop looks a key up once. *)
Lookup(p, k) ==
    /\ pc[p] = "chain"
    /\ resp[p][k] = {}
    /\ storage[k] # {}
    /\ pc' = [pc EXCEPT ![p] = "filter"]
    /\ key' = [key EXCEPT ![p] = k]
    /\ items' = [items EXCEPT ![p] = storage[k]]
    /\ UNCHANGED <<now, storage, valid, asof, resp, replies>>

(* GetRRs returns: its locals go out of scope. *)
EndGet(p, step) ==
    /\ pc' = [pc EXCEPT ![p] = step]
    /\ key' = [key EXCEPT ![p] = AnyKey]
    /\ items' = [items EXCEPT ![p] = {}]
    /\ valid' = [valid EXCEPT ![p] = {}]

(* A hit: the records join the answer with what is left of their TTL.  The *)
(* chain goes on after a CNAME and ends with a record of the target type.  *)
Hit(p, live) ==
    /\ resp' = [resp EXCEPT ![p][key[p]] = Served(live, asof[p])]
    /\ EndGet(p, IF key[p] \in Aliases THEN "chain" ELSE "hit")

(* Mutant: an entry of which some records have expired is deleted. *)
FilterAllOrNothing(p) ==
    /\ pc[p] = "filter"
    /\ \/ /\ \E i \in items[p] : IsExpired(i, now)
          /\ pc' = [pc EXCEPT ![p] = "delete"]
          /\ UNCHANGED <<key, items, valid, resp>>
       \/ /\ \A i \in items[p] : ~IsExpired(i, now)
          /\ Hit(p, items[p])
    /\ UNCHANGED <<now, storage, asof, replies>>

(* GetRRs from time.Now to the next use of the mutex, or to its return. *)
Filter(p) ==
    /\ pc[p] = "filter"
    /\ LET live == {i \in items[p] : ~IsExpired(i, now)} IN
         \/ /\ live = {}
            /\ pc' = [pc EXCEPT ![p] = "delete"]
            /\ UNCHANGED <<key, items, valid, resp>>
         \/ /\ live # {}
            /\ live # items[p]
            /\ pc' = [pc EXCEPT ![p] = "shrink"]
            /\ valid' = [valid EXCEPT ![p] = live]
            /\ UNCHANGED <<key, items, resp>>
         \/ /\ live # {}
            /\ live = items[p]
            /\ Hit(p, live)
    /\ UNCHANGED <<now, storage, asof, replies>>

(* All items had expired: delete(c.storage, key), and GetRRs misses. *)
DeleteExpired(p) ==
    /\ pc[p] = "delete"
    /\ storage' = [storage EXCEPT ![key[p]] = {}]
    /\ EndGet(p, "chain")
    /\ UNCHANGED <<now, asof, resp, replies>>

(* Some had: c.storage[key] = validItems, and GetRRs hits. *)
ShrinkExpired(p) ==
    /\ pc[p] = "shrink"
    /\ storage' = [storage EXCEPT ![key[p]] = valid[p]]
    /\ Hit(p, valid[p])
    /\ UNCHANGED <<now, asof, replies>>

(* The chain ends in a full hit, or the query in an error or in an answer  *)
(* that is not cached: Route returns.                                      *)
Return(p) ==
    /\ \/ pc[p] \in {"chain", "hit"}
       \/ pc[p] = "caching" /\ resp[p] = NoAnswer
    /\ pc' = [pc EXCEPT ![p] = "idle"]
    /\ asof' = [asof EXCEPT ![p] = 0]
    /\ resp' = [resp EXCEPT ![p] = NoAnswer]
    /\ UNCHANGED <<now, storage, key, items, valid, replies>>

(* The upstream answers for the key where the chain missed; cacheResponse  *)
(* then stores the merged answer, the cached CNAME records included.       *)
UpstreamReply(p, k, rrset) ==
    /\ pc[p] = "chain"
    /\ resp[p][k] = {}
    /\ replies < MaxReplies
    /\ replies' = replies + 1
    /\ pc' = [pc EXCEPT ![p] = "caching"]
    /\ resp' = [resp EXCEPT ![p][k] = rrset]
    /\ asof' = [asof EXCEPT ![p] = 0]
    /\ UNCHANGED <<now, storage, key, items, valid>>

(* SetRRs up to the mutex: it caps and stamps one group of cacheResponse.  *)
(* SetSingleRR is the same for a list of one record.                       *)
SetRRs(p, k) ==
    /\ pc[p] = "caching"
    /\ resp[p][k] # {}
    /\ pc' = [pc EXCEPT ![p] = "store"]
    /\ key' = [key EXCEPT ![p] = k]
    /\ items' = [items EXCEPT ![p] = Stamp(resp[p][k])]
    /\ resp' = [resp EXCEPT ![p][k] = {}]
    /\ UNCHANGED <<now, storage, valid, asof, replies>>

(* Mutant: the entry is extended instead of replaced. *)
StoreAppends(p) ==
    /\ pc[p] = "store"
    /\ storage' = [storage EXCEPT ![key[p]] = @ \cup items[p]]
    /\ pc' = [pc EXCEPT ![p] = "caching"]
    /\ key' = [key EXCEPT ![p] = AnyKey]
    /\ items' = [items EXCEPT ![p] = {}]
    /\ UNCHANGED <<now, valid, asof, resp, replies>>

(* It then replaces the whole entry under the mutex. *)
Store(p) ==
    /\ pc[p] = "store"
    /\ storage' = [storage EXCEPT ![key[p]] = items[p]]
    /\ pc' = [pc EXCEPT ![p] = "caching"]
    /\ key' = [key EXCEPT ![p] = AnyKey]
    /\ items' = [items EXCEPT ![p] = {}]
    /\ UNCHANGED <<now, valid, asof, resp, replies>>

DeleteRRs(k) ==
    /\ storage[k] # {}
    /\ storage' = [storage EXCEPT ![k] = {}]
    /\ UNCHANGED <<now, pc, key, items, valid, asof, resp, replies>>

Clear ==
    /\ storage' = [k \in Keys |-> {}]
    /\ UNCHANGED <<now, pc, key, items, valid, asof, resp, replies>>

Tick ==
    /\ now < MaxTime
    /\ now' = now + 1
    /\ UNCHANGED <<storage, pc, key, items, valid, asof, resp, replies>>

Next ==
    \/ \E p \in Callers :
          \/ StartChain(p) \/ Filter(p) \/ DeleteExpired(p) \/ ShrinkExpired(p)
          \/ Return(p) \/ Store(p)
          \/ \E k \in Keys :
                \/ Lookup(p, k)
                \/ SetRRs(p, k)
                \/ \E rrset \in Replies : UpstreamReply(p, k, rrset)
    \/ \E k \in Keys : DeleteRRs(k)
    \/ Clear
    \/ Tick

Spec == Init /\ [][Next]_vars

-----------------------------------------------------------------------------
(* The records of an entry come from one SetRRs: an RRset of one answer is *)
(* never mixed with records of another, whatever clean-ups and stores of   *)
(* other callers come between the lock sections of GetRRs.                 *)
OneRRset == \A k \in Keys : \A i, j \in storage[k] : i.at = j.at

(* No entry is stored for longer than maxTTL, though what is stored may be *)
(* a remaining TTL computed against a clock read before the item existed.  *)
MaxTTLCap == \A k \in Keys : \A i \in storage[k] : i.ttl <= MaxTTL /\ i.at <= now

(* An answer from the cache has at least one second to live: filtering by  *)
(* the later clock of GetRRs and computing the TTL by the earlier one of   *)
(* ResolveCNAMEChain, which also rounds, never hand out a record with TTL 0.*)
ServedAlive ==
    \A p \in Callers : pc[p] \in {"chain", "hit", "filter", "delete", "shrink"} =>
        \A k \in Keys : \A a \in resp[p][k] : a.ttl >= 1

(* A clean-up that no store came before since its read removes only        *)
(* expired records, although time has passed since they were filtered.     *)
CleansOnlyExpired(p) ==
    DeleteExpired(p) \/ ShrinkExpired(p) =>
        \A i \in storage[key[p]] \ storage'[key[p]] : IsExpired(i, now)

CleanUpDropsOnlyExpired ==
    [][\A p \in Callers : storage[key[p]] = items[p] => CleansOnlyExpired(p)]_vars
=============================================================================
