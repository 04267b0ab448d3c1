---------------------------- MODULE RedisRRCache ----------------------------
(***************************************************************************)
(* The DNS cache in Redis (cache/redis.go, RedisDNSCache) under the        *)
(* concurrent calls of the queries, of one process or of several, that     *)
(* share it.  Redis carries out one command at a time; a call is several   *)
(* commands, and those of other callers come between them, the commands of *)
(* a pipeline included: it is no transaction.                              *)
(*                                                                         *)
(* A key holds a sorted set.  A member is the encoded item, StoredAt       *)
(* included; its score is the time the item expires at.  Which keys a query*)
(* asks for and what it stores is RRCache's subject: here a caller gets or *)
(* sets any key, with any of the given RRsets.                             *)
(***************************************************************************)
EXTENDS RRItems, FiniteSets

CONSTANTS Callers,    \* concurrent runs of Route, in all processes
          Keys,       \* "dns:" and the name, type and class
          RRsets,     \* what is stored: sets of [rr, ttl]
          Unreadable, \* records that can be encoded but not decoded
          Margin,     \* ticks the key outlives its members (time.Hour)
          MaxStores,  \* bound on the SetRRs calls of a behaviour
          MaxTime     \* bound on the clock

ASSUME ConstantsAssumption ==
    /\ Keys # {}
    /\ RRsets \subseteq (SUBSET Answer) \ {{}}
    /\ Unreadable \subseteq RRs
    /\ Margin \in Nat \ {0}
    /\ MaxStores \in Nat
    /\ MaxTime \in Nat

VARIABLES now,      \* the clock, in ticks
          members,  \* Redis: the sorted set of each key
          expires,  \* Redis: when a key ends, Never without EXPIRE
          pc,       \* where each caller is
          key,      \* the key of its call
          items,    \* members to examine, then those to serve; or to write
          removing, \* members to remove, which have expired or do not decode
          asof,     \* the `now` of ResolveCNAMEChain
          longest,  \* maxExpire of SetRRs, in seconds
          broken,   \* keys a pipeline that broke off has left (history)
          stores    \* SetRRs calls so far, counted for MaxStores

redis == <<members, expires, broken>>
vars == <<now, redis, pc, key, items, removing, asof, longest, stores>>

Never == -1
Member == [item : Item, score : Nat]
Steps == {"idle", "get", "filter", "clean", "hit", "del", "zadd", "expire"}

TypeOK ==
    /\ now \in Nat
    /\ members \in [Keys -> SUBSET Member]
    /\ expires \in [Keys -> Nat \cup {Never}]
    /\ pc \in [Callers -> Steps]
    /\ key \in [Callers -> Keys]
    /\ items \in [Callers -> SUBSET Member]
    /\ removing \in [Callers -> SUBSET Member]
    /\ asof \in [Callers -> Nat]
    /\ longest \in [Callers -> 0..MaxTTL]
    /\ broken \in SUBSET Keys
    /\ stores \in Nat

-----------------------------------------------------------------------------
(* Mutant: the encoding leaves StoredAt out. *)
EncodeTimeless(i) == [i EXCEPT !.at = 0]

(* encodeRRCacheItem writes all an item has, StoredAt to the nanosecond:   *)
(* only equal items are the same member.                                   *)
Encode(i) == i

(* decodeRRCacheItem gives the item back, or fails: on a record whose text *)
(* dns.NewRR refuses, or with a response code that has no name.            *)
Decodes(m) == m.item.rr \notin Unreadable

(* The loop of SetRRs over its items. *)
Stamp(rrset) ==
    {LET i == [rr |-> a.rr, ttl |-> Cap(a.ttl), at |-> now]
     IN  [item |-> Encode(i), score |-> now + i.ttl * Second] : a \in rrset}

AnyKey == CHOOSE k \in Keys : TRUE

(* A sorted set without members does not exist, and has no expiration.     *)
Keep(k, left) ==
    /\ members' = [members EXCEPT ![k] = left]
    /\ expires' = [expires EXCEPT ![k] = IF left = {} THEN Never ELSE @]
    /\ broken' = IF left = {} THEN broken \ {k} ELSE broken

Goto(p, step) == pc' = [pc EXCEPT ![p] = step]

(* The call returns: its locals go out of scope. *)
End(p) ==
    /\ Goto(p, "idle")
    /\ key' = [key EXCEPT ![p] = AnyKey]
    /\ items' = [items EXCEPT ![p] = {}]
    /\ removing' = [removing EXCEPT ![p] = {}]
    /\ asof' = [asof EXCEPT ![p] = 0]
    /\ longest' = [longest EXCEPT ![p] = 0]

-----------------------------------------------------------------------------
Init ==
    /\ now = 0
    /\ members = [k \in Keys |-> {}]
    /\ expires = [k \in Keys |-> Never]
    /\ pc = [p \in Callers |-> "idle"]
    /\ key = [p \in Callers |-> AnyKey]
    /\ items = [p \in Callers |-> {}]
    /\ removing = [p \in Callers |-> {}]
    /\ asof = [p \in Callers |-> 0]
    /\ longest = [p \in Callers |-> 0]
    /\ broken = {}
    /\ stores = 0

(* ResolveCNAMEChain reads its clock and calls GetRRs. *)
GetRRs(p, k) ==
    /\ pc[p] = "idle"
    /\ Goto(p, "get")
    /\ key' = [key EXCEPT ![p] = k]
    /\ asof' = [asof EXCEPT ![p] = now]
    /\ UNCHANGED <<now, redis, items, removing, longest, stores>>

(* ZRANGE; no members, and an error, are a miss. *)
ZRange(p) ==
    /\ pc[p] = "get"
    /\ \/ /\ members[key[p]] # {}
          /\ Goto(p, "filter")
          /\ items' = [items EXCEPT ![p] = members[key[p]]]
          /\ UNCHANGED <<key, removing, asof, longest>>
       \/ End(p)
    /\ UNCHANGED <<now, redis, stores>>

(* time.Now, and the loop over the members: what has expired, or has not  *)
(* but does not decode, is to be removed, the rest is to be served.        *)
Filter(p) ==
    /\ pc[p] = "filter"
    /\ Goto(p, "clean")
    /\ removing' = [removing EXCEPT ![p] = {m \in items[p] : now > m.score \/ ~Decodes(m)}]
    /\ items' = [items EXCEPT ![p] = {m \in @ : now <= m.score /\ Decodes(m)}]
    /\ UNCHANGED <<now, redis, key, asof, longest, stores>>

(* ZREM of one of these members; that it fails goes unnoticed. *)
ZRem(p, m) ==
    /\ pc[p] = "clean"
    /\ m \in removing[p]
    /\ \/ Keep(key[p], {n \in members[key[p]] : n.item # m.item})
       \/ UNCHANGED redis
    /\ removing' = [removing EXCEPT ![p] = @ \ {m}]
    /\ UNCHANGED <<now, pc, key, items, asof, longest, stores>>

(* GetRRs returns what is left, or deletes the key and misses. *)
EndGet(p) ==
    /\ pc[p] = "clean"
    /\ removing[p] = {}
    /\ \/ /\ items[p] # {}
          /\ Goto(p, "hit")
          /\ UNCHANGED <<redis, key, items, removing, asof, longest>>
       \/ /\ items[p] = {}
          /\ Keep(key[p], {}) \/ UNCHANGED redis
          /\ End(p)
    /\ UNCHANGED <<now, stores>>

(* ResolveCNAMEChain has copied the items into its answer. *)
Return(p) ==
    /\ pc[p] = "hit"
    /\ End(p)
    /\ UNCHANGED <<now, redis, stores>>

(* SetRRs up to pipe.Exec; SetSingleRR is the same for a list of one record. *)
SetRRs(p, k, rrset) ==
    /\ pc[p] = "idle"
    /\ stores < MaxStores
    /\ stores' = stores + 1
    /\ Goto(p, "del")
    /\ key' = [key EXCEPT ![p] = k]
    /\ items' = [items EXCEPT ![p] = Stamp(rrset)]
    /\ \E last \in rrset :
          /\ \A a \in rrset : Cap(a.ttl) <= Cap(last.ttl)
          /\ longest' = [longest EXCEPT ![p] = Cap(last.ttl)]
    /\ UNCHANGED <<now, redis, removing, asof>>

(* The pipeline's DEL. *)
PipeDel(p) ==
    /\ pc[p] = "del"
    /\ Keep(key[p], {})
    /\ Goto(p, "zadd")
    /\ UNCHANGED <<now, key, items, removing, asof, longest, stores>>

(* Mutant: EXPIRE is forgotten. *)
PipeZAddOnly(p, m) ==
    /\ pc[p] = "zadd"
    /\ m \in items[p]
    /\ Keep(key[p], {n \in members[key[p]] : n.item # m.item} \cup {m})
    /\ items' = [items EXCEPT ![p] = @ \ {m}]
    /\ Goto(p, IF items[p] = {m} THEN "idle" ELSE "zadd")
    /\ UNCHANGED <<now, key, removing, asof, longest, stores>>

(* A ZADD of the pipeline: a member that is there already gets a new score.*)
PipeZAdd(p, m) ==
    /\ pc[p] = "zadd"
    /\ m \in items[p]
    /\ Keep(key[p], {n \in members[key[p]] : n.item # m.item} \cup {m})
    /\ items' = [items EXCEPT ![p] = @ \ {m}]
    /\ Goto(p, IF items[p] = {m} THEN "expire" ELSE "zadd")
    /\ UNCHANGED <<now, key, removing, asof, longest, stores>>

(* The pipeline's EXPIRE, which does nothing when the key is gone. *)
PipeExpire(p) ==
    /\ pc[p] = "expire"
    /\ expires' = [expires EXCEPT ![key[p]] =
          IF members[key[p]] = {} THEN @ ELSE now + longest[p] * Second + Margin]
    /\ broken' = broken \ {key[p]}
    /\ End(p)
    /\ UNCHANGED <<now, members, stores>>

(* The connection breaks, or the process ends, in the midst of a pipeline: *)
(* the commands that were not sent are lost, and SetRRs fails.             *)
PipeBreaks(p) ==
    /\ pc[p] \in {"del", "zadd", "expire"}
    /\ broken' = broken \cup {key[p]}
    /\ End(p)
    /\ UNCHANGED <<now, members, expires, stores>>

(* DeleteRRs, or Clear when its SCAN comes to the key. *)
DeleteRRs(k) ==
    /\ members[k] # {}
    /\ Keep(k, {})
    /\ UNCHANGED <<now, pc, key, items, removing, asof, longest, stores>>

(* Redis removes a key whose time is over, some time after. *)
KeyEnds(k) ==
    /\ expires[k] # Never
    /\ now >= expires[k]
    /\ Keep(k, {})
    /\ UNCHANGED <<now, pc, key, items, removing, asof, longest, stores>>

Tick ==
    /\ now < MaxTime
    /\ now' = now + 1
    /\ UNCHANGED <<redis, pc, key, items, removing, asof, longest, stores>>

Next ==
    \/ \E p \in Callers :
          \/ ZRange(p) \/ Filter(p) \/ EndGet(p) \/ Return(p)
          \/ PipeDel(p) \/ PipeExpire(p) \/ PipeBreaks(p)
          \/ \E m \in removing[p] : ZRem(p, m)
          \/ \E m \in items[p] : PipeZAdd(p, m)
          \/ \E k \in Keys :
                \/ GetRRs(p, k)
                \/ \E rrset \in RRsets : SetRRs(p, k, rrset)
    \/ \E k \in Keys : DeleteRRs(k) \/ KeyEnds(k)
    \/ Tick

Spec == Init /\ [][Next]_vars

-----------------------------------------------------------------------------
(* A late ZREM of GetRRs never removes a record that could still be served,*)
(* stored afresh since ZRANGE: StoredAt is part of the member, so the same *)
(* record stored again is another member.  What does not decode goes       *)
(* however fresh it is.                                                    *)
ZRemSparesFresh ==
    [][\A p \in Callers : \A m \in removing[p] : ZRem(p, m) =>
          \A n \in members[key[p]] \ members'[key[p]] : now > n.score \/ ~Decodes(n)]_vars

(* However the pipelines of several writers and the clean-ups of readers   *)
(* mix, a key without an expiration still has its EXPIRE to come, unless a *)
(* pipeline broke off: Redis does not fill up with keys that never end.    *)
EveryKeyEnds ==
    \A k \in Keys : members[k] # {} /\ expires[k] = Never =>
        \/ k \in broken
        \/ \E p \in Callers : key[p] = k /\ pc[p] \in {"zadd", "expire"}

(* No record is served with a TTL that ends a second or more after its own,*)
(* though the TTL is counted by the chain's clock, read before ZRANGE, the *)
(* expiry was tested by another, and the record may be newer than both.    *)
ServedNoLonger ==
    \A p \in Callers : pc[p] = "hit" =>
        \A m \in items[p] : \A a \in Served({m.item}, asof[p]) :
            asof[p] + a.ttl * Second < m.score + Second

(* "CRITICAL: delete the old records first, to avoid their accumulation"   *)
(* (cache/redis.go:95): a key holds a record once.  Violated: a second     *)
(* writer's DEL may come before the first one's ZADD.                      *)
NoAccumulation ==
    \A k \in Keys : \A m, n \in members[k] : m.item.rr = n.item.rr => m = n
=============================================================================
