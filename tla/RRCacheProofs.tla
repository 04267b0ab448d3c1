---------------------------- MODULE RRCacheProofs ----------------------------
(***************************************************************************)
(* Theorems about RRCache, for any callers, keys, TTL cap, clock rate and  *)
(* upstream answers.                                                       *)
(***************************************************************************)
EXTENDS RRCache, TLAPS

(***************************************************************************)
(* The strengthening that is inductive.  The lists a caller holds between  *)
(* two lock sections share one stamp as the entries do, time can only have *)
(* passed since they were filtered, and the chain's clock was read before. *)
(***************************************************************************)
OneStamp(list) == \A i, j \in list : i.at = j.at
Capped(list) == \A i \in list : i.ttl <= MaxTTL /\ i.at <= now

ListsInv ==
    /\ \A k \in Keys : OneStamp(storage[k]) /\ Capped(storage[k])
    /\ \A p \in Callers : OneStamp(items[p]) /\ Capped(items[p])

FilterInv ==
    \A p \in Callers :
        /\ asof[p] <= now
        /\ valid[p] \subseteq items[p]
        /\ pc[p] # "shrink" => valid[p] = {}
        /\ pc[p] = "delete" => \A i \in items[p] : IsExpired(i, now)
        /\ pc[p] = "shrink" => \A i \in items[p] \ valid[p] : IsExpired(i, now)
        /\ pc[p] = "shrink" => \A i \in valid[p] : RemainingTTL(i, asof[p]) >= 1

AnswerInv == \A p \in Callers : pc[p] = "idle" => resp[p] = NoAnswer

IInv == TypeOK /\ ListsInv /\ FilterInv /\ AnswerInv /\ ServedAlive

-----------------------------------------------------------------------------
(* An item found alive at u has at least one second left by any earlier    *)
(* clock t, even one read before the item was stored: the rounding of      *)
(* RemainingTTL and the test of IsExpired agree on when the end comes.     *)
LEMMA AliveForASecond ==
    ASSUME NEW i \in Item, NEW t \in Nat, NEW u \in Nat,
           t <= u, i.at <= u, ~IsExpired(i, u)
    PROVE  RemainingTTL(i, t) \in Nat /\ RemainingTTL(i, t) >= 1
<1>1. Second \in Nat \ {0} /\ i.ttl \in Nat /\ i.at \in Nat
  BY TTLAssumption DEF Item
<1>2. u - i.at < i.ttl * Second
  BY <1>1 DEF IsExpired
<1>3. i.ttl >= 1
  BY <1>1, <1>2
<1>4. CASE t - i.at >= 0
  <2> DEFINE d == t - i.at
  <2>1. d \in Nat /\ d < i.ttl * Second
    BY <1>1, <1>2, <1>4
  <2>2. d \div Second \in Nat /\ d \div Second < i.ttl
    BY <1>1, <2>1
  <2>3. QED
    BY <1>1, <1>4, <2>2 DEF RemainingTTL, WholeSeconds
<1>5. CASE ~(t - i.at >= 0)
  <2> DEFINE d == -(t - i.at)
  <2>1. d \in Nat
    BY <1>1, <1>5
  <2>2. d \div Second \in Nat
    BY <1>1, <2>1
  <2>3. WholeSeconds(t - i.at) = -(d \div Second)
    BY <1>5 DEF WholeSeconds
  <2>4. QED
    BY <1>1, <1>3, <2>2, <2>3 DEF RemainingTTL
<1>6. QED
  BY <1>4, <1>5

(* Any computed TTL is a number of seconds. *)
LEMMA RemainingNat ==
    ASSUME NEW i \in Item, NEW t \in Nat
    PROVE  RemainingTTL(i, t) \in Nat
<1>1. Second \in Nat \ {0} /\ i.ttl \in Nat /\ i.at \in Nat
  BY TTLAssumption DEF Item
<1>2. WholeSeconds(t - i.at) \in Int
  BY <1>1 DEF WholeSeconds
<1>3. QED
  BY <1>1, <1>2 DEF RemainingTTL

(* Time only makes items expire. *)
LEMMA ExpiredForGood ==
    ASSUME NEW i \in Item, NEW t \in Nat, IsExpired(i, t)
    PROVE  IsExpired(i, t + 1)
<1>1. i.ttl * Second \in Nat /\ i.at \in Nat
  BY TTLAssumption DEF Item
<1>2. QED
  BY <1>1 DEF IsExpired

-----------------------------------------------------------------------------
LEMMA AnyKeyIsKey == AnyKey \in Keys
BY ConstantsAssumption DEF AnyKey

LEMMA StampIsItems ==
    ASSUME NEW answers \in SUBSET Answer, now \in Nat
    PROVE  Stamp(answers) \in SUBSET Item /\ OneStamp(Stamp(answers)) /\ Capped(Stamp(answers))
<1>1. ASSUME NEW a \in answers
      PROVE  a.rr \in RRs /\ Cap(a.ttl) \in Nat /\ Cap(a.ttl) <= MaxTTL
  BY TTLAssumption DEF Answer, Cap
<1>2. QED
  BY <1>1 DEF Stamp, Item, OneStamp, Capped

LEMMA ServedIsAnswers ==
    ASSUME NEW live \in SUBSET Item, NEW t \in Nat
    PROVE  Served(live, t) \in SUBSET Answer
BY RemainingNat DEF Served, Item, Answer

(* The types of the state. *)
LEMMA TypeInit == Init => TypeOK
BY AnyKeyIsKey DEF Init, TypeOK, NoAnswer, Steps

LEMMA TypeNext == TypeOK /\ [Next]_vars => TypeOK'
<1> SUFFICES ASSUME TypeOK, [Next]_vars PROVE TypeOK'
  OBVIOUS
<1> USE AnyKeyIsKey
<1>1. ASSUME NEW p \in Callers, StartChain(p) PROVE TypeOK'
  BY <1>1 DEF TypeOK, StartChain, Steps
<1>2. ASSUME NEW p \in Callers, NEW k \in Keys, Lookup(p, k) PROVE TypeOK'
  BY <1>2 DEF TypeOK, Lookup, Steps
<1>3. ASSUME NEW p \in Callers, NEW live \in SUBSET Item, Hit(p, live),
             UNCHANGED <<now, asof, replies>>, storage' \in [Keys -> SUBSET Item]
      PROVE TypeOK'
  <2>1. Served(live, asof[p]) \in SUBSET Answer
    BY ServedIsAnswers DEF TypeOK
  <2>2. QED
    BY <1>3, <2>1 DEF TypeOK, Hit, EndGet, Steps
<1>4. ASSUME NEW p \in Callers, Filter(p) PROVE TypeOK'
  <2> DEFINE live == {i \in items[p] : ~IsExpired(i, now)}
  <2>1. live \in SUBSET Item
    BY DEF TypeOK
  <2>2. CASE Hit(p, live)
    BY <1>3, <1>4, <2>1, <2>2 DEF Filter, TypeOK
  <2>3. CASE pc' = [pc EXCEPT ![p] = "delete"] /\ UNCHANGED <<key, items, valid, resp>>
    BY <1>4, <2>3 DEF Filter, TypeOK, Steps
  <2>4. CASE /\ pc' = [pc EXCEPT ![p] = "shrink"]
             /\ valid' = [valid EXCEPT ![p] = live]
             /\ UNCHANGED <<key, items, resp>>
    BY <1>4, <2>1, <2>4 DEF Filter, TypeOK, Steps
  <2>5. QED
    BY <1>4, <2>2, <2>3, <2>4 DEF Filter
<1>5. ASSUME NEW p \in Callers, DeleteExpired(p) PROVE TypeOK'
  BY <1>5 DEF TypeOK, DeleteExpired, EndGet, Steps
<1>6. ASSUME NEW p \in Callers, ShrinkExpired(p) PROVE TypeOK'
  <2>1. valid[p] \in SUBSET Item /\ storage' \in [Keys -> SUBSET Item]
    BY <1>6 DEF TypeOK, ShrinkExpired
  <2>2. QED
    BY <1>3, <1>6, <2>1 DEF ShrinkExpired
<1>7. ASSUME NEW p \in Callers, Return(p) PROVE TypeOK'
  BY <1>7 DEF TypeOK, Return, NoAnswer, Steps
<1>8. ASSUME NEW p \in Callers, NEW k \in Keys, NEW rrset \in Replies, UpstreamReply(p, k, rrset)
      PROVE TypeOK'
  <2>1. rrset \in SUBSET Answer
    BY ConstantsAssumption
  <2>2. QED
    BY <1>8, <2>1 DEF TypeOK, UpstreamReply, Steps
<1>9. ASSUME NEW p \in Callers, NEW k \in Keys, SetRRs(p, k) PROVE TypeOK'
  <2>1. Stamp(resp[p][k]) \in SUBSET Item
    BY StampIsItems DEF TypeOK
  <2>2. QED
    BY <1>9, <2>1 DEF TypeOK, SetRRs, Steps
<1>10. ASSUME NEW p \in Callers, Store(p) PROVE TypeOK'
  BY <1>10 DEF TypeOK, Store, Steps
<1>11. ASSUME NEW k \in Keys, DeleteRRs(k) PROVE TypeOK'
  BY <1>11 DEF TypeOK, DeleteRRs
<1>12. CASE Clear
  BY <1>12 DEF TypeOK, Clear
<1>13. CASE Tick
  BY <1>13 DEF TypeOK, Tick
<1>14. CASE UNCHANGED vars
  BY <1>14 DEF TypeOK, vars
<1>15. QED
  BY <1>1, <1>2, <1>4, <1>5, <1>6, <1>7, <1>8, <1>9, <1>10, <1>11, <1>12, <1>13, <1>14 DEF Next

(* Every variable keeps its type. *)
THEOREM Types == Spec => []TypeOK
BY TypeInit, TypeNext, PTL DEF Spec

-----------------------------------------------------------------------------
LEMMA InvInit == Init => IInv
BY TypeInit DEF Init, IInv, ListsInv, FilterInv, AnswerInv, ServedAlive, OneStamp, Capped

LEMMA InvNext == IInv /\ [Next]_vars => IInv'
<1> SUFFICES ASSUME IInv, [Next]_vars
             PROVE  ListsInv' /\ FilterInv' /\ AnswerInv' /\ ServedAlive'
  BY TypeNext DEF IInv
<1>0. TypeOK /\ TypeOK'
  BY TypeNext DEF IInv
<1> USE DEF OneStamp, Capped
<1>1. ASSUME NEW p \in Callers, StartChain(p)
      PROVE  ListsInv' /\ FilterInv' /\ AnswerInv' /\ ServedAlive'
  BY <1>0, <1>1 DEF StartChain, TypeOK, IInv, ListsInv, FilterInv, AnswerInv, ServedAlive, NoAnswer, IsExpired
<1>2. ASSUME NEW p \in Callers, NEW k \in Keys, Lookup(p, k)
      PROVE  ListsInv' /\ FilterInv' /\ AnswerInv' /\ ServedAlive'
  BY <1>0, <1>2 DEF Lookup, TypeOK, IInv, ListsInv, FilterInv, AnswerInv, ServedAlive
(* A hit leaves the lists empty and answers with records alive for a second. *)
<1>3. ASSUME NEW p \in Callers, NEW live \in SUBSET Item, Hit(p, live),
             pc[p] \in {"filter", "shrink"},
             \A i \in live : RemainingTTL(i, asof[p]) >= 1,
             UNCHANGED <<now, asof>>
      PROVE  FilterInv' /\ AnswerInv' /\ ServedAlive'
  <2>1. FilterInv' /\ AnswerInv'
    BY <1>0, <1>3 DEF Hit, EndGet, TypeOK, IInv, FilterInv, AnswerInv
  <2>2. \A a \in Served(live, asof[p]) : a.ttl >= 1
    BY <1>3 DEF Served
  <2>3. ASSUME NEW q \in Callers, pc'[q] \in {"chain", "hit", "filter", "delete", "shrink"},
               NEW k \in Keys, NEW a \in resp'[q][k]
        PROVE  a.ttl >= 1
    <3>1. CASE q = p /\ k = key[p]
      BY <1>0, <1>3, <2>2, <2>3, <3>1 DEF Hit, TypeOK
    <3>2. CASE ~(q = p /\ k = key[p])
      BY <1>0, <1>3, <2>3, <3>2 DEF Hit, EndGet, TypeOK, IInv, ServedAlive
    <3>3. QED
      BY <3>1, <3>2
  <2>4. QED
    BY <2>1, <2>3 DEF ServedAlive
<1>4. ASSUME NEW p \in Callers, Filter(p)
      PROVE  ListsInv' /\ FilterInv' /\ AnswerInv' /\ ServedAlive'
  <2> DEFINE live == {i \in items[p] : ~IsExpired(i, now)}
  <2>1. live \in SUBSET Item /\ pc[p] = "filter"
    BY <1>0, <1>4 DEF TypeOK, Filter
  <2>2. \A i \in live : RemainingTTL(i, asof[p]) >= 1
    <3>1. now \in Nat /\ asof[p] \in Nat /\ asof[p] <= now /\ \A i \in live : i.at <= now
      BY <1>0 DEF TypeOK, IInv, FilterInv, ListsInv
    <3>2. QED
      BY <2>1, <3>1, AliveForASecond
  <2>3. ListsInv'
    BY <1>0, <1>4 DEF Filter, Hit, EndGet, TypeOK, IInv, ListsInv
  <2>4. CASE Hit(p, live)
    BY <1>3, <1>4, <2>1, <2>2, <2>3, <2>4 DEF Filter
  <2>5. CASE live = {} /\ pc' = [pc EXCEPT ![p] = "delete"] /\ UNCHANGED <<key, items, valid, resp>>
    BY <1>0, <1>4, <2>1, <2>3, <2>5 DEF Filter, TypeOK, IInv, FilterInv, AnswerInv, ServedAlive
  <2>6. CASE /\ pc' = [pc EXCEPT ![p] = "shrink"]
             /\ valid' = [valid EXCEPT ![p] = live]
             /\ UNCHANGED <<key, items, resp>>
    <3>1. FilterInv'
      BY <1>0, <1>4, <2>1, <2>2, <2>6 DEF Filter, TypeOK, IInv, FilterInv
    <3>2. AnswerInv' /\ ServedAlive'
      BY <1>0, <1>4, <2>1, <2>6 DEF Filter, TypeOK, IInv, AnswerInv, ServedAlive
    <3>3. QED
      BY <2>3, <3>1, <3>2
  <2>7. QED
    BY <1>4, <2>4, <2>5, <2>6 DEF Filter
<1>5. ASSUME NEW p \in Callers, DeleteExpired(p)
      PROVE  ListsInv' /\ FilterInv' /\ AnswerInv' /\ ServedAlive'
  BY <1>0, <1>5 DEF DeleteExpired, EndGet, TypeOK, IInv, ListsInv, FilterInv, AnswerInv, ServedAlive
<1>6. ASSUME NEW p \in Callers, ShrinkExpired(p)
      PROVE  ListsInv' /\ FilterInv' /\ AnswerInv' /\ ServedAlive'
  <2>1. valid[p] \in SUBSET Item /\ \A i \in valid[p] : RemainingTTL(i, asof[p]) >= 1
    BY <1>0, <1>6 DEF ShrinkExpired, TypeOK, IInv, FilterInv
  <2>2. ListsInv'
    BY <1>0, <1>6 DEF ShrinkExpired, Hit, EndGet, TypeOK, IInv, ListsInv, FilterInv
  <2>3. QED
    BY <1>3, <1>6, <2>1, <2>2 DEF ShrinkExpired
<1>7. ASSUME NEW p \in Callers, Return(p)
      PROVE  ListsInv' /\ FilterInv' /\ AnswerInv' /\ ServedAlive'
  BY <1>0, <1>7 DEF Return, TypeOK, IInv, ListsInv, FilterInv, AnswerInv, ServedAlive
<1>8. ASSUME NEW p \in Callers, NEW k \in Keys, NEW rrset \in Replies, UpstreamReply(p, k, rrset)
      PROVE  ListsInv' /\ FilterInv' /\ AnswerInv' /\ ServedAlive'
  BY <1>0, <1>8 DEF UpstreamReply, TypeOK, IInv, ListsInv, FilterInv, AnswerInv, ServedAlive
<1>9. ASSUME NEW p \in Callers, NEW k \in Keys, SetRRs(p, k)
      PROVE  ListsInv' /\ FilterInv' /\ AnswerInv' /\ ServedAlive'
  <2>1. OneStamp(Stamp(resp[p][k])) /\ Capped(Stamp(resp[p][k]))
    <3>1. resp[p][k] \in SUBSET Answer /\ now \in Nat
      BY <1>0 DEF TypeOK
    <3>2. QED
      BY <3>1, StampIsItems
  <2>2. ListsInv'
    BY <1>0, <1>9, <2>1 DEF SetRRs, TypeOK, IInv, ListsInv
  <2>3. FilterInv'
    BY <1>0, <1>9 DEF SetRRs, TypeOK, IInv, FilterInv
  <2>4. AnswerInv' /\ ServedAlive'
    BY <1>0, <1>9 DEF SetRRs, TypeOK, IInv, AnswerInv, ServedAlive
  <2>5. QED
    BY <2>2, <2>3, <2>4
<1>10. ASSUME NEW p \in Callers, Store(p)
       PROVE  ListsInv' /\ FilterInv' /\ AnswerInv' /\ ServedAlive'
  BY <1>0, <1>10 DEF Store, TypeOK, IInv, ListsInv, FilterInv, AnswerInv, ServedAlive
<1>11. ASSUME NEW k \in Keys, DeleteRRs(k)
       PROVE  ListsInv' /\ FilterInv' /\ AnswerInv' /\ ServedAlive'
  BY <1>0, <1>11 DEF DeleteRRs, TypeOK, IInv, ListsInv, FilterInv, AnswerInv, ServedAlive
<1>12. CASE Clear
  BY <1>0, <1>12 DEF Clear, TypeOK, IInv, ListsInv, FilterInv, AnswerInv, ServedAlive
<1>13. CASE Tick
  <2>1. ListsInv' /\ AnswerInv' /\ ServedAlive'
    BY <1>0, <1>13 DEF Tick, TypeOK, Item, IInv, ListsInv, AnswerInv, ServedAlive
  <2>2. \A i \in Item : IsExpired(i, now) => IsExpired(i, now')
    BY <1>0, <1>13, ExpiredForGood DEF Tick, TypeOK
  <2>3. FilterInv'
    BY <1>0, <1>13, <2>2 DEF Tick, TypeOK, IInv, FilterInv
  <2>4. QED
    BY <2>1, <2>3
<1>14. CASE UNCHANGED vars
  BY <1>14 DEF vars, IInv, ListsInv, FilterInv, AnswerInv, ServedAlive
<1>15. QED
  BY <1>1, <1>2, <1>4, <1>5, <1>6, <1>7, <1>8, <1>9, <1>10, <1>11, <1>12, <1>13, <1>14 DEF Next

LEMMA Inductive == Spec => []IInv
BY InvInit, InvNext, PTL DEF Spec

(* GetRRs and SetRRs never leave an entry mixed from two answers. *)
THEOREM OneRRsetAlways == Spec => []OneRRset
<1>1. IInv => OneRRset
  BY DEF IInv, ListsInv, OneStamp, OneRRset
<1>2. QED
  BY <1>1, Inductive, PTL

(* SetRRs keeps every entry's TTL within maxTTL. *)
THEOREM MaxTTLCapAlways == Spec => []MaxTTLCap
<1>1. IInv => MaxTTLCap
  BY DEF IInv, ListsInv, Capped, MaxTTLCap
<1>2. QED
  BY <1>1, Inductive, PTL

(* ResolveCNAMEChain never answers with a record of TTL 0. *)
THEOREM ServedAliveAlways == Spec => []ServedAlive
<1>1. IInv => ServedAlive
  BY DEF IInv
<1>2. QED
  BY <1>1, Inductive, PTL

(* A clean-up of GetRRs that no store raced with removes expired records only. *)
THEOREM CleanUpIsExact == Spec => CleanUpDropsOnlyExpired
<1>1. ASSUME IInv, NEW p \in Callers, storage[key[p]] = items[p]
      PROVE  CleansOnlyExpired(p)
  <2>0. TypeOK /\ FilterInv
    BY <1>1 DEF IInv
  <2>1. CASE DeleteExpired(p)
    BY <1>1, <2>0, <2>1 DEF DeleteExpired, FilterInv, CleansOnlyExpired
  <2>2. CASE ShrinkExpired(p)
    <3>1. storage'[key[p]] = valid[p]
      BY <2>0, <2>2 DEF ShrinkExpired, TypeOK
    <3>2. QED
      BY <1>1, <2>0, <2>2, <3>1 DEF ShrinkExpired, FilterInv, CleansOnlyExpired
  <2>3. QED
    BY <2>1, <2>2 DEF CleansOnlyExpired
<1>2. IInv /\ [Next]_vars => [\A p \in Callers : storage[key[p]] = items[p] => CleansOnlyExpired(p)]_vars
  BY <1>1
<1>3. QED
  BY <1>2, Inductive, PTL DEF CleanUpDropsOnlyExpired, Spec
=============================================================================
