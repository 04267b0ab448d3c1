------------------------- MODULE RedisRRCacheProofs -------------------------
(***************************************************************************)
(* Theorems about RedisRRCache, for any callers, keys, RRsets, TTL cap,    *)
(* margin and clock rate.                                                  *)
(***************************************************************************)
EXTENDS RedisRRCache, TLAPS

(***************************************************************************)
(* The strengthening that is inductive.  A member's score follows from the *)
(* member, so equal members expire together; what a reader means to remove *)
(* had expired before or does not decode, and what it means to serve had   *)
(* not expired when the chain's clock was read, and decodes.               *)
(***************************************************************************)
Scored(list) == \A m \in list : m.score = m.item.at + m.item.ttl * Second

ScoreInv ==
    /\ \A k \in Keys : Scored(members[k])
    /\ \A p \in Callers : Scored(items[p]) /\ Scored(removing[p])

FilterInv ==
    \A p \in Callers :
        /\ asof[p] <= now
        /\ \A m \in removing[p] : now > m.score \/ ~Decodes(m)
        /\ pc[p] \in {"clean", "hit"} => \A m \in items[p] : asof[p] <= m.score /\ Decodes(m)

IInv == TypeOK /\ ScoreInv /\ FilterInv /\ EveryKeyEnds

-----------------------------------------------------------------------------
LEMMA AnyKeyIsKey == AnyKey \in Keys
BY ConstantsAssumption DEF AnyKey

LEMMA CapType == ASSUME NEW ttl \in Nat PROVE Cap(ttl) \in 0..MaxTTL
BY TTLAssumption DEF Cap

(* The members that SetRRs makes. *)
LEMMA StampIsScored ==
    ASSUME NEW rrset \in SUBSET Answer, now \in Nat
    PROVE  Stamp(rrset) \in SUBSET Member /\ Scored(Stamp(rrset))
<1> DEFINE item(a) == [rr |-> a.rr, ttl |-> Cap(a.ttl), at |-> now]
<1>1. ASSUME NEW a \in rrset
      PROVE  item(a) \in Item /\ now + item(a).ttl * Second \in Nat
  <2>1. a.rr \in RRs /\ Cap(a.ttl) \in Nat
    BY CapType, TTLAssumption DEF Answer
  <2>2. QED
    BY <2>1, TTLAssumption DEF Item
<1>2. Stamp(rrset) = {[item |-> item(a), score |-> now + item(a).ttl * Second] : a \in rrset}
  BY DEF Stamp, Encode
<1> HIDE DEF item
<1>3. Stamp(rrset) \in SUBSET Member
  BY <1>1, <1>2 DEF Member
<1>4. \A a \in rrset : item(a).at = now
  BY DEF item
<1>5. QED
  BY <1>2, <1>3, <1>4 DEF Scored

(* The types of the state. *)
LEMMA TypeInit == Init => TypeOK
BY AnyKeyIsKey, TTLAssumption DEF Init, TypeOK, Steps

LEMMA KeepType ==
    ASSUME TypeOK, NEW k \in Keys, NEW left \in SUBSET Member, Keep(k, left)
    PROVE  /\ members' \in [Keys -> SUBSET Member]
           /\ expires' \in [Keys -> Nat \cup {Never}]
           /\ broken' \in SUBSET Keys
BY DEF TypeOK, Keep

LEMMA EndType ==
    ASSUME TypeOK, NEW p \in Callers, End(p)
    PROVE  /\ pc' \in [Callers -> Steps]
           /\ key' \in [Callers -> Keys]
           /\ items' \in [Callers -> SUBSET Member]
           /\ removing' \in [Callers -> SUBSET Member]
           /\ asof' \in [Callers -> Nat]
           /\ longest' \in [Callers -> 0..MaxTTL]
BY AnyKeyIsKey, TTLAssumption DEF TypeOK, End, Goto, Steps

LEMMA TypeNext == TypeOK /\ [Next]_vars => TypeOK'
<1> SUFFICES ASSUME TypeOK, [Next]_vars PROVE TypeOK'
  OBVIOUS
<1> USE DEF redis
<1>1. ASSUME NEW p \in Callers, NEW k \in Keys, GetRRs(p, k) PROVE TypeOK'
  BY <1>1 DEF TypeOK, GetRRs, Goto, Steps
<1>2. ASSUME NEW p \in Callers, ZRange(p) PROVE TypeOK'
  <2>1. CASE End(p)
    BY <1>2, <2>1, EndType DEF TypeOK, ZRange
  <2>2. CASE ~End(p)
    BY <1>2, <2>2 DEF TypeOK, ZRange, Goto, Steps
  <2>3. QED
    BY <2>1, <2>2
<1>3. ASSUME NEW p \in Callers, Filter(p) PROVE TypeOK'
  BY <1>3 DEF TypeOK, Filter, Goto, Steps
<1>4. ASSUME NEW p \in Callers, NEW m \in removing[p], ZRem(p, m) PROVE TypeOK'
  <2> DEFINE left == {n \in members[key[p]] : n.item # m.item}
  <2>1. key[p] \in Keys /\ left \in SUBSET Member
    BY DEF TypeOK
  <2>2. CASE Keep(key[p], left)
    BY <1>4, <2>1, <2>2, KeepType DEF TypeOK, ZRem
  <2>3. CASE UNCHANGED redis
    BY <1>4, <2>3 DEF TypeOK, ZRem
  <2>4. QED
    BY <1>4, <2>2, <2>3 DEF ZRem
<1>5. ASSUME NEW p \in Callers, EndGet(p) PROVE TypeOK'
  <2>1. CASE pc' = [pc EXCEPT ![p] = "hit"] /\ UNCHANGED <<redis, key, items, removing, asof, longest>>
    BY <1>5, <2>1 DEF TypeOK, EndGet, Steps
  <2>2. CASE End(p) /\ Keep(key[p], {})
    <3>1. key[p] \in Keys
      BY DEF TypeOK
    <3>2. QED
      BY <1>5, <2>2, <3>1, KeepType, EndType DEF TypeOK, EndGet
  <2>3. CASE End(p) /\ UNCHANGED redis
    BY <1>5, <2>3, EndType DEF TypeOK, EndGet
  <2>4. QED
    BY <1>5, <2>1, <2>2, <2>3 DEF EndGet, Goto
<1>6. ASSUME NEW p \in Callers, Return(p) PROVE TypeOK'
  BY <1>6, EndType DEF TypeOK, Return
<1>7. ASSUME NEW p \in Callers, NEW k \in Keys, NEW rrset \in RRsets, SetRRs(p, k, rrset)
      PROVE TypeOK'
  <2>1. Stamp(rrset) \in SUBSET Member
    BY StampIsScored, ConstantsAssumption DEF TypeOK
  <2>2. \A a \in rrset : Cap(a.ttl) \in 0..MaxTTL
    BY CapType, ConstantsAssumption DEF Answer
  <2>3. QED
    BY <1>7, <2>1, <2>2 DEF TypeOK, SetRRs, Goto, Steps
<1>8. ASSUME NEW p \in Callers, PipeDel(p) PROVE TypeOK'
  <2>1. key[p] \in Keys
    BY DEF TypeOK
  <2>2. QED
    BY <1>8, <2>1, KeepType DEF TypeOK, PipeDel, Goto, Steps
<1>9. ASSUME NEW p \in Callers, NEW m \in items[p], PipeZAdd(p, m) PROVE TypeOK'
  <2> DEFINE all == {n \in members[key[p]] : n.item # m.item} \cup {m}
  <2>1. key[p] \in Keys /\ all \in SUBSET Member
    BY DEF TypeOK
  <2>2. Keep(key[p], all)
    BY <1>9 DEF PipeZAdd
  <2>3. QED
    BY <1>9, <2>1, <2>2, KeepType DEF TypeOK, PipeZAdd, Goto, Steps
<1>10. ASSUME NEW p \in Callers, PipeExpire(p) PROVE TypeOK'
  <2>1. now + longest[p] * Second + Margin \in Nat
    BY TTLAssumption, ConstantsAssumption DEF TypeOK
  <2>2. expires' \in [Keys -> Nat \cup {Never}] /\ broken' \in SUBSET Keys
    BY <1>10, <2>1 DEF TypeOK, PipeExpire
  <2>3. QED
    BY <1>10, <2>2, EndType DEF TypeOK, PipeExpire
<1>11. ASSUME NEW p \in Callers, PipeBreaks(p) PROVE TypeOK'
  BY <1>11, EndType DEF TypeOK, PipeBreaks
<1>12. ASSUME NEW k \in Keys, DeleteRRs(k) \/ KeyEnds(k) PROVE TypeOK'
  BY <1>12, KeepType DEF TypeOK, DeleteRRs, KeyEnds
<1>13. CASE Tick
  BY <1>13 DEF TypeOK, Tick
<1>14. CASE UNCHANGED vars
  BY <1>14 DEF TypeOK, vars
<1>15. QED
  BY <1>1, <1>2, <1>3, <1>4, <1>5, <1>6, <1>7, <1>8, <1>9, <1>10, <1>11, <1>12, <1>13, <1>14
     DEF Next

(* Every variable keeps its type. *)
THEOREM Types == Spec => []TypeOK
BY TypeInit, TypeNext, PTL DEF Spec

-----------------------------------------------------------------------------
LEMMA InvInit == Init => IInv
BY TypeInit DEF Init, IInv, ScoreInv, FilterInv, Scored, EveryKeyEnds

(* Keep leaves the other keys alone, and what it stores keeps its score.   *)
LEMMA KeepScored ==
    ASSUME TypeOK, ScoreInv, NEW k \in Keys, NEW left \in SUBSET Member, Scored(left),
           Keep(k, left)
    PROVE  \A j \in Keys : Scored(members'[j])
BY DEF TypeOK, ScoreInv, Keep

(* What a reader found to have removing, or alive, stays so while its clock *)
(* and lists are the same and time passes.                                 *)
LEMMA FilterKept ==
    ASSUME IInv, TypeOK', UNCHANGED <<pc, items, removing, asof>>, now' \in {now, now + 1}
    PROVE  FilterInv'
BY DEF IInv, TypeOK, Member, FilterInv

(* A call that ends leaves nothing of its caller to talk about. *)
LEMMA EndInv ==
    ASSUME IInv, NEW p \in Callers, End(p), now' = now
    PROVE  /\ FilterInv'
           /\ \A q \in Callers : Scored(items'[q]) /\ Scored(removing'[q])
<1>1. \A q \in Callers : Scored(items'[q]) /\ Scored(removing'[q])
  BY DEF IInv, TypeOK, ScoreInv, Scored, End
<1>2. FilterInv'
  BY DEF IInv, TypeOK, FilterInv, End, Goto, Steps
<1>3. QED
  BY <1>1, <1>2

(* Emptying a key, or removing members from it, cannot break EveryKeyEnds. *)
LEMMA KeepEnds ==
    ASSUME IInv, NEW k \in Keys, NEW left \in SUBSET Member, Keep(k, left),
           left \subseteq members[k],
           \A q \in Callers : pc[q] \in {"zadd", "expire"} =>
               key'[q] = key[q] /\ pc'[q] = pc[q]
    PROVE  EveryKeyEnds'
BY DEF IInv, TypeOK, EveryKeyEnds, Keep

LEMMA InvNext == IInv /\ [Next]_vars => IInv'
<1> SUFFICES ASSUME IInv, [Next]_vars
             PROVE  ScoreInv' /\ FilterInv' /\ EveryKeyEnds'
  BY TypeNext DEF IInv
<1>0. TypeOK /\ TypeOK'
  BY TypeNext DEF IInv
<1> USE DEF redis
<1>1. ASSUME NEW p \in Callers, NEW k \in Keys, GetRRs(p, k)
      PROVE  ScoreInv' /\ FilterInv' /\ EveryKeyEnds'
  BY <1>0, <1>1 DEF GetRRs, Goto, TypeOK, IInv, ScoreInv, FilterInv, EveryKeyEnds
<1>2. ASSUME NEW p \in Callers, ZRange(p)
      PROVE  ScoreInv' /\ FilterInv' /\ EveryKeyEnds'
  <2>1. CASE End(p)
    <3>1. ScoreInv' /\ FilterInv'
      BY <1>2, <2>1, EndInv DEF ZRange, IInv, ScoreInv
    <3>2. EveryKeyEnds'
      BY <1>0, <1>2, <2>1 DEF ZRange, End, Goto, TypeOK, IInv, EveryKeyEnds
    <3>3. QED
      BY <3>1, <3>2
  <2>2. CASE ~End(p)
    BY <1>0, <1>2, <2>2 DEF ZRange, Goto, TypeOK, IInv, ScoreInv, FilterInv, EveryKeyEnds
  <2>3. QED
    BY <2>1, <2>2
<1>3. ASSUME NEW p \in Callers, Filter(p)
      PROVE  ScoreInv' /\ FilterInv' /\ EveryKeyEnds'
  <2>1. ScoreInv'
    BY <1>0, <1>3 DEF Filter, TypeOK, IInv, ScoreInv, Scored
  <2>2. FilterInv'
    BY <1>0, <1>3 DEF Filter, Goto, TypeOK, Member, IInv, FilterInv
  <2>3. EveryKeyEnds'
    BY <1>0, <1>3 DEF Filter, Goto, TypeOK, IInv, EveryKeyEnds
  <2>4. QED
    BY <2>1, <2>2, <2>3
<1>4. ASSUME NEW p \in Callers, NEW m \in removing[p], ZRem(p, m)
      PROVE  ScoreInv' /\ FilterInv' /\ EveryKeyEnds'
  <2> DEFINE left == {n \in members[key[p]] : n.item # m.item}
  <2>1. key[p] \in Keys /\ left \in SUBSET Member /\ left \subseteq members[key[p]]
    BY <1>0 DEF TypeOK
  <2>2. \A q \in Callers : Scored(items'[q]) /\ Scored(removing'[q])
    BY <1>0, <1>4 DEF ZRem, TypeOK, IInv, ScoreInv, Scored
  <2>3. FilterInv'
    BY <1>0, <1>4 DEF ZRem, TypeOK, IInv, FilterInv
  <2>4. CASE Keep(key[p], left)
    <3>1. Scored(left)
      BY <2>1 DEF IInv, ScoreInv, Scored
    <3>2. ScoreInv'
      BY <1>0, <2>1, <2>2, <2>4, <3>1, KeepScored DEF IInv, ScoreInv
    <3>3. EveryKeyEnds'
      BY <1>4, <2>1, <2>4, KeepEnds DEF ZRem
    <3>4. QED
      BY <2>3, <3>2, <3>3
  <2>5. CASE UNCHANGED redis
    BY <1>4, <2>2, <2>3, <2>5 DEF ZRem, IInv, ScoreInv, EveryKeyEnds
  <2>6. QED
    BY <1>4, <2>4, <2>5 DEF ZRem
<1>5. ASSUME NEW p \in Callers, EndGet(p)
      PROVE  ScoreInv' /\ FilterInv' /\ EveryKeyEnds'
  <2>0. key[p] \in Keys /\ pc[p] = "clean"
    BY <1>0, <1>5 DEF TypeOK, EndGet
  <2>1. CASE Goto(p, "hit") /\ UNCHANGED <<redis, key, items, removing, asof, longest>>
    <3>1. now' = now /\ removing'[p] = {}
      BY <1>5, <2>1 DEF EndGet
    <3>2. QED
      BY <1>0, <2>0, <2>1, <3>1 DEF Goto, TypeOK, IInv, ScoreInv, FilterInv, EveryKeyEnds
  <2>2. CASE End(p) /\ Keep(key[p], {})
    <3>1. Scored({}) /\ {} \in SUBSET Member /\ {} \subseteq members[key[p]]
      BY DEF Scored
    <3>2. ScoreInv' /\ FilterInv'
      BY <1>0, <1>5, <2>0, <2>2, <3>1, KeepScored, EndInv DEF EndGet, IInv, ScoreInv
    <3>3. EveryKeyEnds'
      <4>1. \A q \in Callers : pc[q] \in {"zadd", "expire"} => key'[q] = key[q] /\ pc'[q] = pc[q]
        BY <1>0, <2>0, <2>2 DEF End, Goto, TypeOK
      <4>2. QED
        BY <2>0, <2>2, <3>1, <4>1, KeepEnds
    <3>4. QED
      BY <3>2, <3>3
  <2>3. CASE End(p) /\ UNCHANGED redis
    <3>1. ScoreInv' /\ FilterInv'
      BY <1>5, <2>3, EndInv DEF EndGet, IInv, ScoreInv
    <3>2. EveryKeyEnds'
      BY <1>0, <2>0, <2>3 DEF End, Goto, TypeOK, IInv, EveryKeyEnds
    <3>3. QED
      BY <3>1, <3>2
  <2>4. QED
    BY <1>5, <2>1, <2>2, <2>3 DEF EndGet
<1>6. ASSUME NEW p \in Callers, Return(p)
      PROVE  ScoreInv' /\ FilterInv' /\ EveryKeyEnds'
  <2>1. ScoreInv' /\ FilterInv'
    BY <1>6, EndInv DEF Return, IInv, ScoreInv
  <2>2. EveryKeyEnds'
    BY <1>0, <1>6 DEF Return, End, Goto, TypeOK, IInv, EveryKeyEnds
  <2>3. QED
    BY <2>1, <2>2
<1>7. ASSUME NEW p \in Callers, NEW k \in Keys, NEW rrset \in RRsets, SetRRs(p, k, rrset)
      PROVE  ScoreInv' /\ FilterInv' /\ EveryKeyEnds'
  <2>1. Scored(Stamp(rrset))
    BY <1>0, StampIsScored, ConstantsAssumption DEF TypeOK
  <2>2. ScoreInv'
    BY <1>0, <1>7, <2>1 DEF SetRRs, TypeOK, IInv, ScoreInv
  <2>3. FilterInv' /\ EveryKeyEnds'
    BY <1>0, <1>7 DEF SetRRs, Goto, TypeOK, IInv, FilterInv, EveryKeyEnds
  <2>4. QED
    BY <2>2, <2>3
<1>8. ASSUME NEW p \in Callers, PipeDel(p)
      PROVE  ScoreInv' /\ FilterInv' /\ EveryKeyEnds'
  <2>1. key[p] \in Keys /\ Scored({}) /\ {} \in SUBSET Member /\ {} \subseteq members[key[p]]
    BY <1>0 DEF TypeOK, Scored
  <2>2. ScoreInv'
    BY <1>0, <1>8, <2>1, KeepScored DEF PipeDel, IInv, ScoreInv
  <2>3. FilterInv'
    BY <1>0, <1>8 DEF PipeDel, Goto, TypeOK, IInv, FilterInv
  <2>4. EveryKeyEnds'
    <3>1. \A q \in Callers : pc[q] \in {"zadd", "expire"} => key'[q] = key[q] /\ pc'[q] = pc[q]
      BY <1>0, <1>8 DEF PipeDel, Goto, TypeOK
    <3>2. QED
      BY <1>8, <2>1, <3>1, KeepEnds DEF PipeDel
  <2>5. QED
    BY <2>2, <2>3, <2>4
(* The writer of a member owes the key its EXPIRE. *)
<1>9. ASSUME NEW p \in Callers, NEW m \in items[p], PipeZAdd(p, m)
      PROVE  ScoreInv' /\ FilterInv' /\ EveryKeyEnds'
  <2> DEFINE all == {n \in members[key[p]] : n.item # m.item} \cup {m}
  <2>1. key[p] \in Keys /\ all \in SUBSET Member /\ Scored(all)
    BY <1>0 DEF TypeOK, IInv, ScoreInv, Scored
  <2>2. Keep(key[p], all) /\ all # {}
    BY <1>9 DEF PipeZAdd
  <2>3. ScoreInv'
    <3>1. \A q \in Callers : Scored(items'[q]) /\ Scored(removing'[q])
      BY <1>0, <1>9 DEF PipeZAdd, TypeOK, IInv, ScoreInv, Scored
    <3>2. QED
      BY <1>0, <2>1, <2>2, <3>1, KeepScored DEF IInv, ScoreInv
  <2>4. FilterInv'
    BY <1>0, <1>9 DEF PipeZAdd, Goto, TypeOK, IInv, FilterInv
  <2>5. EveryKeyEnds'
    <3>1. key' = key /\ pc'[p] \in {"zadd", "expire"}
          /\ \A q \in Callers : pc[q] \in {"zadd", "expire"} => pc'[q] \in {"zadd", "expire"}
      BY <1>0, <1>9 DEF PipeZAdd, Goto, TypeOK
    <3>2. broken' = broken /\ expires' = expires
          /\ \A k \in Keys : k # key[p] => members'[k] = members[k]
      BY <1>0, <2>1, <2>2 DEF Keep, TypeOK
    <3>3. QED
      BY <3>1, <3>2 DEF IInv, EveryKeyEnds
  <2>6. QED
    BY <2>3, <2>4, <2>5
<1>10. ASSUME NEW p \in Callers, PipeExpire(p)
       PROVE  ScoreInv' /\ FilterInv' /\ EveryKeyEnds'
  <2>1. ScoreInv' /\ FilterInv'
    BY <1>10, EndInv DEF PipeExpire, IInv, ScoreInv
  <2>2. EveryKeyEnds'
    <3>1. now + longest[p] * Second + Margin # Never
      BY <1>0, TTLAssumption, ConstantsAssumption DEF TypeOK, Never
    <3>2. ASSUME NEW k \in Keys, members'[k] # {}, expires'[k] = Never
          PROVE  /\ k # key[p]
                 /\ k \in broken' \/ \E q \in Callers : key'[q] = k /\ pc'[q] \in {"zadd", "expire"}
      <4>1. k # key[p]
        BY <1>0, <1>10, <3>1, <3>2 DEF PipeExpire, TypeOK
      <4>2. expires[k] = Never /\ members[k] # {} /\ (k \in broken => k \in broken')
        BY <1>0, <1>10, <3>2, <4>1 DEF PipeExpire, TypeOK
      <4>3. \A q \in Callers : key[q] = k => key'[q] = k /\ pc'[q] = pc[q]
        BY <1>0, <1>10, <4>1 DEF PipeExpire, End, Goto, TypeOK
      <4>4. QED
        BY <4>1, <4>2, <4>3 DEF IInv, EveryKeyEnds
    <3>3. QED
      BY <3>2 DEF EveryKeyEnds
  <2>3. QED
    BY <2>1, <2>2
<1>11. ASSUME NEW p \in Callers, PipeBreaks(p)
       PROVE  ScoreInv' /\ FilterInv' /\ EveryKeyEnds'
  <2>1. ScoreInv' /\ FilterInv'
    BY <1>11, EndInv DEF PipeBreaks, IInv, ScoreInv
  <2>2. EveryKeyEnds'
    <3>1. \A q \in Callers : key[q] # key[p] => key'[q] = key[q] /\ pc'[q] = pc[q]
      BY <1>0, <1>11 DEF PipeBreaks, End, Goto, TypeOK
    <3>2. QED
      BY <1>11, <3>1 DEF PipeBreaks, IInv, EveryKeyEnds
  <2>3. QED
    BY <2>1, <2>2
<1>12. ASSUME NEW k \in Keys, DeleteRRs(k) \/ KeyEnds(k)
       PROVE  ScoreInv' /\ FilterInv' /\ EveryKeyEnds'
  <2>1. Keep(k, {}) /\ UNCHANGED <<now, pc, key, items, removing, asof>>
    BY <1>12 DEF DeleteRRs, KeyEnds
  <2>2. Scored({}) /\ {} \in SUBSET Member /\ {} \subseteq members[k]
    BY DEF Scored
  <2>3. ScoreInv'
    BY <1>0, <2>1, <2>2, KeepScored DEF IInv, ScoreInv
  <2>4. QED
    BY <1>0, <2>1, <2>2, <2>3, FilterKept, KeepEnds
<1>13. CASE Tick
  BY <1>0, <1>13, FilterKept DEF Tick, IInv, ScoreInv, EveryKeyEnds
<1>14. CASE UNCHANGED vars
  BY <1>14 DEF vars, IInv, ScoreInv, FilterInv, EveryKeyEnds
<1>15. QED
  BY <1>1, <1>2, <1>3, <1>4, <1>5, <1>6, <1>7, <1>8, <1>9, <1>10, <1>11, <1>12, <1>13, <1>14
     DEF Next

LEMMA Inductive == Spec => []IInv
BY InvInit, InvNext, PTL DEF Spec

(* Every key has an expiration, will get one, or was left by a broken      *)
(* pipeline.                                                               *)
THEOREM EveryKeyEndsAlways == Spec => []EveryKeyEnds
<1>1. IInv => EveryKeyEnds
  BY DEF IInv
<1>2. QED
  BY <1>1, Inductive, PTL

(* A late ZREM removes only members that have expired or do not decode. *)
THEOREM ZRemSparesFreshAlways == Spec => ZRemSparesFresh
<1>1. ASSUME IInv, NEW p \in Callers, NEW m \in removing[p], ZRem(p, m),
             NEW n \in members[key[p]] \ members'[key[p]]
      PROVE  now > n.score \/ ~Decodes(n)
  <2>1. n.item = m.item
    BY <1>1 DEF ZRem, Keep, redis, IInv, TypeOK
  <2>2. n.score = m.score
    BY <1>1, <2>1 DEF IInv, TypeOK, ScoreInv, Scored
  <2>3. QED
    BY <1>1, <2>1, <2>2 DEF IInv, FilterInv, Decodes
<1>2. IInv /\ [Next]_vars =>
        [\A p \in Callers : \A m \in removing[p] : ZRem(p, m) =>
           \A n \in members[key[p]] \ members'[key[p]] : now > n.score \/ ~Decodes(n)]_vars
  BY <1>1
<1>3. QED
  BY <1>2, Inductive, PTL DEF ZRemSparesFresh, Spec

(* RemainingTTL, for a clock not past the item's end. *)
LEMMA LessThanASecondMore ==
    ASSUME NEW i \in Item, NEW t \in Nat, t <= i.at + i.ttl * Second
    PROVE  t + RemainingTTL(i, t) * Second < i.at + i.ttl * Second + Second
<1>1. Second \in Nat \ {0} /\ i.ttl \in Nat /\ i.at \in Nat
  BY TTLAssumption DEF Item
<1>2. CASE t - i.at >= 0
  <2> DEFINE d == t - i.at
             w == d \div Second
  <2>1. d \in Nat /\ w \in Nat /\ w * Second <= d /\ d < w * Second + Second
    BY <1>1, <1>2
  <2>2. w * Second <= i.ttl * Second
    BY <1>1, <2>1
  <2>3. w <= i.ttl
    BY <1>1, <2>1, <2>2
  <2>4. RemainingTTL(i, t) = i.ttl - w
    BY <1>1, <1>2, <2>1, <2>3 DEF RemainingTTL, WholeSeconds
  <2>5. (i.ttl - w) * Second = i.ttl * Second - w * Second
    BY <1>1, <2>1
  <2>6. QED
    BY <1>1, <2>1, <2>4, <2>5
<1>3. CASE ~(t - i.at >= 0)
  <2> DEFINE d == -(t - i.at)
             w == d \div Second
  <2>1. d \in Nat /\ w \in Nat /\ w * Second <= d
    BY <1>1, <1>3
  <2>2. RemainingTTL(i, t) = i.ttl + w
    BY <1>1, <1>3, <2>1 DEF RemainingTTL, WholeSeconds
  <2>3. (i.ttl + w) * Second = i.ttl * Second + w * Second
    BY <1>1, <2>1
  <2>4. QED
    BY <1>1, <2>1, <2>2, <2>3
<1>4. QED
  BY <1>2, <1>3

(* A hit never promises a record for a second more than it has. *)
THEOREM ServedNoLongerAlways == Spec => []ServedNoLonger
<1>1. ASSUME IInv, NEW p \in Callers, pc[p] = "hit", NEW m \in items[p],
             NEW a \in Served({m.item}, asof[p])
      PROVE  asof[p] + a.ttl * Second < m.score + Second
  <2>1. m.item \in Item /\ m.score = m.item.at + m.item.ttl * Second
    BY <1>1 DEF IInv, TypeOK, Member, ScoreInv, Scored
  <2>2. asof[p] \in Nat /\ asof[p] <= m.score
    BY <1>1 DEF IInv, TypeOK, FilterInv
  <2>3. a.ttl = RemainingTTL(m.item, asof[p])
    BY <1>1 DEF Served
  <2>4. QED
    BY <2>1, <2>2, <2>3, LessThanASecondMore
<1>2. IInv => ServedNoLonger
  BY <1>1 DEF ServedNoLonger
<1>3. QED
  BY <1>2, Inductive, PTL
=============================================================================
