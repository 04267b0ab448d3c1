-------------------------- MODULE CategoryLoadProofs --------------------------
(***************************************************************************)
(* CategoryLoad for every number of loads, domains, groups and retries: a  *)
(* load that reports success has written exactly the listed domains.       *)
(*                                                                         *)
(* BatchesPartition is not inductive: a load about to take a batch must    *)
(* hold none, and one that works in memory must not have written before.   *)
(***************************************************************************)
EXTENDS CategoryLoad, FiniteSetTheorems, WellFoundedInduction, TLAPS

(* A load has divided the domains among written, being written and to do. *)
Divided(l) ==
    /\ wrote[l] \cup batch[l] \cup todo[l] = Listed(read[l])
    /\ wrote[l] \cap batch[l] = {}
    /\ wrote[l] \cap todo[l] = {}
    /\ batch[l] \cap todo[l] = {}

(* What holds of one load at each of its steps. *)
LoadInv(l) ==
    /\ pc[l] \in {"idle", "clear", "parse"} => wrote[l] = {} /\ batch[l] = {}
    /\ pc[l] \in {"take", "mset", "ping", "done"} => Divided(l)
    /\ pc[l] \in {"take", "done"} => batch[l] = {}
    /\ pc[l] = "take" /\ backend[ProcessOf(l)] = "memory" => wrote[l] = {}
    /\ pc[l] \in {"mset", "ping"} => backend[ProcessOf(l)] = "redis"
    /\ pc[l] = "done" => todo[l] = {}

(* The types of what a load writes, and what holds of every load. *)
IInv ==
    /\ pc \in [Loads -> Steps]
    /\ wrote \in [Loads -> SUBSET Domains]
    /\ batch \in [Loads -> SUBSET Domains]
    /\ todo \in [Loads -> SUBSET Domains]
    /\ backend \in [Processes -> {"redis", "memory"}]
    /\ read \in [Loads -> {NotRead} \cup Files]
    /\ \A l \in Loads : LoadInv(l)

(* The rules of the parser say what the comment on them promises. *)
LEMMA ListedAsDocumented ==
    ASSUME NEW dlc, NEW d
    PROVE  d \in Listed(dlc) <=> IsListed(dlc, d)
<1>1. ASSUME NEW e, NEW g \in Groups, NEW rule \in Config[g]
      PROVE  MatchAllAttributes(e, rule.filters) <=>
               /\ \A f \in rule.filters : f.negated => ~HasAttribute(e, f.key)
               /\ \A f \in rule.filters : ~f.negated /\ f.key # "" => HasAttribute(e, f.key)
  <2> DEFINE Has(f) == HasAttribute(e, f.key)
  <2>1. ASSUME NEW f \in rule.filters
        PROVE  /\ f.negated \in BOOLEAN
               /\ Has(f) \in BOOLEAN
    BY ConstantsAssumption DEF HasAttribute
  <2> HIDE DEF Has
  <2>2. MatchAllAttributes(e, rule.filters) <=>
          \A f \in rule.filters : (f.key = "" /\ ~f.negated) \/ Has(f) # f.negated
    BY DEF MatchAllAttributes, Has
  <2>3. MatchAllAttributes(e, rule.filters) <=>
           /\ \A f \in rule.filters : f.negated => ~Has(f)
           /\ \A f \in rule.filters : ~f.negated /\ f.key # "" => Has(f)
    BY <2>1, <2>2
  <2> QED
    BY <2>3 DEF Has
<1>2. d \in Listed(dlc) <=>
        \E g \in Groups : \E rule \in Config[g] : \E e \in Entries(dlc, rule.list) :
            e.value = d /\ MatchAllAttributes(e, rule.filters)
  BY DEF Listed, Lists, Groups, ParseDomainGroup, ParseCategorySpec
<1> QED
  BY <1>1, <1>2 DEF IsListed

(* The file lists no other domains than Domains. *)
LEMMA ListedDomains ==
    ASSUME NEW dlc \in Files
    PROVE  Listed(dlc) \subseteq Domains
<1> SUFFICES ASSUME NEW d \in Listed(dlc) PROVE d \in Domains
  OBVIOUS
<1>1. \E list : \E e \in Entries(dlc, list) : e.value = d
  <2> IsListed(dlc, d)
    BY ListedAsDocumented
  <2>1. PICK g \in Groups : \E rule \in Config[g] : \E e \in Entries(dlc, rule.list) : e.value = d
    BY Zenon DEF IsListed
  <2>2. PICK rule \in Config[g] : \E e \in Entries(dlc, rule.list) : e.value = d
    BY <2>1
  <2> WITNESS rule.list
  <2> QED
    BY <2>2
<1>2. \E n \in DOMAIN dlc : \E e \in dlc[n].entries : e.value = d
  BY <1>1 DEF Entries
<1> QED
  BY <1>2, ConstantsAssumption

LEMMA InvInit == Init => IInv
<1> SUFFICES ASSUME Init PROVE IInv
  OBVIOUS
<1>1. /\ pc \in [Loads -> Steps]
      /\ wrote \in [Loads -> SUBSET Domains]
      /\ batch \in [Loads -> SUBSET Domains]
      /\ todo \in [Loads -> SUBSET Domains]
      /\ backend \in [Processes -> {"redis", "memory"}]
      /\ read \in [Loads -> {NotRead} \cup Files]
  BY DEF Init, Steps
<1>2. \A l \in Loads : LoadInv(l)
  BY DEF Init, LoadInv
<1> QED
  BY <1>1, <1>2 DEF IInv

(* A step of one load leaves the others as they were. *)
LEMMA OthersKeep ==
    ASSUME IInv, NEW l \in Loads, NEW m \in Loads,
           pc'[m] = pc[m], wrote'[m] = wrote[m], batch'[m] = batch[m], todo'[m] = todo[m],
           read'[m] = read[m], backend' = backend
    PROVE  LoadInv(m)'
BY DEF IInv, LoadInv, Divided

(* Every step of a load keeps what holds of the loads. *)
LEMMA InvStep ==
    ASSUME IInv, NEW l \in Loads, Step(l)
    PROVE  IInv'
<1> USE DEF IInv
<1>1. backend' = backend
  BY DEF Step, Start, EndClear, ClearKey, Parse, ParseFails, BatchSetInMemory, TakeBatch,
         EndBatches, MSet, MSetFails, Ping
<1>2. /\ pc' \in [Loads -> Steps]
      /\ read' \in [Loads -> {NotRead} \cup Files]
      /\ wrote' \in [Loads -> SUBSET Domains]
      /\ batch' \in [Loads -> SUBSET Domains]
      /\ todo' \in [Loads -> SUBSET Domains]
  <2>1. CASE Start(l) \/ EndClear(l) \/ (\E d \in Domains : ClearKey(l, d)) \/ ParseFails(l)
    BY <2>1 DEF Start, EndClear, ClearKey, ParseFails, Goto, Steps
  <2>2. CASE Parse(l)
    <3>1. PICK dlc \in Files : todo' = [todo EXCEPT ![l] = Listed(dlc)]
      BY <2>2 DEF Parse
    <3> QED
      BY <2>2, <3>1, ListedDomains DEF Parse, Goto, Steps
  <2>3. CASE BatchSetInMemory(l)
    BY <2>3 DEF BatchSetInMemory, Goto, Steps
  <2>4. CASE TakeBatch(l)
    <3>1. PICK b \in SUBSET todo[l] :
             /\ batch' = [batch EXCEPT ![l] = b]
             /\ todo' = [todo EXCEPT ![l] = @ \ b]
      BY <2>4 DEF TakeBatch
    <3>2. b \in SUBSET Domains
      BY <3>1
    <3> QED
      BY <2>4, <3>1, <3>2 DEF TakeBatch, Goto, Steps
  <2>5. CASE EndBatches(l) \/ MSetFails(l) \/ Ping(l)
    BY <2>5 DEF EndBatches, MSetFails, Ping, Goto, Steps
  <2>6. CASE MSet(l)
    BY <2>6 DEF MSet, Goto, Steps
  <2> QED
    BY <2>1, <2>2, <2>3, <2>4, <2>5, <2>6 DEF Step
<1>3. \A m \in Loads \ {l} : /\ pc'[m] = pc[m] /\ wrote'[m] = wrote[m]
                             /\ batch'[m] = batch[m] /\ todo'[m] = todo[m]
                             /\ read'[m] = read[m]
  BY DEF Step, Start, EndClear, ClearKey, Parse, ParseFails, BatchSetInMemory, TakeBatch,
         EndBatches, MSet, MSetFails, Ping, Goto
<1>4. LoadInv(l)'
  <2> USE <1>1 DEF LoadInv, Divided
  <2>1. CASE Start(l)
    BY <2>1 DEF Start, Goto
  <2>2. CASE EndClear(l)
    BY <2>2 DEF EndClear, Goto
  <2>3. CASE \E d \in Domains : ClearKey(l, d)
    BY <2>3 DEF ClearKey
  <2>4. CASE Parse(l)
    <3>1. PICK dlc \in Files : read' = [read EXCEPT ![l] = dlc] /\ todo'[l] = Listed(dlc)
      BY <2>4 DEF Parse
    <3>2. /\ pc'[l] = "take" /\ todo'[l] = Listed(read'[l])
          /\ wrote'[l] = wrote[l] /\ batch'[l] = batch[l]
      BY <2>4, <3>1 DEF Parse, Goto
    <3>3. wrote[l] = {} /\ batch[l] = {}
      BY <2>4 DEF Parse
    <3> QED
      BY <3>2, <3>3
  <2>5. CASE ParseFails(l)
    BY <2>5 DEF ParseFails, Goto
  <2>6. CASE BatchSetInMemory(l)
    BY <2>6 DEF BatchSetInMemory, Goto
  <2>7. CASE TakeBatch(l)
    <3>1. PICK b \in SUBSET todo[l] : batch'[l] = b /\ todo'[l] = todo[l] \ b
      BY <2>7 DEF TakeBatch
    <3>2. /\ pc[l] = "take" /\ pc'[l] = "mset"
          /\ wrote'[l] = wrote[l] /\ read'[l] = read[l] /\ backend[ProcessOf(l)] = "redis"
      BY <2>7 DEF TakeBatch, Goto
    <3> QED
      BY <3>1, <3>2
  <2>8. CASE EndBatches(l)
    BY <2>8 DEF EndBatches, Goto
  <2>9. CASE MSet(l)
    <3>1. /\ pc[l] = "mset" /\ pc'[l] = "take" /\ batch'[l] = {} /\ todo'[l] = todo[l]
          /\ wrote'[l] = wrote[l] \cup batch[l] /\ read'[l] = read[l]
      BY <2>9 DEF MSet, Goto
    <3> QED
      BY <3>1
  <2>10. CASE MSetFails(l)
    BY <2>10 DEF MSetFails, Goto
  <2>11. CASE Ping(l)
    BY <2>11 DEF Ping, Goto
  <2> QED
    BY <2>1, <2>2, <2>3, <2>4, <2>5, <2>6, <2>7, <2>8, <2>9, <2>10, <2>11 DEF Step
<1> QED
  BY <1>1, <1>2, <1>3, <1>4, OthersKeep

LEMMA InvNext == IInv /\ [Next]_vars => IInv'
<1> SUFFICES ASSUME IInv, [Next]_vars PROVE IInv'
  OBVIOUS
<1>1. CASE \E l \in Loads : Step(l)
  BY <1>1, InvStep
<1>2. CASE \E d \in Domains : \E category \in Learned : Learn(d, category)
  BY <1>2 DEF Learn, IInv, LoadInv, Divided
<1>3. CASE UNCHANGED vars
  BY <1>3 DEF vars, IInv, LoadInv, Divided
<1> QED
  BY <1>1, <1>2, <1>3 DEF Next

LEMMA Inductive == Spec => []IInv
BY InvInit, InvNext, PTL DEF Spec

(* No domain falls between two batches or is written twice: what is done,  *)
(* under way and left to do always divides the listed domains.             *)
THEOREM BatchesPartitionAlways == Spec => []BatchesPartition
<1>1. IInv => BatchesPartition
  BY DEF IInv, LoadInv, Divided, BatchesPartition
<1> QED
  BY <1>1, Inductive, PTL

(* A BatchSet that returns nil has written all of the data it was given,   *)
(* for every batch size and every pattern of failures and retries.         *)
THEOREM SuccessIsCompleteAlways == Spec => []SuccessIsComplete
<1>1. IInv => SuccessIsComplete
  <2> SUFFICES ASSUME IInv, NEW l \in Loads, pc[l] = "done"
               PROVE  \A d \in Domains : d \in wrote[l] <=> IsListed(read[l], d)
    BY DEF SuccessIsComplete
  <2>1. /\ wrote[l] \cup batch[l] \cup todo[l] = Listed(read[l])
        /\ batch[l] = {} /\ todo[l] = {}
    BY DEF IInv, LoadInv, Divided
  <2>2. wrote[l] = Listed(read[l])
    BY <2>1
  <2> QED
    BY <2>2, ListedAsDocumented
<1> QED
  BY <1>1, Inductive, PTL

-----------------------------------------------------------------------------
(* The numbers are well-founded, so a set of them has a least element.     *)
Less == {p \in Nat \X Nat : p[1] < p[2]}

LEMMA LessIsWellFounded == IsWellFoundedOn(Less, Nat)
<1>1. OpToRel(<, Nat) = Less
  BY Zenon DEF OpToRel, Less
<1> QED BY <1>1, NatLessThanWellFounded

LEMMA Least ==
    ASSUME NEW T, T \subseteq Nat, T # {}
    PROVE  \E x \in T : \A y \in T : x <= y
<1>1. \E x \in T : \A y \in T : ~(<<y, x>> \in Less)
  BY LessIsWellFounded, WFMin
<1>2. \A x, y \in Nat : <<y, x>> \in Less <=> y < x
  BY DEF Less
<1>3. PICK x \in T : \A y \in T : ~(<<y, x>> \in Less)
  BY <1>1
<1>4. ASSUME NEW y \in T PROVE x <= y
  <2>1. x \in Nat /\ y \in Nat
    OBVIOUS
  <2>2. ~(y < x)
    BY <1>2, <1>3, <2>1, Zenon
  <2> QED BY <2>1, <2>2
<1> QED BY <1>4

(* A listed domain gets one of the groups that list it. *)
LEMMA LastIsGroup ==
    ASSUME NEW dlc, NEW d \in Listed(dlc), NEW rank \in Orders
    PROVE  LastOf(Lists(dlc), d, rank) \in Groups
<1> DEFINE n == Cardinality(Groups)
           listing == {g \in Groups : d \in Lists(dlc)[g]}
           T == {n - rank[g] : g \in listing}
<1>1. n \in Nat /\ rank \in [Groups -> 1..n]
  BY ConstantsAssumption, FS_CardinalityType DEF Orders
<1>2. listing # {}
  BY DEF Listed
<1>3. T \subseteq Nat /\ T # {}
  BY <1>1, <1>2
<1>4. PICK x \in T : \A y \in T : x <= y
  <2> HIDE DEF T
  <2> QED BY <1>3, Least
<1>5. PICK g \in listing : x = n - rank[g]
  BY <1>4
<1>6. \A h \in listing : rank[h] <= rank[g]
  <2> SUFFICES ASSUME NEW h \in listing PROVE rank[h] <= rank[g]
    OBVIOUS
  <2>1. n - rank[h] \in T /\ rank[h] \in 1..n /\ rank[g] \in 1..n
    BY <1>1
  <2>2. n - rank[g] <= n - rank[h]
    BY <1>4, <1>5, <2>1
  <2> HIDE DEF n
  <2> QED BY <1>1, <2>1, <2>2
<1>7. \E k \in Groups : d \in Lists(dlc)[k] /\ \A h \in Groups : d \in Lists(dlc)[h] => rank[h] <= rank[k]
  BY <1>6
<1> QED BY <1>7 DEF LastOf

-----------------------------------------------------------------------------
(* What a load is to write has a category; its attempts at a batch are     *)
(* numbered; only a process started with -load clears.                     *)
Held(l) ==
    /\ data[l] \in [DOMAIN data[l] -> Groups]
    /\ pc[l] \in {"take", "mset", "ping"} => todo[l] \cup batch[l] \subseteq DOMAIN data[l]
    /\ pc[l] \in {"mset", "ping"} => tries[l] < MaxRetries
    /\ pc[l] = "clear" => l \in Loaders

Stored ==
    /\ redis \in Store /\ local \in [Processes -> Store]
    /\ tries \in [Loads -> 0..MaxRetries] /\ learned \in Nat
    /\ DOMAIN data = Loads /\ \A l \in Loads : Held(l)

LEMMA StoredInit == Init => Stored
<1> SUFFICES ASSUME Init PROVE Stored
  OBVIOUS
<1>1. Nothing \in Store
  BY DEF Nothing, Store
<1>2. 0 \in 0..MaxRetries
  BY ConstantsAssumption
<1>3. NoBatch \in [DOMAIN NoBatch -> Groups]
  BY DEF NoBatch
<1> QED BY <1>1, <1>2, <1>3 DEF Init, Stored, Held

(* Categories are put where they are looked for, and none is taken away. *)
LEMMA PutAdds ==
    ASSUME Stored, NEW p \in Processes, NEW D, NEW given, \A d \in D : given[d] \in Groups \cup Learned,
           Put(p, D, given)
    PROVE  /\ redis' \in Store /\ local' \in [Processes -> Store]
           /\ \A d \in Domains : redis'[d] # redis[d] => redis'[d] # Unknown
           /\ \A r \in Processes, d \in Domains : local'[r][d] # local[r][d] => local'[r][d] # Unknown
<1>1. Unknown \notin Groups \cup Learned
  BY ConstantsAssumption
<1> DEFINE put(store) == [d \in Domains |-> IF d \in D THEN given[d] ELSE store[d]]
<1>2. ASSUME NEW store \in Store
      PROVE  put(store) \in Store /\ \A d \in Domains : put(store)[d] # store[d] => put(store)[d] # Unknown
  BY <1>1, <1>2 DEF Store
<1>3. \/ redis' = put(redis) /\ local' = local
      \/ local' = [local EXCEPT ![p] = put(local[p])] /\ redis' = redis
  BY DEF Put
<1> HIDE DEF put
<1> QED BY <1>2, <1>3 DEF Stored

(* A step of a load leaves what others hold. *)
LEMMA OthersHold ==
    ASSUME Stored, NEW m \in Loads,
           pc'[m] = pc[m], data'[m] = data[m], todo'[m] = todo[m], batch'[m] = batch[m], tries'[m] = tries[m]
    PROVE  Held(m)'
BY DEF Stored, Held

LEMMA PositiveNumber == ASSUME NEW n \in Nat \ {0} PROVE 0 \in 0..n /\ 0 < n
OBVIOUS

LEMMA NextNumber ==
    ASSUME NEW n \in Nat, NEW k \in 0..n, k < n
    PROVE  k + 1 \in 0..n /\ (k + 1 < n \/ k + 1 = n)
OBVIOUS

LEMMA StoredStep ==
    ASSUME IInv, Stored, NEW l \in Loads, Step(l)
    PROVE  Stored'
<1>1. ProcessOf(l) \in Processes /\ pc[l] \in Steps
  BY DEF ProcessOf, Processes, Loads, IInv
<1>2. MaxRetries \in Nat \ {0} /\ 0 \in 0..MaxRetries /\ 0 < MaxRetries
  BY ConstantsAssumption, PositiveNumber
<1>3. learned' = learned
  BY DEF Step, Start, EndClear, ClearKey, Parse, ParseFails, BatchSetInMemory, TakeBatch,
         EndBatches, MSet, MSetFails, Ping
<1>4. \A m \in Loads \ {l} : /\ pc'[m] = pc[m] /\ batch'[m] = batch[m] /\ todo'[m] = todo[m]
                             /\ data'[m] = data[m] /\ tries'[m] = tries[m]
  BY DEF IInv, Stored, Step, Start, EndClear, ClearKey, Parse, ParseFails, BatchSetInMemory, TakeBatch,
         EndBatches, MSet, MSetFails, Ping, Goto
<1>5. \A m \in Loads \ {l} : Held(m)'
  BY <1>4, OthersHold
<1>6. /\ redis' \in Store /\ local' \in [Processes -> Store]
      /\ tries' \in [Loads -> 0..MaxRetries] /\ DOMAIN data' = Loads /\ Held(l)'
  <2>1. CASE Start(l) \/ EndClear(l) \/ ParseFails(l)
    BY <2>1 DEF Start, EndClear, ParseFails, Goto, IInv, Stored, Held, stores
  <2>2. CASE \E d \in Domains : ClearKey(l, d)
    BY <2>2 DEF ClearKey, IInv, Stored, Held, Store
  <2>3. CASE Parse(l)
    <3>1. PICK dlc \in Files, rank \in Orders :
             /\ data' = [data EXCEPT ![l] = [d \in Listed(dlc) |-> LastOf(Lists(dlc), d, rank)]]
             /\ todo' = [todo EXCEPT ![l] = Listed(dlc)]
      BY <2>3 DEF Parse
    <3>2. pc[l] = "parse" /\ pc'[l] = "take" /\ batch'[l] = batch[l] /\ UNCHANGED <<stores, tries>>
      BY <2>3 DEF Parse, Goto, IInv
    <3>3. batch[l] = {}
      BY <3>2 DEF IInv, LoadInv
    <3> DEFINE entries == [d \in Listed(dlc) |-> LastOf(Lists(dlc), d, rank)]
    <3>4. entries \in [DOMAIN entries -> Groups] /\ DOMAIN entries = Listed(dlc)
      BY LastIsGroup
    <3> HIDE DEF entries
    <3>5. data'[l] = entries /\ todo'[l] = Listed(dlc) /\ DOMAIN data' = Loads
      BY <3>1 DEF entries, IInv, Stored
    <3> QED BY <3>2, <3>3, <3>4, <3>5 DEF Stored, Held, stores
  <2>4. CASE BatchSetInMemory(l)
    <3>1. /\ \A d \in todo[l] : data[l][d] \in Groups \cup Learned
          /\ Put(ProcessOf(l), todo[l], data[l])
      BY <2>4 DEF BatchSetInMemory, Stored, Held
    <3>2. redis' \in Store /\ local' \in [Processes -> Store]
      BY <1>1, <3>1, PutAdds
    <3> QED BY <2>4, <3>2 DEF BatchSetInMemory, Goto, IInv, Stored, Held
  <2>5. CASE TakeBatch(l)
    <3>1. PICK b \in SUBSET todo[l] : batch' = [batch EXCEPT ![l] = b] /\ todo' = [todo EXCEPT ![l] = @ \ b]
      BY <2>5 DEF TakeBatch
    <3>2. /\ pc[l] = "take" /\ pc' = [pc EXCEPT ![l] = "mset"] /\ tries' = [tries EXCEPT ![l] = 0]
          /\ UNCHANGED <<stores, data>>
      BY <2>5 DEF TakeBatch, Goto
    <3> QED BY <1>2, <3>1, <3>2 DEF IInv, Stored, Held, stores
  <2>6. CASE EndBatches(l)
    BY <2>6 DEF EndBatches, Goto, IInv, Stored, Held, stores
  <2>7. CASE MSet(l)
    <3>1. /\ \A d \in batch[l] : data[l][d] \in Groups \cup Learned
          /\ Put(ProcessOf(l), batch[l], data[l])
      BY <2>7 DEF MSet, Stored, Held
    <3>2. redis' \in Store /\ local' \in [Processes -> Store]
      BY <1>1, <3>1, PutAdds
    <3> QED BY <2>7, <3>2 DEF MSet, Goto, IInv, Stored, Held
  <2>8. CASE MSetFails(l)
    <3>1. /\ \A d \in batch[l] : data[l][d] \in Groups \cup Learned
          /\ Put(ProcessOf(l), batch[l], data[l]) \/ UNCHANGED stores
      BY <2>8 DEF MSetFails, Stored, Held
    <3>2. redis' \in Store /\ local' \in [Processes -> Store]
      BY <1>1, <3>1, PutAdds DEF Stored, stores
    <3>3. /\ tries[l] \in 0..MaxRetries /\ tries[l] < MaxRetries
          /\ tries' = [tries EXCEPT ![l] = @ + 1] /\ UNCHANGED <<todo, batch, data>>
          /\ pc' = [pc EXCEPT ![l] = IF tries[l] + 1 < MaxRetries THEN "ping" ELSE "failed"] /\ pc[l] = "mset"
      BY <2>8 DEF MSetFails, Goto, Stored, Held
    <3>4. tries[l] + 1 \in 0..MaxRetries
      BY <1>2, <3>3, NextNumber
    <3>5. tries' \in [Loads -> 0..MaxRetries] /\ tries'[l] = tries[l] + 1 /\ DOMAIN data' = Loads
      BY <3>3, <3>4 DEF Stored
    <3>6. (pc'[l] = "ping" /\ tries[l] + 1 < MaxRetries) \/ pc'[l] = "failed"
      BY <3>3 DEF IInv
    <3>7. Held(l)'
      BY <3>3, <3>5, <3>6 DEF Stored, Held
    <3> QED BY <3>2, <3>5, <3>7
  <2>9. CASE Ping(l)
    BY <2>9 DEF Ping, Goto, IInv, Stored, Held, stores
  <2> QED BY <2>1, <2>2, <2>3, <2>4, <2>5, <2>6, <2>7, <2>8, <2>9 DEF Step
<1> QED BY <1>3, <1>5, <1>6 DEF Stored

(* What the router learns is a category, too. *)
LEMMA LearnPuts ==
    ASSUME Stored, NEW d \in Domains, NEW category \in Learned, Learn(d, category)
    PROVE  /\ Server \in Processes /\ Put(Server, {d}, [e \in {d} |-> category])
           /\ \A e \in {d} : [f \in {d} |-> category][e] \in Groups \cup Learned
BY DEF Learn, Processes

LEMMA StoredNext == IInv /\ Stored /\ [Next]_vars => Stored'
<1> SUFFICES ASSUME IInv, Stored, [Next]_vars PROVE Stored'
  OBVIOUS
<1>1. CASE \E l \in Loads : Step(l)
  BY <1>1, StoredStep
<1>2. ASSUME NEW d \in Domains, NEW category \in Learned, Learn(d, category) PROVE Stored'
  <2>1. PICK given : Put(Server, {d}, given) /\ \A e \in {d} : given[e] \in Groups \cup Learned
    BY <1>2, LearnPuts
  <2>2. Server \in Processes
    BY DEF Processes
  <2>3. redis' \in Store /\ local' \in [Processes -> Store]
    BY <2>1, <2>2, PutAdds
  <2> QED BY <1>2, <2>3, OthersHold DEF Learn, Stored
<1>3. CASE UNCHANGED vars
  BY <1>3, OthersHold DEF vars, stores, Stored
<1> QED BY <1>1, <1>2, <1>3 DEF Next

LEMMA StoredAlways == Spec => [](IInv /\ Stored)
<1>1. Init => IInv /\ Stored
  BY InvInit, StoredInit
<1>2. (IInv /\ Stored) /\ [Next]_vars => (IInv /\ Stored)'
  BY InvNext, StoredNext
<1> QED BY <1>1, <1>2, PTL DEF Spec

(* Every category that is stored is a group or one that the router learns, *)
(* and no batch is tried more than MaxRetries times.                       *)
THEOREM TypesHold == Spec => []TypeOK
<1>1. IInv /\ Stored => TypeOK
  BY DEF IInv, Stored, Held, TypeOK
<1> QED BY <1>1, StoredAlways, PTL

(* A step takes a category from the server only while a -load process      *)
(* clears the Redis that both use.                                         *)
LEMMA ClassifiedStep == IInv /\ Stored /\ [Next]_vars =>
    [\A d \in Domains : Category(d) # Unknown /\ Category(d)' = Unknown =>
          \E l \in Loaders : pc[l] = "clear" /\ backend[l] = "redis" /\ backend[Server] = "redis"]_vars
<1> SUFFICES ASSUME IInv, Stored, Next, NEW d \in Domains, Category(d) # Unknown, Category(d)' = Unknown
             PROVE  \E l \in Loaders : pc[l] = "clear" /\ backend[l] = "redis" /\ backend[Server] = "redis"
  BY Zenon
<1>1. Server \in Processes /\ backend' = backend
  BY DEF Processes, Next, Learn, Step, Start, EndClear, ClearKey, Parse, ParseFails, BatchSetInMemory, TakeBatch,
         EndBatches, MSet, MSetFails, Ping
<1>2. \/ redis'[d] # redis[d] /\ redis'[d] = Unknown
      \/ local'[Server][d] # local[Server][d] /\ local'[Server][d] = Unknown
  <2>1. CASE backend[Server] = "redis"
    <3>1. redis[d] # Unknown /\ redis'[d] = Unknown
      BY <1>1, <2>1 DEF Category
    <3> QED BY <3>1
  <2>2. CASE backend[Server] # "redis"
    <3>1. local[Server][d] # Unknown /\ local'[Server][d] = Unknown
      BY <1>1, <2>2 DEF Category
    <3> QED BY <3>1
  <2> QED BY <2>1, <2>2
<1>3. ASSUME NEW p \in Processes, NEW D, NEW given, \A e \in D : given[e] \in Groups \cup Learned
      PROVE  ~Put(p, D, given)
  BY <1>1, <1>2, <1>3, PutAdds
<1>4. ~UNCHANGED stores
  BY <1>2 DEF stores
<1>5. ~\E e \in Domains : \E category \in Learned : Learn(e, category)
  BY <1>3, LearnPuts
<1>6. PICK l \in Loads : Step(l)
  BY <1>5 DEF Next
<1>7. ProcessOf(l) \in Processes
  BY DEF ProcessOf, Processes, Loads
<1>8. ~BatchSetInMemory(l)
  <2> SUFFICES ASSUME BatchSetInMemory(l) PROVE FALSE
    OBVIOUS
  <2>1. \A e \in todo[l] : data[l][e] \in Groups \cup Learned
    BY DEF BatchSetInMemory, Stored, Held
  <2> QED BY <1>3, <1>7, <2>1 DEF BatchSetInMemory
<1>9. ~MSet(l) /\ ~MSetFails(l)
  <2> SUFFICES ASSUME MSet(l) \/ MSetFails(l) PROVE FALSE
    OBVIOUS
  <2>1. pc[l] = "mset" /\ (Put(ProcessOf(l), batch[l], data[l]) \/ UNCHANGED stores)
    BY DEF MSet, MSetFails
  <2>2. \A e \in batch[l] : data[l][e] \in Groups \cup Learned
    BY <2>1 DEF Stored, Held
  <2> QED BY <1>3, <1>4, <1>7, <2>1, <2>2
<1>10. \E e \in Domains : ClearKey(l, e)
  BY <1>4, <1>6, <1>8, <1>9 DEF Step, Start, EndClear, Parse, ParseFails, TakeBatch, EndBatches, Ping
<1>11. l \in Loaders /\ pc[l] = "clear"
  BY <1>10 DEF ClearKey, Stored, Held
<1>12. backend[l] = "redis"
  BY <1>10, <1>11, ConstantsAssumption DEF ClearKey, ProcessOf
<1>13. backend[Server] = "redis"
  BY <1>1, <1>10 DEF ClearKey, Category
<1> QED BY <1>11, <1>12, <1>13

(* A classified domain stays so, whatever reloads, failures and lessons    *)
(* come: only a -load process that clears the Redis of both takes one away.*)
THEOREM StaysClassifiedAlways == Spec => StaysClassified
BY StoredAlways, ClassifiedStep, PTL DEF Spec, StaysClassified
=============================================================================
