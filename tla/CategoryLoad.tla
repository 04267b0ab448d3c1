----------------------------- MODULE CategoryLoad -----------------------------
(***************************************************************************)
(* Loading dlc.dat into the category cache: Loader.Load, run by the cron   *)
(* of category/updater.go inside the server, and Loader.LoadReverse, run   *)
(* by a process started with -load (category/loader.go, main.go).  Both    *)
(* end in BatchSet of cache/category_cache.go: one step for the cache in   *)
(* memory, batches of MSET with retries for Redis.  Meanwhile the router   *)
(* writes what it learns from its answers.                                 *)
(***************************************************************************)
EXTENDS Integers, FiniteSets, DomainLists

CONSTANTS Crons,      \* runs of the cron job; cron lets them overlap
          Loaders,    \* processes started with -load
          Domains,
          Config,     \* domain_group: a set of rules for each group
          Position,   \* the place of each group in the configuration file
          Files,      \* what dlc.dat may hold when it is read
          Learned,    \* categories the router learns
          ClearFirst, \* category_cache.clear
          BatchSize,  \* entries per MSET (100)
          MaxRetries, \* attempts per batch (3)
          MaxLearned  \* bound on the categories learned in a behaviour

Unknown == ""
Groups == DOMAIN Config

ASSUME ConstantsAssumption ==
    /\ IsFiniteSet(Groups)
    /\ \A g \in Groups : \A rule \in Config[g] : \A f \in rule.filters : f.negated \in BOOLEAN
    /\ \A dlc \in Files : \A n \in DOMAIN dlc : \A e \in dlc[n].entries : e.value \in Domains
    /\ Crons \cap Loaders = {}
    /\ Unknown \notin Groups \cup Learned
    /\ ClearFirst \in BOOLEAN
    /\ {BatchSize, MaxRetries} \subseteq Nat \ {0}
    /\ MaxLearned \in Nat

VARIABLES backend,  \* the category cache each process works with
          redis,    \* categories in Redis, shared by the processes
          local,    \* and in the memory of each process
          pc,       \* where each load is
          read,     \* the contents of dlc.dat each load has read (history)
          data,     \* batchData, the argument of BatchSet
          todo,     \* domains not yet taken into a batch
          batch,    \* the batch being written
          tries,    \* failed attempts at it
          wrote,    \* domains this load has written
          learned   \* categories learned so far, counted for MaxLearned

stores == <<redis, local>>
vars == <<backend, stores, pc, read, data, todo, batch, tries, wrote, learned>>

Loads == Crons \cup Loaders
Server == "server"
Processes == {Server} \cup Loaders
ProcessOf(l) == IF l \in Crons THEN Server ELSE l

Lists(dlc) == ParseDomainGroup(dlc, Config)
Listed(dlc) == UNION {Lists(dlc)[g] : g \in Groups}
NotRead == <<>>
Store == [Domains -> Groups \cup Learned \cup {Unknown}]
NoBatch == [d \in {} |-> Unknown]
Nothing == [d \in Domains |-> Unknown]

Steps == {"idle", "clear", "parse", "take", "mset", "ping", "done", "failed"}

TypeOK ==
    /\ backend \in [Processes -> {"redis", "memory"}]
    /\ redis \in Store
    /\ local \in [Processes -> Store]
    /\ pc \in [Loads -> Steps]
    /\ read \in [Loads -> {NotRead} \cup Files]
    /\ \A l \in Loads : data[l] \in [DOMAIN data[l] -> Groups]
    /\ todo \in [Loads -> SUBSET Domains]
    /\ batch \in [Loads -> SUBSET Domains]
    /\ tries \in [Loads -> 0..MaxRetries]
    /\ wrote \in [Loads -> SUBSET Domains]
    /\ learned \in Nat

-----------------------------------------------------------------------------
(* main gives a process the cache in memory when Redis did not answer its  *)
(* ping, whatever the configuration says.                                  *)
Init ==
    /\ backend \in [Processes -> {"redis", "memory"}]
    /\ redis = Nothing
    /\ local = [p \in Processes |-> Nothing]
    /\ pc = [l \in Loads |-> "idle"]
    /\ read = [l \in Loads |-> NotRead]
    /\ data = [l \in Loads |-> NoBatch]
    /\ todo = [l \in Loads |-> {}]
    /\ batch = [l \in Loads |-> {}]
    /\ tries = [l \in Loads |-> 0]
    /\ wrote = [l \in Loads |-> {}]
    /\ learned = 0

Goto(l, step) == pc' = [pc EXCEPT ![l] = step]

(* Set, MSet and BatchSet in memory: the domains of D get new categories. *)
Put(p, D, category) ==
    LET put(store) == [d \in Domains |-> IF d \in D THEN category[d] ELSE store[d]] IN
    IF backend[p] = "redis"
    THEN redis' = put(redis) /\ local' = local
    ELSE local' = [local EXCEPT ![p] = put(@)] /\ redis' = redis

(* Mutant: the cron job clears the cache, too. *)
StartClears(l) ==
    /\ pc[l] = "idle"
    /\ Goto(l, IF ClearFirst THEN "clear" ELSE "parse")
    /\ UNCHANGED <<backend, stores, read, data, todo, batch, tries, wrote, learned>>

(* Only -load clears the cache, and only if the configuration says so. *)
Start(l) ==
    /\ pc[l] = "idle"
    /\ Goto(l, IF l \in Loaders /\ ClearFirst THEN "clear" ELSE "parse")
    /\ UNCHANGED <<backend, stores, read, data, todo, batch, tries, wrote, learned>>

(* Clear: Redis deletes the keys of a scan one at a time. *)
ClearKey(l, d) ==
    /\ pc[l] = "clear"
    /\ backend[ProcessOf(l)] = "redis"
    /\ redis[d] # Unknown
    /\ redis' = [redis EXCEPT ![d] = Unknown]
    /\ UNCHANGED <<backend, local, pc, read, data, todo, batch, tries, wrote, learned>>

(* The scan is over or has failed, which main does not look at; a cache in *)
(* memory is new and has nothing to clear.                                 *)
EndClear(l) ==
    /\ pc[l] = "clear"
    /\ Goto(l, "parse")
    /\ UNCHANGED <<backend, stores, read, data, todo, batch, tries, wrote, learned>>

(* The groups are written into one map in the order of a map iteration:    *)
(* LoadReverse takes the order it then reverses from one, too.  The last   *)
(* group that lists a domain wins.                                         *)
Orders ==
    {rank \in [Groups -> 1..Cardinality(Groups)] :
        \A g, h \in Groups : rank[g] = rank[h] => g = h}
LastOf(lists, d, rank) ==
    CHOOSE g \in Groups :
        d \in lists[g] /\ \A h \in Groups : d \in lists[h] => rank[h] <= rank[g]

Parse(l) ==
    /\ pc[l] = "parse"
    /\ \E dlc \in Files : \E rank \in Orders :
          /\ Parses(dlc, Config)
          /\ read' = [read EXCEPT ![l] = dlc]
          /\ data' = [data EXCEPT ![l] = [d \in Listed(dlc) |-> LastOf(Lists(dlc), d, rank)]]
          /\ todo' = [todo EXCEPT ![l] = Listed(dlc)]
    /\ Goto(l, "take")
    /\ UNCHANGED <<backend, stores, batch, tries, wrote, learned>>

(* dlc.dat cannot be read or decoded, or lacks a list. *)
ParseFails(l) ==
    /\ pc[l] = "parse"
    /\ Goto(l, "failed")
    /\ UNCHANGED <<backend, stores, read, data, todo, batch, tries, wrote, learned>>

(* MemoryCategoryCache.BatchSet *)
BatchSetInMemory(l) ==
    /\ pc[l] = "take"
    /\ backend[ProcessOf(l)] = "memory"
    /\ Put(ProcessOf(l), todo[l], data[l])
    /\ wrote' = [wrote EXCEPT ![l] = todo[l]]
    /\ todo' = [todo EXCEPT ![l] = {}]
    /\ Goto(l, "done")
    /\ UNCHANGED <<backend, read, data, batch, tries, learned>>

(* RedisCategoryCache.BatchSet: the next batch, in any order, or the end.  *)
TakeBatch(l) ==
    /\ pc[l] = "take"
    /\ backend[ProcessOf(l)] = "redis"
    /\ todo[l] # {}
    /\ \E b \in SUBSET todo[l] :
          /\ Cardinality(b) = BatchSize \/ (b = todo[l] /\ Cardinality(b) < BatchSize)
          /\ batch' = [batch EXCEPT ![l] = b]
          /\ todo' = [todo EXCEPT ![l] = @ \ b]
    /\ tries' = [tries EXCEPT ![l] = 0]
    /\ Goto(l, "mset")
    /\ UNCHANGED <<backend, stores, read, data, wrote, learned>>

(* Mutant: what is left when no full batch is, is not written. *)
EndBatchesShort(l) ==
    /\ pc[l] = "take"
    /\ backend[ProcessOf(l)] = "redis"
    /\ Cardinality(todo[l]) < BatchSize
    /\ Goto(l, "done")
    /\ UNCHANGED <<backend, stores, read, data, todo, batch, tries, wrote, learned>>

EndBatches(l) ==
    /\ pc[l] = "take"
    /\ backend[ProcessOf(l)] = "redis"
    /\ todo[l] = {}
    /\ Goto(l, "done")
    /\ UNCHANGED <<backend, stores, read, data, todo, batch, tries, wrote, learned>>

(* executeBatch: MSET writes all of the batch. *)
MSet(l) ==
    /\ pc[l] = "mset"
    /\ Put(ProcessOf(l), batch[l], data[l])
    /\ wrote' = [wrote EXCEPT ![l] = @ \cup batch[l]]
    /\ batch' = [batch EXCEPT ![l] = {}]
    /\ Goto(l, "take")
    /\ UNCHANGED <<backend, read, data, todo, tries, learned>>

(* Mutant: one attempt too many. *)
MSetFailsOnceMore(l) ==
    /\ pc[l] = "mset"
    /\ tries' = [tries EXCEPT ![l] = @ + 1]
    /\ Goto(l, IF tries[l] < MaxRetries THEN "ping" ELSE "failed")
    /\ UNCHANGED <<backend, stores, read, data, todo, batch, wrote, learned>>

(* Mutant: the attempts are not counted. *)
MSetFailsForever(l) ==
    /\ pc[l] = "mset"
    /\ Goto(l, "ping")
    /\ UNCHANGED <<backend, stores, read, data, todo, batch, tries, wrote, learned>>

(* It fails, before Redis carried it out or after.  The last attempt ends  *)
(* the load; any other is followed by a ping.                              *)
MSetFails(l) ==
    /\ pc[l] = "mset"
    /\ \/ Put(ProcessOf(l), batch[l], data[l])
       \/ UNCHANGED stores
    /\ tries' = [tries EXCEPT ![l] = @ + 1]
    /\ Goto(l, IF tries[l] + 1 < MaxRetries THEN "ping" ELSE "failed")
    /\ UNCHANGED <<backend, read, data, todo, batch, wrote, learned>>

Ping(l) ==
    /\ pc[l] = "ping"
    /\ Goto(l, "mset") \/ Goto(l, "failed")
    /\ UNCHANGED <<backend, stores, read, data, todo, batch, tries, wrote, learned>>

(* asyncCacheCategory of the router, in the server. *)
Learn(d, category) ==
    /\ learned < MaxLearned
    /\ learned' = learned + 1
    /\ Put(Server, {d}, [e \in {d} |-> category])
    /\ UNCHANGED <<backend, pc, read, data, todo, batch, tries, wrote>>

Step(l) ==
    \/ Start(l) \/ EndClear(l) \/ (\E d \in Domains : ClearKey(l, d))
    \/ Parse(l) \/ ParseFails(l)
    \/ BatchSetInMemory(l)
    \/ TakeBatch(l) \/ EndBatches(l) \/ MSet(l) \/ MSetFails(l) \/ Ping(l)

Next ==
    \/ \E l \in Loads : Step(l)
    \/ \E d \in Domains : \E category \in Learned : Learn(d, category)

(* Every load is scheduled; each call of Redis ends, well or not, by its   *)
(* timeout, and the scan of a Clear comes to its end.                      *)
Fairness == \A l \in Loads : WF_vars(Step(l)) /\ WF_vars(EndClear(l))

Spec == Init /\ [][Next]_vars
FairSpec == Spec /\ Fairness

-----------------------------------------------------------------------------
(* What the comment on rules promises (parser.go:65): the entries of the   *)
(* list that have every attribute named and none of those negated.         *)
IsListed(dlc, d) ==
    \E g \in Groups : \E rule \in Config[g] : \E e \in Entries(dlc, rule.list) :
        /\ e.value = d
        /\ \A f \in rule.filters : f.negated => ~HasAttribute(e, f.key)
        /\ \A f \in rule.filters : ~f.negated /\ f.key # "" => HasAttribute(e, f.key)

(* A load that reports success has written exactly the domains that the    *)
(* rules list in the file it read: neither the filters, nor the split into *)
(* batches, nor the last short batch, nor a retry loses or adds one.       *)
SuccessIsComplete ==
    \A l \in Loads : pc[l] = "done" =>
        \A d \in Domains : d \in wrote[l] <=> IsListed(read[l], d)

(* At any moment of a load every domain is either written, or in the batch *)
(* being written, or still to be taken, and in one of them only.           *)
BatchesPartition ==
    \A l \in Loads : pc[l] \in {"take", "mset", "ping", "done"} =>
        /\ wrote[l] \cup batch[l] \cup todo[l] = Listed(read[l])
        /\ wrote[l] \cap batch[l] = {}
        /\ wrote[l] \cap todo[l] = {}
        /\ batch[l] \cap todo[l] = {}

(* A domain that the server finds classified stays classified, through     *)
(* reloads and their failures.  Only a -load process that clears the Redis *)
(* both of them use may take a category away: nothing else does, and no    *)
(* category is given a time to live, although README.md:233 says so.       *)
Category(d) == IF backend[Server] = "redis" THEN redis[d] ELSE local[Server][d]
StaysClassified ==
    [][\A d \in Domains : Category(d) # Unknown /\ Category(d)' = Unknown =>
          \E l \in Loaders : pc[l] = "clear" /\ backend[l] = "redis" /\ backend[Server] = "redis"]_vars

(* Every load ends, with success or with an error. *)
EveryLoadEnds == \A l \in Loads : <>(pc[l] \in {"done", "failed"})

(* "later groups are written first, earlier groups overwrite them"         *)
(* (loader.go:77): of the groups that list a domain LoadReverse chooses the*)
(* first.  Violated: groupOrder is filled from a map iteration.            *)
FirstGroupWins ==
    \A l \in Loaders : pc[l] = "done" =>
        \A d \in wrote[l] : \A g \in Groups :
            d \in Lists(read[l])[g] => Position[data[l][d]] <= Position[g]
=============================================================================
