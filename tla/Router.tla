------------------------------- MODULE Router --------------------------------
(***************************************************************************)
(* Router.Route (router/router.go): concurrent queries that share the DNS  *)
(* cache and the category cache.  A query walks the cached CNAME chain,    *)
(* matches a policy, asks an upstream group for the end of the chain or    *)
(* races the groups of proxy_ecs_fallback, checks expected_ips, stores the *)
(* answer one key at a time and returns.                                   *)
(*                                                                         *)
(* What other modules detail is used here by its contract: a query to a    *)
(* group answers or fails (UpstreamGroup), the race of proxy_ecs_fallback  *)
(* hands over the answers it gathered in time (Fallback), and an entry of  *)
(* the DNS cache in memory may lose records, or turn back to some of those *)
(* it held before, at any time (RRCache: expiry, clean-up, late write-back).*)
(* With the cache in Redis a store is not one step, and an entry may mix   *)
(* two RRsets: that is RedisRRCache's subject and is not claimed here.     *)
(*                                                                         *)
(* An answer section is a sequence of RRsets [name, type, data]; TTLs,     *)
(* response codes and the other sections are left out.                     *)
(***************************************************************************)
EXTENDS Naturals, Sequences, FiniteSets, Functions

CONSTANTS Queries,   \* concurrent runs of Route
          Names,     \* domain names, each with its spelling
          Lower,     \* strings.ToLower
          Parents,   \* the names Match tries after the domain itself
          Addrs,     \* IP addresses
          Private,   \* private ones
          MaxASN,
          Groups,    \* upstream groups
          Zone,      \* the answers each group may give for each key
          Policies,  \* query policies, by the category they are named for
          FallbackRules,  \* the rules of the configuration's fallback
          Starts,    \* work (a key for each query), GeoIP matcher, the
                     \* listing a load writes and contents of the DNS cache
          MaxDepth   \* maxDepth of ResolveCNAMEChain (10 in Route)

GeoIP == INSTANCE GeoIP

Types == {"CNAME", "A", "HTTPS"}
Keys == Names \X Types
DataOfType(type) == IF type = "A" THEN Addrs ELSE Names
RRset ==
    {rrset \in [name : Names, type : Types, data : (SUBSET (Names \cup Addrs)) \ {{}}] :
        rrset.data \subseteq DataOfType(rrset.type)}

(* The rules of expected_ips are a set, their order does not matter. *)
IsPolicy(p) ==
    /\ p.group \in Groups \cup {"block", "proxy_ecs_fallback"}
    /\ \A rule \in p.expected : rule \in GeoIP!Rule
    /\ p.fallback \in Groups \cup {""}
    /\ {p.nocache, p.nohttps} \subseteq BOOLEAN

Raced == {"proxy_ecs", "proxy"}
Lessons == {"direct_site", "proxy_site"}

(* That the groups exist is what StartupProofs shows of configurations. *)
ASSUME ConstantsAssumption ==
    /\ Raced \cup {"direct"} \subseteq Groups
    /\ Lower \in [Names -> Names]
    /\ Parents \in [Names -> Seq(Names)]
    /\ \A c \in DOMAIN Policies : IsPolicy(Policies[c])
    /\ \A start \in Starts :
          /\ start.work \in [Queries -> Keys]
          /\ start.listing \in [Names -> DOMAIN Policies \cup {""}]
    /\ MaxDepth \in Nat \ {0}

KeysOf(answer) == {<<answer[n].name, answer[n].type>> : n \in 1..Len(answer)}
DataOf(answer, k) ==
    UNION {answer[n].data : n \in {m \in 1..Len(answer) : <<answer[m].name, answer[m].type>> = k}}

(* One linked chain from a name to records of a type, or on its way there. *)
IsChain(answer, name, type) ==
    /\ answer # <<>> => answer[1].name = name
    /\ \A n \in 1..(Len(answer) - 1) :
          answer[n].type = "CNAME" /\ answer[n + 1].name \in answer[n].data
    /\ \A n \in 1..Len(answer) : answer[n].type \in {"CNAME", type}

(* Data of k out of one answer some group gave; an alias some group gave. *)
Given(k, data) ==
    \E g \in Groups : \E asking \in Keys : \E answer \in Zone[g][asking] : data \subseteq DataOf(answer, k)
AliasGiven(name, to) ==
    \E g \in Groups : \E asking \in Keys : \E answer \in Zone[g][asking] :
        to \in DataOf(answer, <<name, "CNAME">>)
AsGiven(k, data) ==
    IF k[2] = "CNAME" THEN \A to \in data : AliasGiven(k[1], to) ELSE Given(k, data)

(* Resolvers answer with the chain of the name they are asked for, and what*)
(* is in the DNS cache at first came from them.                            *)
ASSUME ZoneAssumption ==
    /\ \A g \in Groups : \A k \in Keys : \A answer \in Zone[g][k] :
          answer \in Seq(RRset) /\ IsChain(answer, k[1], k[2])
    /\ \A start \in Starts : \A k \in Keys :
          /\ start.cache[k] \subseteq DataOfType(k[2])
          /\ start.cache[k] # {} => AsGiven(k, start.cache[k])
    /\ \A start \in Starts : DOMAIN start.cache = Keys

VARIABLES cache,     \* the DNS cache: the data of each key, {} when absent
          stored,    \* all that was ever stored under a key (history)
          category,  \* the category cache, "" when absent
          listing,   \* the categories dlc.dat gives
          loaded,    \* the loader has written them (it does so once here)
          matcher,   \* geoipMatcher
          pc,        \* where each query is
          domain,    \* what it asks for
          qtype,     \* and of which type
          target,    \* currentName of the chain, later targetName
          depth,     \* depth of ResolveCNAMEChain
          chain,     \* cachedAnswers
          policy,    \* the policy it was given
          found,     \* what the policy was chosen by (history)
          nested,    \* proxy_ecs_fallback was entered from handleIPValidation
          ecs,       \* proxyECSResp, once gathered
          resp,      \* the answer to return
          todo,      \* keys cacheResponse has still to store
          lesson,    \* the category the query is to teach
          asked,     \* groups it has asked (history)
          learning   \* asyncCacheCategory goroutines not yet run

fixed == <<listing, matcher, domain, qtype>>
memory == <<cache, stored>>
shared == <<memory, category, loaded, learning>>
walk == <<target, depth, chain>>
chosen == <<policy, found>>
vars == <<fixed, shared, pc, walk, chosen, nested, ecs, resp, todo, lesson, asked>>

-----------------------------------------------------------------------------
Default == [group |-> "proxy_ecs_fallback", expected |-> {}, fallback |-> "",
            nocache |-> FALSE, nohttps |-> FALSE]

(* Matcher.Match: the domain in lower case, then its parents from the      *)
(* longest on.  A lookup that fails counts as one that finds nothing; those*)
(* of the names in down do.                                                *)
Tried(d) == <<Lower[d]>> \o Parents[Lower[d]]
Match(d, down) ==
    LET known == {n \in 1..Len(Tried(d)) :
                    category[Tried(d)[n]] # "" /\ Tried(d)[n] \notin down}
    IN  IF known = {} THEN "unknown"
        ELSE category[Tried(d)[CHOOSE n \in known : \A m \in known : n <= m]]

(* findPolicy *)
FindPolicy(group) == IF group \in DOMAIN Policies THEN Policies[group] ELSE Default

(* utils.ExtractIPs *)
IPs(answer) == UNION {DataOf(answer, k) : k \in {j \in KeysOf(answer) : j[2] = "A"}}

(* validateIPs, where the policy has rules; an answer without addresses    *)
(* passes.                                                                 *)
Accepted(answer, p) ==
    p.expected = {} \/ \A ip \in IPs(answer) : GeoIP!MatchAny(matcher, ip, p.expected)

(* Does any address of the ECS answer match a fallback rule? *)
MatchesFallback(answer) ==
    \E ip \in IPs(answer) : GeoIP!MatchAny(matcher, ip, FallbackRules)

(* filterHTTPSRecords, for a policy that says so: the other records, in    *)
(* their order.                                                            *)
Unfiltered(answer) == {n \in 1..Len(answer) : answer[n].type # "HTTPS"}
Nth(places, k) == CHOOSE n \in places : Cardinality(places \cap 1..n) = k
FilterHTTPS(answer, p) ==
    LET kept == Unfiltered(answer)
    IN  IF p.nohttps THEN [k \in 1..Cardinality(kept) |-> answer[Nth(kept, k)]] ELSE answer

(* Nothing is found yet; late: after the load. *)
Nothing == [category |-> "", blind |-> FALSE, late |-> FALSE]

Cached(k) == [name |-> k[1], type |-> k[2], data |-> cache[k]]

-----------------------------------------------------------------------------
Init ==
    /\ \E start \in Starts :
          /\ cache = start.cache
          /\ stored = [k \in Keys |-> {start.cache[k]}]
          /\ listing = start.listing
          /\ matcher = start.matcher
          /\ domain = [q \in Queries |-> start.work[q][1]]
          /\ qtype = [q \in Queries |-> start.work[q][2]]
    /\ loaded = FALSE
    /\ category = [n \in Names |-> ""]
    /\ pc = [q \in Queries |-> "type"]
    /\ target = domain
    /\ depth = [q \in Queries |-> 0]
    /\ chain = [q \in Queries |-> <<>>]
    /\ policy = [q \in Queries |-> Default]
    /\ found = [q \in Queries |-> Nothing]
    /\ nested = [q \in Queries |-> FALSE]
    /\ ecs = [q \in Queries |-> <<>>]
    /\ resp = [q \in Queries |-> <<>>]
    /\ todo = [q \in Queries |-> {}]
    /\ lesson = [q \in Queries |-> ""]
    /\ asked = [q \in Queries |-> {}]
    /\ learning = {}

Goto(q, step) == pc' = [pc EXCEPT ![q] = step]

(* ResolveCNAMEChain, GetRRs of the target type: a hit is the full answer. *)
LookupType(q) ==
    /\ pc[q] = "type"
    /\ IF cache[<<target[q], qtype[q]>>] # {}
       THEN /\ resp' = [resp EXCEPT ![q] = Append(chain[q], Cached(<<target[q], qtype[q]>>))]
            /\ Goto(q, "done")
       ELSE /\ resp' = resp
            /\ Goto(q, "alias")
    /\ UNCHANGED <<fixed, shared, walk, chosen, nested, ecs, todo, lesson, asked>>

(* Mutant: the depth is not limited. *)
LookupAliasForever(q) ==
    /\ pc[q] = "alias"
    /\ LET alias == Cached(<<target[q], "CNAME">>) IN
         \/ /\ alias.data = {}
            /\ Goto(q, "match")
            /\ UNCHANGED walk
         \/ /\ \E name \in alias.data : target' = [target EXCEPT ![q] = name]
            /\ chain' = [chain EXCEPT ![q] = Append(@, alias)]
            /\ depth' = [depth EXCEPT ![q] = @ + 1]
            /\ Goto(q, "type")
    /\ UNCHANGED <<fixed, shared, chosen, nested, ecs, resp, todo, lesson, asked>>

(* ResolveCNAMEChain, GetRRs of CNAME: a hit moves on to the alias. *)
LookupAlias(q) ==
    /\ pc[q] = "alias"
    /\ LET alias == Cached(<<target[q], "CNAME">>) IN
         \/ /\ alias.data = {}
            /\ Goto(q, "match")
            /\ UNCHANGED walk
         \/ /\ \E name \in alias.data : target' = [target EXCEPT ![q] = name]
            /\ chain' = [chain EXCEPT ![q] = Append(@, alias)]
            /\ depth' = [depth EXCEPT ![q] = @ + 1]
            /\ Goto(q, IF depth[q] + 1 < MaxDepth THEN "type" ELSE "match")
    /\ UNCHANGED <<fixed, shared, chosen, nested, ecs, resp, todo, lesson, asked>>

(* Match, findPolicy and the dispatch on the policy's group.  A blocked    *)
(* domain is answered at once: with an error, or with the address that     *)
(* block_type names, which is no group's answer and is left out of resp.   *)
ChoosePolicy(q) ==
    /\ pc[q] = "match"
    /\ \E down \in SUBSET {n \in Range(Tried(domain[q])) : category[n] # ""} :
       LET group == Match(domain[q], down)
           p == FindPolicy(group)
       IN
         /\ policy' = [policy EXCEPT ![q] = p]
         /\ found' = [found EXCEPT ![q] =
                        [category |-> group, blind |-> down # {}, late |-> loaded]]
         /\ Goto(q, CASE p.group = "block" -> "done"
                      [] p.group = "proxy_ecs_fallback" -> "race"
                      [] OTHER -> "ask")
    /\ UNCHANGED <<fixed, shared, walk, nested, ecs, resp, todo, lesson, asked>>

AskGroups(q, groups) == asked' = [asked EXCEPT ![q] = @ \cup groups]

Fail(q) == Goto(q, "failed") /\ UNCHANGED resp

(* mergeCNAMEChain *)
Merged(q, answer) == chain[q] \o answer

(* Mutant: the group is asked for the domain, not for the end of the chain.*)
AskForDomain(q) ==
    /\ pc[q] = "ask"
    /\ AskGroups(q, {policy[q].group})
    /\ \/ Fail(q)
       \/ /\ \E answer \in Zone[policy[q].group][<<domain[q], qtype[q]>>] :
                resp' = [resp EXCEPT ![q] = FilterHTTPS(Merged(q, answer), policy[q])]
          /\ Goto(q, "validate")
    /\ UNCHANGED <<fixed, shared, walk, chosen, nested, ecs, todo, lesson>>

(* Query of the policy's group for the end of the cached chain. *)
Ask(q) ==
    /\ pc[q] = "ask"
    /\ AskGroups(q, {policy[q].group})
    /\ \/ Fail(q)
       \/ /\ \E answer \in Zone[policy[q].group][<<target[q], qtype[q]>>] :
                resp' = [resp EXCEPT ![q] = FilterHTTPS(Merged(q, answer), policy[q])]
          /\ Goto(q, "validate")
    /\ UNCHANGED <<fixed, shared, walk, chosen, nested, ecs, todo, lesson>>

(* Mutant: without a fallback_group a rejected answer is kept. *)
ValidateLeniently(q) ==
    /\ pc[q] = "validate"
    /\ Goto(q, IF ~Accepted(resp[q], policy[q]) /\ policy[q].fallback # "" THEN "refetch"
               ELSE "store")
    /\ UNCHANGED <<fixed, shared, walk, chosen, nested, ecs, resp, todo, lesson, asked>>

(* Mutant: without a fallback_group a rejected domain goes to direct.      *)
ValidateToDirect(q) ==
    /\ pc[q] = "validate"
    /\ Goto(q, IF Accepted(resp[q], policy[q]) THEN "store"
               ELSE IF policy[q].fallback # "" THEN "refetch" ELSE "direct")
    /\ nested' = [nested EXCEPT ![q] = ~Accepted(resp[q], policy[q]) /\ policy[q].fallback = ""]
    /\ UNCHANGED <<fixed, shared, walk, chosen, ecs, resp, todo, lesson, asked>>

(* handleIPValidation, up to the query it makes. *)
Validate(q) ==
    /\ pc[q] = "validate"
    /\ \/ /\ Accepted(resp[q], policy[q])
          /\ Goto(q, "store")
          /\ nested' = nested
       \/ /\ ~Accepted(resp[q], policy[q])
          /\ policy[q].fallback # ""
          /\ Goto(q, "refetch")
          /\ nested' = nested
       \/ /\ ~Accepted(resp[q], policy[q])
          /\ policy[q].fallback = ""
          /\ Goto(q, "race")
          /\ nested' = [nested EXCEPT ![q] = TRUE]
    /\ UNCHANGED <<fixed, shared, walk, chosen, ecs, resp, todo, lesson, asked>>

(* The fallback group's answer is final. *)
Refetch(q) ==
    /\ pc[q] = "refetch"
    /\ AskGroups(q, {policy[q].fallback})
    /\ \/ Fail(q)
       \/ /\ \E answer \in Zone[policy[q].fallback][<<target[q], qtype[q]>>] :
                resp' = [resp EXCEPT ![q] = Merged(q, answer)]
          /\ Goto(q, "store")
    /\ UNCHANGED <<fixed, shared, walk, chosen, nested, ecs, todo, lesson>>

(* handleIPValidation passes proxy_ecs_fallback a policy without options.  *)
RacePolicy(q) == IF nested[q] THEN Default ELSE policy[q]

Teach(q, group) == lesson' = [lesson EXCEPT ![q] = group]

(* handleProxyECSFallbackV2 up to its decision: each of the two queries,   *)
(* for the original domain, has answered in time or not at all.            *)
Race(q) ==
    /\ pc[q] = "race"
    /\ AskGroups(q, Raced)
    /\ \/ /\ \E answer \in Zone["proxy_ecs"][<<domain[q], qtype[q]>>] :
                /\ ecs' = [ecs EXCEPT ![q] = answer]
                /\ \/ /\ MatchesFallback(answer)
                      /\ Goto(q, "direct")
                      /\ UNCHANGED <<resp, lesson>>
                   \/ /\ ~MatchesFallback(answer)
                      /\ \E other \in {answer} \cup Zone["proxy"][<<domain[q], qtype[q]>>] :
                            resp' = [resp EXCEPT ![q] = FilterHTTPS(other, RacePolicy(q))]
                      /\ Teach(q, "proxy_site")
                      /\ Goto(q, "racestore")
       \/ /\ \E answer \in Zone["proxy"][<<domain[q], qtype[q]>>] :
                resp' = [resp EXCEPT ![q] = FilterHTTPS(answer, RacePolicy(q))]
          /\ Teach(q, "proxy_site")
          /\ Goto(q, "racestore")
          /\ UNCHANGED ecs
       \/ /\ Fail(q)
          /\ UNCHANGED <<ecs, lesson>>
    /\ UNCHANGED <<fixed, shared, walk, chosen, nested, todo>>

AskDirect(q) ==
    /\ pc[q] = "direct"
    /\ AskGroups(q, {"direct"})
    /\ \/ Fail(q) /\ UNCHANGED lesson
       \/ /\ \E answer \in Zone["direct"][<<domain[q], qtype[q]>>] :
                resp' = [resp EXCEPT ![q] = FilterHTTPS(answer, RacePolicy(q))]
          /\ Teach(q, "direct_site")
          /\ Goto(q, "racestore")
    /\ UNCHANGED <<fixed, shared, walk, chosen, nested, ecs, todo>>

(* Mutant: the race's answer is stored whatever the policy says. *)
CacheResponseOfRace(q) ==
    LET p == IF pc[q] = "racestore" THEN Default ELSE policy[q] IN
    /\ pc[q] \in {"racestore", "store"}
    /\ todo' = [todo EXCEPT ![q] = IF p.nocache THEN {} ELSE KeysOf(resp[q])]
    /\ Goto(q, IF pc[q] = "store" THEN "storing" ELSE "racestoring")
    /\ UNCHANGED <<fixed, shared, walk, chosen, nested, ecs, resp, lesson, asked>>

(* cacheResponse groups the answer by key, unless the policy forbids it. *)
CacheResponse(q) ==
    LET p == IF pc[q] = "racestore" THEN RacePolicy(q) ELSE policy[q] IN
    /\ pc[q] \in {"racestore", "store"}
    /\ todo' = [todo EXCEPT ![q] = IF p.nocache THEN {} ELSE KeysOf(resp[q])]
    /\ Goto(q, IF pc[q] = "store" THEN "storing" ELSE "racestoring")
    /\ UNCHANGED <<fixed, shared, walk, chosen, nested, ecs, resp, lesson, asked>>

(* The RRset takes the place of what the key held. *)
Store(k, data) ==
    /\ cache' = [cache EXCEPT ![k] = data]
    /\ stored' = [stored EXCEPT ![k] = @ \cup {data}]

(* Mutant: the records are added to the entry. *)
SetRRsAppending(q, k) ==
    /\ pc[q] \in {"storing", "racestoring"}
    /\ k \in todo[q]
    /\ Store(k, cache[k] \cup DataOf(resp[q], k))
    /\ todo' = [todo EXCEPT ![q] = @ \ {k}]
    /\ UNCHANGED <<fixed, category, loaded, learning, pc, walk, chosen, nested, ecs, resp, lesson, asked>>

(* One SetRRs of cacheResponse; map iteration takes the keys in any order. *)
SetRRs(q, k) ==
    /\ pc[q] \in {"storing", "racestoring"}
    /\ k \in todo[q]
    /\ Store(k, DataOf(resp[q], k))
    /\ todo' = [todo EXCEPT ![q] = @ \ {k}]
    /\ UNCHANGED <<fixed, category, loaded, learning, pc, walk, chosen, nested, ecs, resp, lesson, asked>>

(* Mutant: the end of the cached chain is learned, not the domain. *)
EndRaceOfTarget(q) ==
    /\ pc[q] = "racestoring"
    /\ todo[q] = {}
    /\ learning' = learning \cup {<<target[q], lesson[q]>>}
    /\ Goto(q, IF nested[q] THEN "store" ELSE "done")
    /\ UNCHANGED <<fixed, memory, category, loaded, walk, chosen, nested, ecs, resp, todo, lesson, asked>>

(* `go r.asyncCacheCategory`; proxy_ecs_fallback then returns to Route or, *)
(* through handleIPValidation, to the caching that follows it there.       *)
EndRace(q) ==
    /\ pc[q] = "racestoring"
    /\ todo[q] = {}
    /\ learning' = learning \cup {<<domain[q], lesson[q]>>}
    /\ Goto(q, IF nested[q] THEN "store" ELSE "done")
    /\ UNCHANGED <<fixed, memory, category, loaded, walk, chosen, nested, ecs, resp, todo, lesson, asked>>

(* Mutant: the caller waits for what its race has learned to be written,   *)
(* and the category cache may never answer.                                *)
ReturnAfterLearning(q) ==
    /\ pc[q] = "storing"
    /\ todo[q] = {}
    /\ <<domain[q], lesson[q]>> \notin learning
    /\ Goto(q, "done")
    /\ UNCHANGED <<fixed, shared, walk, chosen, nested, ecs, resp, todo, lesson, asked>>

Return(q) ==
    /\ pc[q] = "storing"
    /\ todo[q] = {}
    /\ Goto(q, "done")
    /\ UNCHANGED <<fixed, shared, walk, chosen, nested, ecs, resp, todo, lesson, asked>>

AsyncCacheCategory(write) ==
    /\ learning' = learning \ {write}
    /\ category' = [category EXCEPT ![write[1]] = write[2]]
    /\ UNCHANGED <<fixed, memory, loaded, pc, walk, chosen, nested, ecs, resp, todo, lesson, asked>>

(* Loader.Load writes the category of every listed domain. *)
Load ==
    /\ ~loaded
    /\ loaded' = TRUE
    /\ category' = [n \in Names |-> IF listing[n] # "" THEN listing[n] ELSE category[n]]
    /\ UNCHANGED <<fixed, memory, learning, pc, walk, chosen, nested, ecs, resp, todo, lesson, asked>>

(* Records expire, some of an entry or all, or the clean-up of a GetRRs    *)
(* writes back those that had not expired of the entry it has read, which  *)
(* may have been replaced since.                                           *)
CleanUp(k) ==
    /\ \E data \in stored[k] : \E left \in (SUBSET data) \ {data} :
          cache' = [cache EXCEPT ![k] = left]
    /\ UNCHANGED <<fixed, stored, category, loaded, learning, pc, walk, chosen, nested, ecs, resp, todo, lesson, asked>>

Step(q) ==
    \/ LookupType(q) \/ LookupAlias(q) \/ ChoosePolicy(q)
    \/ Ask(q) \/ Validate(q) \/ Refetch(q)
    \/ Race(q) \/ AskDirect(q) \/ EndRace(q)
    \/ CacheResponse(q) \/ (\E k \in Keys : SetRRs(q, k)) \/ Return(q)

Next ==
    \/ \E q \in Queries : Step(q)
    \/ \E write \in learning : AsyncCacheCategory(write)
    \/ Load
    \/ \E k \in Keys : CleanUp(k)

(* Each query's goroutine is scheduled, and what it calls returns. *)
Fairness == \A q \in Queries : WF_vars(Step(q))

Spec == Init /\ [][Next]_vars
FairSpec == Spec /\ Fairness

-----------------------------------------------------------------------------
Answered(q) == pc[q] = "done" /\ resp[q] # <<>>

Steps == {"type", "alias", "match", "ask", "validate", "refetch", "race", "direct",
          "racestore", "racestoring", "store", "storing", "done", "failed"}
Categories == DOMAIN Policies \cup Lessons \cup {""}

SharedOK ==
    /\ DOMAIN cache = Keys /\ \A k \in Keys : cache[k] \subseteq DataOfType(k[2])
    /\ DOMAIN stored = Keys /\ \A k \in Keys : \A data \in stored[k] : data \subseteq DataOfType(k[2])
    /\ loaded \in BOOLEAN
    /\ listing \in [Names -> Categories] /\ category \in [Names -> Categories]
    /\ learning \subseteq Names \X Lessons
WalkOK ==
    /\ domain \in [Queries -> Names] /\ target \in [Queries -> Names]
    /\ qtype \in [Queries -> Types]
    /\ depth \in [Queries -> 0..MaxDepth]
    /\ chain \in [Queries -> Seq(RRset)] /\ \A q \in Queries : Len(chain[q]) = depth[q]
QueriesOK ==
    /\ pc \in [Queries -> Steps]
    /\ DOMAIN policy = Queries /\ \A q \in Queries : IsPolicy(policy[q])
    /\ found \in [Queries -> [category : Categories \cup {"unknown"},
                               blind : BOOLEAN, late : BOOLEAN]]
    /\ nested \in [Queries -> BOOLEAN]
    /\ resp \in [Queries -> Seq(RRset)] /\ ecs \in [Queries -> Seq(RRset)]
    /\ DOMAIN todo = Queries /\ \A q \in Queries : todo[q] \subseteq KeysOf(resp[q])
    /\ lesson \in [Queries -> Lessons \cup {""}]
    /\ asked \in [Queries -> SUBSET Groups]
TypeOK == SharedOK /\ WalkOK /\ QueriesOK

(* An answer is one linked chain from the name that was asked, although    *)
(* its parts come from lookups and replies at different times: part of it  *)
(* from the cache while others store and entries vanish, part of it from   *)
(* the policy's group, or from the fallback group after a rejection.       *)
AnswerIsChain == \A q \in Queries : Answered(q) => IsChain(resp[q], domain[q], qtype[q])

(* All records the cache in memory holds under a key are out of one answer *)
(* some group gave, though part of them may have expired: merging cached   *)
(* records into an answer and storing it again, or writing back what a     *)
(* clean-up has left, never joins the data of two answers.  Aliases are the*)
(* exception: where they form a loop, one from the cache is joined with    *)
(* another the group gives now, but both were given.                       *)
CachedAsGiven == \A k \in Keys : cache[k] # {} => AsGiven(k, cache[k])

(* A query asks the group direct only if the policy sends it there, or if  *)
(* it holds an answer that the policy's IP check has rejected in favour of *)
(* direct, or an ECS answer that matches the fallback rules: no other route*)
(* reveals a domain to the direct resolvers.                               *)
DirectOnlyWhenRouted ==
    [][\A q \in Queries : "direct" \in asked'[q] \ asked[q] =>
          \/ policy[q].group = "direct"
          \/ policy[q].fallback = "direct" /\ ~Accepted(resp[q], policy[q])
          \/ MatchesFallback(ecs[q])]_vars

(* An answer that failed the policy's IP check is neither stored for others*)
(* nor returned; what replaces it comes from the groups the check names.   *)
(* A policy of proxy_ecs_fallback is never checked, whatever it expects.   *)
RejectedIsReplaced ==
    \A q \in Queries :
        \/ pc[q] \in {"store", "storing"}
        \/ Answered(q) /\ asked[q] # {}
        => \/ Accepted(resp[q], policy[q])
           \/ policy[q].fallback \in asked[q] \/ nested[q]
           \/ policy[q].group = "proxy_ecs_fallback"

(* A blocked domain is not learned out of its block by the queries that    *)
(* know of it: what overwrites the category is the lesson of a query that  *)
(* was classified before the domain's category was loaded, or while a      *)
(* lookup of the category cache failed.  This is about names as Match looks*)
(* them up, and about categories that only a load gives.                   *)
Blocked(n) ==
    /\ Lower[n] = n
    /\ category[n] \notin Lessons \cup {""}
    /\ FindPolicy(category[n]).group = "block"
BlockHolds ==
    [][\A n \in Names : Blocked(n) /\ category'[n] # category[n] =>
          \E q \in Queries :
              /\ domain[q] = n
              /\ Raced \subseteq asked[q]
              /\ found[q].blind \/ ~found[q].late]_vars

(* What disable_cache and disable_https keep out of the cache gets into it *)
(* only through the race that replaces an answer rejected by the IP check. *)
KeptOut ==
    \A q \in Queries :
        /\ policy[q].nocache /\ todo[q] # {} => nested[q]
        /\ policy[q].nohttps /\ (\E k \in todo[q] : k[2] = "HTTPS") => nested[q]

(* Every query ends, even when the cached aliases form a loop. *)
EveryQueryEnds == \A q \in Queries : <>(pc[q] \in {"done", "failed"})
=============================================================================
