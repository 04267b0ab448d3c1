------------------------------ MODULE Fallback -------------------------------
(***************************************************************************)
(* Router.handleProxyECSFallbackV2 (router/router.go), run by several      *)
(* queries for one domain at a time: two goroutines ask the groups         *)
(* proxy_ecs and proxy, a loop of two rounds selects among their results   *)
(* and a three-second timer, and the ECS answer decides whether the group  *)
(* direct is asked.  What was decided is learned by a goroutine that       *)
(* writes the category cache after the call has returned.                  *)
(*                                                                         *)
(* A group's answer is what the decision sees of it: "match" when it has   *)
(* an IP that a fallback rule matches, "other" when it has none.           *)
(***************************************************************************)
EXTENDS Naturals, Sequences, FiniteSets

CONSTANTS Calls,        \* concurrent calls for the domain
          DisableCache  \* the calls whose policy says disable_cache

ASSUME CallsAssumption == IsFiniteSet(Calls) /\ DisableCache \subseteq Calls

VARIABLES pc,        \* where each call is
          outcome,   \* what its Query to each group returned
          resChan,   \* buffered channel, of capacity 2
          timer,     \* time.After(3s): armed, fired, or received from
          round,     \* rounds of the gathering loop so far
          got,       \* proxyECSResp and proxyResp
          via,       \* the group the call answered from, or "error"
          dnsCache,  \* {c} when the DNS cache holds call c's answer, or {}
          learning,  \* asyncCacheCategory goroutines not yet run
          category   \* the domain's entry in the category cache

vars == <<pc, outcome, resChan, timer, round, got, via, dnsCache, learning, category>>

Raced == {"proxy_ecs", "proxy"}
Groups == Raced \cup {"direct"}
Replies == {"match", "other", "error"}
Learned == {"direct_site", "proxy_site"}

TypeOK ==
    /\ pc \in [Calls -> {"start", "gather", "direct", "store", "done"}]
    /\ outcome \in [Calls -> [Groups -> Replies \cup {"none"}]]
    /\ resChan \in [Calls -> Seq(Raced)]
    /\ \A c \in Calls : Len(resChan[c]) <= 2
    /\ timer \in [Calls -> {"armed", "fired", "received"}]
    /\ round \in [Calls -> 0..2]
    /\ got \in [Calls -> [Raced -> {"nil", "match", "other"}]]
    /\ via \in [Calls -> Groups \cup {"none", "error"}]
    /\ dnsCache \subseteq Calls
    /\ learning \subseteq Calls \X Learned
    /\ category \in Learned \cup {"unknown"}

-----------------------------------------------------------------------------
Init ==
    /\ pc = [c \in Calls |-> "start"]
    /\ outcome = [c \in Calls |-> [g \in Groups |-> "none"]]
    /\ resChan = [c \in Calls |-> <<>>]
    /\ timer = [c \in Calls |-> "armed"]
    /\ round = [c \in Calls |-> 0]
    /\ got = [c \in Calls |-> [g \in Raced |-> "nil"]]
    /\ via = [c \in Calls |-> "none"]
    /\ dnsCache = {}
    /\ learning = {}
    /\ category = "unknown"

(* The two goroutines and the timer are started. *)
Start(c) ==
    /\ pc[c] = "start"
    /\ pc' = [pc EXCEPT ![c] = "gather"]
    /\ UNCHANGED <<outcome, resChan, timer, round, got, via, dnsCache, learning, category>>

(* Mutant: a goroutine that reported an error retries and reports again. *)
AnswerAgain(c, g, reply) ==
    /\ pc[c] # "start"
    /\ outcome[c][g] \in {"none", "error"}
    /\ outcome' = [outcome EXCEPT ![c][g] = reply]
    /\ resChan' = [resChan EXCEPT ![c] = Append(@, g)]
    /\ UNCHANGED <<pc, timer, round, got, via, dnsCache, learning, category>>

(* A goroutine's Query returns and its result goes into the channel, maybe *)
(* after the call has given up on it.                                      *)
Answer(c, g, reply) ==
    /\ pc[c] # "start"
    /\ outcome[c][g] = "none"
    /\ outcome' = [outcome EXCEPT ![c][g] = reply]
    /\ resChan' = [resChan EXCEPT ![c] = Append(@, g)]
    /\ UNCHANGED <<pc, timer, round, got, via, dnsCache, learning, category>>

Fire(c) ==
    /\ pc[c] = "gather"
    /\ timer[c] = "armed"
    /\ timer' = [timer EXCEPT ![c] = "fired"]
    /\ UNCHANGED <<pc, outcome, resChan, round, got, via, dnsCache, learning, category>>

GatheredAll(c) == round[c] = 3  \* mutant: both results and the timer
Gathered(c) == round[c] = 2

(* `case res := <-resChan`: a failed query leaves its response nil. *)
Receive(c) ==
    /\ pc[c] = "gather"
    /\ ~Gathered(c)
    /\ resChan[c] # <<>>
    /\ LET g == Head(resChan[c]) IN
         got' = [got EXCEPT ![c][g] = IF outcome[c][g] = "error" THEN "nil" ELSE outcome[c][g]]
    /\ resChan' = [resChan EXCEPT ![c] = Tail(@)]
    /\ round' = [round EXCEPT ![c] = @ + 1]
    /\ UNCHANGED <<pc, outcome, timer, via, dnsCache, learning, category>>

(* `case <-timeout`: the break leaves the select, not the loop, so this is *)
(* one round of the two.                                                   *)
ReceiveTimeout(c) ==
    /\ pc[c] = "gather"
    /\ ~Gathered(c)
    /\ timer[c] = "fired"
    /\ timer' = [timer EXCEPT ![c] = "received"]
    /\ round' = [round EXCEPT ![c] = @ + 1]
    /\ UNCHANGED <<pc, outcome, resChan, got, via, dnsCache, learning, category>>

(* Mutant: the ECS answer is never used as the last resort. *)
PreferredProxy(c) == IF got[c]["proxy"] # "nil" THEN "proxy" ELSE "error"

(* The answer to give when direct is not asked: proxy's before proxy_ecs's. *)
Preferred(c) ==
    IF got[c]["proxy"] # "nil" THEN "proxy"
    ELSE IF got[c]["proxy_ecs"] # "nil" THEN "proxy_ecs"
    ELSE "error"

(* Mutant: a match of either answer leads to direct. *)
DecideOnAny(c) ==
    /\ pc[c] = "gather"
    /\ Gathered(c)
    /\ \/ /\ \E g \in Raced : got[c][g] = "match"
          /\ pc' = [pc EXCEPT ![c] = "direct"]
          /\ via' = via
       \/ /\ \A g \in Raced : got[c][g] # "match"
          /\ via' = [via EXCEPT ![c] = Preferred(c)]
          /\ pc' = [pc EXCEPT ![c] = IF Preferred(c) = "error" THEN "done" ELSE "store"]
    /\ UNCHANGED <<outcome, resChan, timer, round, got, dnsCache, learning, category>>

Decide(c) ==
    /\ pc[c] = "gather"
    /\ Gathered(c)
    /\ \/ /\ got[c]["proxy_ecs"] = "match"
          /\ pc' = [pc EXCEPT ![c] = "direct"]
          /\ via' = via
       \/ /\ got[c]["proxy_ecs"] # "match"
          /\ via' = [via EXCEPT ![c] = Preferred(c)]
          /\ pc' = [pc EXCEPT ![c] = IF Preferred(c) = "error" THEN "done" ELSE "store"]
    /\ UNCHANGED <<outcome, resChan, timer, round, got, dnsCache, learning, category>>

(* Query of the group direct; its error is returned as it is. *)
AskDirect(c, reply) ==
    /\ pc[c] = "direct"
    /\ outcome' = [outcome EXCEPT ![c]["direct"] = reply]
    /\ via' = [via EXCEPT ![c] = IF reply = "error" THEN "error" ELSE "direct"]
    /\ pc' = [pc EXCEPT ![c] = IF reply = "error" THEN "done" ELSE "store"]
    /\ UNCHANGED <<resChan, timer, round, got, dnsCache, learning, category>>

(* What the call teaches the category cache. *)
CategoryOf(c) == IF via[c] = "direct" THEN "direct_site" ELSE "proxy_site"

(* Mutant: every answer teaches that the domain is a direct one. *)
StoreDirect(c) ==
    /\ pc[c] = "store"
    /\ dnsCache' = IF c \in DisableCache THEN dnsCache ELSE {c}
    /\ learning' = learning \cup {<<c, "direct_site">>}
    /\ pc' = [pc EXCEPT ![c] = "done"]
    /\ UNCHANGED <<outcome, resChan, timer, round, got, via, category>>

(* cacheResponse, `go r.asyncCacheCategory`, return. *)
Store(c) ==
    /\ pc[c] = "store"
    /\ dnsCache' = IF c \in DisableCache THEN dnsCache ELSE {c}
    /\ learning' = learning \cup {<<c, CategoryOf(c)>>}
    /\ pc' = [pc EXCEPT ![c] = "done"]
    /\ UNCHANGED <<outcome, resChan, timer, round, got, via, category>>

(* The goroutine runs; a Set that fails is only logged. *)
AsyncCacheCategory(write) ==
    /\ write \in learning
    /\ learning' = learning \ {write}
    /\ category' \in {write[2], category}
    /\ UNCHANGED <<pc, outcome, resChan, timer, round, got, via, dnsCache>>

Collect(c) == Start(c) \/ Receive(c) \/ ReceiveTimeout(c) \/ Decide(c) \/ Store(c)

Asked(c, g) ==
    \E reply \in Replies :
        IF g = "direct" THEN AskDirect(c, reply) ELSE Answer(c, g, reply)

Next ==
    \/ \E c \in Calls :
          \/ Collect(c)
          \/ Fire(c)
          \/ \E g \in Groups : Asked(c, g)
    \/ \E write \in learning : AsyncCacheCategory(write)

(* Goroutines are scheduled, and every Query to a group returns            *)
(* (UpstreamGroup!Returns).  The timer is given no fairness: a call must   *)
(* not need it when its queries return.                                    *)
Fairness ==
    \A c \in Calls :
        /\ WF_vars(Collect(c))
        /\ \A g \in Groups : WF_vars(Asked(c, g))
        /\ \A l \in Learned : WF_vars(AsyncCacheCategory(<<c, l>>))

Spec == Init /\ [][Next]_vars
FairSpec == Spec /\ Fairness

-----------------------------------------------------------------------------
(* The domain is resolved by direct only on an ECS answer that matched,    *)
(* and a matched domain is resolved by the proxy only when the timer won   *)
(* the race: neither the order of the two results nor a late one can turn  *)
(* the decision round.                                                     *)
DecisionFollowsECS ==
    \A c \in Calls :
        /\ via[c] = "direct" => outcome[c]["proxy_ecs"] = "match"
        /\ via[c] \in Raced /\ outcome[c]["proxy_ecs"] = "match" => timer[c] = "received"

(* A call fails only when it had to: the direct query failed, or some      *)
(* query failed and the other one failed too or was cut off by the timer.  *)
FailureIsReal ==
    \A c \in Calls : via[c] = "error" =>
        \/ outcome[c]["direct"] = "error"
        \/ /\ \E g \in Raced : outcome[c][g] = "error"
           /\ \A g \in Raced : outcome[c][g] = "error" \/ timer[c] = "received"

(* What the category cache learns, or still has to, was decided by some    *)
(* call that answered its client that way.                                 *)
LearnedWasDecided ==
    \A l \in Learned :
        category = l \/ (\E c \in Calls : <<c, l>> \in learning)
            => \E c \in Calls : pc[c] = "done" /\ via[c] \in Groups /\ CategoryOf(c) = l

(* Every call returns, with or without the timer, and every goroutine it   *)
(* started ends.                                                           *)
EveryCallReturns ==
    \A c \in Calls : <>(pc[c] = "done" /\ \A g \in Raced : outcome[c][g] # "none")

(* "proxy_ecs_fallback concurrent queries: 3s" (README.md:463): the call   *)
(* does not go on waiting for a group once it has received its timeout.    *)
(* Violated: the break inside the select leaves the loop running.          *)
GatherEndsAtTimeout ==
    \A c \in Calls :
        ~(pc[c] = "gather" /\ timer[c] = "received" /\ ~Gathered(c) /\ resChan[c] = <<>>)
=============================================================================
