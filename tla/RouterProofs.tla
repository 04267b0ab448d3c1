----------------------------- MODULE RouterProofs -----------------------------
(***************************************************************************)
(* What holds of Router for any number of queries, whatever the groups     *)
(* answer, the policies say and the names are.                             *)
(*                                                                         *)
(* Three arguments.  The cached chain of a query leads from the name it    *)
(* asked for to its target, and every record of it, of the answer and of   *)
(* the cache is one that some group gave (Sound): a chain has one record at*)
(* most that is no alias, its last, so merging, filtering and storing it   *)
(* again keep it whole.  What a query has asked, replaced and is to store  *)
(* follows from where it is (Placed).  And what dlc.dat says of a name is  *)
(* only overwritten by a lesson, so a query that knows of a block ends at  *)
(* it (Informed).                                                          *)
(***************************************************************************)
EXTENDS Router, FiniteSetTheorems, SequenceTheorems, WellFoundedInduction, TLAPS

(* Aliases that lead from one name to another. *)
LeadsTo(aliases, from, to) ==
    /\ IF aliases = <<>> THEN to = from
       ELSE aliases[1].name = from /\ to \in aliases[Len(aliases)].data
    /\ \A n \in 1..(Len(aliases) - 1) : aliases[n + 1].name \in aliases[n].data
    /\ \A n \in 1..Len(aliases) : aliases[n].type = "CNAME"

(* A record, and all of a sequence, as the groups gave it. *)
Genuine(rrset) == AsGiven(<<rrset.name, rrset.type>>, rrset.data)
AllGenuine(answer) == \A n \in 1..Len(answer) : Genuine(answer[n])

(* So is whatever was once stored: a late write-back may bring it back. *)
StoredAsGiven == \A k \in Keys : \A data \in stored[k] : data # {} => AsGiven(k, data)

Sound ==
    /\ CachedAsGiven /\ StoredAsGiven
    /\ \A q \in Queries :
          /\ LeadsTo(chain[q], domain[q], target[q]) /\ AllGenuine(chain[q])
          /\ IsChain(resp[q], domain[q], qtype[q]) /\ AllGenuine(resp[q])

NoHTTPS(answer) == \A n \in 1..Len(answer) : answer[n].type # "HTTPS"

(* What a query has asked, and why, by where it is. *)
Asking(q) ==
    /\ pc[q] \in {"type", "alias"} => depth[q] < MaxDepth
    /\ pc[q] \in {"type", "alias", "match"} => asked[q] = {} /\ ~nested[q] /\ ~found[q].late
    /\ pc[q] = "ask" => policy[q].group \in Groups /\ asked[q] = {}
    /\ pc[q] = "refetch" => policy[q].fallback # "" /\ policy[q].expected # {} /\ qtype[q] = "A"
    /\ pc[q] \in {"ask", "validate", "refetch"} => ~nested[q]
    /\ pc[q] \in {"validate", "refetch", "race"} => asked[q] \subseteq {policy[q].group}
    /\ pc[q] = "direct" => MatchesFallback(ecs[q])
    /\ pc[q] \in {"direct", "racestore", "racestoring"} => Raced \subseteq asked[q]
    /\ pc[q] \in {"race", "direct", "racestore", "racestoring"} /\ ~nested[q] =>
          policy[q].group = "proxy_ecs_fallback"

(* What it is to store and to teach. *)
Storing(q) ==
    /\ pc[q] \notin {"storing", "racestoring"} => todo[q] = {}
    /\ pc[q] \in {"racestore", "racestoring"} => lesson[q] \in Lessons
    /\ pc[q] \in {"validate", "store", "storing", "racestore", "racestoring"}
          /\ policy[q].nohttps /\ ~nested[q] => NoHTTPS(resp[q])

Placed ==
    /\ \A q \in Queries : Asking(q) /\ Storing(q)
    /\ RejectedIsReplaced /\ KeptOut

Informed ==
    /\ ~loaded => \A n \in Names : category[n] \in Lessons \cup {""}
    /\ \A q \in Queries :
          /\ found[q].late => loaded
          /\ found[q].late /\ ~found[q].blind /\ Blocked(domain[q]) => pc[q] = "done" /\ asked[q] = {}
    /\ \A write \in learning :
          \E q \in Queries : domain[q] = write[1] /\ Raced \subseteq asked[q]

Inv == TypeOK /\ Sound /\ Placed /\ Informed

USE DEF memory

-----------------------------------------------------------------------------
(* In a chain nothing follows a record that is no alias, so all its data is*)
(* in that record.                                                         *)
LEMMA AloneInChain ==
    ASSUME NEW answer \in Seq(RRset), NEW name, NEW type, IsChain(answer, name, type),
           NEW n \in 1..Len(answer), answer[n].type # "CNAME"
    PROVE  n = Len(answer) /\ DataOf(answer, <<answer[n].name, answer[n].type>>) = answer[n].data
<1>1. \A m \in 1..Len(answer) : answer[m].type # "CNAME" => m = Len(answer)
  <2>1. \A m \in 1..Len(answer) : m # Len(answer) => m \in 1..(Len(answer) - 1)
    OBVIOUS
  <2> QED BY <2>1 DEF IsChain
<1>2. n = Len(answer)
  BY <1>1
<1> DEFINE places == {m \in 1..Len(answer) : <<answer[m].name, answer[m].type>> = <<answer[n].name, answer[n].type>>}
<1>3. places = {n}
  BY <1>1, <1>2
<1>4. {answer[m].data : m \in places} = {answer[n].data}
  BY <1>3
<1>5. DataOf(answer, <<answer[n].name, answer[n].type>>) = UNION {answer[n].data}
  BY <1>4 DEF DataOf
<1> QED BY <1>2, <1>5

LEMMA ElementsAreTyped ==
    ASSUME NEW answer \in Seq(RRset), NEW n \in 1..Len(answer)
    PROVE  /\ answer[n] \in RRset
           /\ answer[n].name \in Names /\ answer[n].type \in Types
           /\ answer[n].data # {} /\ answer[n].data \subseteq DataOfType(answer[n].type)
           /\ <<answer[n].name, answer[n].type>> \in Keys
<1> DEFINE record == answer[n]
<1>1. record \in RRset
  OBVIOUS
<1>2. /\ record \in [name : Names, type : Types, data : (SUBSET (Names \cup Addrs)) \ {{}}]
      /\ record.data \subseteq DataOfType(record.type)
  BY <1>1 DEF RRset
<1> HIDE DEF record
<1>3. record.name \in Names /\ record.type \in Types /\ record.data # {}
  BY <1>2
<1>4. <<record.name, record.type>> \in Keys
  BY <1>3 DEF Keys
<1> QED BY <1>1, <1>2, <1>3, <1>4 DEF record

(* What a group answers is a chain of what it gives. *)
LEMMA AnswersAreGenuine ==
    ASSUME NEW g \in Groups, NEW name \in Names, NEW type \in Types, NEW answer \in Zone[g][<<name, type>>]
    PROVE  answer \in Seq(RRset) /\ IsChain(answer, name, type) /\ AllGenuine(answer)
<1>1. <<name, type>> \in Keys
  BY DEF Keys
<1>2. answer \in Seq(RRset) /\ IsChain(answer, name, type)
  BY <1>1, ZoneAssumption
<1>3. ASSUME NEW n \in 1..Len(answer) PROVE Genuine(answer[n])
  <2> DEFINE k == <<answer[n].name, answer[n].type>>
  <2>1. CASE answer[n].type # "CNAME"
    <3>1. DataOf(answer, k) = answer[n].data
      BY <1>2, <2>1, AloneInChain
    <3> QED BY <1>1, <2>1, <3>1 DEF Genuine, AsGiven, Given
  <2>2. CASE answer[n].type = "CNAME"
    <3>1. answer[n].data \subseteq DataOf(answer, <<answer[n].name, "CNAME">>)
      BY <2>2 DEF DataOf
    <3> QED BY <1>1, <2>2, <3>1 DEF Genuine, AsGiven, AliasGiven
  <2> QED BY <2>1, <2>2
<1> QED BY <1>2, <1>3 DEF AllGenuine

(* What is stored of a genuine chain under a key is genuine. *)
LEMMA StoredIsGenuine ==
    ASSUME NEW answer \in Seq(RRset), NEW name, NEW type, IsChain(answer, name, type), AllGenuine(answer),
           NEW k \in KeysOf(answer)
    PROVE  /\ k \in Keys
           /\ DataOf(answer, k) \subseteq DataOfType(k[2])
           /\ AsGiven(k, DataOf(answer, k))
<1>1. PICK n \in 1..Len(answer) : k = <<answer[n].name, answer[n].type>>
  BY DEF KeysOf
<1>2. k \in Keys
  BY <1>1, ElementsAreTyped
<1>3. ASSUME NEW d \in DataOf(answer, k)
      PROVE  \E m \in 1..Len(answer) : <<answer[m].name, answer[m].type>> = k /\ d \in answer[m].data
  BY DEF DataOf
<1>4. DataOf(answer, k) \subseteq DataOfType(k[2])
  BY <1>3, ElementsAreTyped
<1>5. CASE k[2] # "CNAME"
  <2>1. DataOf(answer, k) = answer[n].data
    BY <1>1, <1>5, AloneInChain
  <2> QED BY <1>1, <1>2, <1>4, <2>1 DEF AllGenuine, Genuine
<1>6. CASE k[2] = "CNAME"
  <2>1. \A d \in DataOf(answer, k) : AliasGiven(k[1], d)
    BY <1>3, <1>6 DEF AllGenuine, Genuine, AsGiven
  <2> QED BY <1>2, <1>4, <1>6, <2>1 DEF AsGiven
<1> QED BY <1>5, <1>6

-----------------------------------------------------------------------------
(* The places of 1..n are in their order. *)
LEMMA NthOfInterval == ASSUME NEW n \in Nat, NEW k \in 1..n PROVE Nth(1..n, k) = k
<1>1. \A m \in 1..n : (1..n) \cap (1..m) = 1..m /\ Cardinality(1..m) = m
  <2> SUFFICES ASSUME NEW m \in 1..n PROVE (1..n) \cap (1..m) = 1..m /\ Cardinality(1..m) = m
    OBVIOUS
  <2>1. (1..n) \cap (1..m) = 1..m
    OBVIOUS
  <2>2. Cardinality(1..m) = m
    BY FS_Interval
  <2> QED BY <2>1, <2>2
<1>2. \A m \in 1..n : Cardinality((1..n) \cap (1..m)) = k <=> m = k
  BY <1>1
<1> QED BY <1>2 DEF Nth

(* Only the last record of a chain can be filtered out of it. *)
LEMMA FilteredIsChain ==
    ASSUME NEW answer \in Seq(RRset), NEW name, NEW type, IsChain(answer, name, type), AllGenuine(answer),
           NEW p
    PROVE  /\ FilterHTTPS(answer, p) \in Seq(RRset)
           /\ IsChain(FilterHTTPS(answer, p), name, type)
           /\ AllGenuine(FilterHTTPS(answer, p))
           /\ p.nohttps => NoHTTPS(FilterHTTPS(answer, p))
<1>1. CASE ~p.nohttps
  BY <1>1 DEF FilterHTTPS
<1>2. CASE p.nohttps
  <2>1. PICK n \in Nat : Unfiltered(answer) = 1..n /\ n <= Len(answer)
    <3>1. CASE \E m \in 1..Len(answer) : answer[m].type = "HTTPS"
      <4>1. PICK m \in 1..Len(answer) : answer[m].type = "HTTPS"
        BY <3>1
      <4>2. \A l \in 1..Len(answer) : answer[l].type = "HTTPS" => l = Len(answer)
        BY AloneInChain
      <4>3. m = Len(answer) /\ Unfiltered(answer) = 1..(Len(answer) - 1)
        BY <4>1, <4>2 DEF Unfiltered
      <4> QED BY <4>3
    <3>2. CASE ~\E m \in 1..Len(answer) : answer[m].type = "HTTPS"
      <4>1. Unfiltered(answer) = 1..Len(answer)
        BY <3>2 DEF Unfiltered
      <4> QED BY <4>1
    <3> QED BY <3>1, <3>2
  <2> DEFINE f == [k \in 1..n |-> answer[k]]
  <2>2. FilterHTTPS(answer, p) = f
    <3>1. Cardinality(1..n) = n
      BY FS_Interval
    <3>2. \A k \in 1..n : Nth(1..n, k) = k
      BY NthOfInterval
    <3> QED BY <1>2, <2>1, <3>1, <3>2 DEF FilterHTTPS
  <2>3. f \in Seq(RRset) /\ Len(f) = n /\ \A k \in 1..n : f[k] = answer[k] /\ k \in 1..Len(answer)
    BY <2>1
  <2> HIDE DEF f
  <2>4. IsChain(f, name, type)
    <3>1. f # <<>> => 1 \in 1..n
      BY <2>3, EmptySeq
    <3>2. f # <<>> => f[1].name = name
      BY <2>3, <3>1, EmptySeq DEF IsChain
    <3>3. \A k \in 1..(n - 1) : k \in 1..n /\ k + 1 \in 1..n /\ k \in 1..(Len(answer) - 1)
      BY <2>1
    <3> QED BY <2>3, <3>2, <3>3 DEF IsChain
  <2>5. AllGenuine(f)
    BY <2>3 DEF AllGenuine
  <2>6. NoHTTPS(f)
    BY <2>1, <2>3 DEF NoHTTPS, Unfiltered
  <2> QED BY <2>2, <2>3, <2>4, <2>5, <2>6
<1> QED BY <1>1, <1>2

-----------------------------------------------------------------------------
(* One alias more, at the end. *)
LEMMA OneAliasMore ==
    ASSUME NEW aliases \in Seq(RRset), NEW from, NEW to, LeadsTo(aliases, from, to),
           NEW alias \in RRset, alias.type = "CNAME", alias.name = to, NEW next \in alias.data
    PROVE  LeadsTo(Append(aliases, alias), from, next)
<1> DEFINE longer == Append(aliases, alias)
           n == Len(aliases)
<1>1. /\ n \in Nat /\ longer \in Seq(RRset) /\ Len(longer) = n + 1 /\ longer # <<>>
      /\ longer[n + 1] = alias /\ \A k \in 1..n : longer[k] = aliases[k]
  OBVIOUS
<1>2. aliases = <<>> => n = 0
  OBVIOUS
<1>3. aliases # <<>> => n >= 1
  BY EmptySeq
<1> HIDE DEF longer
<1>4. longer[1].name = from
  BY <1>1, <1>2, <1>3 DEF LeadsTo
<1>5. \A k \in 1..n : longer[k + 1].name \in longer[k].data
  <2> SUFFICES ASSUME NEW k \in 1..n PROVE longer[k + 1].name \in longer[k].data
    OBVIOUS
  <2>1. CASE k = n
    BY <1>1, <1>2, <2>1 DEF LeadsTo
  <2>2. CASE k # n
    <3>1. k \in 1..(n - 1) /\ k + 1 \in 1..n
      BY <1>1, <2>2
    <3> QED BY <1>1, <3>1 DEF LeadsTo
  <2> QED BY <2>1, <2>2
<1>6. \A k \in 1..(n + 1) : longer[k].type = "CNAME"
  <2>1. \A k \in 1..(n + 1) : k \in 1..n \/ k = n + 1
    BY <1>1
  <2> QED BY <1>1, <2>1 DEF LeadsTo
<1>7. Len(longer) - 1 = n
  BY <1>1
<1>8. LeadsTo(longer, from, next)
  BY <1>1, <1>4, <1>5, <1>6, <1>7 DEF LeadsTo
<1> QED BY <1>8 DEF longer

(* A chain that begins where aliases lead to completes them. *)
LEMMA ChainAfterAliases ==
    ASSUME NEW aliases \in Seq(RRset), NEW from, NEW to, LeadsTo(aliases, from, to), AllGenuine(aliases),
           NEW answer \in Seq(RRset), NEW type, IsChain(answer, to, type), AllGenuine(answer)
    PROVE  /\ aliases \o answer \in Seq(RRset)
           /\ IsChain(aliases \o answer, from, type)
           /\ AllGenuine(aliases \o answer)
<1> DEFINE whole == aliases \o answer
           n == Len(aliases)
           m == Len(answer)
<1>1. /\ n \in Nat /\ m \in Nat /\ whole \in Seq(RRset) /\ Len(whole) = n + m
      /\ \A k \in 1..(n + m) : whole[k] = IF k <= n THEN aliases[k] ELSE answer[k - n]
  BY ConcatProperties
<1>2. (aliases = <<>> => n = 0) /\ (answer = <<>> => m = 0)
  OBVIOUS
<1>3. (aliases # <<>> => n >= 1) /\ (answer # <<>> => m >= 1)
  BY EmptySeq
<1> HIDE DEF whole
<1>4. ASSUME NEW k \in 1..(n + m)
      PROVE  (k \in 1..n /\ whole[k] = aliases[k]) \/ (k > n /\ k - n \in 1..m /\ whole[k] = answer[k - n])
  BY <1>1
<1>5. \A k \in 1..(n + m) : Genuine(whole[k]) /\ whole[k].type \in {"CNAME", type}
  BY <1>4 DEF AllGenuine, LeadsTo, IsChain
<1>6. whole # <<>> => whole[1].name = from
  <2> SUFFICES ASSUME n + m # 0 PROVE whole[1].name = from
    BY <1>1, EmptySeq
  <2>1. 1 \in 1..(n + m)
    BY <1>1
  <2>2. CASE n = 0
    BY <1>1, <1>2, <1>3, <2>1, <2>2 DEF LeadsTo, IsChain
  <2>3. CASE n # 0
    BY <1>1, <1>2, <1>3, <2>1, <2>3 DEF LeadsTo
  <2> QED BY <2>2, <2>3
<1>7. ASSUME NEW k \in 1..(n + m - 1)
      PROVE  whole[k].type = "CNAME" /\ whole[k + 1].name \in whole[k].data
  <2>1. k \in 1..(n + m) /\ k + 1 \in 1..(n + m)
    BY <1>1
  <2>2. CASE k < n
    <3>1. k \in 1..(n - 1) /\ k \in 1..n /\ k + 1 \in 1..n /\ k <= n /\ k + 1 <= n
      BY <1>1, <2>2
    <3> QED BY <1>1, <2>1, <3>1 DEF LeadsTo
  <2>3. CASE k = n
    <3>1. k \in 1..n /\ ~(k + 1 <= n) /\ k + 1 - n = 1 /\ k <= n /\ m # 0 /\ n # 0
      BY <1>1, <2>3
    <3>2. whole[k] = aliases[n] /\ whole[k + 1] = answer[1]
      BY <1>1, <2>1, <2>3, <3>1
    <3> QED BY <1>2, <2>3, <3>1, <3>2 DEF LeadsTo, IsChain
  <2>4. CASE k > n
    <3>1. k - n \in 1..(m - 1) /\ ~(k <= n) /\ ~(k + 1 <= n) /\ k + 1 - n = (k - n) + 1
      BY <1>1, <2>4
    <3>2. whole[k] = answer[k - n] /\ whole[k + 1] = answer[(k - n) + 1]
      BY <1>1, <2>1, <3>1
    <3> QED BY <3>1, <3>2 DEF IsChain
  <2> QED BY <1>1, <2>2, <2>3, <2>4
<1>8. IsChain(whole, from, type) /\ AllGenuine(whole)
  BY <1>1, <1>5, <1>6, <1>7 DEF IsChain, AllGenuine
<1> QED BY <1>1, <1>8 DEF whole

-----------------------------------------------------------------------------
(* The GeoIP matcher stays as it is, and so does what it says. *)
LEMMA SameMatches ==
    ASSUME UNCHANGED matcher, NEW q, ecs'[q] = ecs[q]
    PROVE  MatchesFallback(ecs[q])' <=> MatchesFallback(ecs[q])
BY DEF MatchesFallback

LEMMA SameAcceptance ==
    ASSUME UNCHANGED matcher, NEW q, resp'[q] = resp[q], policy'[q] = policy[q]
    PROVE  Accepted(resp[q], policy[q])' <=> Accepted(resp[q], policy[q])
BY DEF Accepted

(* The chains and answers of all queries, and the cache, stay sound when   *)
(* one query gets an answer that is.                                       *)
LEMMA StaysSound ==
    ASSUME Sound, UNCHANGED <<fixed, walk, memory, resp>>
    PROVE  Sound'
BY DEF Sound, CachedAsGiven, StoredAsGiven, fixed, walk

LEMMA AnswerIsSound ==
    ASSUME Inv, NEW q \in Queries, NEW answer,
           IsChain(answer, domain[q], qtype[q]), AllGenuine(answer),
           resp' = [resp EXCEPT ![q] = answer], UNCHANGED <<fixed, walk, memory>>
    PROVE  Sound'
BY DEF Inv, TypeOK, QueriesOK, Sound, CachedAsGiven, StoredAsGiven, fixed, walk

(* The properties about what was asked, replaced and stored, while nothing *)
(* of that changes and no query comes to a place where they say more.      *)
LEMMA SamePlaces ==
    ASSUME Placed, UNCHANGED <<fixed, chosen, nested, ecs, resp, todo, asked>>,
           \A q \in Queries : pc'[q] = pc[q] \/ pc'[q] \notin {"store", "storing", "done"}
    PROVE  /\ RejectedIsReplaced' /\ KeptOut'
           /\ \A q \in Queries : MatchesFallback(ecs[q])' <=> MatchesFallback(ecs[q])
<1>1. \A q \in Queries : MatchesFallback(ecs[q])' <=> MatchesFallback(ecs[q])
  BY SameMatches DEF fixed
<1>2. \A q \in Queries : Accepted(resp[q], policy[q])' <=> Accepted(resp[q], policy[q])
  BY SameAcceptance DEF fixed, chosen
<1>4. RejectedIsReplaced'
  BY <1>2 DEF Placed, RejectedIsReplaced, Answered, chosen
<1>5. KeptOut'
  BY DEF Placed, KeptOut, chosen
<1> QED BY <1>1, <1>4, <1>5

(* A query that goes on without choosing leaves alone what others know.    *)
LEMMA StaysInformed ==
    ASSUME Informed, UNCHANGED <<fixed, category, loaded, learning, found>>,
           \A q \in Queries : asked[q] \subseteq asked'[q],
           \A q \in Queries : pc[q] = "done" => pc'[q] = "done" /\ asked'[q] = asked[q]
    PROVE  Informed'
<1>1. \A q \in Queries : Blocked(domain[q])' <=> Blocked(domain[q])
  BY DEF Blocked, FindPolicy, fixed
<1> QED BY <1>1 DEF Informed, fixed

-----------------------------------------------------------------------------
LEMMA DefaultIsPolicy == IsPolicy(Default)
BY DEF IsPolicy, Default

LEMMA FoundIsPolicy == ASSUME NEW group PROVE IsPolicy(FindPolicy(group))
BY ConstantsAssumption, DefaultIsPolicy DEF FindPolicy

LEMMA PositiveNumber == ASSUME NEW n \in Nat \ {0} PROVE 0 \in 0..n /\ 0 < n
OBVIOUS

LEMMA InvInit == Init => Inv
<1> SUFFICES ASSUME Init PROVE Inv
  OBVIOUS
<1>1. PICK start \in Starts :
          /\ cache = start.cache /\ stored = [k \in Keys |-> {start.cache[k]}]
          /\ listing = start.listing
          /\ domain = [q \in Queries |-> start.work[q][1]]
          /\ qtype = [q \in Queries |-> start.work[q][2]]
  BY DEF Init
<1>2. /\ start.work \in [Queries -> Keys]
      /\ start.listing \in [Names -> DOMAIN Policies \cup {""}]
      /\ MaxDepth \in Nat \ {0}
  BY ConstantsAssumption
<1>3. \A q \in Queries : start.work[q][1] \in Names /\ start.work[q][2] \in Types
  BY <1>2 DEF Keys
<1>4. /\ loaded = FALSE /\ category = [n \in Names |-> ""] /\ learning = {}
      /\ pc = [q \in Queries |-> "type"] /\ target = domain /\ depth = [q \in Queries |-> 0]
      /\ chain = [q \in Queries |-> <<>>] /\ policy = [q \in Queries |-> Default]
      /\ found = [q \in Queries |-> Nothing] /\ nested = [q \in Queries |-> FALSE]
      /\ ecs = [q \in Queries |-> <<>>] /\ resp = [q \in Queries |-> <<>>]
      /\ todo = [q \in Queries |-> {}] /\ lesson = [q \in Queries |-> ""]
      /\ asked = [q \in Queries |-> {}]
  BY DEF Init
<1>5. SharedOK /\ CachedAsGiven /\ StoredAsGiven
  BY <1>1, <1>2, <1>4, ZoneAssumption DEF SharedOK, Categories, CachedAsGiven, StoredAsGiven
<1>e. <<>> \in Seq(RRset) /\ Len(<<>>) = 0 /\ \A n \in 1..Len(<<>>) : FALSE
  OBVIOUS
<1>f. \A n \in 1..(Len(<<>>) - 1) : FALSE
  OBVIOUS
<1>m. 0 \in 0..MaxDepth /\ 0 < MaxDepth
  BY <1>2, PositiveNumber
<1>q. \A q \in Queries :
          /\ pc[q] = "type" /\ depth[q] = 0 /\ chain[q] = <<>> /\ target[q] = domain[q]
          /\ policy[q] = Default /\ found[q] = Nothing /\ ~nested[q] /\ ecs[q] = <<>> /\ resp[q] = <<>>
          /\ todo[q] = {} /\ lesson[q] = "" /\ asked[q] = {}
  BY <1>4
<1>6. WalkOK
  <2>1. domain \in [Queries -> Names] /\ qtype \in [Queries -> Types]
    BY <1>1, <1>3
  <2>2. depth \in [Queries -> 0..MaxDepth] /\ chain \in [Queries -> Seq(RRset)]
    BY <1>m, <1>4, <1>e
  <2> QED BY <1>4, <1>e, <1>q, <2>1, <2>2 DEF WalkOK
<1>7. QueriesOK
  <2>1. Nothing \in [category : Categories \cup {"unknown"}, blind : BOOLEAN, late : BOOLEAN]
    BY DEF Nothing, Categories
  <2>2. pc \in [Queries -> Steps]
    BY <1>4 DEF Steps
  <2>3. lesson \in [Queries -> Lessons \cup {""}] /\ asked \in [Queries -> SUBSET Groups]
    BY <1>4
  <2>4. DOMAIN policy = Queries /\ DOMAIN todo = Queries
    BY <1>4
  <2> QED BY <1>4, <1>e, <1>q, <2>1, <2>2, <2>3, <2>4, DefaultIsPolicy DEF QueriesOK
<1>8. Sound
  <2>1. \A name : LeadsTo(<<>>, name, name)
    BY <1>e, <1>f DEF LeadsTo
  <2>2. \A name, type : IsChain(<<>>, name, type)
    BY <1>e, <1>f DEF IsChain
  <2>3. AllGenuine(<<>>)
    BY <1>e DEF AllGenuine
  <2> QED BY <1>5, <1>q, <2>1, <2>2, <2>3 DEF Sound
<1>9. Placed
  <2>1. \A q \in Queries : Asking(q) /\ Storing(q)
    <3>1. \A q \in Queries : Asking(q)
      <4>1. ~Nothing.late
        BY DEF Nothing
      <4> QED BY <1>m, <1>q, <4>1 DEF Asking
    <3>2. \A q \in Queries : Storing(q)
      BY <1>q DEF Storing
    <3> QED BY <3>1, <3>2
  <2> QED BY <1>q, <2>1 DEF Placed, RejectedIsReplaced, Answered, KeptOut
<1>10. Informed
  BY <1>4 DEF Informed, Nothing
<1> QED BY <1>5, <1>6, <1>7, <1>8, <1>9, <1>10 DEF Inv, TypeOK

-----------------------------------------------------------------------------
LEMMA OneRecord ==
    ASSUME NEW record \in RRset
    PROVE  <<record>> \in Seq(RRset) /\ Len(<<record>>) = 1 /\ <<record>>[1] = record
OBVIOUS

LEMMA AppendedRecord ==
    ASSUME NEW record \in RRset, NEW answer \in Seq(RRset)
    PROVE  Append(answer, record) = answer \o <<record>>
OBVIOUS

(* What is cached of a key is an RRset. *)
LEMMA CachedIsRRset ==
    ASSUME TypeOK, NEW k \in Keys, cache[k] # {}
    PROVE  Cached(k) \in RRset /\ (CachedAsGiven => Genuine(Cached(k)))
<1>1. k[1] \in Names /\ k[2] \in Types /\ k = <<k[1], k[2]>>
  BY DEF Keys
<1>2. cache[k] \in (SUBSET (Names \cup Addrs)) \ {{}} /\ cache[k] \subseteq DataOfType(k[2])
  <2>1. cache[k] \subseteq DataOfType(k[2])
    BY DEF TypeOK, SharedOK
  <2>2. DataOfType(k[2]) \subseteq Names \cup Addrs
    BY DEF DataOfType
  <2> QED BY <2>1, <2>2
<1>3. Cached(k) \in RRset
  BY <1>1, <1>2 DEF Cached, RRset
<1>4. CachedAsGiven => Genuine(Cached(k))
  BY <1>1 DEF CachedAsGiven, Genuine, Cached
<1> QED BY <1>3, <1>4

LEMMA LookupTypeStep == ASSUME Inv, NEW q \in Queries, LookupType(q) PROVE Inv'
<1> DEFINE k == <<target[q], qtype[q]>>
<1>1. /\ pc[q] = "type" /\ k \in Keys /\ domain[q] \in Names
      /\ UNCHANGED <<fixed, shared, walk, chosen, nested, ecs, todo, lesson, asked>>
  BY DEF Inv, TypeOK, WalkOK, Keys, LookupType
<1>2. CASE cache[k] # {}
  <2> PICK answer : answer = Append(chain[q], Cached(k))
    OBVIOUS
  <2>1. Cached(k) \in RRset /\ Genuine(Cached(k)) /\ chain[q] \in Seq(RRset)
    BY <1>1, <1>2, CachedIsRRset DEF Inv, Sound, TypeOK, WalkOK
  <2>2. LeadsTo(chain[q], domain[q], target[q]) /\ AllGenuine(chain[q])
    BY DEF Inv, Sound
  <2>3. answer \in Seq(RRset) /\ IsChain(answer, domain[q], qtype[q]) /\ AllGenuine(answer)
    <3> DEFINE last == <<Cached(k)>>
    <3>1. last \in Seq(RRset) /\ Len(last) = 1 /\ last[1] = Cached(k)
      BY <2>1, OneRecord
    <3>2. IsChain(last, target[q], qtype[q]) /\ AllGenuine(last)
      BY <2>1, <3>1 DEF IsChain, AllGenuine, Cached
    <3>3. answer = chain[q] \o last
      BY <2>1, AppendedRecord
    <3> HIDE DEF last
    <3>4. /\ chain[q] \o last \in Seq(RRset)
          /\ IsChain(chain[q] \o last, domain[q], qtype[q])
          /\ AllGenuine(chain[q] \o last)
      BY <2>1, <2>2, <3>1, <3>2, ChainAfterAliases
    <3> QED BY <3>3, <3>4
  <2>4. resp' = [resp EXCEPT ![q] = answer] /\ pc' = [pc EXCEPT ![q] = "done"]
    BY <1>2 DEF LookupType, Goto
  <2>5. TypeOK'
    BY <1>1, <2>3, <2>4 DEF Inv, TypeOK, SharedOK, WalkOK, QueriesOK, Steps, Placed, Storing, fixed, shared, walk, chosen
  <2>6. Sound'
    BY <1>1, <2>3, <2>4, AnswerIsSound DEF shared
  <2>7. Placed'
    <3>1. \A p \in Queries : MatchesFallback(ecs[p])' <=> MatchesFallback(ecs[p])
      BY <1>1, SameMatches DEF fixed
    <3>2. \A p \in Queries \ {q} : Accepted(resp[p], policy[p])' <=> Accepted(resp[p], policy[p])
      BY <1>1, <2>4, SameAcceptance DEF fixed, chosen, Inv, TypeOK, QueriesOK
    <3> QED BY <1>1, <2>4, <3>1, <3>2 DEF Inv, TypeOK, QueriesOK, Placed, Asking, Storing, RejectedIsReplaced, KeptOut, Answered, fixed, walk, chosen
  <2>8. Informed'
    BY <1>1, <2>4, StaysInformed DEF Inv, TypeOK, QueriesOK, shared, chosen
  <2> QED BY <2>5, <2>6, <2>7, <2>8 DEF Inv
<1>3. CASE cache[k] = {}
  <2>1. pc' = [pc EXCEPT ![q] = "alias"] /\ resp' = resp
    BY <1>3 DEF LookupType, Goto
  <2>2. TypeOK'
    BY <1>1, <2>1 DEF Inv, TypeOK, SharedOK, WalkOK, QueriesOK, Steps, fixed, shared, walk, chosen
  <2>3. Sound'
    BY <1>1, <2>1, StaysSound DEF Inv, shared
  <2>4. Placed'
    <3>1. Placed /\ \A p \in Queries : pc'[p] = pc[p] \/ pc'[p] \notin {"store", "storing", "done"}
      BY <1>1, <2>1 DEF Inv, TypeOK, QueriesOK
    <3>2. /\ RejectedIsReplaced' /\ KeptOut'
          /\ \A p \in Queries : MatchesFallback(ecs[p])' <=> MatchesFallback(ecs[p])
      BY <1>1, <2>1, <3>1, SamePlaces
    <3>3. \A p \in Queries : Asking(p)' /\ Storing(p)'
      BY <1>1, <2>1, <3>1, <3>2 DEF Inv, TypeOK, QueriesOK, Placed, Asking, Storing, fixed, walk, chosen
    <3> QED BY <3>2, <3>3 DEF Placed
  <2>5. Informed'
    BY <1>1, <2>1, StaysInformed DEF Inv, TypeOK, QueriesOK, shared, chosen
  <2> QED BY <2>2, <2>3, <2>4, <2>5 DEF Inv
<1> QED BY <1>2, <1>3

LEMMA LookupAliasStep == ASSUME Inv, NEW q \in Queries, LookupAlias(q) PROVE Inv'
<1> DEFINE k == <<target[q], "CNAME">>
           alias == Cached(k)
<1>1. /\ pc[q] = "alias" /\ k \in Keys /\ k[1] = target[q] /\ alias.data = cache[k]
      /\ UNCHANGED <<fixed, shared, chosen, nested, ecs, resp, todo, lesson, asked>>
  BY DEF Inv, TypeOK, WalkOK, Keys, Types, LookupAlias, Cached
<1>2. CASE cache[k] = {}
  <2>1. pc' = [pc EXCEPT ![q] = "match"] /\ UNCHANGED walk
    BY <1>1, <1>2 DEF LookupAlias, Goto
  <2>2. TypeOK'
    BY <1>1, <2>1 DEF Inv, TypeOK, SharedOK, WalkOK, QueriesOK, Steps, fixed, shared, walk, chosen
  <2>3. Sound'
    BY <1>1, <2>1, StaysSound DEF Inv, shared
  <2>4. Placed'
    <3>1. Placed /\ \A p \in Queries : pc'[p] = pc[p] \/ pc'[p] \notin {"store", "storing", "done"}
      BY <1>1, <2>1 DEF Inv, TypeOK, QueriesOK
    <3>2. /\ RejectedIsReplaced' /\ KeptOut'
          /\ \A p \in Queries : MatchesFallback(ecs[p])' <=> MatchesFallback(ecs[p])
      BY <1>1, <2>1, <3>1, SamePlaces
    <3>3. \A p \in Queries : Asking(p)'
      BY <1>1, <2>1, <3>1, <3>2 DEF Inv, TypeOK, QueriesOK, Placed, Asking, fixed, walk, chosen
    <3>4. \A p \in Queries : Storing(p)'
      BY <1>1, <2>1, <3>1 DEF Inv, TypeOK, QueriesOK, Placed, Storing, chosen
    <3> QED BY <3>2, <3>3, <3>4 DEF Placed
  <2>5. Informed'
    BY <1>1, <2>1, StaysInformed DEF Inv, TypeOK, QueriesOK, shared, chosen
  <2> QED BY <2>2, <2>3, <2>4, <2>5 DEF Inv
<1>3. CASE cache[k] # {}
  <2>1. PICK name \in cache[k], step \in {"type", "match"} :
            /\ target' = [target EXCEPT ![q] = name]
            /\ chain' = [chain EXCEPT ![q] = Append(@, alias)]
            /\ depth' = [depth EXCEPT ![q] = @ + 1]
            /\ pc' = [pc EXCEPT ![q] = step]
            /\ step = "type" => depth[q] + 1 < MaxDepth
    BY <1>1, <1>3 DEF LookupAlias, Goto
  <2>2. /\ alias \in RRset /\ Genuine(alias) /\ name \in Names
        /\ chain[q] \in Seq(RRset) /\ Len(chain[q]) = depth[q] /\ depth[q] \in 0..MaxDepth
        /\ depth[q] < MaxDepth /\ MaxDepth \in Nat
    BY <1>1, <1>3, CachedIsRRset, ConstantsAssumption
       DEF Inv, Sound, Placed, Asking, TypeOK, SharedOK, WalkOK, DataOfType
  <2> DEFINE longer == Append(chain[q], alias)
  <2>3. longer \in Seq(RRset) /\ Len(longer) = depth[q] + 1 /\ depth[q] + 1 \in 0..MaxDepth
    BY <2>2
  <2>4. LeadsTo(longer, domain[q], name) /\ AllGenuine(longer)
    <3>1. LeadsTo(chain[q], domain[q], target[q]) /\ AllGenuine(chain[q])
      BY DEF Inv, Sound
    <3>2. alias.type = "CNAME" /\ alias.name = target[q]
      BY DEF Cached
    <3>3. \A n \in 1..(depth[q] + 1) : longer[n] = alias \/ (n \in 1..depth[q] /\ longer[n] = chain[q][n])
      BY <2>2
    <3> QED BY <1>1, <2>1, <2>2, <2>3, <3>1, <3>2, <3>3, OneAliasMore DEF AllGenuine
  <2>5. TypeOK'
    <3>1. WalkOK'
      BY <1>1, <2>1, <2>2, <2>3 DEF Inv, TypeOK, WalkOK, fixed
    <3> QED BY <1>1, <2>1, <3>1 DEF Inv, TypeOK, SharedOK, QueriesOK, Steps, fixed, shared, chosen
  <2>6. Sound'
    BY <1>1, <2>1, <2>4 DEF Inv, TypeOK, WalkOK, Sound, CachedAsGiven, StoredAsGiven, fixed, shared
  <2>7. Placed'
    <3>1. Placed /\ \A p \in Queries : pc'[p] = pc[p] \/ pc'[p] \notin {"store", "storing", "done"}
      BY <1>1, <2>1 DEF Inv, TypeOK, QueriesOK
    <3>2. /\ RejectedIsReplaced' /\ KeptOut'
          /\ \A p \in Queries : MatchesFallback(ecs[p])' <=> MatchesFallback(ecs[p])
      BY <1>1, <2>1, <3>1, SamePlaces
    <3>3. \A p \in Queries : Asking(p)' /\ Storing(p)'
      <4>1. \A p \in Queries : Storing(p)'
        BY <1>1, <2>1, <3>1 DEF Inv, TypeOK, QueriesOK, Placed, Storing, chosen
      <4>2. \A p \in Queries \ {q} : Asking(p)'
        BY <1>1, <2>1, <3>1, <3>2 DEF Inv, TypeOK, WalkOK, QueriesOK, Placed, Asking, fixed, chosen
      <4>3. depth'[q] = depth[q] + 1 /\ pc'[q] = step
        BY <2>1 DEF Inv, TypeOK, WalkOK, QueriesOK
      <4>4. Asking(q)'
        BY <1>1, <2>1, <3>1, <4>3 DEF Placed, Asking, fixed, chosen
      <4> QED BY <4>1, <4>2, <4>4
    <3> QED BY <3>2, <3>3 DEF Placed
  <2>8. Informed'
    BY <1>1, <2>1, StaysInformed DEF Inv, TypeOK, QueriesOK, shared, chosen
  <2> QED BY <2>5, <2>6, <2>7, <2>8 DEF Inv
<1> QED BY <1>2, <1>3

-----------------------------------------------------------------------------
Less == {p \in Nat \X Nat : p[1] < p[2]}

LEMMA LessIsWellFounded == IsWellFoundedOn(Less, Nat)
<1>1. OpToRel(<, Nat) = Less
  BY Zenon DEF OpToRel, Less
<1> QED BY <1>1, NatLessThanWellFounded

LEMMA Least ==
    ASSUME NEW T, T \subseteq Nat, T # {}
    PROVE  \E x \in T : \A y \in T : x <= y
<1>1. \E x \in T : \A y \in T : ~(<<y, x>> \in Less)
  BY LessIsWellFounded, WFMin
<1>2. \A x, y \in Nat : <<y, x>> \in Less <=> y < x
  BY DEF Less
<1>3. PICK x \in T : \A y \in T : ~(<<y, x>> \in Less)
  BY <1>1
<1>4. ASSUME NEW y \in T PROVE x <= y
  <2>1. x \in Nat /\ y \in Nat
    OBVIOUS
  <2>2. ~(y < x)
    BY <1>2, <1>3, <2>1, Zenon
  <2> QED BY <2>1, <2>2
<1> QED BY <1>4

LEMMA ListsAreNames ==
    ASSUME TypeOK, NEW d \in Names
    PROVE  /\ Lower[d] \in Names /\ Tried(d) \in Seq(Names)
           /\ Len(Tried(d)) >= 1 /\ Tried(d)[1] = Lower[d]
<1>1. Lower[d] \in Names /\ Parents[Lower[d]] \in Seq(Names)
  BY ConstantsAssumption
<1> DEFINE parents == Parents[Lower[d]]
           first == <<Lower[d]>>
<1>2. first \in Seq(Names) /\ Len(first) = 1 /\ first[1] = Lower[d] /\ Len(parents) \in Nat
  BY <1>1
<1> HIDE DEF first, parents
<1>3. first \o parents \in Seq(Names) /\ Len(first \o parents) = 1 + Len(parents) /\ (first \o parents)[1] = Lower[d]
  <2>1. 1 \in 1..(1 + Len(parents)) /\ 1 <= Len(first) /\ parents \in Seq(Names)
    BY <1>1, <1>2 DEF parents
  <2>2. /\ first \o parents \in Seq(Names) /\ Len(first \o parents) = Len(first) + Len(parents)
        /\ \A k \in 1..(Len(first) + Len(parents)) :
              (first \o parents)[k] = IF k <= Len(first) THEN first[k] ELSE parents[k - Len(first)]
    BY <1>2, <2>1, ConcatProperties
  <2> QED BY <1>2, <2>1, <2>2
<1>4. 1 + Len(parents) >= 1
  BY <1>2
<1> QED BY <1>1, <1>3, <1>4 DEF first, parents, Tried

(* What Match finds is a category or "unknown", and it is the category of  *)
(* the domain itself where that is known.                                  *)
LEMMA MatchFinds ==
    ASSUME TypeOK, NEW d \in Names, NEW down
    PROVE  /\ Match(d, down) \in Categories \cup {"unknown"}
           /\ category[Lower[d]] # "" /\ Lower[d] \notin down => Match(d, down) = category[Lower[d]]
<1> DEFINE known == {n \in 1..Len(Tried(d)) : category[Tried(d)[n]] # "" /\ Tried(d)[n] \notin down}
           least == CHOOSE n \in known : \A m \in known : n <= m
<1>1. /\ Tried(d) \in Seq(Names) /\ Len(Tried(d)) \in Nat /\ 1 \in 1..Len(Tried(d))
      /\ Tried(d)[1] = Lower[d] /\ category \in [Names -> Categories]
  BY ListsAreNames DEF TypeOK, SharedOK
<1>2. Match(d, down) = IF known = {} THEN "unknown" ELSE category[Tried(d)[least]]
  BY DEF Match
<1>3. ASSUME known # {} PROVE least \in known /\ \A m \in known : least <= m
  <2>1. known \subseteq Nat
    <3>1. 1..Len(Tried(d)) \subseteq Nat
      BY <1>1
    <3>2. known \subseteq 1..Len(Tried(d))
      OBVIOUS
    <3> HIDE DEF known
    <3> QED BY <3>1, <3>2
  <2> HIDE DEF known
  <2>2. \E n \in known : \A m \in known : n <= m
    BY <1>3, <2>1, Least
  <2> QED BY <2>2
<1>4. Match(d, down) \in Categories \cup {"unknown"}
  <2>1. CASE known = {}
    BY <1>2, <2>1
  <2>2. CASE known # {}
    <3>1. least \in 1..Len(Tried(d))
      BY <1>3, <2>2
    <3> HIDE DEF least
    <3>2. Tried(d)[least] \in Names
      BY <1>1, <3>1
    <3> QED BY <1>1, <1>2, <2>2, <3>2
  <2> QED BY <2>1, <2>2
<1>5. ASSUME category[Lower[d]] # "", Lower[d] \notin down PROVE Match(d, down) = category[Lower[d]]
  <2>1. 1 \in known
    BY <1>1, <1>5
  <2>2. least = 1
    <3>1. least \in 1..Len(Tried(d)) /\ least <= 1
      BY <1>3, <2>1
    <3> HIDE DEF least
    <3> QED BY <1>1, <3>1
  <2> QED BY <1>1, <1>2, <2>1, <2>2
<1> QED BY <1>4, <1>5

LEMMA ChoosePolicyStep == ASSUME Inv, NEW q \in Queries, ChoosePolicy(q) PROVE Inv'
<1>1. PICK down \in SUBSET {n \in Range(Tried(domain[q])) : category[n] # ""} :
          LET group == Match(domain[q], down)
              p == FindPolicy(group)
          IN  /\ policy' = [policy EXCEPT ![q] = p]
              /\ found' = [found EXCEPT ![q] =
                             [category |-> group, blind |-> down # {}, late |-> loaded]]
              /\ Goto(q, CASE p.group = "block" -> "done"
                           [] p.group = "proxy_ecs_fallback" -> "race"
                           [] OTHER -> "ask")
  BY DEF ChoosePolicy
<1> DEFINE group == Match(domain[q], down)
<1>2. /\ pc[q] = "match" /\ domain[q] \in Names
      /\ UNCHANGED <<fixed, shared, walk, nested, ecs, resp, todo, lesson, asked>>
      /\ asked[q] = {} /\ ~nested[q] /\ todo[q] = {}
  BY DEF ChoosePolicy, Inv, TypeOK, WalkOK, Placed, Asking, Storing
<1>3. PICK p, step :
          /\ p = FindPolicy(group) /\ IsPolicy(p)
          /\ step \in {"done", "race", "ask"}
          /\ step = "race" => p.group = "proxy_ecs_fallback"
          /\ step = "ask" => p.group \in Groups
          /\ p.group = "block" => step = "done"
          /\ pc' = [pc EXCEPT ![q] = step] /\ policy' = [policy EXCEPT ![q] = p]
  <2> DEFINE p == FindPolicy(group)
             step == CASE p.group = "block" -> "done"
                       [] p.group = "proxy_ecs_fallback" -> "race"
                       [] OTHER -> "ask"
  <2>1. IsPolicy(p) /\ p.group \in Groups \cup {"block", "proxy_ecs_fallback"}
    BY FoundIsPolicy DEF IsPolicy
  <2>2. /\ p.group = "block" => step = "done"
        /\ p.group = "proxy_ecs_fallback" => step = "race"
        /\ p.group \notin {"block", "proxy_ecs_fallback"} => step = "ask"
    OBVIOUS
  <2>3. pc' = [pc EXCEPT ![q] = step] /\ policy' = [policy EXCEPT ![q] = p]
    BY <1>1 DEF Goto
  <2> HIDE DEF step, p
  <2>4. p = FindPolicy(group)
    BY DEF p
  <2> QED BY <2>1, <2>2, <2>3, <2>4
<1>4. PICK what \in [category : Categories \cup {"unknown"}, blind : BOOLEAN, late : BOOLEAN] :
          /\ found' = [found EXCEPT ![q] = what]
          /\ what.late = loaded /\ (~what.blind => down = {})
  <2> DEFINE what == [category |-> group, blind |-> down # {}, late |-> loaded]
  <2>1. group \in Categories \cup {"unknown"}
    BY <1>2, MatchFinds DEF Inv
  <2>2. loaded \in BOOLEAN
    BY DEF Inv, TypeOK, SharedOK
  <2>3. found' = [found EXCEPT ![q] = what]
    BY <1>1
  <2>4. what \in [category : Categories \cup {"unknown"}, blind : BOOLEAN, late : BOOLEAN]
    <3>1. (down # {}) \in BOOLEAN
      OBVIOUS
    <3> QED BY <2>1, <2>2, <3>1
  <2>5. what.late = loaded
    OBVIOUS
  <2>6. ~what.blind => down = {}
    OBVIOUS
  <2> HIDE DEF what
  <2> QED BY <2>3, <2>4, <2>5, <2>6
<1>5. TypeOK'
  BY <1>2, <1>3, <1>4 DEF Inv, TypeOK, SharedOK, WalkOK, QueriesOK, Steps, fixed, shared, walk
<1>6. Sound'
  BY <1>2, StaysSound DEF Inv, shared
<1>7. Placed'
  <2>1. \A r \in Queries : MatchesFallback(ecs[r])' <=> MatchesFallback(ecs[r])
    BY <1>2, SameMatches DEF fixed
  <2>2. \A r \in Queries \ {q} : Accepted(resp[r], policy[r])' <=> Accepted(resp[r], policy[r])
    BY <1>2, <1>3, SameAcceptance DEF fixed, Inv, TypeOK, QueriesOK
  <2>3. \A r \in Queries : Asking(r)' /\ Storing(r)'
    <3>1. \A r \in Queries : Storing(r)'
      BY <1>2, <1>3 DEF Inv, TypeOK, QueriesOK, Placed, Storing
    <3>2. \A r \in Queries \ {q} : Asking(r)'
      BY <1>2, <1>3, <1>4, <2>1 DEF Inv, TypeOK, QueriesOK, Placed, Asking, fixed, walk
    <3>3. Asking(q)'
      <4>1. pc'[q] = step /\ policy'[q] = p /\ asked'[q] = {} /\ ~nested'[q]
        BY <1>2, <1>3 DEF Inv, TypeOK, QueriesOK
      <4> QED BY <1>3, <4>1 DEF Asking
    <3> QED BY <3>1, <3>2, <3>3
  <2>5. RejectedIsReplaced'
    BY <1>2, <1>3, <2>2 DEF Inv, TypeOK, QueriesOK, Placed, RejectedIsReplaced, Answered
  <2>6. KeptOut'
    BY <1>2, <1>3 DEF Inv, TypeOK, QueriesOK, Placed, KeptOut
  <2> QED BY <2>3, <2>5, <2>6 DEF Placed
<1>8. Informed'
  <2>1. \A r \in Queries : Blocked(domain[r])' <=> Blocked(domain[r])
    BY <1>2 DEF Blocked, FindPolicy, fixed, shared
  <2>2. ASSUME what.late, ~what.blind, Blocked(domain[q]) PROVE step = "done"
    <3>1. down = {} /\ Lower[domain[q]] = domain[q] /\ category[domain[q]] # ""
      BY <1>4, <2>2 DEF Blocked
    <3>2. group = category[domain[q]]
      BY <1>2, <3>1, MatchFinds DEF Inv
    <3> QED BY <1>3, <2>2, <3>2 DEF Blocked
  <2> QED BY <1>2, <1>3, <1>4, <2>1, <2>2 DEF Inv, Informed, TypeOK, QueriesOK, fixed, shared
<1> QED BY <1>5, <1>6, <1>7, <1>8 DEF Inv

-----------------------------------------------------------------------------
(* A query asks some groups and gets an answer, or fails and keeps what it *)
(* has: what is left to show of such a step is why it asks them.           *)
LEMMA AskingStep ==
    ASSUME Inv, NEW q \in Queries, pc[q] \in {"ask", "refetch", "race", "direct"},
           NEW step \in {"failed", "validate", "store", "racestore", "direct"},
           NEW groups \in SUBSET Groups,
           NEW answer \in Seq(RRset), IsChain(answer, domain[q], qtype[q]), AllGenuine(answer),
           NEW gathered \in Seq(RRset), NEW taught \in Lessons \cup {""},
           pc' = [pc EXCEPT ![q] = step], asked' = [asked EXCEPT ![q] = @ \cup groups],
           resp' = [resp EXCEPT ![q] = answer], ecs' = [ecs EXCEPT ![q] = gathered],
           lesson' = [lesson EXCEPT ![q] = taught],
           UNCHANGED <<fixed, shared, walk, chosen, nested, todo>>,
           Asking(q)', Storing(q)',
           "direct" \in asked[q] \cup groups =>
               \/ policy[q].group = "direct"
               \/ policy[q].fallback = "direct" /\ policy[q].expected # {}
               \/ MatchesFallback(gathered),
           step = "store" => policy[q].fallback \in groups
    PROVE  Inv'
<1>1. /\ todo[q] = {} /\ pc \in [Queries -> Steps] /\ resp \in [Queries -> Seq(RRset)]
      /\ ecs \in [Queries -> Seq(RRset)] /\ asked \in [Queries -> SUBSET Groups]
  BY DEF Inv, TypeOK, QueriesOK, Placed, Storing
<1>2. TypeOK'
  BY <1>1 DEF Inv, TypeOK, SharedOK, WalkOK, QueriesOK, Steps, fixed, shared, walk, chosen
<1>3. Sound'
  BY AnswerIsSound DEF shared
<1>4. \A p \in Queries \ {q} : MatchesFallback(ecs[p])' <=> MatchesFallback(ecs[p])
  BY <1>1, SameMatches DEF fixed
<1>5. \A p \in Queries \ {q} : Accepted(resp[p], policy[p])' <=> Accepted(resp[p], policy[p])
  BY <1>1, SameAcceptance DEF fixed, chosen
<1>6. MatchesFallback(ecs[q])' <=> MatchesFallback(gathered)
  BY <1>1 DEF MatchesFallback, fixed
<1>7. \A p \in Queries \ {q} : Asking(p)' /\ Storing(p)'
  <2>1. \A p \in Queries \ {q} : Asking(p)'
    BY <1>1, <1>4 DEF Inv, Placed, Asking, fixed, walk, chosen
  <2>2. \A p \in Queries \ {q} : Storing(p)'
    BY <1>1 DEF Inv, TypeOK, QueriesOK, Placed, Storing, chosen
  <2> QED BY <2>1, <2>2
<1>9. RejectedIsReplaced'
  <2>1. \A p \in Queries \ {q} : Answered(p)' <=> Answered(p)
    BY <1>1 DEF Answered
  <2>2. ~Answered(q)'
    BY <1>1 DEF Answered
  <2> QED BY <1>1, <1>5, <2>1, <2>2 DEF Inv, Placed, RejectedIsReplaced, chosen
<1>10. KeptOut'
  BY <1>1 DEF Inv, Placed, KeptOut, chosen
<1>11. Informed'
  <2>1. \A p \in Queries : pc[p] = "done" => pc'[p] = "done" /\ asked'[p] = asked[p]
    BY <1>1
  <2> QED BY <1>1, <2>1, StaysInformed DEF Inv, shared, chosen
<1> QED BY <1>2, <1>3, <1>7, <1>9, <1>10, <1>11 DEF Inv, Placed

(* What a group answers for the end of a cached chain, merged with it.     *)
LEMMA MergedIsSound ==
    ASSUME Inv, NEW q \in Queries, NEW g \in Groups, NEW answer \in Zone[g][<<target[q], qtype[q]>>]
    PROVE  /\ Merged(q, answer) \in Seq(RRset)
           /\ IsChain(Merged(q, answer), domain[q], qtype[q]) /\ AllGenuine(Merged(q, answer))
<1>1. target[q] \in Names /\ qtype[q] \in Types /\ chain[q] \in Seq(RRset)
  BY DEF Inv, TypeOK, WalkOK
<1>2. LeadsTo(chain[q], domain[q], target[q]) /\ AllGenuine(chain[q])
  BY DEF Inv, Sound
<1>3. answer \in Seq(RRset) /\ IsChain(answer, target[q], qtype[q]) /\ AllGenuine(answer)
  BY <1>1, AnswersAreGenuine
<1> QED BY <1>1, <1>2, <1>3, ChainAfterAliases DEF Merged

(* What a query has already. *)
LEMMA HeldIsSound ==
    ASSUME Inv, NEW q \in Queries
    PROVE  /\ resp[q] \in Seq(RRset) /\ IsChain(resp[q], domain[q], qtype[q]) /\ AllGenuine(resp[q])
           /\ resp = [resp EXCEPT ![q] = resp[q]]
           /\ ecs[q] \in Seq(RRset) /\ ecs = [ecs EXCEPT ![q] = ecs[q]]
           /\ lesson[q] \in Lessons \cup {""} /\ lesson = [lesson EXCEPT ![q] = lesson[q]]
BY DEF Inv, TypeOK, QueriesOK, Sound

LEMMA AskStep == ASSUME Inv, NEW q \in Queries, Ask(q) PROVE Inv'
<1>1. /\ pc[q] = "ask" /\ policy[q].group \in Groups /\ asked[q] = {} /\ todo[q] = {} /\ ~nested[q]
      /\ asked' = [asked EXCEPT ![q] = @ \cup {policy[q].group}]
      /\ UNCHANGED <<fixed, shared, walk, chosen, nested, ecs, todo, lesson>>
  BY DEF Inv, Placed, Asking, Storing, Ask, AskGroups
<1>2. PICK answer \in Seq(RRset), step \in {"failed", "validate"} :
          /\ IsChain(answer, domain[q], qtype[q]) /\ AllGenuine(answer)
          /\ pc' = [pc EXCEPT ![q] = step] /\ resp' = [resp EXCEPT ![q] = answer]
          /\ step = "validate" /\ policy[q].nohttps => NoHTTPS(answer)
  <2>1. CASE Fail(q)
    BY <2>1, HeldIsSound DEF Fail, Goto
  <2>2. CASE Goto(q, "validate") /\ ~Fail(q)
    <3>1. PICK other \in Zone[policy[q].group][<<target[q], qtype[q]>>] :
              resp' = [resp EXCEPT ![q] = FilterHTTPS(Merged(q, other), policy[q])]
      BY <2>2 DEF Ask
    <3>2. /\ Merged(q, other) \in Seq(RRset)
          /\ IsChain(Merged(q, other), domain[q], qtype[q]) /\ AllGenuine(Merged(q, other))
      BY <1>1, MergedIsSound
    <3> DEFINE answer == FilterHTTPS(Merged(q, other), policy[q])
    <3>3. /\ answer \in Seq(RRset) /\ IsChain(answer, domain[q], qtype[q]) /\ AllGenuine(answer)
          /\ policy[q].nohttps => NoHTTPS(answer)
      BY <3>2, FilteredIsChain
    <3> HIDE DEF answer
    <3> QED BY <2>2, <3>1, <3>3 DEF Goto, answer
  <2> QED BY <2>1, <2>2 DEF Ask
<1>3. /\ pc'[q] = step /\ asked'[q] = {policy[q].group} /\ resp'[q] = answer
  BY <1>1, <1>2 DEF Inv, TypeOK, QueriesOK
<1>4. Asking(q)' /\ Storing(q)'
  BY <1>1, <1>2, <1>3 DEF Asking, Storing, chosen
<1> QED BY <1>1, <1>2, <1>4, HeldIsSound, AskingStep

LEMMA RefetchStep == ASSUME Inv, NEW q \in Queries, Refetch(q) PROVE Inv'
<1>1. /\ pc[q] = "refetch" /\ policy[q].fallback \in Groups /\ policy[q].expected # {} /\ qtype[q] = "A"
      /\ asked[q] \subseteq {policy[q].group} /\ todo[q] = {} /\ ~nested[q]
      /\ asked' = [asked EXCEPT ![q] = @ \cup {policy[q].fallback}]
      /\ UNCHANGED <<fixed, shared, walk, chosen, nested, ecs, todo, lesson>>
  BY DEF Inv, TypeOK, QueriesOK, IsPolicy, Placed, Asking, Storing, Refetch, AskGroups
<1>2. PICK answer \in Seq(RRset), step \in {"failed", "store"} :
          /\ IsChain(answer, domain[q], qtype[q]) /\ AllGenuine(answer)
          /\ pc' = [pc EXCEPT ![q] = step] /\ resp' = [resp EXCEPT ![q] = answer]
  <2>1. CASE Fail(q)
    BY <2>1, HeldIsSound DEF Fail, Goto
  <2>2. CASE Goto(q, "store") /\ ~Fail(q)
    <3>1. PICK other \in Zone[policy[q].fallback][<<target[q], qtype[q]>>] :
              resp' = [resp EXCEPT ![q] = Merged(q, other)]
      BY <2>2 DEF Refetch
    <3>2. /\ Merged(q, other) \in Seq(RRset)
          /\ IsChain(Merged(q, other), domain[q], qtype[q]) /\ AllGenuine(Merged(q, other))
      BY <1>1, MergedIsSound
    <3> QED BY <2>2, <3>1, <3>2 DEF Goto
  <2> QED BY <2>1, <2>2 DEF Refetch
<1>3. pc'[q] = step /\ resp'[q] = answer
  BY <1>2 DEF Inv, TypeOK, QueriesOK
<1>4. NoHTTPS(answer)
  BY <1>1, <1>2 DEF IsChain, NoHTTPS
<1>5. Asking(q)' /\ Storing(q)'
  BY <1>1, <1>2, <1>3, <1>4 DEF Asking, Storing, chosen
<1>6. "direct" \in asked[q] \cup {policy[q].fallback} =>
          \/ policy[q].group = "direct"
          \/ policy[q].fallback = "direct" /\ policy[q].expected # {}
  BY <1>1
<1>7. /\ {policy[q].fallback} \in SUBSET Groups /\ policy[q].fallback \in {policy[q].fallback}
      /\ pc[q] \in {"ask", "refetch", "race", "direct"}
      /\ step \in {"failed", "validate", "store", "racestore", "direct"}
  BY <1>1
<1>8. /\ ecs[q] \in Seq(RRset) /\ ecs' = [ecs EXCEPT ![q] = ecs[q]]
      /\ lesson[q] \in Lessons \cup {""} /\ lesson' = [lesson EXCEPT ![q] = lesson[q]]
  BY <1>1, HeldIsSound
<1>9. UNCHANGED <<fixed, shared, walk, chosen, nested, todo>>
  BY <1>1
<1>10. asked' = [asked EXCEPT ![q] = @ \cup {policy[q].fallback}]
  BY <1>1
<1> QED BY <1>2, <1>5, <1>6, <1>7, <1>8, <1>9, <1>10, AskingStep

-----------------------------------------------------------------------------
(* A race, or direct after it, asks for the name the client asked for. *)
LEMMA RacedIsSound ==
    ASSUME Inv, NEW q \in Queries, NEW g \in Groups, NEW answer \in Zone[g][<<domain[q], qtype[q]>>]
    PROVE  /\ answer \in Seq(RRset)
           /\ FilterHTTPS(answer, RacePolicy(q)) \in Seq(RRset)
           /\ IsChain(FilterHTTPS(answer, RacePolicy(q)), domain[q], qtype[q])
           /\ AllGenuine(FilterHTTPS(answer, RacePolicy(q)))
           /\ policy[q].nohttps /\ ~nested[q] => NoHTTPS(FilterHTTPS(answer, RacePolicy(q)))
<1>1. answer \in Seq(RRset) /\ IsChain(answer, domain[q], qtype[q]) /\ AllGenuine(answer)
  BY AnswersAreGenuine DEF Inv, TypeOK, WalkOK
<1>2. ~nested[q] => RacePolicy(q) = policy[q]
  BY DEF RacePolicy
<1> QED BY <1>1, <1>2, FilteredIsChain

(* What a step of a race leaves, if it asked groups for these reasons. *)
RaceLeaves(q, answer, gathered, taught, step) ==
    /\ IsChain(answer, domain[q], qtype[q]) /\ AllGenuine(answer)
    /\ pc' = [pc EXCEPT ![q] = step] /\ resp' = [resp EXCEPT ![q] = answer]
    /\ ecs' = [ecs EXCEPT ![q] = gathered] /\ lesson' = [lesson EXCEPT ![q] = taught]
    /\ step = "direct" => MatchesFallback(gathered)
    /\ step = "racestore" =>
          taught \in Lessons /\ (policy[q].nohttps /\ ~nested[q] => NoHTTPS(answer))

LEMMA RaceStep == ASSUME Inv, NEW q \in Queries, Race(q) PROVE Inv'
<1>1. /\ pc[q] = "race" /\ asked[q] \subseteq {policy[q].group} /\ todo[q] = {}
      /\ ~nested[q] => policy[q].group = "proxy_ecs_fallback"
      /\ asked \in [Queries -> SUBSET Groups]
      /\ asked' = [asked EXCEPT ![q] = @ \cup Raced]
      /\ UNCHANGED <<fixed, shared, walk, chosen, nested, todo>>
  BY DEF Inv, TypeOK, QueriesOK, Placed, Asking, Storing, Race, AskGroups
<1>2. "proxy" \in Groups /\ "proxy_ecs" \in Groups /\ Raced \in SUBSET Groups /\ "direct" \notin Raced
  BY ConstantsAssumption DEF Raced
<1>3. PICK answer \in Seq(RRset), gathered \in Seq(RRset), taught \in Lessons \cup {""},
           step \in {"failed", "direct", "racestore"} : RaceLeaves(q, answer, gathered, taught, step)
  <2>1. CASE Fail(q) /\ UNCHANGED <<ecs, lesson>>
    <3>1. RaceLeaves(q, resp[q], ecs[q], lesson[q], "failed")
      BY <2>1, HeldIsSound DEF RaceLeaves, Fail, Goto
    <3> QED BY <3>1, HeldIsSound
  <2>2. ASSUME NEW e \in Zone["proxy_ecs"][<<domain[q], qtype[q]>>], ecs' = [ecs EXCEPT ![q] = e],
               MatchesFallback(e), Goto(q, "direct"), UNCHANGED <<resp, lesson>>
        PROVE  \E answer, gathered \in Seq(RRset), taught \in Lessons \cup {""},
                  step \in {"failed", "direct", "racestore"} : RaceLeaves(q, answer, gathered, taught, step)
    <3>1. RaceLeaves(q, resp[q], e, lesson[q], "direct")
      BY <2>2, HeldIsSound DEF RaceLeaves, Goto
    <3>2. e \in Seq(RRset)
      BY <1>2, RacedIsSound
    <3> QED BY <3>1, <3>2, HeldIsSound
  <2>3. ASSUME NEW g \in Raced, NEW other \in Zone[g][<<domain[q], qtype[q]>>],
               resp' = [resp EXCEPT ![q] = FilterHTTPS(other, RacePolicy(q))],
               Teach(q, "proxy_site"), Goto(q, "racestore"),
               NEW e \in Seq(RRset), ecs' = [ecs EXCEPT ![q] = e]
        PROVE  \E answer, gathered \in Seq(RRset), taught \in Lessons \cup {""},
                  step \in {"failed", "direct", "racestore"} : RaceLeaves(q, answer, gathered, taught, step)
    <3>1. "proxy_site" \in Lessons
      BY DEF Lessons
    <3>2. g \in Groups
      BY <1>2
    <3>3. RaceLeaves(q, FilterHTTPS(other, RacePolicy(q)), e, "proxy_site", "racestore")
      BY <2>3, <3>1, <3>2, RacedIsSound DEF RaceLeaves, Goto, Teach
    <3>4. FilterHTTPS(other, RacePolicy(q)) \in Seq(RRset)
      BY <3>2, RacedIsSound
    <3> QED BY <3>1, <3>3, <3>4
  <2>4. CASE \E e \in Zone["proxy_ecs"][<<domain[q], qtype[q]>>] :
                /\ ecs' = [ecs EXCEPT ![q] = e]
                /\ \/ /\ MatchesFallback(e)
                      /\ Goto(q, "direct")
                      /\ UNCHANGED <<resp, lesson>>
                   \/ /\ ~MatchesFallback(e)
                      /\ \E other \in {e} \cup Zone["proxy"][<<domain[q], qtype[q]>>] :
                            resp' = [resp EXCEPT ![q] = FilterHTTPS(other, RacePolicy(q))]
                      /\ Teach(q, "proxy_site")
                      /\ Goto(q, "racestore")
    <3>1. PICK e \in Zone["proxy_ecs"][<<domain[q], qtype[q]>>] :
                /\ ecs' = [ecs EXCEPT ![q] = e]
                /\ \/ /\ MatchesFallback(e)
                      /\ Goto(q, "direct")
                      /\ UNCHANGED <<resp, lesson>>
                   \/ /\ \E other \in {e} \cup Zone["proxy"][<<domain[q], qtype[q]>>] :
                            resp' = [resp EXCEPT ![q] = FilterHTTPS(other, RacePolicy(q))]
                      /\ Teach(q, "proxy_site")
                      /\ Goto(q, "racestore")
      BY <2>4
    <3>2. e \in Seq(RRset) /\ "proxy_ecs" \in Raced /\ "proxy" \in Raced
      BY <1>2, RacedIsSound DEF Raced
    <3>3. CASE MatchesFallback(e) /\ Goto(q, "direct") /\ UNCHANGED <<resp, lesson>>
      BY <2>2, <3>1, <3>3
    <3>4. CASE /\ \E other \in {e} \cup Zone["proxy"][<<domain[q], qtype[q]>>] :
                     resp' = [resp EXCEPT ![q] = FilterHTTPS(other, RacePolicy(q))]
               /\ Teach(q, "proxy_site")
               /\ Goto(q, "racestore")
      <4>1. PICK other \in {e} \cup Zone["proxy"][<<domain[q], qtype[q]>>] :
                resp' = [resp EXCEPT ![q] = FilterHTTPS(other, RacePolicy(q))]
        BY <3>4
      <4>2. PICK g \in Raced : other \in Zone[g][<<domain[q], qtype[q]>>]
        BY <3>2
      <4> QED BY <2>3, <3>1, <3>2, <3>4, <4>1, <4>2
    <3> QED BY <3>1, <3>3, <3>4
  <2>5. CASE /\ \E other \in Zone["proxy"][<<domain[q], qtype[q]>>] :
                   resp' = [resp EXCEPT ![q] = FilterHTTPS(other, RacePolicy(q))]
             /\ Teach(q, "proxy_site")
             /\ Goto(q, "racestore")
             /\ UNCHANGED ecs
    <3>1. "proxy" \in Raced /\ ecs[q] \in Seq(RRset) /\ ecs' = [ecs EXCEPT ![q] = ecs[q]]
      BY <2>5, HeldIsSound DEF Raced
    <3> QED BY <2>3, <2>5, <3>1
  <2> QED BY <2>1, <2>4, <2>5 DEF Race
<1>4. /\ pc'[q] = step /\ resp'[q] = answer /\ ecs'[q] = gathered /\ lesson'[q] = taught
      /\ asked'[q] = asked[q] \cup Raced
  BY <1>1, <1>3 DEF Inv, TypeOK, QueriesOK, RaceLeaves
<1>5. MatchesFallback(ecs[q])' <=> MatchesFallback(gathered)
  BY <1>1, <1>4 DEF MatchesFallback, fixed
<1>6. Asking(q)'
  BY <1>1, <1>3, <1>4, <1>5 DEF Asking, RaceLeaves, chosen
<1>7. Storing(q)'
  BY <1>1, <1>3, <1>4 DEF Storing, RaceLeaves, chosen
<1>8. "direct" \in asked[q] \cup Raced => policy[q].group = "direct"
  BY <1>1, <1>2
<1>9. /\ pc[q] \in {"ask", "refetch", "race", "direct"} /\ step # "store"
      /\ step \in {"failed", "validate", "store", "racestore", "direct"}
  BY <1>1
<1>10. /\ IsChain(answer, domain[q], qtype[q]) /\ AllGenuine(answer)
       /\ pc' = [pc EXCEPT ![q] = step] /\ resp' = [resp EXCEPT ![q] = answer]
       /\ ecs' = [ecs EXCEPT ![q] = gathered] /\ lesson' = [lesson EXCEPT ![q] = taught]
  BY <1>3 DEF RaceLeaves
<1>11. UNCHANGED <<fixed, shared, walk, chosen, nested, todo>> /\ asked' = [asked EXCEPT ![q] = @ \cup Raced]
  BY <1>1
<1> QED BY <1>2, <1>6, <1>7, <1>8, <1>9, <1>10, <1>11, AskingStep

LEMMA AskDirectStep == ASSUME Inv, NEW q \in Queries, AskDirect(q) PROVE Inv'
<1>1. /\ pc[q] = "direct" /\ Raced \subseteq asked[q] /\ todo[q] = {} /\ MatchesFallback(ecs[q])
      /\ ~nested[q] => policy[q].group = "proxy_ecs_fallback"
      /\ asked \in [Queries -> SUBSET Groups]
      /\ asked' = [asked EXCEPT ![q] = @ \cup {"direct"}]
      /\ UNCHANGED <<fixed, shared, walk, chosen, nested, ecs, todo>>
  BY DEF Inv, TypeOK, QueriesOK, Placed, Asking, Storing, AskDirect, AskGroups
<1>2. "direct" \in Groups /\ {"direct"} \in SUBSET Groups
  BY ConstantsAssumption
<1>3. PICK answer \in Seq(RRset), taught \in Lessons \cup {""}, step \in {"failed", "racestore"} :
          RaceLeaves(q, answer, ecs[q], taught, step)
  <2>1. CASE Fail(q) /\ UNCHANGED lesson
    <3>1. RaceLeaves(q, resp[q], ecs[q], lesson[q], "failed")
      BY <1>1, <2>1, HeldIsSound DEF RaceLeaves, Fail, Goto
    <3> QED BY <3>1, HeldIsSound
  <2>2. CASE /\ \E other \in Zone["direct"][<<domain[q], qtype[q]>>] :
                   resp' = [resp EXCEPT ![q] = FilterHTTPS(other, RacePolicy(q))]
             /\ Teach(q, "direct_site")
             /\ Goto(q, "racestore")
    <3>1. PICK other \in Zone["direct"][<<domain[q], qtype[q]>>] :
                   resp' = [resp EXCEPT ![q] = FilterHTTPS(other, RacePolicy(q))]
      BY <2>2
    <3>2. "direct_site" \in Lessons /\ ecs' = [ecs EXCEPT ![q] = ecs[q]]
      BY <1>1, HeldIsSound DEF Lessons
    <3>3. RaceLeaves(q, FilterHTTPS(other, RacePolicy(q)), ecs[q], "direct_site", "racestore")
      BY <1>2, <2>2, <3>1, <3>2, RacedIsSound DEF RaceLeaves, Goto, Teach
    <3>4. FilterHTTPS(other, RacePolicy(q)) \in Seq(RRset)
      BY <1>2, RacedIsSound
    <3> QED BY <3>2, <3>3, <3>4
  <2> QED BY <2>1, <2>2 DEF AskDirect
<1>4. /\ pc'[q] = step /\ resp'[q] = answer /\ ecs'[q] = ecs[q] /\ lesson'[q] = taught
      /\ asked'[q] = asked[q] \cup {"direct"}
  BY <1>1, <1>3 DEF Inv, TypeOK, QueriesOK, RaceLeaves
<1>5. Asking(q)'
  BY <1>1, <1>3, <1>4 DEF Asking, RaceLeaves, chosen
<1>6. Storing(q)'
  BY <1>1, <1>3, <1>4 DEF Storing, RaceLeaves, chosen
<1>7. /\ pc[q] \in {"ask", "refetch", "race", "direct"} /\ step # "store"
      /\ step \in {"failed", "validate", "store", "racestore", "direct"} /\ ecs[q] \in Seq(RRset)
  BY <1>1, HeldIsSound
<1>8. /\ IsChain(answer, domain[q], qtype[q]) /\ AllGenuine(answer)
      /\ pc' = [pc EXCEPT ![q] = step] /\ resp' = [resp EXCEPT ![q] = answer]
      /\ ecs' = [ecs EXCEPT ![q] = ecs[q]] /\ lesson' = [lesson EXCEPT ![q] = taught]
  BY <1>3 DEF RaceLeaves
<1>9. /\ UNCHANGED <<fixed, shared, walk, chosen, nested, todo>>
      /\ asked' = [asked EXCEPT ![q] = @ \cup {"direct"}]
  BY <1>1
<1> QED BY <1>1, <1>2, <1>5, <1>6, <1>7, <1>8, <1>9, AskingStep

-----------------------------------------------------------------------------
(* Only an answer with addresses can be rejected, and only by rules. *)
LEMMA RejectedHasAddresses ==
    ASSUME Inv, NEW q \in Queries, ~Accepted(resp[q], policy[q])
    PROVE  policy[q].expected # {} /\ qtype[q] = "A"
<1>1. policy[q].expected # {} /\ IPs(resp[q]) # {}
  BY DEF Accepted
<1>2. PICK k \in KeysOf(resp[q]) : k[2] = "A"
  BY <1>1 DEF IPs
<1>3. PICK n \in 1..Len(resp[q]) : k = <<resp[q][n].name, resp[q][n].type>>
  BY DEF KeysOf
<1>4. resp[q][n].type \in {"CNAME", qtype[q]}
  BY DEF Inv, Sound, IsChain
<1> QED BY <1>1, <1>2, <1>3, <1>4

LEMMA ValidateStep == ASSUME Inv, NEW q \in Queries, Validate(q) PROVE Inv'
<1>1. /\ pc[q] = "validate" /\ asked[q] \subseteq {policy[q].group} /\ todo[q] = {} /\ ~nested[q]
      /\ UNCHANGED <<fixed, shared, walk, chosen, ecs, resp, todo, lesson, asked>>
      /\ pc \in [Queries -> Steps] /\ nested \in [Queries -> BOOLEAN]
      /\ nested = [nested EXCEPT ![q] = nested[q]]
  BY DEF Inv, TypeOK, QueriesOK, Placed, Asking, Storing, Validate
<1>2. PICK step \in {"store", "refetch", "race"}, into \in BOOLEAN :
          /\ pc' = [pc EXCEPT ![q] = step] /\ nested' = [nested EXCEPT ![q] = into]
          /\ step = "store" => Accepted(resp[q], policy[q])
          /\ step # "store" => ~Accepted(resp[q], policy[q])
          /\ step = "refetch" => policy[q].fallback # ""
          /\ into <=> step = "race"
  <2>1. CASE Accepted(resp[q], policy[q]) /\ Goto(q, "store") /\ nested' = nested
    BY <1>1, <2>1 DEF Goto
  <2>2. CASE /\ ~Accepted(resp[q], policy[q]) /\ policy[q].fallback # ""
             /\ Goto(q, "refetch") /\ nested' = nested
    BY <1>1, <2>2 DEF Goto
  <2>3. CASE /\ ~Accepted(resp[q], policy[q]) /\ Goto(q, "race")
             /\ nested' = [nested EXCEPT ![q] = TRUE]
    BY <1>1, <2>3 DEF Goto
  <2> QED BY <2>1, <2>2, <2>3 DEF Validate
<1>3. TypeOK'
  BY <1>1, <1>2 DEF Inv, TypeOK, SharedOK, WalkOK, QueriesOK, Steps, fixed, shared, walk, chosen
<1>4. Sound'
  BY <1>1, StaysSound DEF Inv, shared
<1>5. pc'[q] = step /\ (nested'[q] <=> step = "race")
  BY <1>1, <1>2
<1>6. \A p \in Queries \ {q} : pc'[p] = pc[p] /\ nested'[p] = nested[p]
  BY <1>1, <1>2
<1>7. \A p \in Queries : MatchesFallback(ecs[p])' <=> MatchesFallback(ecs[p])
  BY <1>1, SameMatches DEF fixed
<1>8. \A p \in Queries : Accepted(resp[p], policy[p])' <=> Accepted(resp[p], policy[p])
  BY <1>1, SameAcceptance DEF fixed, chosen
<1>9. \A p \in Queries : Asking(p)'
  <2>1. \A p \in Queries \ {q} : Asking(p)'
    BY <1>1, <1>6, <1>7 DEF Inv, Placed, Asking, fixed, walk, chosen
  <2>2. step # "store" => policy[q].expected # {} /\ qtype[q] = "A"
    BY <1>2, RejectedHasAddresses
  <2>3. Asking(q)'
    BY <1>1, <1>2, <1>5, <2>2 DEF Asking, fixed, chosen
  <2> QED BY <2>1, <2>3
<1>10. \A p \in Queries : Storing(p)'
  BY <1>1, <1>2, <1>5, <1>6 DEF Inv, Placed, Storing, chosen
<1>12. RejectedIsReplaced'
  <2>1. \A p \in Queries \ {q} : Answered(p)' <=> Answered(p)
    BY <1>1, <1>6 DEF Answered
  <2>2. ~Answered(q)' /\ pc'[q] # "storing"
    BY <1>5 DEF Answered
  <2> QED BY <1>1, <1>2, <1>5, <1>6, <1>8, <2>1, <2>2 DEF Inv, Placed, RejectedIsReplaced, chosen
<1>13. KeptOut'
  BY <1>1, <1>6 DEF Inv, Placed, KeptOut, chosen
<1>14. Informed'
  <2>1. \A p \in Queries : pc[p] = "done" => pc'[p] = "done" /\ asked'[p] = asked[p]
    BY <1>1, <1>6
  <2> QED BY <1>1, <2>1, StaysInformed DEF Inv, shared, chosen
<1> QED BY <1>3, <1>4, <1>9, <1>10, <1>12, <1>13, <1>14 DEF Inv, Placed

LEMMA CacheResponseStep == ASSUME Inv, NEW q \in Queries, CacheResponse(q) PROVE Inv'
<1>1. /\ pc[q] \in {"racestore", "store"}
      /\ UNCHANGED <<fixed, shared, walk, chosen, nested, ecs, resp, lesson, asked>>
      /\ pc \in [Queries -> Steps]
  BY DEF Inv, TypeOK, QueriesOK, CacheResponse
<1>2. PICK keys \in SUBSET KeysOf(resp[q]), step \in {"storing", "racestoring"} :
          /\ todo' = [todo EXCEPT ![q] = keys] /\ pc' = [pc EXCEPT ![q] = step]
          /\ step = IF pc[q] = "store" THEN "storing" ELSE "racestoring"
          /\ policy[q].nocache /\ ~nested[q] => keys = {}
  <2> DEFINE p == IF pc[q] = "racestore" THEN RacePolicy(q) ELSE policy[q]
             keys == IF p.nocache THEN {} ELSE KeysOf(resp[q])
             step == IF pc[q] = "store" THEN "storing" ELSE "racestoring"
  <2>1. todo' = [todo EXCEPT ![q] = keys] /\ pc' = [pc EXCEPT ![q] = step]
    BY DEF CacheResponse, Goto
  <2>2. ~nested[q] => p = policy[q]
    BY DEF RacePolicy
  <2>3. keys \in SUBSET KeysOf(resp[q]) /\ (p.nocache => keys = {})
    OBVIOUS
  <2>4. step \in {"storing", "racestoring"}
    OBVIOUS
  <2>5. policy[q].nocache /\ ~nested[q] => keys = {}
    BY <2>2, <2>3
  <2> HIDE DEF keys, p
  <2> QED BY <2>1, <2>3, <2>4, <2>5
<1>3. /\ pc'[q] = step /\ todo'[q] = keys
      /\ \A p \in Queries \ {q} : pc'[p] = pc[p] /\ todo'[p] = todo[p]
  BY <1>1, <1>2 DEF Inv, TypeOK, QueriesOK
<1>4. TypeOK'
  <2>1. \A p \in Queries : todo'[p] \subseteq KeysOf(resp[p])
    BY <1>3 DEF Inv, TypeOK, QueriesOK
  <2>2. DOMAIN todo' = Queries /\ pc' \in [Queries -> Steps]
    BY <1>1, <1>2 DEF Inv, TypeOK, QueriesOK, Steps
  <2> QED BY <1>1, <2>1, <2>2 DEF Inv, TypeOK, SharedOK, WalkOK, QueriesOK, fixed, shared, walk, chosen
<1>5. Sound'
  BY <1>1, StaysSound DEF Inv, shared
<1>6. \A p \in Queries : MatchesFallback(ecs[p])' <=> MatchesFallback(ecs[p])
  BY <1>1, SameMatches DEF fixed
<1>7. \A p \in Queries : Accepted(resp[p], policy[p])' <=> Accepted(resp[p], policy[p])
  BY <1>1, SameAcceptance DEF fixed, chosen
<1>8. \A p \in Queries : Asking(p)'
  <2>1. \A p \in Queries \ {q} : Asking(p)'
    BY <1>1, <1>3, <1>6 DEF Inv, Placed, Asking, fixed, walk, chosen
  <2>2. Asking(q)'
    BY <1>1, <1>2, <1>3 DEF Inv, Placed, Asking, chosen
  <2> QED BY <2>1, <2>2
<1>9. \A p \in Queries : Storing(p)'
  BY <1>1, <1>2, <1>3 DEF Inv, Placed, Storing, chosen
<1>11. RejectedIsReplaced'
  <2>1. \A p \in Queries \ {q} : Answered(p)' <=> Answered(p)
    BY <1>1, <1>3 DEF Answered
  <2>2. ~Answered(q)' /\ pc'[q] # "store" /\ (pc'[q] = "storing" => pc[q] = "store")
    BY <1>1, <1>2, <1>3 DEF Answered
  <2> QED BY <1>1, <1>3, <1>7, <2>1, <2>2 DEF Inv, Placed, RejectedIsReplaced, chosen
<1>12. KeptOut'
  <2>1. policy[q].nohttps /\ ~nested[q] => \A k \in keys : k[2] # "HTTPS"
    BY <1>1 DEF Inv, Placed, Storing, NoHTTPS, KeysOf
  <2> QED BY <1>1, <1>2, <1>3, <2>1 DEF Inv, Placed, KeptOut, chosen
<1>13. Informed'
  <2>1. \A p \in Queries : pc[p] = "done" => pc'[p] = "done" /\ asked'[p] = asked[p]
    BY <1>1, <1>3
  <2> QED BY <1>1, <2>1, StaysInformed DEF Inv, shared, chosen
<1> QED BY <1>4, <1>5, <1>8, <1>9, <1>11, <1>12, <1>13 DEF Inv, Placed

LEMMA SetRRsStep == ASSUME Inv, NEW q \in Queries, NEW k \in Keys, SetRRs(q, k) PROVE Inv'
<1>1. /\ pc[q] \in {"storing", "racestoring"} /\ k \in todo[q]
      /\ cache' = [cache EXCEPT ![k] = DataOf(resp[q], k)]
      /\ stored' = [stored EXCEPT ![k] = @ \cup {DataOf(resp[q], k)}] /\ todo' = [todo EXCEPT ![q] = @ \ {k}]
      /\ UNCHANGED <<fixed, category, loaded, learning, pc, walk, chosen, nested, ecs, resp, lesson, asked>>
  BY DEF SetRRs, Store
<1>2. DataOf(resp[q], k) \subseteq DataOfType(k[2]) /\ AsGiven(k, DataOf(resp[q], k))
  <2>1. k \in KeysOf(resp[q]) /\ resp[q] \in Seq(RRset)
    BY <1>1 DEF Inv, TypeOK, QueriesOK
  <2> QED BY <2>1, StoredIsGenuine DEF Inv, Sound
<1>3. \A p \in Queries : todo'[p] \subseteq todo[p]
  BY <1>1 DEF Inv, TypeOK, QueriesOK
<1>4. TypeOK'
  <2>1. SharedOK'
    BY <1>1, <1>2 DEF Inv, TypeOK, SharedOK, fixed
  <2>2. WalkOK'
    BY <1>1 DEF Inv, TypeOK, WalkOK, fixed, walk
  <2>3. \A p \in Queries : todo'[p] \subseteq KeysOf(resp'[p])
    BY <1>1, <1>3 DEF Inv, TypeOK, QueriesOK
  <2>4. QueriesOK'
    BY <1>1, <2>3 DEF Inv, TypeOK, QueriesOK, chosen
  <2> QED BY <2>1, <2>2, <2>4 DEF TypeOK
<1>5. Sound'
  <2>1. CachedAsGiven' /\ StoredAsGiven'
    BY <1>1, <1>2 DEF Inv, TypeOK, SharedOK, Sound, CachedAsGiven, StoredAsGiven
  <2> QED BY <1>1, <2>1 DEF Inv, Sound, fixed, walk
<1>6. \A p \in Queries : MatchesFallback(ecs[p])' <=> MatchesFallback(ecs[p])
  BY <1>1, SameMatches DEF fixed
<1>7. \A p \in Queries : Accepted(resp[p], policy[p])' <=> Accepted(resp[p], policy[p])
  BY <1>1, SameAcceptance DEF fixed, chosen
<1>8. \A p \in Queries : Asking(p)'
  BY <1>1, <1>6 DEF Inv, Placed, Asking, fixed, walk, chosen
<1>9. \A p \in Queries : Storing(p)'
  BY <1>1, <1>3 DEF Inv, Placed, Storing, chosen
<1>11. RejectedIsReplaced'
  BY <1>1, <1>7 DEF Inv, Placed, RejectedIsReplaced, Answered, chosen
<1>12. KeptOut'
  BY <1>1, <1>3 DEF Inv, Placed, KeptOut, chosen
<1>13. Informed'
  BY <1>1, StaysInformed DEF Inv, chosen
<1> QED BY <1>4, <1>5, <1>8, <1>9, <1>11, <1>12, <1>13 DEF Inv, Placed

-----------------------------------------------------------------------------
(* A query that has stored all goes on: a nested race to the caching that  *)
(* follows it, everything else to its end.                                 *)
LEMMA StoredStep ==
    ASSUME Inv, NEW q \in Queries, pc[q] \in {"storing", "racestoring"}, todo[q] = {},
           NEW step \in {"store", "done"}, pc' = [pc EXCEPT ![q] = step],
           step = "store" => nested[q],
           pc[q] = "racestoring" /\ step = "done" => ~nested[q],
           UNCHANGED <<fixed, memory, category, loaded, walk, chosen, nested, ecs, resp, todo, lesson, asked>>,
           learning' \subseteq Names \X Lessons,
           \A write \in learning' \ learning : write[1] = domain[q] /\ Raced \subseteq asked[q]
    PROVE  Inv'
<1>1. pc'[q] = step /\ \A p \in Queries \ {q} : pc'[p] = pc[p]
  BY DEF Inv, TypeOK, QueriesOK
<1>2. TypeOK'
  BY DEF Inv, TypeOK, SharedOK, WalkOK, QueriesOK, Steps, fixed, walk, chosen
<1>3. Sound'
  BY StaysSound DEF Inv
<1>4. \A p \in Queries : MatchesFallback(ecs[p])' <=> MatchesFallback(ecs[p])
  BY SameMatches DEF fixed
<1>5. \A p \in Queries : Accepted(resp[p], policy[p])' <=> Accepted(resp[p], policy[p])
  BY SameAcceptance DEF fixed, chosen
<1>6. \A p \in Queries : Asking(p)'
  <2>1. \A p \in Queries \ {q} : Asking(p)'
    BY <1>1, <1>4 DEF Inv, Placed, Asking, fixed, walk, chosen
  <2>2. Asking(q)'
    BY <1>1 DEF Asking, chosen
  <2> QED BY <2>1, <2>2
<1>7. \A p \in Queries : Storing(p)'
  BY <1>1 DEF Inv, Placed, Storing, chosen
<1>9. RejectedIsReplaced'
  <2>1. \A p \in Queries \ {q} : Answered(p)' <=> Answered(p)
    BY <1>1 DEF Answered
  <2>2. pc[q] = "racestoring" => nested[q] \/ policy[q].group = "proxy_ecs_fallback"
    BY DEF Inv, Placed, Asking
  <2> QED BY <1>1, <1>5, <2>1, <2>2 DEF Inv, Placed, RejectedIsReplaced, chosen
<1>10. KeptOut'
  BY DEF Inv, Placed, KeptOut, chosen
<1>11. Informed'
  <2>1. \A p \in Queries : Blocked(domain[p])' <=> Blocked(domain[p])
    BY DEF Blocked, FindPolicy, fixed
  <2>2. \A write \in learning' : \E p \in Queries : domain[p] = write[1] /\ Raced \subseteq asked[p]
    BY DEF Inv, Informed
  <2>3. ~loaded' => \A n \in Names : category'[n] \in Lessons \cup {""}
    BY DEF Inv, Informed
  <2>4. /\ \A p \in Queries : (found[p].late => loaded)'
        /\ \A p \in Queries :
              (found[p].late /\ ~found[p].blind /\ Blocked(domain[p]) => pc[p] = "done" /\ asked[p] = {})'
    <3>1. UNCHANGED <<found, loaded, asked>>
      BY DEF chosen
    <3>2. \A p \in Queries : found[p].late /\ ~found[p].blind /\ Blocked(domain[p]) => p # q
      BY DEF Inv, Informed
    <3>3. \A p \in Queries : found[p].late => loaded
      BY DEF Inv, Informed
    <3>4. \A p \in Queries : found[p].late /\ ~found[p].blind /\ Blocked(domain[p]) => pc[p] = "done" /\ asked[p] = {}
      BY DEF Inv, Informed
    <3> QED BY <1>1, <2>1, <3>1, <3>2, <3>3, <3>4
  <2>5. (\A write \in learning : \E p \in Queries : domain[p] = write[1] /\ Raced \subseteq asked[p])'
    BY <2>2 DEF fixed
  <2> QED BY <2>3, <2>4, <2>5, Zenon DEF Informed
<1> QED BY <1>2, <1>3, <1>6, <1>7, <1>9, <1>10, <1>11 DEF Inv, Placed

LEMMA EndRaceStep == ASSUME Inv, NEW q \in Queries, EndRace(q) PROVE Inv'
<1>1. /\ pc[q] = "racestoring" /\ todo[q] = {} /\ Raced \subseteq asked[q]
      /\ lesson[q] \in Lessons /\ domain[q] \in Names
      /\ learning' = learning \cup {<<domain[q], lesson[q]>>}
      /\ pc' = [pc EXCEPT ![q] = IF nested[q] THEN "store" ELSE "done"]
      /\ UNCHANGED <<fixed, memory, category, loaded, walk, chosen, nested, ecs, resp, todo, lesson, asked>>
  BY DEF Inv, TypeOK, WalkOK, Placed, Asking, Storing, EndRace, Goto
<1>2. PICK step \in {"store", "done"} : pc' = [pc EXCEPT ![q] = step] /\ (step = "store" <=> nested[q])
  BY <1>1
<1>3. /\ learning' \subseteq Names \X Lessons
      /\ \A write \in learning' \ learning : write[1] = domain[q] /\ Raced \subseteq asked[q]
  BY <1>1 DEF Inv, TypeOK, SharedOK
<1> QED BY <1>1, <1>2, <1>3, StoredStep

LEMMA ReturnStep == ASSUME Inv, NEW q \in Queries, Return(q) PROVE Inv'
<1>1. /\ pc[q] = "storing" /\ todo[q] = {} /\ pc' = [pc EXCEPT ![q] = "done"]
      /\ UNCHANGED <<fixed, shared, walk, chosen, nested, ecs, resp, todo, lesson, asked>>
  BY DEF Return, Goto
<1>2. learning' \subseteq Names \X Lessons /\ learning' \ learning = {}
  BY <1>1 DEF Inv, TypeOK, SharedOK, shared
<1> QED BY <1>1, <1>2, StoredStep DEF shared

-----------------------------------------------------------------------------
(* What happens apart from the queries moves none of them. *)
LEMMA NobodyMoves ==
    ASSUME Inv, UNCHANGED <<fixed, pc, walk, chosen, nested, ecs, resp, todo, lesson, asked>>
    PROVE  WalkOK' /\ QueriesOK' /\ Placed'
<1>1. WalkOK' /\ QueriesOK'
  BY DEF Inv, TypeOK, WalkOK, QueriesOK, fixed, walk, chosen
<1>2. /\ RejectedIsReplaced' /\ KeptOut'
      /\ \A q \in Queries : MatchesFallback(ecs[q])' <=> MatchesFallback(ecs[q])
  BY SamePlaces DEF Inv
<1>3. \A q \in Queries : Asking(q)' /\ Storing(q)'
  BY <1>2 DEF Inv, Placed, Asking, Storing, fixed, walk, chosen
<1> QED BY <1>1, <1>2, <1>3 DEF Placed

LEMMA AsyncStep == ASSUME Inv, NEW write \in learning, AsyncCacheCategory(write) PROVE Inv'
<1>1. /\ write[1] \in Names /\ write[2] \in Lessons /\ category \in [Names -> Categories]
      /\ learning' = learning \ {write} /\ category' = [category EXCEPT ![write[1]] = write[2]]
      /\ UNCHANGED <<fixed, memory, loaded, pc, walk, chosen, nested, ecs, resp, todo, lesson, asked>>
  BY DEF Inv, TypeOK, SharedOK, AsyncCacheCategory
<1>2. WalkOK' /\ QueriesOK' /\ Placed'
  BY <1>1, NobodyMoves
<1>3. SharedOK'
  BY <1>1 DEF Inv, TypeOK, SharedOK, Categories, fixed
<1>4. Sound'
  BY <1>1, StaysSound DEF Inv
<1>5. Informed'
  <2>1. \A n \in Names : category'[n] = category[n] \/ category'[n] \in Lessons
    BY <1>1
  <2>2. \A n \in Names : Blocked(n)' => Blocked(n)
    BY <2>1 DEF Blocked, FindPolicy
  <2>3. \A q \in Queries : domain[q] \in Names
    BY DEF Inv, TypeOK, WalkOK
  <2> QED BY <1>1, <2>1, <2>2, <2>3 DEF Inv, Informed, fixed, chosen
<1> QED BY <1>2, <1>3, <1>4, <1>5 DEF Inv, TypeOK

LEMMA LoadStep == ASSUME Inv, Load PROVE Inv'
<1>1. /\ ~loaded /\ loaded' = TRUE
      /\ category' = [n \in Names |-> IF listing[n] # "" THEN listing[n] ELSE category[n]]
      /\ UNCHANGED <<fixed, memory, learning, pc, walk, chosen, nested, ecs, resp, todo, lesson, asked>>
  BY DEF Load
<1>2. WalkOK' /\ QueriesOK' /\ Placed'
  BY <1>1, NobodyMoves
<1>3. SharedOK'
  BY <1>1 DEF Inv, TypeOK, SharedOK, fixed
<1>4. Sound'
  BY <1>1, StaysSound DEF Inv
<1>5. Informed'
  BY <1>1 DEF Inv, Informed, fixed, chosen
<1> QED BY <1>2, <1>3, <1>4, <1>5 DEF Inv, TypeOK

(* Fewer records of what some group gave are still what it gave. *)
LEMMA LessIsGiven ==
    ASSUME NEW k, NEW data, AsGiven(k, data), NEW left \in SUBSET data
    PROVE  AsGiven(k, left)
BY DEF AsGiven, Given

LEMMA CleanUpStep == ASSUME Inv, NEW k \in Keys, CleanUp(k) PROVE Inv'
<1>0. PICK data \in stored[k] : \E left \in (SUBSET data) \ {data} : cache' = [cache EXCEPT ![k] = left]
  BY DEF CleanUp
<1>1. PICK left \in SUBSET data : cache' = [cache EXCEPT ![k] = left]
  BY <1>0
<1>2. UNCHANGED <<fixed, stored, category, loaded, learning, pc, walk, chosen, nested, ecs, resp, todo, lesson, asked>>
  BY DEF CleanUp
<1>3. WalkOK' /\ QueriesOK' /\ Placed'
  BY <1>2, NobodyMoves
<1>4. SharedOK'
  BY <1>1, <1>2 DEF Inv, TypeOK, SharedOK, fixed
<1>5. Sound'
  <2>1. left # {} => AsGiven(k, left)
    BY <1>1, LessIsGiven DEF Inv, Sound, StoredAsGiven
  <2>2. CachedAsGiven'
    BY <1>1, <2>1 DEF Inv, TypeOK, SharedOK, Sound, CachedAsGiven
  <2> QED BY <1>2, <2>2 DEF Inv, Sound, StoredAsGiven, fixed, walk
<1>6. Informed'
  BY <1>2, StaysInformed DEF Inv, chosen
<1> QED BY <1>3, <1>4, <1>5, <1>6 DEF Inv, TypeOK

LEMMA Stutter == ASSUME Inv, UNCHANGED vars PROVE Inv'
<1>1. /\ UNCHANGED <<fixed, pc, walk, chosen, nested, ecs, resp, todo, lesson, asked>>
      /\ UNCHANGED <<memory, category, loaded, learning, found>>
  BY DEF vars, shared, chosen
<1>2. WalkOK' /\ QueriesOK' /\ Placed'
  BY <1>1, NobodyMoves
<1>3. SharedOK'
  BY <1>1 DEF Inv, TypeOK, SharedOK, fixed
<1>4. Sound'
  BY <1>1, StaysSound DEF Inv
<1>5. Informed'
  BY <1>1, StaysInformed DEF Inv
<1> QED BY <1>2, <1>3, <1>4, <1>5 DEF Inv, TypeOK

LEMMA InvStep == Inv /\ [Next]_vars => Inv'
<1> SUFFICES ASSUME Inv, [Next]_vars PROVE Inv'
  OBVIOUS
<1>1. CASE UNCHANGED vars
  BY <1>1, Stutter
<1>2. ASSUME NEW q \in Queries, Step(q) PROVE Inv'
  BY <1>2, LookupTypeStep, LookupAliasStep, ChoosePolicyStep, AskStep, ValidateStep, RefetchStep,
     RaceStep, AskDirectStep, EndRaceStep, CacheResponseStep, SetRRsStep, ReturnStep DEF Step
<1>3. CASE (\E write \in learning : AsyncCacheCategory(write)) \/ Load \/ \E k \in Keys : CleanUp(k)
  BY <1>3, AsyncStep, LoadStep, CleanUpStep
<1> QED BY <1>1, <1>2, <1>3 DEF Next

LEMMA Invariant == Spec => []Inv
BY InvInit, InvStep, PTL DEF Spec

-----------------------------------------------------------------------------
(* Everything keeps its type: chains no longer than the depth, answers and *)
(* pending stores made of RRsets, learned categories among the two.        *)
THEOREM TypesHold == Spec => []TypeOK
<1>1. Inv => TypeOK
  BY DEF Inv
<1> QED BY <1>1, Invariant, PTL

(* An answer is one linked chain from the name that was asked, whatever    *)
(* part of it the cache gave and whatever happened to the cache meanwhile. *)
THEOREM AnswersAreChains == Spec => []AnswerIsChain
<1>1. Inv => AnswerIsChain
  BY DEF Inv, Sound, AnswerIsChain
<1> QED BY <1>1, Invariant, PTL

(* The records under a key are out of one answer some group gave, however  *)
(* often they are merged, filtered and stored again, expire in part or are *)
(* brought back by a late clean-up.                                        *)
THEOREM CacheIsGenuine == Spec => []CachedAsGiven
<1>1. Inv => CachedAsGiven
  BY DEF Inv, Sound
<1> QED BY <1>1, Invariant, PTL

(* Whoever is about to ask the fallback group holds a rejected answer.     *)
Refused == \A q \in Queries : pc[q] = "refetch" => ~Accepted(resp[q], policy[q])

LEMMA RefusedStep == ASSUME Inv, Refused, [Next]_vars PROVE Refused'
<1> SUFFICES ASSUME NEW p \in Queries, pc'[p] = "refetch" PROVE ~Accepted(resp[p], policy[p])'
  BY DEF Refused
<1>1. UNCHANGED matcher
  BY DEF Next, Step, LookupType, LookupAlias, ChoosePolicy, Ask, Validate, Refetch, Race, AskDirect, EndRace,
     CacheResponse, SetRRs, Return, AsyncCacheCategory, Load, CleanUp, vars, fixed
<1>2. CASE \E q \in Queries : Validate(q)
  <2>1. PICK q \in Queries : Validate(q)
    BY <1>2
  <2>2. resp'[p] = resp[p] /\ policy'[p] = policy[p]
    BY <2>1 DEF Validate, chosen
  <2>3. ~Accepted(resp[p], policy[p])
    BY <2>1 DEF Validate, Goto, Refused, Inv, TypeOK, QueriesOK
  <2> QED BY <1>1, <2>2, <2>3, SameAcceptance
<1>3. CASE ~\E q \in Queries : Validate(q)
  <2> DEFINE stays == pc[p] = "refetch" /\ resp'[p] = resp[p] /\ policy'[p] = policy[p]
  <2>1. ASSUME NEW q \in Queries, LookupType(q) PROVE stays
    BY <2>1 DEF LookupType, Goto, chosen, Inv, TypeOK, QueriesOK
  <2>2. ASSUME NEW q \in Queries, LookupAlias(q) PROVE stays
    BY <2>2 DEF LookupAlias, Goto, chosen, Inv, TypeOK, QueriesOK
  <2>3. ASSUME NEW q \in Queries, ChoosePolicy(q) PROVE stays
    BY <2>3 DEF ChoosePolicy, Goto, Inv, TypeOK, QueriesOK
  <2>4. ASSUME NEW q \in Queries, Ask(q) PROVE stays
    BY <2>4 DEF Ask, Goto, Fail, chosen, Inv, TypeOK, QueriesOK
  <2>5. ASSUME NEW q \in Queries, Refetch(q) PROVE stays
    BY <2>5 DEF Refetch, Goto, Fail, chosen, Inv, TypeOK, QueriesOK
  <2>6. ASSUME NEW q \in Queries, Race(q) PROVE stays
    BY <2>6 DEF Race, Goto, Fail, chosen, Inv, TypeOK, QueriesOK
  <2>7. ASSUME NEW q \in Queries, AskDirect(q) PROVE stays
    BY <2>7 DEF AskDirect, Goto, Fail, chosen, Inv, TypeOK, QueriesOK
  <2>8. ASSUME NEW q \in Queries, EndRace(q) PROVE stays
    BY <2>8 DEF EndRace, Goto, chosen, Inv, TypeOK, QueriesOK
  <2>9. ASSUME NEW q \in Queries, CacheResponse(q) PROVE stays
    BY <2>9 DEF CacheResponse, Goto, chosen, Inv, TypeOK, QueriesOK
  <2>10. ASSUME NEW q \in Queries, Return(q) PROVE stays
    BY <2>10 DEF Return, Goto, chosen, Inv, TypeOK, QueriesOK
  <2>11. ASSUME \/ \E q \in Queries : \E k \in Keys : SetRRs(q, k)
                \/ \E write \in learning : AsyncCacheCategory(write)
                \/ Load \/ (\E k \in Keys : CleanUp(k)) \/ UNCHANGED vars
         PROVE  stays
    BY <2>11 DEF SetRRs, AsyncCacheCategory, Load, CleanUp, vars, chosen
  <2>12. stays
    BY <1>3, <2>1, <2>2, <2>3, <2>4, <2>5, <2>6, <2>7, <2>8, <2>9, <2>10, <2>11 DEF Next, Step
  <2> QED BY <1>1, <2>12, SameAcceptance DEF Refused
<1> QED BY <1>2, <1>3

LEMMA DirectStep == Inv /\ Refused /\ [Next]_vars =>
    [\A q \in Queries : "direct" \in asked'[q] \ asked[q] =>
        \/ policy[q].group = "direct"
        \/ policy[q].fallback = "direct" /\ ~Accepted(resp[q], policy[q])
        \/ MatchesFallback(ecs[q])]_vars
<1> SUFFICES ASSUME Inv, Refused, [Next]_vars, NEW q \in Queries, "direct" \in asked'[q] \ asked[q]
             PROVE  \/ policy[q].group = "direct"
                    \/ policy[q].fallback = "direct" /\ ~Accepted(resp[q], policy[q])
                    \/ MatchesFallback(ecs[q])
  OBVIOUS
<1>1. ~UNCHANGED asked
  OBVIOUS
<1>2. PICK p \in Queries : Ask(p) \/ Refetch(p) \/ Race(p) \/ AskDirect(p)
  BY <1>1 DEF Next, Step, LookupType, LookupAlias, ChoosePolicy, Validate, EndRace, CacheResponse, SetRRs, Return,
     AsyncCacheCategory, Load, CleanUp, vars
<1>3. ASSUME NEW groups, AskGroups(p, groups) PROVE p = q /\ "direct" \in groups
  BY <1>3 DEF AskGroups, Inv, TypeOK, QueriesOK
<1>4. CASE Ask(p)
  BY <1>3, <1>4 DEF Ask
<1>5. CASE Refetch(p)
  BY <1>3, <1>5 DEF Refetch, Refused
<1>6. CASE Race(p)
  BY <1>3, <1>6 DEF Race, Raced
<1>7. CASE AskDirect(p)
  BY <1>3, <1>7 DEF AskDirect, Inv, Placed, Asking
<1> QED BY <1>2, <1>4, <1>5, <1>6, <1>7

(* The group direct is asked only where the policy, a rejected answer or a *)
(* match of the fallback rules sends a query.                              *)
THEOREM DirectIsRouted == Spec => DirectOnlyWhenRouted
<1>1. Init => Refused
  BY DEF Init, Refused
<1>2. Inv /\ Refused /\ [Next]_vars => Refused'
  BY RefusedStep
<1> QED BY <1>1, <1>2, Invariant, DirectStep, PTL DEF Spec, DirectOnlyWhenRouted

(* An answer that expected_ips rejects is neither stored nor returned,     *)
(* where the policy's group is one that the check is made for.             *)
THEOREM RejectedAreReplaced == Spec => []RejectedIsReplaced
<1>1. Inv => RejectedIsReplaced
  BY DEF Inv, Placed
<1> QED BY <1>1, Invariant, PTL

(* disable_cache and disable_https hold but for a race that replaces an    *)
(* answer.                                                                 *)
THEOREM KeptOutOfCache == Spec => []KeptOut
<1>1. Inv => KeptOut
  BY DEF Inv, Placed
<1> QED BY <1>1, Invariant, PTL

LEMMA BlockStep == Inv /\ [Next]_vars =>
    [\A n \in Names : Blocked(n) /\ category'[n] # category[n] =>
        \E q \in Queries :
            /\ domain[q] = n
            /\ Raced \subseteq asked[q]
            /\ found[q].blind \/ ~found[q].late]_vars
<1> SUFFICES ASSUME Inv, [Next]_vars, NEW n \in Names, Blocked(n), category'[n] # category[n]
             PROVE  \E q \in Queries :
                        /\ domain[q] = n
                        /\ Raced \subseteq asked[q]
                        /\ found[q].blind \/ ~found[q].late
  OBVIOUS
<1>1. ~UNCHANGED category
  OBVIOUS
<1>2. ~Load
  BY DEF Load, Blocked, Inv, Informed
<1>3. PICK write \in learning : AsyncCacheCategory(write)
  BY <1>1, <1>2 DEF Next, Step, LookupType, LookupAlias, ChoosePolicy, Ask, Validate, Refetch, Race, AskDirect,
     EndRace, CacheResponse, SetRRs, Return, CleanUp, vars, shared
<1>4. write[1] = n
  BY <1>3 DEF AsyncCacheCategory, Inv, TypeOK, SharedOK
<1>5. PICK q \in Queries : domain[q] = n /\ Raced \subseteq asked[q]
  BY <1>4 DEF Inv, Informed
<1>6. found[q].blind \/ ~found[q].late
  BY <1>5 DEF Inv, Informed, Raced
<1> QED BY <1>5, <1>6

(* Only a query that did not know of a block teaches its domain another    *)
(* category.                                                               *)
THEOREM BlocksHold == Spec => BlockHolds
BY Invariant, BlockStep, PTL DEF Spec, BlockHolds
=============================================================================
