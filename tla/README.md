# Verification of violet-dns

violet-dns is a forwarding DNS server: it classifies the domain of a query,
chooses an upstream group for its category, checks what comes back, and caches
the records one by one. This directory holds TLA+ models of its parts, the TLC
configurations that check them on small instances, and proofs of the theorems
that hold for every instance.

Paths below are relative to the repository.

## 1. The system

| Part | State | Operations | Interacts with |
|---|---|---|---|
| DNS server (`server/server.go`) | none of its own | `Start`, `handleQuery`, `ensureUDPSize` | calls the router; the DNS library starts one goroutine per query |
| Query router (`router/`) | policies, fixed after start | `Route`, `handleIPValidation`, `handleProxyECSFallbackV2`, `cacheResponse`, `asyncCacheCategory` | both caches, the upstream manager, the GeoIP matcher |
| DNS cache, memory (`cache/dns_cache.go`) | map from key to records, RWMutex | `GetRRs`, `SetRRs`, `SetSingleRR`, `DeleteRRs`, `Clear`, `ResolveCNAMEChain` | called by every query |
| DNS cache, Redis (`cache/redis.go`) | one sorted set per key | the same interface, each call several commands | shared by processes |
| Category cache (`cache/category_cache.go`) | map from domain to category, in memory or Redis | `Get`, `Set`, `BatchSet`, `Clear` | router reads and learns, loader writes |
| Loader, updater, parser (`category/`) | none | `Load`, `LoadReverse`, cron job, `ParseDomainGroup` | category cache, dlc.dat |
| Upstream group and manager (`upstream/`) | the groups with their nameservers | `Group.Query`: a goroutine per nameserver, first answer wins; `LoadFromConfig` | outbounds, configuration |
| GeoIP matcher (`geoip/`) | databases, read only | `Match`, `MatchAny` | |
| Configuration (`config/`) | the file's contents | `LoadAndValidate` | read by main |
| Start-up (`main.go`) | the parts it builds | phases 1-6, `-load` mode | everything, once |
| File download (`utils/download.go`) | three files and their temporary ones, shared by processes | `DownloadFileWithOutbound` | an HTTP server, an outbound |
| Outbounds (`outbound/`), logger, singleflight | | | I/O; singleflight is never called |

What is hard, and what makes each part correct:

* **DNS cache.** `GetRRs` reads under one lock section, decides without a lock
  and cleans up under another; expiry is decided in nanoseconds by one clock
  reading, the TTL in whole seconds by an earlier one. Correct means: records of
  two answers are never mixed, TTLs are capped and positive, and a clean-up
  removes what has expired and nothing else. In Redis every call is several
  commands, and what comes between them is other callers' commands: a late
  removal must spare what was stored since, and no key may be left without an
  expiration.
* **Upstream group.** Results, failures, cancellation and the caller's timeout
  race. Correct means: no result is lost while somebody waits for it, the error
  is true, the query returns, and no goroutine is left behind.
* **proxy_ecs_fallback.** Two queries and a timer race, and a third query may
  follow; the decision is learned asynchronously. Correct means: the decision is
  the one the ECS answer demands, in every order of events.
* **Router.** A query is a long sequence of reads and writes of shared caches
  with network calls in between, while categories are learned, reloaded and
  sometimes unreadable. Correct means: the answer is one linked chain, what is
  cached is what some group said (or what is left of it), the groups a policy names are the ones asked,
  a block is not learned away by a query that knows of it, and the walk along
  cached aliases ends.
* **Server.** Truncation to the client's size at its boundaries; the router's
  response code reaches the client.
* **Category cache.** A reload in batches with failures, retries and lost
  replies, beside lookups, learning and another process. Correct means: success
  is complete, and lookups never see a hole.
* **Configuration.** What is validated is one reading of the file, what is built
  is another: the last outbound of a tag here, the last enabled one there. Correct
  means: what is accepted is enough for every query that follows.
* **Download.** Processes that start together share the names of the temporary
  files, and may be killed at any step. Correct means: a file is whole or absent,
  and one that is installed stays.

Every hazard is listed with its line in `PROJECT.json`.

## 2. Modules

| Module | Models | State |
|---|---|---|
| `RRItems` | the TTL arithmetic of `RRCacheItem`, used by both DNS caches | none |
| `RRCache` | `MemoryDNSCache`, as queries use it | clock, `storage`, and per caller the locals of the call in progress |
| `RedisRRCache` | `RedisDNSCache`, command by command | clock, sorted sets and expirations in Redis, and per caller the locals of the call in progress |
| `UpstreamPromise` | what a query to a group promises (abstract) | who was asked, who answered or failed, the result |
| `UpstreamGroup` | `Group.Query`; implements `UpstreamPromise` | goroutines, `resChan`, contexts, loop counter, result |
| `Fallback` | `handleProxyECSFallbackV2`, `asyncCacheCategory` | per call: goroutines' outcomes, `resChan`, timer, loop counter, what was gathered, answer |
| `GeoIP` | the rules of `geoip.Matcher`, as operators | none |
| `Router` | `Route` with everything it calls in `router/` | the memory DNS cache and what was ever stored in it, the category cache, per query its place, chain, policy, answer, keys still to store |
| `Server` | `handleQuery`, `ensureUDPSize` | one query's message on its way |
| `DomainLists` | `Parse` and `ParseDomainGroup` of `category/parser.go`, as operators | none |
| `CategoryLoad` | `Load`, `LoadReverse`, `BatchSet`, `Clear`, updater, `-load` mode | Redis and local maps, per load what it has read, its batch, attempts and progress |
| `Config` | `config/validate.go`, and what `main.go` and `LoadFromConfig` build from a configuration, as operators | none |
| `Startup` | `main.go` from the flags to the signal, `DownloadFileWithOutbound`, processes that are killed and started again | the files and their temporary ones, per process its place, download, open file and parts |
| `RRCacheProofs`, `RedisRRCacheProofs`, `UpstreamGroupProofs`, `FallbackProofs`, `RouterProofs`, `ServerProofs`, `CategoryLoadProofs`, `StartupProofs` | theorems | |
| `MC*` | instances for TLC | |

Actions carry the names of the functions they model, or say in their comment
which part of one they are. A function is one action unless another actor can
come in between: it is split exactly where a lock is released, a channel, a file
or the network is used, or the clock is read. Definitions marked "Mutant" are
variants of the definition that follows with a plausible bug; no specification
uses them. They show that the property they are listed with can fail
(`PROJECT.json`).

How the modules fit together. `Startup` ends where `Router` begins: its
`AskableGroupsExist` is the assumption of `Router` that the groups a policy names
exist, and the empty GeoIP matcher its `OpenGeoIP` may leave is one of the
matchers `Router` is run with. `Router` uses a query to a group by the contract
that `UpstreamGroup` is shown to keep (it answers or fails, and returns), and the
race of proxy_ecs_fallback by the one `Fallback` shows (each of the two answers
is there in time or is not). `RRCache` shows what
becomes of an entry: records of it expire, and `DeleteExpired` and
`ShrinkExpired` write over what another caller has stored since. `Router`
therefore lets an entry turn, at any step, into a part of any RRset that was ever
stored under its key, or into nothing (`CleanUp`). What `Router` says of the DNS
cache is said of the one in memory: in Redis, overlapping pipelines may mix the
records of two answers, as `redis_accumulation` shows. `Server` takes any message or error from the
router. `CategoryLoad` details the load that `Router` has as one step (`Load`) and
`Startup` as the end of a `-load` process, and reads the file through
`DomainLists`.

What is abstracted:

* `RRCache`: an RR list is a set of (datum, TTL, time). The order in which a
  caller walks keys is left free; a chain walks each key once.
* `RedisRRCache`: a member is the item it encodes, so two members are the same
  when record, TTL and StoredAt are; its score is exact, where the code's float64
  is good to some hundred nanoseconds. ZADDs and ZREMs of one call are taken in
  any order. Whether a member decodes depends on its record alone (`Unreadable`:
  text that `dns.NewRR` does not parse, a response code without a name); one that
  does not is skipped and removed, like an expired one. Redis and the processes share one clock. The client library's own
  repetition of a failed command is left out. `broken`, the keys a broken
  pipeline left, is a history variable.
* `UpstreamGroup`: an exchange is one step with a free outcome; `heard` is a
  history variable.
* `Fallback`: an answer is "match" or "other", all that the decision sees.
* `GeoIP`: a database is the set of codes, and the number, it holds for each
  address; which addresses are private is a constant.
* `Router`: an answer section is a sequence of RRsets; TTLs, response codes, the
  other sections and the address that `block_type` 0.0.0.0 makes up are left out. A load is one step, and happens once. A lookup
  of the category cache may fail for any set of names. The learning goroutine's
  write may be delayed for ever, which covers its failure. `found`, `asked`
  and `stored` are history variables.
* `Server`: a record is its packed size. Sizes add up, because the library's
  compression points backwards only and records are cut from the end.
* `DomainLists`: a rule is a list and a set of filters; spaces and the protobuf
  encoding are left out.
* `CategoryLoad`: dlc.dat has any of a set of contents whenever it is read; the
  sleeps are left out.
* `Config`: addresses, paths and rules are words for the kinds validation tells
  apart. Fields that only carry values are left out.
* `Startup`: a file is the set of chunks written to it. HTTP is a free choice of
  a body or a failure, and any call may fail where the code looks at the error.
  An open file follows its name through rename and unlink, as POSIX has it.
  `crossed`, the files two processes have downloaded at once, is a history
  variable.

## 3. Runs

Each run checks all its properties on one instance; bounds are constants of the
modules (`MaxReplies`, `MaxStores`, `MaxTime`, `MaxDepth`, `MaxLearned`,
`MaxStarts`).

| Run | Instance | Shows |
|---|---|---|
| `rrcache` | 2 callers, the CNAME of a name and the address of its target, 2 ticks per second, cap of 1 s, 2 upstream answers, 4 clock values | `OneRRset`, `ServedAlive`, `CleanUpDropsOnlyExpired` |
| `redis` | 2 callers, one key, 2 ticks per second, cap of 1 s, 2 RRsets that share a record, of which one has a record that does not decode, 2 stores, 5 clock values, margin of a tick (2,107,035 states) | `EveryKeyEnds`, `ServedNoLonger`, `ZRemSparesFresh` |
| `upstream` | 0 to 3 nameservers, the context ends or not | `KeepsPromise` (refinement), `Returns`, `NoLeak` |
| `fallback` | 2 calls for one domain, one with `disable_cache` | `DecisionFollowsECS`, `FailureIsReal`, `LearnedWasDecided`, `EveryCallReturns` |
| `router` | 2 queries, 2 names of which one has two spellings, 3 record types, 3 groups that disagree, 5 policies and the default, 6 starts: names, listing, GeoIP databases or none, a cold DNS cache or one with a loop; a load at any time, lookups of categories that fail; `MaxDepth` 2 (526,825 states) | `AnswerIsChain`, `CachedAsGiven`, `DirectOnlyWhenRouted`, `RejectedIsReplaced`, `KeptOut`, `BlockHolds`, `EveryQueryEnds` |
| `server` | up to 2 records of 2 sizes in each section, with the TC bit or without, limits from 0 to above the cap, UDP and TCP | `CutFromTheEnd`, `CutNoMoreThanNeeded`, `FitsUDP`, `Replies` |
| `category` | cron job and `-load` process, Redis or memory for each, files that differ from load to load, 2 groups with rules that overlap and filter by attributes, batches of 2, 2 attempts, 1 learned category (224,583 states) | `SuccessIsComplete`, `StaysClassified`, `EveryLoadEnds` |
| `startup` | a server, started twice, and a `-load` process in one directory; empty, with bodies of 1023, 1024 and 1025 bytes, the last in 2 chunks, or with all files installed and one of 9 configurations, valid and invalid (220,494 states) | `NeverPartial`, `InstalledStays`, `AskableGroupsExist`, `NameserversCarried`, `EveryStartEnds` |

Why the bounds are enough. `rrcache`: the races need one caller between two lock
sections of another; two ticks per second are the fewest for which "expired" and
"no whole second left" differ; one reply has a record at the cap, the other one
above it beside one that expires at once. `redis`: keys do not interact, so one
is enough; two stores of a shared record and a reader between them give the late
ZREM, the overlapping pipelines and the half-written set; the record that does
not decode lies beside one that expires at once, so that a reader finds it alone,
with the other, or with the other expired. `upstream`: three
results are needed for a failure before an answer before a result nobody
receives. `fallback`: two calls are enough for two opposite decisions to be
learned in either order. `router`: two names give a chain, a loop and a cached
prefix; two queries give every interleaving of one's stores and lessons with the
other's lookups; each start is made for one of the hazards, and its comment says
which; the direct group gives a name two addresses at once, so that a part of them
can be left. `server`: two records in a section tell "the last one" from "all", and
sizes 1 and 3 let a limit fall on and between records. `category`: three domains
make a full and a short batch. `startup`: a second process and a second start are
what a download can meet; the bodies lie on both sides of the two size limits and
on them; each configuration differs from the first in one point, and each
validator that the properties need is the only one to refuse something.

Four runs look for a violation, and find it. Each states what a comment or the
README says, and the code does otherwise:

| Run | Statement | What happens |
|---|---|---|
| `redis_accumulation` | `NoAccumulation` (`cache/redis.go:95`) | two pipelines overlap, and a key holds the same record twice |
| `fallback_timeout` | `GatherEndsAtTimeout` (`README.md:463`) | `break` leaves the `select`, not the loop |
| `server_rcode` | `RcodeReachesClient` (`README.md:134`) | `SetReply` resets the router's NXDOMAIN to success |
| `category_order` | `FirstGroupWins` (`category/loader.go:77`) | the order of groups comes from a map iteration |

Deadlock is not checked: in every model the queries, calls, loads or processes
come to their end, after which nothing need happen.

### What some properties leave out, and why

* `BlockHolds` allows a block to be learned away by a query that was classified
  before the load, or while a lookup failed. TLC finds both when the exceptions
  are dropped. It speaks of the name as it is spelled: a lesson for another
  spelling goes to another entry of the category cache, and about a category
  that only a load gives: one of the two that are learned may be learned over.
* `CachedAsGiven` asks of an alias only that some group gave it. The proof of the
  stronger statement, that the aliases of a name come from one answer, failed, and
  for a reason: where cached aliases form a loop, the walk stops at `MaxDepth`, and
  a record it holds already comes again, changed, with the answer of the group;
  `cacheResponse` stores the two as one RRset. All other data is whole.
  Equality with what was given is not claimed either: some of the records of an
  entry may have expired, and a late write-back may put the rest of an older
  RRset in the place of a newer one.
* `OneRRset` allows the latter, too, and `CleanUpDropsOnlyExpired` is about
  clean-ups with no store since their read: a store that falls between the lock
  sections of a `GetRRs` may be lost.
* `FitsUDP` lets a reply down to one record exceed the limit, as the last loop of
  `ensureUDPSize` does. The comments in the code have no such exception
  (section 5).
* `StaysClassified` lets a `-load` process that clears Redis take categories away
  from a server that works with it, domain by domain. It is the property of the
  code, which sets no TTL; the README gives categories one (section 5), after
  which a domain would be unclassified.
* `LearnedWasDecided` does not say that the latest decision stays: the goroutines
  that learn run in any order, and an older one may be the last.
* `EveryKeyEnds` leaves out the keys of a pipeline that broke before its EXPIRE:
  they have no expiration until they are read or written again.
* `RejectedIsReplaced` leaves out the policies whose group is
  proxy_ecs_fallback: `Route` returns at `router/router.go:121`, before the check.
* `KeptOut` allows what disable_cache and disable_https forbid in one place: the
  race that `handleIPValidation` starts with a policy without options.
* `NeverPartial` and `InstalledStays` leave out the files that two processes have
  downloaded at once. Both use the name of the destination with `.tmp`: one's
  `os.Create` empties the file the other is copying to, its `os.Rename` installs
  what the other has copied so far, and an installed file that is still open is
  written on.
* `NameserversCarried` asks for distinct tags, none of them `direct`. Without
  that, validation looks at the type of the last outbound of a tag and `main`
  uses the last enabled SOCKS5 one, and an outbound tagged `direct` carries every
  group that names none.
* `EveryStartEnds` counts a hung proxy test as an end: `SOCKS5Outbound.Dial` does
  not pass on the context with its ten seconds.

### Fairness

* `UpstreamGroup`: weak fairness of the collector and of each goroutine. The Go
  scheduler runs every goroutine that can run, and an
  exchange has a timeout of its own (5 s), but for one: the read of `exchangeTCP`
  has no deadline. A group gets there with a TCP nameserver behind a SOCKS5
  outbound, which validation refuses unless the outbound is tagged `direct` or its
  tag is given twice (the cases `NameserversCarried` leaves out). `Returns` and
  `NoLeak`, and what rests on them, are not claimed for such configurations. The
  end of the caller's context is not fair: `handleQuery` passes a context that
  never ends.
* `Fallback`: the same for the call and its queries; queries return because of
  `UpstreamGroup!Returns`. The timer is not fair, so a call returns without it.
* `Router`: weak fairness of each query. What it calls returns, by the two
  modules above. Nothing is assumed of loads, the learning goroutine or expiry.
* `Server`: weak fairness of the handler.
* `CategoryLoad`: weak fairness of each load and of the end of its key scan;
  Redis calls end by their timeouts.
* `Startup`: weak fairness of each process. Downloads end by the HTTP client's
  five minutes, Redis by its own. Signals, crashes and restarts are not fair, so a
  process that listens, or could not, may do so for ever.

`RRCache` and `RedisRRCache` have safety properties only.

## 4. Proofs

TLAPS checks these for every value of the constants that satisfies the
assumptions of the modules (sets of actors and data of any size, any cap, tick
and bounds; finiteness only where sizes are counted). Together they state every
safety property the runs check: each invariant, each action property and the
refinement.

| Theorem | States |
|---|---|
| `RRCacheProofs!Types` | `Spec => []TypeOK` |
| `RRCacheProofs!OneRRsetAlways`, `MaxTTLCapAlways`, `ServedAliveAlways` | records of an entry come from one store; no entry is stored for longer than the cap; nothing is served with a TTL of zero |
| `RRCacheProofs!CleanUpIsExact` | `Spec => CleanUpDropsOnlyExpired` |
| `RedisRRCacheProofs!Types` | `Spec => []TypeOK` |
| `RedisRRCacheProofs!EveryKeyEndsAlways`, `ServedNoLongerAlways` | the two invariants of `RedisRRCache` |
| `RedisRRCacheProofs!ZRemSparesFreshAlways` | `Spec => ZRemSparesFresh` |
| `UpstreamGroupProofs!Types` | `Spec => []TypeOK` |
| `UpstreamGroupProofs!GroupKeepsPromise` | `Spec => Promise!Spec`, the refinement |
| `UpstreamGroupProofs!SendNeverBlocksAlways`, `DropsAfterTheEndAlways` | the channel never blocks; results are dropped after the end only |
| `FallbackProofs!Types` | `Spec => []TypeOK`; the channel holds two results at most, the loop has two rounds |
| `FallbackProofs!DecisionHolds`, `FailuresAreReal`, `LearnedIsDecided` | the three invariants of `Fallback`, for any number of calls |
| `RouterProofs!TypesHold` | `Spec => []TypeOK` |
| `RouterProofs!AnswersAreChains`, `CacheIsGenuine` | answers are linked chains; an entry of the memory cache holds nothing that one given answer did not have, aliases apart |
| `RouterProofs!DirectIsRouted`, `RejectedAreReplaced`, `KeptOutOfCache` | who is asked, what is replaced and what is stored, for any policies |
| `RouterProofs!BlocksHold` | `Spec => BlockHolds` |
| `ServerProofs!Types` | `Spec => []TypeOK` |
| `ServerProofs!CutsAreFromTheEnd`, `CutsAreNeeded`, `RepliesFit` | the three invariants of `Server`, for sections of any length and records of any size |
| `CategoryLoadProofs!TypesHold` | `Spec => []TypeOK` |
| `CategoryLoadProofs!BatchesPartitionAlways`, `SuccessIsCompleteAlways` | loads lose no domain |
| `CategoryLoadProofs!StaysClassifiedAlways` | `Spec => StaysClassified` |
| `StartupProofs!Types` | `Spec => []TypeOK` |
| `StartupProofs!NeverPartialAlways`, `InstalledStaysAlways` | files through downloads, crashes and restarts |
| `StartupProofs!AskableGroupsExistAlways`, `NameserversCarriedAlways` | what an accepted configuration guarantees to a serving process, for any groups, outbounds and policies |

How they go:

* `RRCache`. The invariants are not inductive alone, because what is stored
  passes through the callers' locals. The strengthening says of the lists in
  those locals what the invariants say of `storage`: a list read, filtered or
  about to be stored carries one time stamp that is not in the future and TTLs
  within the cap, the filtered list is not expired by a clock at least as late
  as the chain's, and a list about to be deleted has expired. `ServedAlive` then
  rests on one arithmetic lemma, `AliveForASecond`: a record that has not expired
  by the later clock has at least one whole second left by the earlier one. That
  expired records stay expired (`ExpiredForGood`) gives `CleanUpIsExact`.
* `RedisRRCache`. `EveryKeyEnds` is inductive with the types. `ZRemSparesFresh`
  needs that the score follows from the member, wherever the member is: the
  member a late ZREM finds then expires when the one the reader saw does, which
  was before, or does not decode as that one did not. `ServedNoLonger` needs that the chain's clock is not past the end
  of any record about to be served; `LessThanASecondMore` is the arithmetic.
* `UpstreamGroup`. The refinement needs that the failures received by the
  collector are as many as its rounds and that each came from another nameserver;
  with a counting argument on the channel (results sent, received and waiting)
  this makes "all failed" true, and bounds the channel. It uses the library's
  facts on finite sets and sequences.
* `Fallback`. A call's decision rests on what its loop got, and that on an account
  of where each result is: in the channel at most once (`Once`), and got if it is
  received and no error (`Recorded`). The rounds of the loop are the results and
  the timeout it has received (`Counted`), so a loop that is over without its
  timeout has seen both results, and what it decided (`Decided`) no late result
  can change. `Taught` carries the decision to the learning goroutine.
* `Router`. The invariant has three parts. `Sound` says that the aliases a query
  has walked lead from the name asked to its target, and that every record of
  them, of its answer and of the cache was given, together with all that was ever
  stored (`StoredAsGiven`), since a late clean-up may bring any of it back. The lemmas under it are about
  sequences: in a chain nothing follows a record that is no alias
  (`AloneInChain`), so the filter can only take the last (`FilteredIsChain`), what
  is stored under a key is one record's data (`StoredIsGenuine`), and a chain after
  aliases that lead to it is a chain (`ChainAfterAliases`). `Placed` says, for each
  place in `Route`, whom the query has asked by then and what it holds: a query
  about to refetch has a rejected answer, hence addresses, hence asked for A
  records, so that what replaces it has nothing `disable_https` forbids. The four
  actions that ask a group are instances of one lemma (`AskingStep`).
  `DirectOnlyWhenRouted` adds that whoever is about to ask a fallback group holds a
  rejected answer (`Refused`). `Informed`
  says that what is learned comes from a query that has raced the groups, while
  one that read a block with the cache in order has ended without asking anyone.
* `Server`. A message without its last record is smaller by that record
  (`SizeWithoutLast`), an induction over sums. The invariant `Cut` is an account
  of the loops: each section is a prefix of the router's, whole as long as one
  below it has records, and with the record cut last the message was too big; a TC bit is there from
  upstream, or because the router's message was too big.
* `CategoryLoad`. The partition of the domains is inductive once it is known
  that a load that is about to take a batch holds none, and that one working in
  memory has not written yet. The types need that the map of a load has an entry
  for every domain it is to write (`Held`), and that among the groups that list a
  domain one has the highest rank (`LastIsGroup`, by well-foundedness of the
  numbers). `StaysClassified` then follows from what a write can do (`PutAdds`):
  it gives categories and takes none.
* `Startup`, configuration. The invariant `Validated` says that a process past
  its first step runs under a valid configuration and that one that listens has
  exactly the groups `LoadFromConfig` makes of it. What the groups guarantee is
  then a lemma about `Config` alone.
* `Startup`, files. A crash between two steps makes `NeverPartial` depend on
  whoever holds the temporary file. The invariant `Owned` says, of every file not
  in `crossed`, that at most one process is downloading it (`Alone`), and that
  what this one has written is what its place in the copy says: a prefix of its
  body while it copies, the whole body from then to the rename. A file that is
  installed is passed over at the next start, so nobody who could change it is
  ever there.

Only checked by TLC: everything under fairness (`Returns`, `NoLeak`,
`EveryCallReturns`, `EveryQueryEnds`, `Replies`, `EveryLoadEnds`,
`EveryStartEnds`), which is out of the prover's reach, and the four violations.
The induction rules of the library take an operator as parameter, which the
backends cannot instantiate; where an induction over numbers is needed
(`ServerProofs`, `RouterProofs`, `CategoryLoadProofs`) it goes through a set of
numbers instead, with the library's fact that `<` is well-founded.

What the proofs changed. `CachedAsGiven` had claimed too much of aliases in
loops, and `RejectedIsReplaced` of policies that are never checked; both held in
the instance TLC had then, were not inductive, and the counterexamples to the
induction were behaviours of the code (section 3). The instance now has both: TLC
refutes the two statements without their exceptions. `ZoneAssumption` of `Router`
names what the proofs need of upstreams: an answer is one chain of the name that
was asked to records of the type, as resolvers give it.

## 5. Where the code and its documents differ

Beyond the four runs above, met while modelling:

* `server/server.go:106` says that `ensureUDPSize` makes sure that a UDP response
  does not exceed the limit, and line 135 that records are removed until it is
  met. The loop of line 141 stops at one answer record, so a single record larger
  than the limit is sent above it: TLC refutes `FitsUDP` without its exception as
  soon as one record may be larger than the limit.
* `README.md:233` gives the categories in Redis a configurable TTL, one day by
  default. `Set` (`cache/category_cache.go:108`) and the `MSET` of line 199 write
  them without one, and nothing reads `CategoryCacheConfig.TTL`
  (`config/config.go:77`): a category stays until it is overwritten or cleared,
  as `StaysClassified` states it.
* `-load` without Redis: `main.go:180` tests a cache that is never nil, because
  line 173 puts the one in memory there. The process loads its own memory and
  ends with success; the message of line 181 cannot be reached.
* `README.md:291` gives cron expressions of five fields; the updater's parser
  wants six (`category/updater.go:24`), so that `Start` fails with them, which
  `main.go:320` logs as a warning: there are no updates. The repository's own
  `run/config.yaml:176` has six.
* The update re-reads dlc.dat and never downloads it again; `fallback.update`
  (`README.md:296`) is used by nothing.
* Scenario 3 of `README.md:362` has one upstream group, which validation refuses
  (`config/validate.go:81`).
* `README.md:115-117` describes full, domain and keyword entries. The parser
  drops the type of an entry (`category/parser.go:178`) and every value matches
  the domain and its subdomains. Categories are not read from dlc.dat on demand
  (`README.md:121`) either.
* `config/validate.go:120` speaks of every outbound that is not direct; a
  disabled one is served by direct (`upstream/manager.go:58`).
* `README.md:147-159` lets any policy have `expected_ips`; those of a policy for
  proxy_ecs_fallback are accepted and never checked (`router/router.go:121`).
* Aliases that form a loop in the cache are joined with new ones of the same name
  when the answer is stored (`router/router.go:154`).
* An error of `ListenAndServe` is logged (`server/server.go:48`), and `Start`
  goes on waiting: the process stays up without serving (`deaf` in `Startup`).
  Only when it is told to stop does `Shutdown` of a server that never started
  return an error, and `main.go:331` end the process with status 1. Only UDP is served, whatever `server.protocol` says.
* Queries are not deduplicated (`README.md:436`): singleflight has no caller.
* `total_size_limit` (`README.md:312`) deletes nothing: `middleware/logger.go:317`
  looks for `violet-dns.log*`, and rotated files are named `violet-dns-<time>.log`.

## 6. What is not modelled

* Bytes: DoH and TCP exchanges, `addECS`'s option, protobuf, YAML. Their outcomes
  are free choices of the models. One consequence is out of reach: all goroutines
  of `Group.Query` share one message, which the upstream library may write to.
* Response codes, TTLs and the authority section inside `Router`.
* The logger (formatting and files), the DNS library's reading and writing of
  packets, singleflight (no caller), generated code.
* Code that nothing calls: `CacheResponseByRR`, `ParseResponseToRRCache`,
  `server/handler.go`, `MatchExact`, `DownloadFile`, `FileExists`, the `Close`
  methods.

## 7. Plan

`DNSCachePromise`, an abstract cache (a lookup returns one stored RRset that is
alive, or a miss), implemented by `RRCache` under a refinement mapping. In Redis a
lookup may see half an RRset, so its promise is the weaker one.
