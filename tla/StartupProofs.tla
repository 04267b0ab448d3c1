---------------------------- MODULE StartupProofs -----------------------------
(***************************************************************************)
(* What holds of Startup for every number of servers and -load processes,  *)
(* every configuration and every body a download may get.                  *)
(*                                                                         *)
(* Two arguments, each with its inductive invariant.  The configuration a  *)
(* process has validated is the one its groups are built from (Validated), *)
(* and what Valid accepts is enough for the router and the outbounds       *)
(* (ValidIsEnough, ValidIsCarried).  A file that no two processes download *)
(* at once belongs to the one that does, from Stat to Rename: it has what  *)
(* that process has written and no more (Owned).                           *)
(***************************************************************************)
EXTENDS Startup, TLAPS

LEMMA FileIsOne == ASSUME NEW p \in Processes, DownloadOK PROVE File(p) \in Files
BY DEF DownloadOK, File, Files, Downloads

LEMMA BodiesHaveLength ==
    ASSUME NEW b \in DOMAIN Bodies
    PROVE  Len(Bodies[b]) \in Nat \ {0}
BY ConstantsAssumption

LEMMA ChunksAreContents ==
    ASSUME NEW b \in DOMAIN Bodies, NEW n \in Nat
    PROVE  Chunks(b, n) \in SUBSET (Chunk \cup Absent)
BY DEF Chunks, Chunk

LEMMA AnyBodyIsOne == AnyBody \in DOMAIN Bodies
BY ConstantsAssumption DEF AnyBody

LEMMA DownloadsAreSome ==
    ASSUME NEW p \in Processes
    PROVE  Len(Downloads(p)) \in Nat /\ Len(Downloads(p)) >= 1
BY DEF Downloads

-----------------------------------------------------------------------------
LEMMA TypesInit == Init => TypeOK
<1> SUFFICES ASSUME Init PROVE TypeOK
  OBVIOUS
<1> USE DEF Init
<1>1. FilesOK
  <2>1. PICK start \in Starts : cfg = start.cfg /\ dest = start.files
    OBVIOUS
  <2>2. start.files \in [Files -> {Absent} \cup {Full(b) : b \in DOMAIN Bodies}]
    BY ConstantsAssumption
  <2>3. \A b \in DOMAIN Bodies : Full(b) \in SUBSET (Chunk \cup Absent)
    BY ChunksAreContents, BodiesHaveLength DEF Full
  <2> QED BY <2>1, <2>2, <2>3 DEF FilesOK
<1>2. OpenOK
  BY DEF OpenOK
<1>3. DownloadOK
  BY AnyBodyIsOne, BodiesHaveLength, DownloadsAreSome DEF DownloadOK
<1>4. ProcessOK
  <2>1. \A p \in Processes : MaxStarts[p] \in Nat \ {0}
    BY ConstantsAssumption
  <2> QED BY <2>1 DEF ProcessOK, Steps
<1> QED BY <1>1, <1>2, <1>3, <1>4 DEF TypeOK

(* What a process does with its place, its body and its cursor keeps them  *)
(* typed.                                                                  *)
LEMMA GotoTyped ==
    ASSUME TypeOK, NEW p \in Processes, NEW s \in Steps, Goto(p, s), UNCHANGED <<cfg, parts, starts>>
    PROVE  ProcessOK'
BY DEF TypeOK, ProcessOK, Goto, parts

LEMMA GotoOpen ==
    ASSUME TypeOK, NEW p \in Processes, NEW s, Goto(p, s), s # "copy", pc[p] # "copy",
           open' \in [Processes -> {"tmp", "dest", "gone", "closed"}],
           \A q \in Processes : open'[q] = "closed" <=> open[q] = "closed"
    PROVE  OpenOK'
BY DEF TypeOK, ProcessOK, OpenOK, Goto

LEMMA ReturnedTyped ==
    ASSUME TypeOK, NEW p \in Processes, Returned(p)
    PROVE  /\ body' \in [Processes -> DOMAIN Bodies]
           /\ copied' \in [Processes -> Nat]
           /\ \A q \in Processes : copied'[q] <= Len(Bodies[body'[q]])
BY AnyBodyIsOne, BodiesHaveLength DEF TypeOK, DownloadOK, Returned

LEMMA NextFileTyped ==
    ASSUME TypeOK, NEW p \in Processes, NextFile(p)
    PROVE  DownloadOK' /\ \E s \in {"stat", "redis"} : Goto(p, s)
<1>1. ASSUME NEW q \in Processes
      PROVE  cursor'[q] \in Nat /\ 1 <= cursor'[q] /\ cursor'[q] <= Len(Downloads(q))
  <2>1. Len(Downloads(q)) \in Nat
    BY DownloadsAreSome
  <2>2. cursor'[q] = cursor[q] \/ (cursor'[q] = cursor[q] + 1 /\ cursor[q] < Len(Downloads(q)))
    BY DEF TypeOK, DownloadOK, NextFile
  <2> QED BY <2>1, <2>2 DEF TypeOK, DownloadOK
<1>2. cursor' \in [Processes -> Nat]
  BY <1>1 DEF TypeOK, DownloadOK, NextFile
<1> QED BY <1>1, <1>2, ReturnedTyped DEF NextFile, DownloadOK

LEMMA ExitTyped ==
    ASSUME TypeOK, NEW p \in Processes, Exit(p)
    PROVE  DownloadOK' /\ Goto(p, "exited")
BY ReturnedTyped, DownloadsAreSome DEF TypeOK, DownloadOK, Exit

LEMMA ReopenTyped ==
    ASSUME TypeOK, NEW p \in Processes, NEW to,
           \A n \in DOMAIN to : n # "closed" /\ to[n] \in {"dest", "gone"}
    PROVE  /\ Reopen(p, to) \in [Processes -> {"tmp", "dest", "gone", "closed"}]
           /\ \A q \in Processes : Reopen(p, to)[q] = "closed" <=> open[q] = "closed"
BY DEF TypeOK, OpenOK, Reopen

(* A step that leaves a part alone leaves its type alone. *)
LEMMA FilesKeep == TypeOK /\ UNCHANGED <<dest, tmp, crossed>> => FilesOK'
BY DEF TypeOK, FilesOK

LEMMA OpenKeep == TypeOK /\ UNCHANGED <<open, pc>> => OpenOK'
BY DEF TypeOK, OpenOK

LEMMA DownloadKeep == TypeOK /\ UNCHANGED download => DownloadOK'
BY DEF TypeOK, DownloadOK, download

LEMMA ClosedKeeps ==
    ASSUME TypeOK, NEW p \in Processes, NEW s, Goto(p, s), s # "copy", pc[p] # "copy",
           UNCHANGED open
    PROVE  OpenOK'
BY GotoOpen DEF TypeOK, OpenOK

LEMMA TypesNext == TypeOK /\ [Next]_vars => TypeOK'
<1> SUFFICES ASSUME TypeOK, [Next]_vars PROVE TypeOK'
  OBVIOUS
<1> USE DEF directory
<1>a. \A p \in Processes : File(p) \in Files
  BY FileIsOne DEF TypeOK
<1>b. /\ {"config", "proxy", "stat", "redis", "load", "geoip", "manager", "listen"} \subseteq Steps
      /\ {"serving", "deaf", "hung"} \subseteq Steps
      /\ Downloading \subseteq Steps /\ Ended \subseteq Steps
  BY DEF Steps
<1>1. CASE UNCHANGED vars
  BY <1>1, FilesKeep, OpenKeep, DownloadKeep DEF TypeOK, ProcessOK, vars, parts
<1>2. ASSUME NEW p \in Processes, ReadConfig(p) \/ TestProxy(p) PROVE TypeOK'
  <2>1. /\ UNCHANGED <<cfg, directory, parts, starts, crossed>>
        /\ pc[p] # "copy"
        /\ \/ \E s \in {"proxy", "stat", "hung"} : Goto(p, s) /\ UNCHANGED download
           \/ Exit(p)
    BY <1>2 DEF ReadConfig, TestProxy
  <2>2. DownloadOK' /\ \E s \in Steps \ {"copy"} : Goto(p, s)
    BY <1>b, <2>1, ExitTyped, DownloadKeep DEF Ended
  <2> QED BY <2>1, <2>2, FilesKeep, ClosedKeeps, GotoTyped DEF TypeOK
<1>3. ASSUME NEW p \in Processes, Stat(p) PROVE TypeOK'
  <2>1. pc[p] # "copy" /\ UNCHANGED <<cfg, directory, parts, starts>>
    BY <1>3 DEF Stat
  <2>2. DownloadOK' /\ \E s \in Steps \ {"copy"} : Goto(p, s)
    BY <1>3, <1>b, NextFileTyped, DownloadKeep DEF Stat, Downloading
  <2>3. FilesOK'
    BY <1>3, <1>a, <2>1 DEF TypeOK, FilesOK, Stat
  <2> QED BY <2>1, <2>2, <2>3, ClosedKeeps, GotoTyped DEF TypeOK
<1>4. ASSUME NEW p \in Processes, Remove(p) PROVE TypeOK'
  <2>1. OpenOK'
    BY <1>4, ReopenTyped, GotoOpen DEF Remove, Removed
  <2>2. FilesOK'
    BY <1>4, <1>a DEF TypeOK, FilesOK, Remove
  <2>3. ProcessOK'
    BY <1>4, <1>b, GotoTyped DEF Remove, Downloading
  <2> QED BY <1>4, <2>1, <2>2, <2>3, DownloadKeep DEF TypeOK, Remove
<1>5. ASSUME NEW p \in Processes, Request(p) PROVE TypeOK'
  <2>1. pc[p] # "copy" /\ UNCHANGED <<cfg, directory, parts, starts, crossed>>
    BY <1>5 DEF Request
  <2>2. DownloadOK' /\ \E s \in Steps \ {"copy"} : Goto(p, s)
    <3>1. CASE Exit(p)
      BY <3>1, <1>b, ExitTyped DEF Ended
    <3>2. CASE ~Exit(p)
      <4>1. PICK b \in DOMAIN Bodies :
               /\ Goto(p, "create") /\ cursor' = cursor
               /\ body' = [body EXCEPT ![p] = b]
               /\ copied' = [copied EXCEPT ![p] = 0]
        BY <1>5, <3>2 DEF Request
      <4>2. /\ body' \in [Processes -> DOMAIN Bodies]
            /\ copied' \in [Processes -> Nat]
        BY <4>1 DEF TypeOK, DownloadOK
      <4>3. ASSUME NEW q \in Processes PROVE copied'[q] <= Len(Bodies[body'[q]])
        <5>1. CASE q = p
          BY <4>1, <4>2, <5>1, BodiesHaveLength DEF TypeOK, DownloadOK
        <5>2. CASE q # p
          BY <4>1, <5>2 DEF TypeOK, DownloadOK
        <5> QED BY <5>1, <5>2
      <4> QED BY <1>b, <4>1, <4>2, <4>3 DEF TypeOK, DownloadOK, Downloading
    <3> QED BY <3>1, <3>2
  <2> QED BY <2>1, <2>2, FilesKeep, ClosedKeeps, GotoTyped DEF TypeOK
<1>6. ASSUME NEW p \in Processes, Create(p) PROVE TypeOK'
  <2>1. CASE Exit(p) /\ UNCHANGED <<tmp, open>>
    BY <1>6, <2>1, <1>b, ExitTyped, FilesKeep, ClosedKeeps, GotoTyped DEF TypeOK, Create, Ended
  <2>2. CASE Goto(p, "copy") /\ UNCHANGED download
    <3>1. FilesOK'
      BY <1>6, <1>a DEF TypeOK, FilesOK, Create
    <3>2. OpenOK'
      BY <1>6, <2>2 DEF TypeOK, OpenOK, ProcessOK, Create, Goto, Exit
    <3> QED BY <1>6, <2>2, <1>b, <3>1, <3>2, DownloadKeep, GotoTyped DEF TypeOK, Create, Downloading
  <2> QED BY <1>6, <2>1, <2>2 DEF Create
<1>7. ASSUME NEW p \in Processes, CopyChunk(p) PROVE TypeOK'
  <2> DEFINE chunk == [body |-> body[p], place |-> copied[p] + 1]
  <2>1. chunk \in Chunk
    BY DEF TypeOK, DownloadOK, Chunk
  <2>2. \A c \in SUBSET (Chunk \cup Absent) : Write(c, chunk) \in SUBSET (Chunk \cup Absent)
    BY <2>1 DEF Write
  <2>3. /\ tmp' = IF open[p] = "tmp" THEN [tmp EXCEPT ![File(p)] = Write(@, chunk)] ELSE tmp
        /\ dest' = IF open[p] = "dest" THEN [dest EXCEPT ![File(p)] = Write(@, chunk)] ELSE dest
    BY <1>7 DEF CopyChunk
  <2>4. FilesOK'
    <3> HIDE DEF chunk
    <3> QED BY <1>7, <1>a, <2>2, <2>3 DEF TypeOK, FilesOK, CopyChunk
  <2>5. DownloadOK'
    BY <1>7, BodiesHaveLength DEF TypeOK, DownloadOK, CopyChunk
  <2> QED BY <1>7, <2>4, <2>5, OpenKeep DEF TypeOK, ProcessOK, CopyChunk, parts
<1>8. ASSUME NEW p \in Processes, EndCopy(p) PROVE TypeOK'
  <2>1. \E s \in {"check", "clean"} : Goto(p, s)
    BY <1>8 DEF EndCopy
  <2>2. OpenOK'
    BY <1>8, <2>1 DEF TypeOK, OpenOK, ProcessOK, EndCopy, Goto
  <2> QED BY <1>8, <1>b, <2>1, <2>2, FilesKeep, DownloadKeep, GotoTyped DEF TypeOK, EndCopy, Downloading
<1>9. ASSUME NEW p \in Processes, CheckSize(p) PROVE TypeOK'
  <2>1. \E s \in {"rename", "clean"} : Goto(p, s)
    BY <1>9 DEF CheckSize
  <2> QED BY <1>9, <1>b, <2>1, FilesKeep, ClosedKeeps, DownloadKeep, GotoTyped
          DEF TypeOK, CheckSize, Downloading
<1>10. ASSUME NEW p \in Processes, Rename(p) PROVE TypeOK'
  <2>1. CASE Goto(p, "clean") /\ UNCHANGED <<directory, download>>
    BY <1>10, <1>b, <2>1, FilesKeep, ClosedKeeps, DownloadKeep, GotoTyped
    DEF TypeOK, Rename, Downloading
  <2>2. CASE NextFile(p) /\ open' = Reopen(p, Renamed) /\ tmp[File(p)] # Absent
             /\ dest' = [dest EXCEPT ![File(p)] = tmp[File(p)]]
             /\ tmp' = [tmp EXCEPT ![File(p)] = Absent]
    <3>1. DownloadOK' /\ \E s \in Steps \ {"copy"} : Goto(p, s)
      BY <1>b, <2>2, NextFileTyped
    <3>2. OpenOK'
      BY <1>10, <2>2, <3>1, ReopenTyped, GotoOpen DEF Rename, Renamed
    <3>3. FilesOK'
      BY <1>10, <2>2, <1>a DEF TypeOK, FilesOK, Rename
    <3> QED BY <1>10, <3>1, <3>2, <3>3, GotoTyped DEF TypeOK, Rename
  <2> QED BY <1>10, <2>1, <2>2 DEF Rename
<1>11. ASSUME NEW p \in Processes, Clean(p) PROVE TypeOK'
  <2>1. DownloadOK' /\ Goto(p, "exited")
    BY <1>11, ExitTyped DEF Clean
  <2>2. OpenOK'
    BY <1>11, <2>1, ReopenTyped, GotoOpen DEF Clean, Removed
  <2>3. FilesOK'
    BY <1>11, <1>a DEF TypeOK, FilesOK, Clean
  <2> QED BY <1>11, <1>b, <2>1, <2>2, <2>3, GotoTyped DEF TypeOK, Clean, Ended
<1>12. ASSUME NEW p \in Processes, ConnectRedis(p) \/ OpenGeoIP(p) \/ BuildGroups(p) PROVE TypeOK'
  <2>1. /\ UNCHANGED <<cfg, directory, download, starts, crossed>>
        /\ pc[p] # "copy"
        /\ \E s \in {"load", "geoip", "manager", "listen"} : Goto(p, s)
    BY <1>12 DEF ConnectRedis, OpenGeoIP, BuildGroups
  <2>2. {redis', geoip'} \subseteq [Processes -> BOOLEAN]
    BY <1>12 DEF TypeOK, ProcessOK, ConnectRedis, OpenGeoIP, BuildGroups
  <2>3. /\ DOMAIN groups' = Processes
        /\ \A q \in Processes : groups'[q] = NoGroups \/ DOMAIN groups'[q] = DOMAIN cfg.groups
    BY <1>12 DEF TypeOK, ProcessOK, ConnectRedis, OpenGeoIP, BuildGroups, LoadFromConfig
  <2>4. pc' \in [Processes -> Steps]
    BY <1>b, <2>1 DEF TypeOK, ProcessOK, Goto
  <2>5. ProcessOK'
    BY <2>1, <2>2, <2>3, <2>4 DEF TypeOK, ProcessOK
  <2> QED BY <2>1, <2>5, FilesKeep, ClosedKeeps, DownloadKeep DEF TypeOK
<1>13. ASSUME NEW p \in Processes, Load(p) \/ Signal(p) PROVE TypeOK'
  <2>1. /\ UNCHANGED <<cfg, directory, body, copied, parts, starts, crossed>>
        /\ pc[p] # "copy"
        /\ cursor' = [cursor EXCEPT ![p] = 1]
        /\ \E s \in Ended : Goto(p, s)
    BY <1>13 DEF Load, Signal, Ended
  <2>2. DownloadOK'
    BY <2>1, DownloadsAreSome DEF TypeOK, DownloadOK
  <2> QED BY <1>b, <2>1, <2>2, FilesKeep, ClosedKeeps, GotoTyped DEF TypeOK, Ended
<1>14. ASSUME NEW p \in Processes, Crash(p) PROVE TypeOK'
  <2>1. DownloadOK' /\ Goto(p, "exited")
    BY <1>14, ExitTyped DEF Crash
  <2>2. OpenOK'
    BY <1>14, <2>1 DEF TypeOK, OpenOK, ProcessOK, Crash, Goto
  <2> QED BY <1>14, <1>b, <2>1, <2>2, FilesKeep, GotoTyped DEF TypeOK, Crash, Ended
<1>15. ASSUME NEW p \in Processes, Restart(p) PROVE TypeOK'
  <2>1. \A q \in Processes : 1 <= starts'[q] /\ starts'[q] <= MaxStarts[q]
    <3>1. MaxStarts[p] \in Nat
      BY ConstantsAssumption
    <3> QED BY <1>15, <3>1 DEF TypeOK, ProcessOK, Restart
  <2>2. ProcessOK'
    BY <1>15, <1>b, <2>1 DEF TypeOK, ProcessOK, Restart, Goto
  <2>3. OpenOK'
    BY <1>15, ClosedKeeps DEF Restart, Ended
  <2> QED BY <1>15, <2>2, <2>3, FilesKeep, DownloadKeep DEF TypeOK, Restart
<1>16. ASSUME NEW p \in Processes, Listen(p) PROVE TypeOK'
  <2>1. \E s \in {"serving", "deaf"} : Goto(p, s)
    BY <1>16 DEF Listen
  <2> QED BY <1>16, <1>b, <2>1, FilesKeep, ClosedKeeps, DownloadKeep, GotoTyped DEF TypeOK, Listen
<1> QED
  BY <1>1, <1>2, <1>3, <1>4, <1>5, <1>6, <1>7, <1>8, <1>9, <1>10, <1>11, <1>12, <1>13, <1>14,
     <1>15, <1>16 DEF Next, Step

(* Type correctness of starting processes, however they interleave. *)
THEOREM Types == Spec => []TypeOK
BY TypesInit, TypesNext, PTL DEF Spec

-----------------------------------------------------------------------------
(* Past its first phase a process has a valid configuration, and it serves *)
(* with the groups made from that.                                         *)
Validated ==
    \A p \in Processes :
        /\ pc[p] \notin {"config"} \cup Ended => Valid(cfg)
        /\ pc[p] \in {"listen", "serving"} => groups[p] = LoadFromConfig(cfg)

LEMMA ValidatedInit == Init => Validated
BY DEF Init, Validated

LEMMA ValidatedGoto ==
    ASSUME TypeOK, Validated, NEW p \in Processes, NEW s, Goto(p, s), s \notin {"listen", "serving"},
           s \in {"config"} \cup Ended \/ Valid(cfg), cfg' = cfg,
           \A q \in Processes : q # p => groups'[q] = groups[q]
    PROVE  Validated'
BY DEF TypeOK, ProcessOK, Validated, Goto, Ended

LEMMA ValidatedNext == TypeOK /\ Validated /\ [Next]_vars => Validated'
<1> SUFFICES ASSUME TypeOK, Validated, [Next]_vars PROVE Validated'
  OBVIOUS
<1>1. CASE UNCHANGED vars
  BY <1>1 DEF Validated, vars, parts
<1>2. ASSUME NEW p \in Processes, pc[p] \notin {"config"} \cup Ended, cfg' = cfg, groups' = groups,
             \E s \in Steps \ {"listen", "serving"} : Goto(p, s)
      PROVE  Validated'
  BY <1>2, ValidatedGoto DEF Validated
<1>3. ASSUME NEW p \in Processes, ReadConfig(p) PROVE Validated'
  <2>1. cfg' = cfg /\ groups' = groups
    BY <1>3 DEF ReadConfig, parts
  <2>2. CASE Exit(p)
    BY <2>1, <2>2, ValidatedGoto DEF Exit, Ended
  <2>3. CASE ~Exit(p)
    BY <1>3, <2>1, <2>3, ValidatedGoto DEF ReadConfig
  <2> QED BY <2>2, <2>3
<1>4. ASSUME NEW p \in Processes,
             \/ TestProxy(p) \/ Stat(p) \/ Remove(p) \/ Request(p) \/ Create(p)
             \/ EndCopy(p) \/ CheckSize(p) \/ Rename(p) \/ Clean(p)
      PROVE  Validated'
  <2>1. /\ pc[p] \in {"proxy", "stat"} \cup Downloading
        /\ cfg' = cfg /\ groups' = groups
    BY <1>4 DEF TestProxy, Stat, Remove, Request, Create, EndCopy, CheckSize, Rename, Clean,
                parts, Downloading
  <2>2. \E s \in {"stat", "hung", "redis", "exited"} \cup Downloading : Goto(p, s)
    BY <1>4 DEF TestProxy, Stat, Remove, Request, Create, EndCopy, CheckSize, Rename, Clean,
                Exit, NextFile, Goto, Downloading
  <2> QED BY <1>2, <2>1, <2>2 DEF Steps, Downloading, Ended
<1>5. ASSUME NEW p \in Processes, CopyChunk(p) PROVE Validated'
  BY <1>5 DEF Validated, CopyChunk, parts
<1>6. ASSUME NEW p \in Processes,
             ConnectRedis(p) \/ Load(p) \/ OpenGeoIP(p) \/ Signal(p)
      PROVE  Validated'
  <2>1. /\ pc[p] \notin {"config"} \cup Ended
        /\ cfg' = cfg /\ groups' = groups
    BY <1>6 DEF ConnectRedis, Load, OpenGeoIP, Signal, Ended, parts
  <2>2. \E s \in {"load", "geoip", "manager"} \cup Ended : Goto(p, s)
    BY <1>6 DEF ConnectRedis, Load, OpenGeoIP, Signal, Ended
  <2> QED BY <1>2, <2>1, <2>2 DEF Steps, Ended
<1>7. ASSUME NEW p \in Processes, BuildGroups(p) PROVE Validated'
  BY <1>7 DEF TypeOK, ProcessOK, Validated, BuildGroups, Goto, Ended
<1>8. ASSUME NEW p \in Processes, Restart(p) PROVE Validated'
  BY <1>8, ValidatedGoto DEF TypeOK, ProcessOK, Restart
<1>9. ASSUME NEW p \in Processes, Crash(p) PROVE Validated'
  BY <1>9, ValidatedGoto DEF Crash, Exit, Ended, parts
<1>10. ASSUME NEW p \in Processes, Listen(p) PROVE Validated'
  BY <1>10 DEF TypeOK, ProcessOK, Validated, Listen, Goto, Ended, parts
<1> QED
  BY <1>1, <1>3, <1>4, <1>5, <1>6, <1>7, <1>8, <1>9, <1>10 DEF Next, Step

(* What Valid accepts is enough for every query.                           *)
LEMMA ValidIsEnough == Valid(cfg) => AskableGroups(cfg) \subseteq DOMAIN cfg.groups
<1> SUFFICES ASSUME Valid(cfg), NEW g \in AskableGroups(cfg) PROVE g \in DOMAIN cfg.groups
  OBVIOUS
<1>1. CASE g \in Required
  BY <1>1 DEF Valid, ValidGroups
<1>2. CASE g \notin Required
  <2>1. PICK n \in DOMAIN cfg.policies :
           g \in {cfg.policies[n].group, cfg.policies[n].fallback}
    BY <1>2 DEF AskableGroups
  <2>2. /\ cfg.policies[n].group \in {"block", "proxy_ecs_fallback"} \cup DOMAIN cfg.groups
        /\ cfg.policies[n].fallback \in {""} \cup DOMAIN cfg.groups
    BY DEF Valid, ValidPolicies
  <2> QED BY <2>1, <2>2 DEF AskableGroups
<1> QED BY <1>1, <1>2

(* Over the outbound a group ends up with, each of its nameservers can be  *)
(* exchanged with.                                                         *)
LEMMA ValidIsCarried ==
    ASSUME Valid(cfg), DistinctTags, NEW g \in DOMAIN cfg.groups, NEW ns \in Upstreams(cfg, g)
    PROVE  Exchanges(Carrier(cfg, g), ns)
<1>1. CASE Carrier(cfg, g) = "direct"
  BY <1>1 DEF Exchanges
<1>2. CASE Carrier(cfg, g) # "direct"
  <2>1. "direct" \notin Proxies(cfg)
    BY DEF DistinctTags, Proxies
  <2>2. /\ Carrier(cfg, g) = "socks5"
        /\ cfg.groups[g].outbound \in Proxies(cfg) /\ cfg.groups[g].outbound # ""
    BY <1>2, <2>1 DEF Carrier
  <2>3. PICK n \in DOMAIN cfg.outbounds :
           cfg.outbounds[n].tag = cfg.groups[g].outbound /\ cfg.outbounds[n].type = "socks5"
    BY <2>2 DEF Proxies
  <2>4. cfg.groups[g].outbound # "direct"
    BY <2>3 DEF DistinctTags
  <2>5. ~HasType(cfg, cfg.groups[g].outbound, "direct")
    BY <2>3, <2>4 DEF HasType, DistinctTags
  <2>6. cfg.groups[g].nameservers \subseteq {"https"}
    BY <2>2, <2>4, <2>5 DEF Valid, ValidOutbounds
  <2> QED BY <2>2, <2>6 DEF Upstreams, Exchanges
<1> QED BY <1>1, <1>2

LEMMA ValidatedAlways == Spec => []Validated
BY Types, TypesInit, TypesNext, ValidatedInit, ValidatedNext, PTL DEF Spec

(* A server that passed validation never lacks a group a query asks: for   *)
(* every configuration file there is.                                      *)
THEOREM AskableGroupsExistAlways == Spec => []AskableGroupsExist
<1>1. Validated => AskableGroupsExist
  BY ValidIsEnough DEF Validated, AskableGroupsExist, LoadFromConfig, Ended
<1> QED BY <1>1, ValidatedAlways, PTL

(* Nor an upstream that its outbound cannot carry, if tags are distinct.   *)
THEOREM NameserversCarriedAlways == Spec => []NameserversCarried
<1>1. Validated => NameserversCarried
  <2> SUFFICES ASSUME Validated, DistinctTags, NEW p \in Processes, pc[p] = "serving",
                      NEW g \in DOMAIN groups[p], NEW ns \in groups[p][g].upstreams
               PROVE  Exchanges(groups[p][g].carrier, ns)
    BY DEF NameserversCarried
  <2>1. Valid(cfg) /\ groups[p] = LoadFromConfig(cfg)
    BY DEF Validated, Ended
  <2>2. /\ g \in DOMAIN cfg.groups
        /\ groups[p][g].carrier = Carrier(cfg, g)
        /\ groups[p][g].upstreams = Upstreams(cfg, g)
    BY <2>1 DEF LoadFromConfig
  <2> QED BY <2>1, <2>2, ValidIsCarried
<1> QED BY <1>1, ValidatedAlways, PTL

-----------------------------------------------------------------------------
(* A process that downloads a file alone owns it: the file is not there,   *)
(* or is about to be removed, and the temporary file has exactly what the  *)
(* process has written.                                                    *)
Owner(p) == pc[p] \in Downloading /\ File(p) \notin crossed
Holds(p) ==
    /\ pc[p] = "remove" => ~Sound(dest[File(p)])
    /\ pc[p] # "remove" => dest[File(p)] = Absent
    /\ pc[p] = "create" => copied[p] = 0
    /\ pc[p] = "copy" => open[p] = "tmp" /\ tmp[File(p)] = Chunks(body[p], copied[p])
    /\ pc[p] \in {"check", "rename"} => tmp[File(p)] = Full(body[p])
Alone == \A p, q \in Processes : Owner(p) /\ Owner(q) /\ File(p) = File(q) => p = q
Owned ==
    /\ Alone
    /\ \A p \in Processes : Owner(p) => Holds(p)
    /\ NeverPartial

(* A step of p on the file it downloads leaves the files of the others.    *)
LEMMA OwnedStep ==
    ASSUME TypeOK, Owned, NEW p \in Processes, pc[p] \in Downloading,
           crossed' = crossed, NEW step, Goto(p, step),
           step \in Downloading => cursor' = cursor,
           \A q \in Processes : q # p =>
               cursor'[q] = cursor[q] /\ body'[q] = body[q] /\ copied'[q] = copied[q],
           \A q \in Processes : q # p /\ File(q) # File(p) => open'[q] = open[q],
           \A f \in Files : f # File(p) => dest'[f] = dest[f] /\ tmp'[f] = tmp[f],
           Owner(p)' => Holds(p)',
           File(p) \notin crossed =>
               dest'[File(p)] = Absent \/ \E b \in DOMAIN Bodies : dest'[File(p)] = Full(b)
    PROVE  Owned'
<1>1. \A q \in Processes : q # p => pc'[q] = pc[q] /\ File(q)' = File(q)
  BY DEF TypeOK, ProcessOK, Goto, File
<1>2. pc'[p] = step
  BY DEF TypeOK, ProcessOK, Goto
<1>3. pc'[p] \in Downloading => File(p)' = File(p)
  BY <1>2 DEF File
<1>4. \A q \in Processes : Owner(q)' => Owner(q)
  BY <1>1, <1>3 DEF Owner
<1>5. Alone'
  BY <1>1, <1>3, <1>4 DEF Owned, Alone, Owner
<1>6. ASSUME NEW q \in Processes, q # p, Owner(q)' PROVE Holds(q)'
  <2>1. Owner(q) /\ Holds(q) /\ File(q) # File(p)
    BY <1>4, <1>6 DEF Owned, Alone, Owner
  <2>2. File(q) \in Files
    BY FileIsOne DEF TypeOK
  <2>3. /\ dest'[File(q)] = dest[File(q)] /\ tmp'[File(q)] = tmp[File(q)]
        /\ open'[q] = open[q] /\ body'[q] = body[q] /\ copied'[q] = copied[q]
    BY <1>6, <2>1, <2>2
  <2> QED BY <1>1, <1>6, <2>1, <2>3 DEF Holds, Sound
<1>7. NeverPartial'
  BY DEF Owned, NeverPartial
<1> QED BY <1>5, <1>6, <1>7 DEF Owned

(* A step that touches no file and leaves p with none.                     *)
LEMMA OwnedIdle ==
    ASSUME TypeOK, Owned, NEW p \in Processes, UNCHANGED <<dest, tmp, crossed>>,
           NEW step, Goto(p, step), step \notin Downloading,
           \A q \in Processes : q # p =>
               cursor'[q] = cursor[q] /\ body'[q] = body[q] /\ copied'[q] = copied[q]
                 /\ open'[q] = open[q]
    PROVE  Owned'
<1>1. \A q \in Processes : q # p => pc'[q] = pc[q] /\ File(q)' = File(q)
  BY DEF TypeOK, ProcessOK, Goto, File
<1>2. \A q \in Processes : Owner(q)' => Owner(q) /\ q # p
  BY <1>1 DEF TypeOK, ProcessOK, Goto, Owner
<1>3. Alone'
  BY <1>1, <1>2 DEF Owned, Alone
<1>4. \A q \in Processes : Owner(q)' => Holds(q)'
  BY <1>1, <1>2 DEF Owned, Holds, Sound
<1>5. NeverPartial'
  BY DEF Owned, NeverPartial
<1> QED BY <1>3, <1>4, <1>5 DEF Owned

LEMMA OwnedInit == Init => Owned
<1> SUFFICES ASSUME Init PROVE Owned
  OBVIOUS
<1>1. \A p \in Processes : ~Owner(p)
  BY DEF Init, Owner, Downloading
<1>2. NeverPartial
  <2>1. PICK start \in Starts : dest = start.files
    BY DEF Init
  <2>2. dest \in [Files -> {Absent} \cup {Full(b) : b \in DOMAIN Bodies}]
    BY <2>1, ConstantsAssumption
  <2> QED BY <2>2 DEF NeverPartial
<1> QED BY <1>1, <1>2 DEF Owned, Alone

LEMMA WriteAppends ==
    ASSUME NEW b, NEW n \in Nat
    PROVE  Write(Chunks(b, n), [body |-> b, place |-> n + 1]) = Chunks(b, n + 1)
<1>1. \A k \in 1..n : k # n + 1
  OBVIOUS
<1>2. 1..(n + 1) = (1..n) \cup {n + 1}
  OBVIOUS
<1> QED BY <1>1, <1>2 DEF Write, Chunks

LEMMA NothingWritten == \A b : Chunks(b, 0) = {}
BY DEF Chunks

LEMMA AbsentNotSound == ~Sound(Absent)
BY DEF Sound

(* What a step does to the variables of other processes: nothing, except   *)
(* that it may rename or remove the file one of them has open.             *)
LEMMA OthersKeep ==
    ASSUME TypeOK, NEW p \in Processes, NEW q \in Processes, q # p
    PROVE  /\ Returned(p) => body'[q] = body[q] /\ copied'[q] = copied[q]
           /\ Exit(p) => cursor'[q] = cursor[q] /\ body'[q] = body[q] /\ copied'[q] = copied[q]
           /\ NextFile(p) => cursor'[q] = cursor[q] /\ body'[q] = body[q] /\ copied'[q] = copied[q]
           /\ \A to : File(q) # File(p) => Reopen(p, to)[q] = open[q]
BY DEF TypeOK, DownloadOK, Returned, Exit, NextFile, Reopen

LEMMA StatOwned == ASSUME TypeOK, Owned, NEW p \in Processes, Stat(p) PROVE Owned'
<1>1. UNCHANGED <<dest, tmp, open>> /\ pc[p] = "stat"
  BY DEF Stat, directory
<1>2. CASE Sound(dest[File(p)])
  <2>1. NextFile(p) /\ crossed' = crossed
    BY <1>2 DEF Stat
  <2>2. \E s \in {"stat", "redis"} : Goto(p, s)
    BY <2>1, NextFileTyped
  <2> QED BY <1>1, <2>1, <2>2, OthersKeep, OwnedIdle DEF Downloading
<1>3. CASE ~Sound(dest[File(p)])
  <2>1. /\ UNCHANGED download
        /\ Goto(p, IF dest[File(p)] = Absent THEN "request" ELSE "remove")
        /\ crossed' = crossed \cup
             {File(q) : q \in {r \in Processes : pc[r] \in Downloading /\ File(r) = File(p)}}
    BY <1>3 DEF Stat
  <2>2. \A q \in Processes : File(q)' = File(q) /\ (q # p => pc'[q] = pc[q])
    BY <2>1 DEF TypeOK, ProcessOK, Goto, File, download
  <2>3. pc'[p] = (IF dest[File(p)] = Absent THEN "request" ELSE "remove")
    BY <2>1 DEF TypeOK, ProcessOK, Goto
  <2>4. \A q \in Processes : q # p /\ Owner(q)' => Owner(q) /\ File(q) # File(p)
    BY <2>1, <2>2 DEF Owner
  <2>5. Alone'
    BY <2>2, <2>4 DEF Owned, Alone
  <2>6. \A q \in Processes : q # p /\ Owner(q)' => Holds(q)'
    BY <1>1, <2>1, <2>2, <2>4 DEF Owned, Holds, Sound, download
  <2>7. Holds(p)'
    BY <1>1, <1>3, <2>2, <2>3 DEF Holds, Sound
  <2>8. NeverPartial'
    BY <1>1, <2>1 DEF Owned, NeverPartial
  <2> QED BY <2>5, <2>6, <2>7, <2>8 DEF Owned
<1> QED BY <1>2, <1>3

LEMMA CopyOwned == ASSUME TypeOK, Owned, NEW p \in Processes, CopyChunk(p) PROVE Owned'
<1> USE DEF CopyChunk
<1>1. /\ pc[p] \in Downloading /\ Goto(p, "copy") /\ crossed' = crossed
      /\ UNCHANGED <<cursor, body, open>>
  BY DEF TypeOK, ProcessOK, Goto, Downloading
<1>2. \A q \in Processes : q # p => copied'[q] = copied[q]
  BY DEF TypeOK, DownloadOK
<1>3. File(p) \in Files /\ File(p)' = File(p) /\ pc' = pc
  BY FileIsOne DEF TypeOK, File
<1>4. \A f \in Files : f # File(p) => dest'[f] = dest[f] /\ tmp'[f] = tmp[f]
  BY <1>3 DEF TypeOK, FilesOK
<1>5. ASSUME File(p) \notin crossed
      PROVE  dest' = dest /\ tmp'[File(p)] = Chunks(body[p], copied[p] + 1)
  <2>1. open[p] = "tmp" /\ tmp[File(p)] = Chunks(body[p], copied[p])
    BY <1>1, <1>5 DEF Owned, Owner, Holds
  <2>2. tmp'[File(p)] = Write(tmp[File(p)], [body |-> body[p], place |-> copied[p] + 1])
    BY <1>3, <2>1 DEF TypeOK, FilesOK
  <2> QED BY <2>1, <2>2, WriteAppends DEF TypeOK, DownloadOK
<1>6. copied'[p] = copied[p] + 1
  BY DEF TypeOK, DownloadOK
<1>7. Owner(p)' => Holds(p)'
  <2> SUFFICES ASSUME Owner(p)' PROVE Holds(p)'
    OBVIOUS
  <2>1. Owner(p) /\ Holds(p)
    BY <1>1, <1>3 DEF Owned, Owner
  <2> QED BY <1>1, <1>3, <1>5, <1>6, <2>1 DEF Owner, Holds, Sound
<1>8. File(p) \notin crossed =>
        dest'[File(p)] = Absent \/ \E b \in DOMAIN Bodies : dest'[File(p)] = Full(b)
  BY <1>3, <1>5 DEF Owned, NeverPartial
<1> HIDE DEF CopyChunk
<1> QED BY <1>1, <1>2, <1>4, <1>7, <1>8, OwnedStep

LEMMA RenameOwned == ASSUME TypeOK, Owned, NEW p \in Processes, Rename(p) PROVE Owned'
<1>1. pc[p] = "rename" /\ pc[p] \in Downloading /\ crossed' = crossed /\ File(p) \in Files
  BY FileIsOne DEF Rename, TypeOK, Downloading
<1>2. CASE Goto(p, "clean") /\ UNCHANGED <<directory, download>>
  <2>1. pc'[p] = "clean" /\ File(p)' = File(p)
    BY <1>2 DEF TypeOK, ProcessOK, Goto, File, download
  <2>2. Owner(p)' => Holds(p)'
    BY <1>1, <1>2, <2>1 DEF Owned, Owner, Holds, Downloading, directory
  <2>3. File(p) \notin crossed =>
          dest'[File(p)] = Absent \/ \E b \in DOMAIN Bodies : dest'[File(p)] = Full(b)
    BY <1>1, <1>2 DEF Owned, NeverPartial, directory
  <2> QED BY <1>1, <1>2, <2>2, <2>3, OwnedStep DEF directory, download
<1>3. CASE /\ NextFile(p) /\ open' = Reopen(p, Renamed)
           /\ dest' = [dest EXCEPT ![File(p)] = tmp[File(p)]]
           /\ tmp' = [tmp EXCEPT ![File(p)] = Absent]
  <2>1. PICK step \in {"stat", "redis"} : Goto(p, step)
    BY <1>3, NextFileTyped
  <2>2. ~Owner(p)'
    BY <2>1 DEF TypeOK, ProcessOK, Goto, Owner, Downloading
  <2>3. \A f \in Files : f # File(p) => dest'[f] = dest[f] /\ tmp'[f] = tmp[f]
    BY <1>3 DEF TypeOK, FilesOK
  <2>4. File(p) \notin crossed => dest'[File(p)] = Full(body[p])
    BY <1>1, <1>3 DEF TypeOK, FilesOK, Owned, Owner, Holds
  <2>5. body[p] \in DOMAIN Bodies
    BY DEF TypeOK, DownloadOK
  <2>6. step \notin Downloading
    BY <2>1 DEF Downloading
  <2> QED BY <1>1, <1>3, <2>1, <2>2, <2>3, <2>4, <2>5, <2>6, OthersKeep, OwnedStep
<1> QED BY <1>2, <1>3 DEF Rename

LEMMA OwnedNext == TypeOK /\ Owned /\ [Next]_vars => Owned'
<1> SUFFICES ASSUME TypeOK, Owned, [Next]_vars PROVE Owned'
  OBVIOUS
<1>1. CASE UNCHANGED vars
  <2>1. UNCHANGED <<dest, tmp, open, pc, cursor, body, copied, crossed>>
    BY <1>1 DEF vars, directory, download
  <2>2. \A p \in Processes : (Owner(p)' <=> Owner(p)) /\ File(p)' = File(p) /\ Holds(p)' = Holds(p)
    BY <2>1 DEF Owner, File, Holds, Sound
  <2>3. Alone' /\ NeverPartial'
    BY <2>1, <2>2 DEF Owned, Alone, NeverPartial
  <2> QED BY <2>2, <2>3 DEF Owned
<1>a. \A p \in Processes : File(p) \in Files
  BY FileIsOne DEF TypeOK
<1>2. ASSUME NEW p \in Processes, pc[p] \in Downloading, crossed' = crossed, UNCHANGED <<dest, tmp>>,
             NEW step \in Downloading, Goto(p, step), cursor' = cursor,
             \A q \in Processes : q # p =>
                 body'[q] = body[q] /\ copied'[q] = copied[q] /\ open'[q] = open[q],
             Owner(p)' => Holds(p)'
      PROVE  Owned'
  BY <1>2, <1>a, OwnedStep DEF Owned, NeverPartial
<1>3. ASSUME NEW p \in Processes, Exit(p), UNCHANGED <<dest, tmp, crossed>>,
             \A q \in Processes : q # p => open'[q] = open[q]
      PROVE  Owned'
  BY <1>3, OthersKeep, ExitTyped, OwnedIdle DEF Downloading
<1>4. ASSUME NEW p \in Processes, UNCHANGED <<dest, tmp, crossed, open, body, copied>>,
             \A q \in Processes : q # p => cursor'[q] = cursor[q],
             NEW step, Goto(p, step), step \notin Downloading
      PROVE  Owned'
  BY <1>4, OwnedIdle
<1>5. ASSUME NEW p \in Processes, ReadConfig(p) \/ TestProxy(p) PROVE Owned'
  <2>1. UNCHANGED <<dest, tmp, open, crossed>>
    BY <1>5 DEF ReadConfig, TestProxy, directory
  <2>2. Exit(p) \/ ((\E s \in {"proxy", "stat", "hung"} : Goto(p, s)) /\ UNCHANGED download)
    BY <1>5 DEF ReadConfig, TestProxy
  <2> QED BY <1>3, <1>4, <2>1, <2>2 DEF Downloading, download
<1>6. ASSUME NEW p \in Processes, Remove(p) PROVE Owned'
  <2>1. /\ pc[p] = "remove" /\ crossed' = crossed /\ UNCHANGED <<cursor, body, copied, tmp>>
        /\ Goto(p, "request")
        /\ dest' = [dest EXCEPT ![File(p)] = Absent]
        /\ open' = Reopen(p, Removed("dest"))
    BY <1>6 DEF Remove, download
  <2>2. dest'[File(p)] = Absent /\ \A f \in Files : f # File(p) => dest'[f] = dest[f]
    BY <1>a, <2>1 DEF TypeOK, FilesOK
  <2>3. pc'[p] = "request" /\ File(p)' = File(p)
    BY <2>1 DEF TypeOK, ProcessOK, Goto, File
  <2>4. Holds(p)'
    BY <2>2, <2>3 DEF Holds
  <2> QED BY <2>1, <2>2, <2>4, OthersKeep, OwnedStep DEF Downloading
<1>7. ASSUME NEW p \in Processes, Request(p) PROVE Owned'
  <2>1. pc[p] = "request" /\ UNCHANGED <<dest, tmp, open, crossed>>
    BY <1>7 DEF Request, directory
  <2>2. CASE Exit(p)
    BY <1>3, <2>1, <2>2
  <2>3. CASE ~Exit(p)
    <3>1. /\ Goto(p, "create") /\ cursor' = cursor
          /\ copied'[p] = 0
          /\ \A q \in Processes : q # p => body'[q] = body[q] /\ copied'[q] = copied[q]
      BY <1>7, <2>3 DEF TypeOK, DownloadOK, Request
    <3>2. pc'[p] = "create" /\ File(p)' = File(p)
      BY <3>1 DEF TypeOK, ProcessOK, Goto, File
    <3>3. Owner(p)' => Holds(p)'
      BY <2>1, <3>1, <3>2 DEF Owned, Owner, Holds, Downloading
    <3> QED BY <1>2, <2>1, <3>1, <3>3 DEF Downloading
  <2> QED BY <2>2, <2>3
<1>8. ASSUME NEW p \in Processes, Create(p) PROVE Owned'
  <2>1. pc[p] = "create" /\ UNCHANGED <<dest, crossed>>
    BY <1>8 DEF Create
  <2>2. CASE Exit(p) /\ UNCHANGED <<tmp, open>>
    BY <1>3, <2>1, <2>2
  <2>3. CASE /\ Goto(p, "copy") /\ UNCHANGED download
             /\ tmp' = [tmp EXCEPT ![File(p)] = {}]
             /\ open' = [open EXCEPT ![p] = "tmp"]
    <3>1. /\ pc'[p] = "copy" /\ File(p)' = File(p) /\ open'[p] = "tmp"
          /\ \A q \in Processes : q # p => open'[q] = open[q]
      BY <2>3 DEF TypeOK, ProcessOK, OpenOK, Goto, File, download
    <3>2. tmp'[File(p)] = {} /\ \A f \in Files : f # File(p) => tmp'[f] = tmp[f]
      BY <1>a, <2>3 DEF TypeOK, FilesOK
    <3>3. ASSUME Owner(p)' PROVE Holds(p)'
      <4>1. Owner(p) /\ dest'[File(p)] = Absent
        BY <2>1, <3>1, <3>3 DEF Owned, Owner, Holds, Downloading
      <4>2. copied'[p] = 0
        BY <2>1, <2>3, <4>1 DEF Owned, Holds, download
      <4> QED BY <3>1, <3>2, <4>1, <4>2, NothingWritten DEF Holds
    <3>4. File(p) \notin crossed =>
            dest'[File(p)] = Absent \/ \E b \in DOMAIN Bodies : dest'[File(p)] = Full(b)
      BY <1>a, <2>1 DEF Owned, NeverPartial
    <3> QED BY <2>1, <2>3, <3>1, <3>2, <3>3, <3>4, OwnedStep DEF download, Downloading
  <2> QED BY <1>8, <2>2, <2>3 DEF Create
<1>9. ASSUME NEW p \in Processes, EndCopy(p) PROVE Owned'
  <2>1. /\ pc[p] = "copy" /\ UNCHANGED <<dest, tmp, crossed, cursor, body, copied>>
        /\ \A q \in Processes : q # p => open'[q] = open[q]
        /\ \/ copied[p] = Len(Bodies[body[p]]) /\ Goto(p, "check")
           \/ Goto(p, "clean")
    BY <1>9 DEF EndCopy, TypeOK, OpenOK, download
  <2>2. File(p)' = File(p) /\ pc'[p] \in {"check", "clean"}
        /\ (pc'[p] = "check" => copied[p] = Len(Bodies[body[p]]))
    BY <2>1 DEF TypeOK, ProcessOK, Goto, File
  <2>3. ASSUME Owner(p)' PROVE Holds(p)'
    <3>1. Owner(p) /\ Holds(p)
      BY <2>1, <2>2, <2>3 DEF Owned, Owner, Downloading
    <3> QED BY <2>1, <2>2, <3>1 DEF Holds, Full, Sound
  <2> QED BY <1>2, <2>1, <2>3 DEF Downloading
<1>10. ASSUME NEW p \in Processes, CheckSize(p) PROVE Owned'
  <2>1. /\ pc[p] = "check" /\ UNCHANGED <<dest, tmp, open, crossed, cursor, body, copied>>
        /\ \E s \in {"clean", "rename"} : Goto(p, s)
    BY <1>10 DEF CheckSize, directory, download
  <2>2. File(p)' = File(p) /\ pc'[p] \in {"clean", "rename"}
    BY <2>1 DEF TypeOK, ProcessOK, Goto, File
  <2>3. ASSUME Owner(p)' PROVE Holds(p)'
    <3>1. Owner(p) /\ Holds(p)
      BY <2>1, <2>2, <2>3 DEF Owned, Owner, Downloading
    <3> QED BY <2>1, <2>2, <3>1 DEF Holds, Full, Sound
  <2> QED BY <1>2, <2>1, <2>3 DEF Downloading
<1>11. ASSUME NEW p \in Processes, Clean(p) PROVE Owned'
  <2>1. /\ pc[p] = "clean" /\ Exit(p) /\ UNCHANGED <<dest, crossed>>
        /\ tmp' = [tmp EXCEPT ![File(p)] = Absent]
        /\ open' = Reopen(p, Removed("tmp"))
    BY <1>11 DEF Clean
  <2>2. Goto(p, "exited")
    BY <2>1, ExitTyped
  <2>3. \A f \in Files : f # File(p) => tmp'[f] = tmp[f]
    BY <2>1 DEF TypeOK, FilesOK
  <2>4. ~Owner(p)'
    BY <2>2 DEF TypeOK, ProcessOK, Goto, Owner, Downloading
  <2>5. File(p) \notin crossed =>
          dest'[File(p)] = Absent \/ \E b \in DOMAIN Bodies : dest'[File(p)] = Full(b)
    BY <1>a, <2>1 DEF Owned, NeverPartial
  <2> QED BY <2>1, <2>2, <2>3, <2>4, <2>5, OthersKeep, OwnedStep DEF Downloading
<1>12. ASSUME NEW p \in Processes,
              \/ ConnectRedis(p) \/ Load(p) \/ OpenGeoIP(p) \/ BuildGroups(p)
              \/ Listen(p) \/ Signal(p) \/ Restart(p)
       PROVE  Owned'
  <2>1. /\ UNCHANGED <<dest, tmp, crossed, open, body, copied>>
        /\ \A q \in Processes : q # p => cursor'[q] = cursor[q]
    BY <1>12 DEF ConnectRedis, Load, OpenGeoIP, BuildGroups, Listen, Signal, Restart, directory,
                 download, TypeOK, DownloadOK
  <2>2. \E s \in {"load", "geoip", "manager", "listen", "serving", "deaf", "config"} \cup Ended : Goto(p, s)
    BY <1>12 DEF ConnectRedis, Load, OpenGeoIP, BuildGroups, Listen, Signal, Restart, Ended
  <2> QED BY <1>4, <2>1, <2>2 DEF Downloading, Ended
<1>13. ASSUME NEW p \in Processes, Crash(p) PROVE Owned'
  BY <1>3, <1>13 DEF Crash, TypeOK, OpenOK
<1> QED
  BY <1>1, <1>5, <1>6, <1>7, <1>8, <1>9, <1>10, <1>11, <1>12, <1>13,
     StatOwned, CopyOwned, RenameOwned DEF Next, Step

LEMMA OwnedAlways == Spec => [](TypeOK /\ Owned)
BY TypesInit, TypesNext, OwnedInit, OwnedNext, PTL DEF Spec

(* No crash, failure or restart leaves part of a file in its place.        *)
THEOREM NeverPartialAlways == Spec => []NeverPartial
<1>1. Owned => NeverPartial
  BY DEF Owned
<1> QED BY <1>1, OwnedAlways, PTL

(* Nor does it touch a file that is installed.                             *)
THEOREM InstalledStaysAlways == Spec => InstalledStays
<1>1. TypeOK /\ Owned /\ [Next]_vars
        => [\A f \in Files : Stays(f)]_vars
  <2> SUFFICES ASSUME TypeOK, Owned, [Next]_vars, NEW f \in Files,
                      Installed(dest[f]), f \notin crossed
               PROVE  dest'[f] = dest[f]
    BY DEF Stays
  <2>1. ASSUME NEW p \in Processes, Remove(p) \/ Rename(p) PROVE dest'[f] = dest[f]
    <3>1. File(p) # f
      BY <2>1, AbsentNotSound DEF Owned, Owner, Holds, Installed, Remove, Rename, Downloading, Sound
    <3> QED BY <2>1, <3>1 DEF TypeOK, FilesOK, Remove, Rename, directory
  <2>2. ASSUME NEW p \in Processes, CopyChunk(p) PROVE dest'[f] = dest[f]
    <3>1. File(p) = f => open[p] = "tmp"
      BY <2>2 DEF Owned, Owner, Holds, CopyChunk, Downloading
    <3> QED BY <2>2, <3>1 DEF TypeOK, FilesOK, CopyChunk
  <2>3. CASE UNCHANGED dest
    BY <2>3
  <2> QED
    BY <2>1, <2>2, <2>3
    DEF Next, Step, ReadConfig, TestProxy, Stat, Request, Create, EndCopy, CheckSize, Clean,
        ConnectRedis, Load, OpenGeoIP, BuildGroups, Listen, Signal, Crash, Restart, directory, vars
<1> QED BY <1>1, OwnedAlways, PTL DEF Spec, InstalledStays
=============================================================================
