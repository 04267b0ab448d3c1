------------------------------- MODULE Startup --------------------------------
(***************************************************************************)
(* Starting processes (main.go) that share a directory: servers, and       *)
(* processes with -load.  Each reads the configuration, tests the download *)
(* proxy, downloads the files it lacks (utils/download.go), tries Redis,   *)
(* and then loads the categories and ends, or builds its upstream groups   *)
(* and serves.  A process may be killed at any step and is started again.  *)
(*                                                                         *)
(* A file is the set of the chunks written to it, each a body and its place*)
(* there; a body, what a server may answer a download with, is the sequence*)
(* of the sizes the file has after each of its chunks.                     *)
(***************************************************************************)
EXTENDS Config, FiniteSets

CONSTANTS Processes,
          Loaders,     \* those started with -load
          Bodies,      \* bodies, by name
          Whole,       \* the names of those that can be loaded or opened
          Starts,      \* configurations, each with the files in the directory
          MaxStarts    \* bounds on the starts of each process

Chunk == [body : DOMAIN Bodies, place : Nat]
NoChunk == [body |-> "none", place |-> 0]
Absent == {NoChunk}

Files == {"dlc.dat", "Country.mmdb", "GeoLite2-ASN.mmdb"}
Downloads(p) ==
    IF p \in Loaders THEN <<"dlc.dat">> ELSE <<"dlc.dat", "Country.mmdb", "GeoLite2-ASN.mmdb">>

Chunks(b, n) == {[body |-> b, place |-> k] : k \in 1..n}
Full(b) == Chunks(b, Len(Bodies[b]))

(* os.Stat's size is over 1 KiB. *)
Sound(contents) == contents # Absent /\ \E c \in contents : Bodies[c.body][c.place] > 1024
Installed(contents) == Sound(contents) /\ \E b \in DOMAIN Bodies : contents = Full(b)

ASSUME ConstantsAssumption ==
    /\ Loaders \subseteq Processes
    /\ DOMAIN Bodies # {} /\ "none" \notin DOMAIN Bodies
    /\ \A b \in DOMAIN Bodies : Bodies[b] \in Seq(Nat \ {0}) /\ Bodies[b] # <<>>
    /\ Whole \subseteq DOMAIN Bodies
    /\ \A start \in Starts :
          start.files \in [Files -> {Absent} \cup {Full(b) : b \in DOMAIN Bodies}]
    /\ MaxStarts \in [Processes -> Nat \ {0}]

VARIABLES cfg,      \* what the configuration file holds
          dest,     \* the files
          tmp,      \* and the temporary ones of their downloads
          pc,       \* where each process is
          cursor,   \* which of its downloads it is at
          body,     \* what the server answered
          copied,   \* chunks of it that io.Copy has written
          open,     \* the name its open file has now: "tmp", "dest", or
                    \* "gone" when it has none, "closed" without one
          redis,    \* it has a Redis client
          geoip,    \* its GeoIP matcher has databases
          groups,   \* its upstream groups
          starts,   \* its starts so far, counted for MaxStarts
          crossed   \* files two processes have downloaded at once (history)

directory == <<dest, tmp, open>>
download == <<cursor, body, copied>>
parts == <<redis, geoip, groups>>
vars == <<cfg, directory, pc, download, parts, starts, crossed>>

Downloading == {"remove", "request", "create", "copy", "check", "rename", "clean"}
Ended == {"exited", "loaded", "stopped"}
Steps == {"config", "proxy", "stat", "redis", "load", "geoip", "manager", "listen",
          "serving", "deaf", "hung"}
           \cup Downloading \cup Ended

File(p) == Downloads(p)[cursor[p]]
NoGroups == [g \in {} |-> ""]

FilesOK ==
    /\ {dest, tmp} \subseteq [Files -> SUBSET (Chunk \cup Absent)]
    /\ crossed \subseteq Files
OpenOK ==
    /\ open \in [Processes -> {"tmp", "dest", "gone", "closed"}]
    /\ \A p \in Processes : open[p] # "closed" <=> pc[p] = "copy"
DownloadOK ==
    /\ cursor \in [Processes -> Nat]
    /\ \A p \in Processes : 1 <= cursor[p] /\ cursor[p] <= Len(Downloads(p))
    /\ body \in [Processes -> DOMAIN Bodies]
    /\ copied \in [Processes -> Nat]
    /\ \A p \in Processes : copied[p] <= Len(Bodies[body[p]])
ProcessOK ==
    /\ pc \in [Processes -> Steps]
    /\ {redis, geoip} \subseteq [Processes -> BOOLEAN]
    /\ DOMAIN groups = Processes
    /\ \A p \in Processes : groups[p] = NoGroups \/ DOMAIN groups[p] = DOMAIN cfg.groups
    /\ starts \in [Processes -> Nat]
    /\ \A p \in Processes : 1 <= starts[p] /\ starts[p] <= MaxStarts[p]
TypeOK == FilesOK /\ OpenOK /\ DownloadOK /\ ProcessOK

-----------------------------------------------------------------------------
AnyBody == CHOOSE b \in DOMAIN Bodies : TRUE

Init ==
    /\ \E start \in Starts : cfg = start.cfg /\ dest = start.files
    /\ tmp = [f \in Files |-> Absent]
    /\ pc = [p \in Processes |-> "config"]
    /\ cursor = [p \in Processes |-> 1]
    /\ body = [p \in Processes |-> AnyBody]
    /\ copied = [p \in Processes |-> 0]
    /\ open = [p \in Processes |-> "closed"]
    /\ redis = [p \in Processes |-> FALSE]
    /\ geoip = [p \in Processes |-> FALSE]
    /\ groups = [p \in Processes |-> NoGroups]
    /\ starts = [p \in Processes |-> 1]
    /\ crossed = {}

Goto(p, step) == pc' = [pc EXCEPT ![p] = step]

(* A call of DownloadFileWithOutbound returns, and its variables are gone. *)
Returned(p) ==
    /\ body' = [body EXCEPT ![p] = AnyBody]
    /\ copied' = [copied EXCEPT ![p] = 0]

(* os.Exit: so are the variables of the process. *)
Exit(p) ==
    /\ Goto(p, "exited")
    /\ Returned(p)
    /\ cursor' = [cursor EXCEPT ![p] = 1]

(* The name of q's open file, after p has renamed or removed its file as   *)
(* the function to says.                                                   *)
Reopen(p, to) ==
    [q \in Processes |->
        IF q # p /\ open[q] \in DOMAIN to /\ File(q) = File(p) THEN to[open[q]] ELSE open[q]]
Removed(name) == [n \in {name} |-> "gone"]
Renamed == [n \in {"tmp", "dest"} |-> IF n = "tmp" THEN "dest" ELSE "gone"]

(* LoadAndValidate; the file may be missing or no YAML. *)
ReadConfig(p) ==
    /\ pc[p] = "config"
    /\ \/ /\ Valid(cfg)
          /\ Goto(p, IF TestsProxy(cfg) THEN "proxy" ELSE "stat")
          /\ UNCHANGED download
       \/ Exit(p)
    /\ UNCHANGED <<cfg, directory, parts, starts, crossed>>

(* The test may fail, and may never end: SOCKS5Outbound.Dial does not look *)
(* at the context that carries its ten seconds.                            *)
TestProxy(p) ==
    /\ pc[p] = "proxy"
    /\ \/ (Goto(p, "stat") \/ Goto(p, "hung")) /\ UNCHANGED download
       \/ Exit(p)
    /\ UNCHANGED <<cfg, directory, parts, starts, crossed>>

(* Mutant: one step too far after the last file. *)
NextFileTooFar(p) ==
    /\ cursor' = [cursor EXCEPT ![p] = @ + 1]
    /\ Goto(p, IF cursor[p] < Len(Downloads(p)) THEN "stat" ELSE "redis")
    /\ Returned(p)

(* A file is ready: the next one, or the phase that follows. *)
NextFile(p) ==
    /\ IF cursor[p] < Len(Downloads(p))
       THEN cursor' = [cursor EXCEPT ![p] = @ + 1] /\ Goto(p, "stat")
       ELSE cursor' = cursor /\ Goto(p, "redis")
    /\ Returned(p)

(* Mutant: a file is downloaded again whatever its size. *)
StatAlways(p) ==
    /\ pc[p] = "stat"
    /\ Goto(p, IF dest[File(p)] = Absent THEN "request" ELSE "remove")
    /\ crossed' = crossed \cup
         {File(q) : q \in {r \in Processes : pc[r] \in Downloading /\ File(r) = File(p)}}
    /\ UNCHANGED <<cfg, directory, download, parts, starts>>

(* A file of more than 1 KiB is kept.  Another process may be downloading  *)
(* it, too.                                                                *)
Stat(p) ==
    /\ pc[p] = "stat"
    /\ \/ /\ Sound(dest[File(p)])
          /\ NextFile(p)
          /\ crossed' = crossed
       \/ /\ ~Sound(dest[File(p)])
          /\ Goto(p, IF dest[File(p)] = Absent THEN "request" ELSE "remove")
          /\ UNCHANGED download
          /\ crossed' = crossed \cup
               {File(q) : q \in {r \in Processes : pc[r] \in Downloading /\ File(r) = File(p)}}
    /\ UNCHANGED <<cfg, directory, parts, starts>>

Remove(p) ==
    /\ pc[p] = "remove"
    /\ dest' = [dest EXCEPT ![File(p)] = Absent]
    /\ open' = Reopen(p, Removed("dest"))
    /\ Goto(p, "request")
    /\ UNCHANGED <<cfg, tmp, download, parts, starts, crossed>>

(* No answer, or one that is not 200, ends the process. *)
Request(p) ==
    /\ pc[p] = "request"
    /\ \/ /\ Goto(p, "create")
          /\ \E b \in DOMAIN Bodies : body' = [body EXCEPT ![p] = b]
          /\ copied' = [copied EXCEPT ![p] = 0]
          /\ cursor' = cursor
       \/ Exit(p)
    /\ UNCHANGED <<cfg, directory, parts, starts, crossed>>

(* Mutant: the file itself is opened. *)
CreateInPlace(p) ==
    /\ pc[p] = "create"
    /\ dest' = [dest EXCEPT ![File(p)] = {}]
    /\ open' = [open EXCEPT ![p] = "dest"]
    /\ Goto(p, "copy")
    /\ UNCHANGED <<cfg, tmp, download, parts, starts, crossed>>

(* os.Create empties a temporary file that is there. *)
Create(p) ==
    /\ pc[p] = "create"
    /\ \/ /\ tmp' = [tmp EXCEPT ![File(p)] = {}]
          /\ open' = [open EXCEPT ![p] = "tmp"]
          /\ Goto(p, "copy")
          /\ UNCHANGED download
       \/ Exit(p) /\ UNCHANGED <<tmp, open>>
    /\ UNCHANGED <<cfg, dest, parts, starts, crossed>>

(* A chunk goes to its place, in the file the name of which may have       *)
(* changed since.                                                          *)
Write(contents, chunk) == {c \in contents : c.place # chunk.place} \cup {chunk}

CopyChunk(p) ==
    /\ pc[p] = "copy"
    /\ copied[p] < Len(Bodies[body[p]])
    /\ copied' = [copied EXCEPT ![p] = @ + 1]
    /\ LET chunk == [body |-> body[p], place |-> copied[p] + 1] IN
         /\ tmp' = IF open[p] = "tmp" THEN [tmp EXCEPT ![File(p)] = Write(@, chunk)] ELSE tmp
         /\ dest' = IF open[p] = "dest" THEN [dest EXCEPT ![File(p)] = Write(@, chunk)] ELSE dest
    /\ UNCHANGED <<cfg, open, pc, cursor, body, parts, starts, crossed>>

(* The body is complete, or an error ends it early. *)
EndCopy(p) ==
    /\ pc[p] = "copy"
    /\ open' = [open EXCEPT ![p] = "closed"]
    /\ \/ copied[p] = Len(Bodies[body[p]]) /\ Goto(p, "check")
       \/ Goto(p, "clean")
    /\ UNCHANGED <<cfg, dest, tmp, download, parts, starts, crossed>>

(* Mutant: a body that is too small is asked for again. *)
CheckSizeRetries(p) ==
    /\ pc[p] = "check"
    /\ \/ /\ Bodies[body[p]][copied[p]] < 1024
          /\ Goto(p, "request")
          /\ Returned(p)
       \/ /\ Bodies[body[p]][copied[p]] >= 1024
          /\ Goto(p, "rename")
          /\ UNCHANGED <<body, copied>>
    /\ UNCHANGED <<cfg, directory, cursor, parts, starts, crossed>>

CheckSize(p) ==
    /\ pc[p] = "check"
    /\ Goto(p, IF Bodies[body[p]][copied[p]] < 1024 THEN "clean" ELSE "rename")
    /\ UNCHANGED <<cfg, directory, download, parts, starts, crossed>>

(* os.Rename, of whatever the temporary file is by now. *)
Rename(p) ==
    /\ pc[p] = "rename"
    /\ \/ /\ tmp[File(p)] # Absent
          /\ dest' = [dest EXCEPT ![File(p)] = tmp[File(p)]]
          /\ tmp' = [tmp EXCEPT ![File(p)] = Absent]
          /\ open' = Reopen(p, Renamed)
          /\ NextFile(p)
       \/ /\ Goto(p, "clean")
          /\ UNCHANGED <<directory, download>>
    /\ UNCHANGED <<cfg, parts, starts, crossed>>

(* A download that failed removes its temporary file and ends the process. *)
Clean(p) ==
    /\ pc[p] = "clean"
    /\ tmp' = [tmp EXCEPT ![File(p)] = Absent]
    /\ open' = Reopen(p, Removed("tmp"))
    /\ Exit(p)
    /\ UNCHANGED <<cfg, dest, parts, starts, crossed>>

(* Redis that does not answer the ping is done without. *)
ConnectRedis(p) ==
    /\ pc[p] = "redis"
    /\ \E answers \in BOOLEAN : redis' = [redis EXCEPT ![p] = UsesRedis(cfg) /\ answers]
    /\ Goto(p, IF p \in Loaders THEN "load" ELSE "geoip")
    /\ UNCHANGED <<cfg, directory, download, geoip, groups, starts, crossed>>

Usable(f) == \E b \in Whole : dest[f] = Full(b)

(* CategoryLoad details LoadReverse. *)
Load(p) ==
    /\ pc[p] = "load"
    /\ \/ Usable("dlc.dat") /\ Goto(p, "loaded")
       \/ Goto(p, "exited")
    /\ cursor' = [cursor EXCEPT ![p] = 1]
    /\ UNCHANGED <<cfg, directory, body, copied, parts, starts, crossed>>

(* Without one of its databases the matcher has neither. *)
OpenGeoIP(p) ==
    /\ pc[p] = "geoip"
    /\ geoip' = [geoip EXCEPT ![p] = Usable("Country.mmdb") /\ Usable("GeoLite2-ASN.mmdb")]
    /\ Goto(p, "manager")
    /\ UNCHANGED <<cfg, directory, download, redis, groups, starts, crossed>>

BuildGroups(p) ==
    /\ pc[p] = "manager"
    /\ groups' = [groups EXCEPT ![p] = LoadFromConfig(cfg)]
    /\ Goto(p, "listen")
    /\ UNCHANGED <<cfg, directory, download, redis, geoip, starts, crossed>>

(* Start; a port that is taken leaves the process waiting for its end.     *)
Listen(p) ==
    /\ pc[p] = "listen"
    /\ Goto(p, "serving") \/ Goto(p, "deaf")
    /\ UNCHANGED <<cfg, directory, download, parts, starts, crossed>>

(* SIGINT or SIGTERM to a server; the shutdown of one that does not listen *)
(* is an error, which ends the process with another status.                *)
Signal(p) ==
    /\ pc[p] \in {"listen", "serving", "deaf"}
    /\ Goto(p, IF pc[p] = "serving" THEN "stopped" ELSE "exited")
    /\ cursor' = [cursor EXCEPT ![p] = 1]
    /\ UNCHANGED <<cfg, directory, body, copied, parts, starts, crossed>>

(* The process is killed, and with it its open file. *)
Crash(p) ==
    /\ pc[p] \notin Ended
    /\ open' = [open EXCEPT ![p] = "closed"]
    /\ Exit(p)
    /\ UNCHANGED <<cfg, dest, tmp, parts, starts, crossed>>

(* systemd starts it again, or the user does. *)
Restart(p) ==
    /\ pc[p] \in Ended
    /\ starts[p] < MaxStarts[p]
    /\ starts' = [starts EXCEPT ![p] = @ + 1]
    /\ redis' = [redis EXCEPT ![p] = FALSE]
    /\ geoip' = [geoip EXCEPT ![p] = FALSE]
    /\ groups' = [groups EXCEPT ![p] = NoGroups]
    /\ Goto(p, "config")
    /\ UNCHANGED <<cfg, directory, download, crossed>>

Step(p) ==
    \/ ReadConfig(p) \/ TestProxy(p)
    \/ Stat(p) \/ Remove(p) \/ Request(p) \/ Create(p)
    \/ CopyChunk(p) \/ EndCopy(p) \/ CheckSize(p) \/ Rename(p) \/ Clean(p)
    \/ ConnectRedis(p) \/ Load(p) \/ OpenGeoIP(p) \/ BuildGroups(p) \/ Listen(p)

Next == \E p \in Processes : Step(p) \/ Signal(p) \/ Crash(p) \/ Restart(p)

(* A process runs, and what it calls returns or fails; the test of the     *)
(* proxy, which need not return, has a step of its own for that.           *)
Fairness == \A p \in Processes : WF_vars(Step(p))

Spec == Init /\ [][Next]_vars
FairSpec == Spec /\ Fairness

-----------------------------------------------------------------------------
(* A file is absent or holds a whole body, whatever step a process is      *)
(* killed at and whatever its download left behind, unless two processes   *)
(* have downloaded it at once.                                             *)
NeverPartial ==
    \A f \in Files \ crossed :
        \/ dest[f] = Absent
        \/ \E b \in DOMAIN Bodies : dest[f] = Full(b)

(* A file that is installed stays as it is, through every later start and  *)
(* failure, unless two processes have downloaded it at once.               *)
Stays(f) == Installed(dest[f]) /\ f \notin crossed => dest'[f] = dest[f]
InstalledStays == [][\A f \in Files : Stays(f)]_vars

(* A process that serves has every group that a policy, an IP check or the *)
(* race of proxy_ecs_fallback may name: what was validated at the start is *)
(* what the router relies on at every query.                               *)
AskableGroupsExist ==
    \A p \in Processes : pc[p] = "serving" => AskableGroups(cfg) \subseteq DOMAIN groups[p]

(* Every upstream of a group that serves can be exchanged with over the    *)
(* outbound the group ended up with, if no tag is given twice and none is  *)
(* direct: only then does the check of protocols look at the outbound that *)
(* is used.                                                                *)
DistinctTags ==
    /\ \A n \in DOMAIN cfg.outbounds : cfg.outbounds[n].tag # "direct"
    /\ \A n, m \in DOMAIN cfg.outbounds :
          cfg.outbounds[n].tag = cfg.outbounds[m].tag => n = m
NameserversCarried ==
    \A p \in Processes : pc[p] = "serving" /\ DistinctTags =>
        \A g \in DOMAIN groups[p] : \A ns \in groups[p][g].upstreams :
            Exchanges(groups[p][g].carrier, ns)

(* Every start comes to serve, to load or to end, unless the test of the   *)
(* proxy hangs or the port cannot be listened on.                          *)
EveryStartEnds == \A p \in Processes : []<>(pc[p] \in Ended \cup {"serving", "deaf", "hung"})
=============================================================================
