-------------------------------- MODULE Config --------------------------------
(***************************************************************************)
(* The configuration: what config/validate.go accepts, and what main.go    *)
(* and upstream/manager.go make of it.  A configuration is a record with a *)
(* field for each part that is validated or used at the start; addresses,  *)
(* paths and rules are words for the kinds validation tells apart:         *)
(*   nameservers  "https", "tls", "quic", "tcp", "udp", or "bad" for what  *)
(*                the upstream library refuses; a set                      *)
(*   ECS          "cidr", "ip", "bad", or "" for none                      *)
(*   IP rules     "geoip", "asn", "asnword" (no number follows), "other"   *)
(***************************************************************************)
EXTENDS Naturals, Sequences

ValidPort(port) == port \in 1..65535

ValidBootstrap(cfg) == cfg.bootstrap # {}

Required == {"proxy", "proxy_ecs", "direct"}

ValidGroups(cfg) ==
    \A g \in Required : g \in DOMAIN cfg.groups /\ cfg.groups[g].nameservers # {}

(* outboundTypes[tag]: the last outbound of that tag, or the built-in one. *)
HasType(cfg, tag, type) ==
    \/ \E n \in DOMAIN cfg.outbounds :
          /\ cfg.outbounds[n].tag = tag
          /\ cfg.outbounds[n].type = type
          /\ \A m \in DOMAIN cfg.outbounds : cfg.outbounds[m].tag = tag => m <= n
    \/ /\ tag = "direct" /\ type = "direct"
       /\ \A n \in DOMAIN cfg.outbounds : cfg.outbounds[n].tag # tag

ValidSOCKS5(outbound) ==
    outbound.type = "socks5" => outbound.server # "" /\ ValidPort(outbound.port)

(* Mutant: groups behind a proxy may use any protocol. *)
ValidOutboundsAnyProtocol(cfg) ==
    /\ \A n \in DOMAIN cfg.outbounds : ValidSOCKS5(cfg.outbounds[n])
    /\ \A g \in DOMAIN cfg.groups :
          \/ cfg.groups[g].outbound \in {"", "direct"}
          \/ \E n \in DOMAIN cfg.outbounds : cfg.outbounds[n].tag = cfg.groups[g].outbound

(* A group names an outbound that exists, and behind one that is not of    *)
(* type direct it has HTTPS nameservers only.                              *)
ValidOutbounds(cfg) ==
    /\ \A n \in DOMAIN cfg.outbounds : ValidSOCKS5(cfg.outbounds[n])
    /\ \A g \in DOMAIN cfg.groups :
          \/ cfg.groups[g].outbound \in {"", "direct"}
          \/ /\ \E n \in DOMAIN cfg.outbounds : cfg.outbounds[n].tag = cfg.groups[g].outbound
             /\ \/ HasType(cfg, cfg.groups[g].outbound, "direct")
                \/ cfg.groups[g].nameservers \subseteq {"https"}

ValidECS(cfg) ==
    cfg.ecs.enable =>
        /\ {cfg.ecs.ipv4, cfg.ecs.ipv6} \subseteq {"", "cidr"}
        /\ cfg.ecs.prefix4 \in 8..32
        /\ cfg.ecs.prefix6 \in 32..128

(* The categories' Redis needs no address here, the answers' does. *)
ValidCache(cfg) ==
    /\ cfg.dnsCache.enable =>
          /\ cfg.dnsCache.type \in {"redis", "memory"}
          /\ cfg.dnsCache.type = "redis" => cfg.redis # ""
    /\ cfg.categoryCache.enable => cfg.categoryCache.type \in {"redis", "memory"}

ValidCategoryPolicy(cfg) == cfg.preload # ""

(* Mutant: the fallback group of a policy is not looked up. *)
ValidPoliciesWithoutFallback(cfg) ==
    \A n \in DOMAIN cfg.policies :
        LET p == cfg.policies[n] IN
        /\ p.name \in {"unknown"} \cup cfg.domainGroups
        /\ p.group \in {"block", "proxy_ecs_fallback"} \cup DOMAIN cfg.groups
        /\ p.group = "block" => p.block \in {"", "nxdomain", "noerror", "0.0.0.0"}
        /\ p.expected \subseteq {"geoip", "asn", "asnword"}

(* A policy is named for a domain group, and its groups exist; an ASN in   *)
(* expected_ips need not be a number.                                      *)
ValidPolicies(cfg) ==
    \A n \in DOMAIN cfg.policies :
        LET p == cfg.policies[n] IN
        /\ p.name \in {"unknown"} \cup cfg.domainGroups
        /\ p.group \in {"block", "proxy_ecs_fallback"} \cup DOMAIN cfg.groups
        /\ p.group = "block" => p.block \in {"", "nxdomain", "noerror", "0.0.0.0"}
        /\ p.fallback \in {""} \cup DOMAIN cfg.groups
        /\ p.expected \subseteq {"geoip", "asn", "asnword"}

ValidFallback(cfg) ==
    /\ cfg.fallback.geoip # "" /\ cfg.fallback.asn # ""
    /\ cfg.fallback.rules # {}
    /\ cfg.fallback.rules \subseteq {"geoip", "asn"}

ValidLog(cfg) ==
    /\ cfg.log.level \in {"debug", "info", "warn", "error"}
    /\ cfg.log.format \in {"json", "text"}

Valid(cfg) ==
    /\ ValidPort(cfg.port)
    /\ ValidBootstrap(cfg)
    /\ ValidGroups(cfg)
    /\ ValidOutbounds(cfg)
    /\ ValidECS(cfg)
    /\ ValidCache(cfg)
    /\ ValidCategoryPolicy(cfg)
    /\ ValidPolicies(cfg)
    /\ ValidFallback(cfg)
    /\ ValidLog(cfg)

-----------------------------------------------------------------------------
(* The keys main gives a SOCKS5 outbound in its map, where an enabled one  *)
(* replaces the built-in direct as it would any other.                     *)
Proxies(cfg) ==
    {cfg.outbounds[n].tag :
        n \in {m \in DOMAIN cfg.outbounds :
                 cfg.outbounds[m].type = "socks5" /\ cfg.outbounds[m].enable}}

(* LoadFromConfig: an outbound that is not in the map, because it is       *)
(* disabled or of another type, is replaced by direct.                     *)
Carrier(cfg, g) ==
    LET tag == IF cfg.groups[g].outbound \in Proxies(cfg) \ {""} THEN cfg.groups[g].outbound
               ELSE "direct"
    IN  IF tag \in Proxies(cfg) THEN "socks5" ELSE "direct"

(* NewGroup skips the nameservers the library refuses; behind a proxy it   *)
(* makes an upstream of every one.                                         *)
Upstreams(cfg, g) ==
    IF Carrier(cfg, g) = "socks5" THEN cfg.groups[g].nameservers
    ELSE cfg.groups[g].nameservers \ {"bad"}

(* Exchange of a proxied upstream fails for any other protocol. *)
Exchanges(carrier, nameserver) == carrier = "direct" \/ nameserver \in {"https", "tcp"}

(* The client subnet of a group; addECS leaves one it cannot read out.     *)
ECS(cfg, g) ==
    LET ip == IF cfg.groups[g].ecs = "" /\ g = "proxy_ecs" /\ cfg.ecs.enable THEN cfg.ecs.ipv4
              ELSE cfg.groups[g].ecs
    IN  IF ip = "bad" THEN "" ELSE ip

LoadFromConfig(cfg) ==
    [g \in DOMAIN cfg.groups |->
       [carrier |-> Carrier(cfg, g), upstreams |-> Upstreams(cfg, g), ecs |-> ECS(cfg, g)]]

(* The groups Route, handleIPValidation and proxy_ecs_fallback ask.        *)
AskableGroups(cfg) ==
    (Required \cup
     UNION {{cfg.policies[n].group, cfg.policies[n].fallback} : n \in DOMAIN cfg.policies})
      \ {"block", "proxy_ecs_fallback", ""}

UsesRedis(cfg) == "redis" \in {cfg.dnsCache.type, cfg.categoryCache.type}

(* Phase 2 takes the first outbound of that tag and dials when it is an    *)
(* enabled SOCKS5 proxy.                                                   *)
TestsProxy(cfg) ==
    \E n \in DOMAIN cfg.outbounds :
        /\ cfg.outbounds[n].tag = "file_download"
        /\ \A m \in DOMAIN cfg.outbounds : cfg.outbounds[m].tag = "file_download" => n <= m
        /\ cfg.outbounds[n].enable
        /\ cfg.outbounds[n].type = "socks5"
=============================================================================
