------------------------------ MODULE MCStartup -------------------------------
(***************************************************************************)
(* Startup with a server and a -load process.  They start in an empty      *)
(* directory, where a download may give an error page under a kilobyte, a  *)
(* body of exactly one, or the file in two chunks, or with all files       *)
(* installed and one of the configurations of a set.  The server may be    *)
(* started twice.                                                          *)
(***************************************************************************)
EXTENDS Startup

CONSTANTS server, loader
MCProcesses == {server, loader}
MCLoaders == {loader}
MCMaxStarts == [p \in MCProcesses |-> IF p = server THEN 2 ELSE 1]

MCBodies == [b \in {"page", "edge", "file"} |->
               CASE b = "page" -> <<1023>> [] b = "edge" -> <<1024>> [] OTHER -> <<1024, 1025>>]
MCWhole == {"file"}

Group(nameservers, outbound) == [nameservers |-> nameservers, outbound |-> outbound, ecs |-> ""]
SOCKS5(tag, enable) ==
    [tag |-> tag, type |-> "socks5", enable |-> enable, server |-> "localhost", port |-> 1080]
OfType(tag, type) == [tag |-> tag, type |-> type, enable |-> TRUE, server |-> "", port |-> 0]
Policy(name, group, fallback) ==
    [name |-> name, group |-> group, fallback |-> fallback, block |-> "", expected |-> {"geoip"}]

(* The configuration of the README, with Redis and a strict policy. *)
Base ==
    [port |-> 53, bootstrap |-> {"223.5.5.5"},
     groups |-> [g \in {"direct", "proxy", "proxy_ecs", "home"} |->
        CASE g = "direct" -> Group({"udp"}, "") [] g = "home" -> Group({"tls", "bad"}, "direct")
          [] OTHER -> Group({"https"}, "proxy")],
     outbounds |-> <<SOCKS5("proxy", TRUE)>>,
     ecs |-> [enable |-> TRUE, ipv4 |-> "cidr", ipv6 |-> "", prefix4 |-> 24, prefix6 |-> 48],
     dnsCache |-> [enable |-> TRUE, type |-> "redis"],
     categoryCache |-> [enable |-> TRUE, type |-> "redis"],
     redis |-> "localhost", preload |-> "url", domainGroups |-> {"cn_site", "proxy_site"},
     policies |-> <<Policy("cn_site", "home", ""), Policy("proxy_site", "proxy", "home"),
                    Policy("unknown", "proxy_ecs_fallback", "")>>,
     fallback |-> [geoip |-> "url", asn |-> "url", rules |-> {"geoip"}],
     log |-> [level |-> "info", format |-> "json"]]

(* A fallback group that is missing; a group without nameservers; a plain  *)
(* protocol behind the proxy; a disabled proxy; two outbounds of one tag;  *)
(* direct redefined; a download proxy; an ECS prefix too short; an unknown *)
(* log level.                                                              *)
MCConfigs ==
    {[Base EXCEPT !.policies = <<Policy("proxy_site", "proxy", "abroad")>>],
     [Base EXCEPT !.groups["proxy"].nameservers = {}],
     [Base EXCEPT !.groups["proxy"].nameservers = {"https", "udp"}],
     [Base EXCEPT !.outbounds = <<SOCKS5("proxy", FALSE)>>],
     [Base EXCEPT !.outbounds = <<SOCKS5("proxy", TRUE), OfType("proxy", "direct")>>,
                  !.groups["proxy"].nameservers = {"udp"}],
     [Base EXCEPT !.outbounds = <<SOCKS5("proxy", TRUE), SOCKS5("direct", TRUE)>>],
     [Base EXCEPT !.outbounds = <<SOCKS5("proxy", TRUE), SOCKS5("file_download", TRUE)>>,
                  !.dnsCache.type = "memory", !.categoryCache.type = "memory"],
     [Base EXCEPT !.ecs.prefix4 = 7],
     [Base EXCEPT !.log.level = "trace"]}

Empty == [f \in Files |-> Absent]
AllInstalled == [f \in Files |-> Full("file")]
MCStarts ==
    {[cfg |-> Base, files |-> Empty]} \cup
    {[cfg |-> config, files |-> AllInstalled] : config \in MCConfigs}
=============================================================================
