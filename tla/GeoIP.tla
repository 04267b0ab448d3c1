-------------------------------- MODULE GeoIP ---------------------------------
(***************************************************************************)
(* Rules about addresses (geoip/matcher.go), as the router applies them to *)
(* expected_ips and to the rules of the fallback.  A matcher is a record:  *)
(*   geo    type of the country database, "none" without one               *)
(*   codes  the codes that database holds for each address                 *)
(*   asn    type of the ASN database, "none" without one                   *)
(*   number the ASN that database holds for each address, 0 if it has none *)
(* A code is a country and whether it is written in capitals.  A rule is a *)
(* record; its kind is its prefix, "asnword" when no number follows asn:.  *)
(***************************************************************************)
EXTENDS Integers

CONSTANTS Addrs,    \* addresses
          Private,  \* those in the blocks of isPrivateIP
          MaxASN    \* the largest number ParseUint(.., 32) takes, 2^32 - 1

Code == [country : STRING, upper : BOOLEAN]
LowerCode(code) == [code EXCEPT !.upper = FALSE]

Rule == [kind : {"geoip", "asn", "asnword", "other"},
         negated : BOOLEAN, code : Code, number : Int]

(* NewMatcher("", ""): what main takes when a database cannot be opened. *)
EmptyMatcher ==
    [geo |-> "none", codes |-> [ip \in Addrs |-> {}],
     asn |-> "none", number |-> [ip \in Addrs |-> 0]]

(* Only the codes of a MaxMind database are turned to lower case. *)
LookupCode(m, ip) ==
    CASE m.geo = "none" -> {}
      [] m.geo = "maxmind" -> {LowerCode(code) : code \in m.codes[ip]}
      [] OTHER -> m.codes[ip]

MatchGeoIPPositive(m, ip, code) == m.geo # "none" /\ LowerCode(code) \in LookupCode(m, ip)

(* "private" is a word of the rules, not of a database, and only where the *)
(* rule is not negated and writes it in lower case.                        *)
MatchGeoIP(m, ip, rule) ==
    IF rule.negated THEN ~MatchGeoIPPositive(m, ip, rule.code)
    ELSE IF rule.code = [country |-> "private", upper |-> FALSE] THEN ip \in Private
    ELSE MatchGeoIPPositive(m, ip, rule.code)

(* A database of another type is opened, but nothing is found in it. *)
LookupASN(m, ip) ==
    IF m.asn \in {"GeoLite2-ASN", "DBIP-ASN-Lite", "ipinfo"} THEN m.number[ip] ELSE 0

MatchASN(m, ip, number) == m.asn # "none" /\ LookupASN(m, ip) = number

Match(m, ip, rule) ==
    \/ rule.kind = "geoip" /\ MatchGeoIP(m, ip, rule)
    \/ rule.kind = "asn" /\ rule.number \in 0..MaxASN /\ MatchASN(m, ip, rule.number)

MatchAny(m, ip, rules) == \E rule \in rules : Match(m, ip, rule)
=============================================================================
