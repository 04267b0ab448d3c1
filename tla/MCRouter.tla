------------------------------ MODULE MCRouter -------------------------------
(***************************************************************************)
(* Router with two queries over a name a that is an alias of b, in a zone  *)
(* where the groups see b at home or abroad, and where one stale answer    *)
(* closes the aliases to a loop.  B is b as a client may spell it.         *)
(***************************************************************************)
EXTENDS Router

CONSTANTS q1, q2
MCQueries == {q1, q2}

MCNames == {"a", "b", "B"}
MCLower == [n \in MCNames |-> IF n = "a" THEN "a" ELSE "b"]
MCParents == [n \in MCNames |-> IF n = "a" THEN <<"b">> ELSE <<>>]

MCAddrs == {"home", "abroad", "lan"}
MCPrivate == {"lan"}
CN == [country |-> "cn", upper |-> FALSE]
GeoRule(negated, code) == [kind |-> "geoip", negated |-> negated, code |-> code, number |-> 0]
ASNRule(number) == [kind |-> "asn", negated |-> FALSE, code |-> CN, number |-> number]

MaxMind ==
    [geo |-> "maxmind",
     codes |-> [ip \in MCAddrs |-> IF ip = "home" THEN {[CN EXCEPT !.upper = TRUE]} ELSE {}],
     asn |-> "GeoLite2-ASN",
     number |-> [ip \in MCAddrs |-> IF ip = "home" THEN 1 ELSE 0]]
MCFallbackRules ==
    {GeoRule(FALSE, CN), GeoRule(FALSE, [country |-> "private", upper |-> FALSE])}

(* direct gives two addresses at once, which may expire apart. *)
A(n, ips) == [name |-> n, type |-> "A", data |-> ips]
HTTPS(n) == [name |-> n, type |-> "HTTPS", data |-> {n}]
Alias(n, t) == [name |-> n, type |-> "CNAME", data |-> {t}]

MCGroups == {"proxy", "proxy_ecs", "direct"}
Addresses(g) ==
    CASE g = "direct" -> {{"home", "lan"}}
      [] g = "proxy" -> {{"abroad"}}
      [] OTHER -> {{"home"}, {"abroad"}, {"lan"}}
MCZone ==
    [g \in MCGroups |->
       [k \in MCNames \X Types |->
          CASE k = <<"a", "A">> -> {<<Alias("a", "b"), A("b", ips)>> : ips \in Addresses(g)}
            [] k = <<"a", "HTTPS">> ->
                 {<<Alias("a", "b"), HTTPS("b")>>}
                   \cup IF g = "proxy" THEN {<<Alias("a", "B"), HTTPS("B")>>} ELSE {}
            [] k = <<"a", "CNAME">> -> {<<Alias("a", "b")>>}
            [] k[1] # "a" /\ k[2] = "A" ->
                 {<<A(k[1], ips)>> : ips \in Addresses(g)}
                   \cup IF g = "direct" THEN {<<Alias(k[1], "a")>>} ELSE {}
            [] k[1] # "a" /\ k[2] = "CNAME" -> {<<>>}
            [] OTHER -> {<<HTTPS(k[1])>>}]]

P(group, expected, fallback) ==
    [group |-> group, expected |-> expected, fallback |-> fallback,
     nocache |-> FALSE, nohttps |-> FALSE]

MCPolicies ==
    [c \in {"block_site", "race_site", "proxy_site", "cn_site", "strict_site"} |->
       CASE c = "block_site" -> P("block", {}, "")
         [] c = "race_site" -> [P("proxy_ecs_fallback", {ASNRule(1)}, "") EXCEPT !.nocache = TRUE]
         [] c = "proxy_site" -> [P("proxy", {GeoRule(TRUE, CN)}, "direct") EXCEPT !.nohttps = TRUE]
         [] c = "cn_site" -> P("proxy", {GeoRule(FALSE, CN)}, "direct")
         [] c = "strict_site" -> [P("proxy", {ASNRule(1)}, "") EXCEPT !.nocache = TRUE]]

(* The DNS cache is cold, or earlier queries for a and for b have left both*)
(* aliases in it, and with them the loop.                                  *)
Cold == [k \in MCNames \X Types |-> {}]
Loop == [Cold EXCEPT ![<<"a", "CNAME">>] = {"b"}, ![<<"b", "CNAME">>] = {"a"}]

Begin(k1, k2, categories, m, contents) ==
    [work |-> [q \in MCQueries |-> IF q = q1 THEN k1 ELSE k2],
     listing |-> [n \in MCNames |-> IF n \in DOMAIN categories THEN categories[n] ELSE ""],
     matcher |-> m, cache |-> contents]

(* Both ask for a, with an IP check; a and b share the one of b, without   *)
(* GeoIP databases; b is filtered, at the end of the loop; b is blocked,   *)
(* and asked for in two spellings; b is blocked and a, its alias, raced;   *)
(* b is asked for two types, one of which is filtered.                     *)
MCStarts ==
    {Begin(<<"a", "A">>, <<"a", "A">>, [a |-> "cn_site"], MaxMind, Cold),
     Begin(<<"a", "A">>, <<"b", "A">>, [b |-> "strict_site"], GeoIP!EmptyMatcher, Cold),
     Begin(<<"a", "HTTPS">>, <<"b", "HTTPS">>, [b |-> "proxy_site"], MaxMind, Loop),
     Begin(<<"b", "A">>, <<"B", "A">>, [b |-> "block_site"], MaxMind, Cold),
     Begin(<<"a", "A">>, <<"b", "A">>, [a |-> "race_site", b |-> "block_site"], MaxMind,
           [Cold EXCEPT ![<<"a", "CNAME">>] = {"b"}]),
     Begin(<<"b", "HTTPS">>, <<"b", "A">>, [b |-> "proxy_site"], MaxMind, Cold)}
=============================================================================
