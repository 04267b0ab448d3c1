--------------------------- MODULE MCCategoryLoad ---------------------------
(***************************************************************************)
(* CategoryLoad with a cron job beside a -load process.  dlc.dat lists     *)
(* three of four domains, one of them for two groups; it has a site twice  *)
(* under two spellings, is replaced by a newer one, or lacks a list.       *)
(***************************************************************************)
EXTENDS CategoryLoad

CONSTANTS cron, loader, a, b, c, x, g1, g2

MCCrons == {cron}
MCLoaders == {loader}
MCDomains == {a, b, c, x}
MCPosition == [g \in {g1, g2} |-> IF g = g1 THEN 1 ELSE 2]

MCLower ==
    [word \in {"", "CN", "cn", "google", "ads"} |-> IF word = "CN" THEN "cn" ELSE word]
Entry(value, attributes) == [type |-> "full", value |-> value, attributes |-> attributes]
Filter(key) == [negated |-> FALSE, key |-> key]
Not(key) == [negated |-> TRUE, key |-> key]

(* google@cn@!ads and CN@!ads@; cn *)
MCConfig ==
    [g \in {g1, g2} |->
        IF g = g1 THEN {[list |-> "google", filters |-> {Filter("cn"), Not("ads")}],
                        [list |-> "CN", filters |-> {Not("ads"), Filter("")}]}
        ELSE {[list |-> "cn", filters |-> {}]}]

Google == [code |-> "google",
           entries |-> {Entry(a, {"CN"}), Entry(b, {}), Entry(x, {"cn", "ads"})}]
MCFiles ==
    {<<[code |-> "CN", entries |-> {Entry(x, {})}], Google,
       [code |-> "cn", entries |-> {Entry(b, {}), Entry(c, {"ads"})}]>>,
     <<Google, [code |-> "CN", entries |-> {Entry(c, {})}]>>,
     <<Google>>}
=============================================================================
