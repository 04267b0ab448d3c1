----------------------------- MODULE DomainLists ------------------------------
(***************************************************************************)
(* From dlc.dat to the domains of each group (category/parser.go).  The    *)
(* contents of the file are a sequence of sites, each a code and a set of  *)
(* entries [type, value, attributes]; a rule of domain_group such as       *)
(* "geolocation-cn@!cn" is a list and a set of filters [negated, key].     *)
(* Space around the parts of a rule is left out.                           *)
(***************************************************************************)
EXTENDS Naturals, Sequences

CONSTANT Lower  \* strings.ToLower, on the words of files and rules

Sites(dlc) == {Lower[dlc[n].code] : n \in DOMAIN dlc}

(* Parse: a map by lower-case code, so the last site of a name is kept. *)
Entries(dlc, list) ==
    LET named == {n \in DOMAIN dlc : Lower[dlc[n].code] = Lower[list]}
    IN  UNION {dlc[n].entries : n \in {k \in named : \A m \in named : m <= k}}

(* hasAttribute *)
HasAttribute(entry, key) == \E attribute \in entry.attributes : Lower[attribute] = Lower[key]

(* Mutant: one filter is enough. *)
MatchAnyAttribute(entry, filters) ==
    filters = {} \/ \E f \in filters : HasAttribute(entry, f.key) # f.negated

(* matchAllAttributes: every filter holds; an empty one does not count. *)
MatchAllAttributes(entry, filters) ==
    \A f \in filters : (f.key = "" /\ ~f.negated) \/ HasAttribute(entry, f.key) # f.negated

(* parseCategorySpec fails for an empty rule and for an unknown list. *)
IsKnown(dlc, rule) ==
    /\ ~(rule.list = "" /\ rule.filters = {})
    /\ Lower[rule.list] \in Sites(dlc)

(* The values alone are kept: whether an entry is a domain, a full name, a *)
(* keyword or an expression is forgotten (extractDomainValues).            *)
ParseCategorySpec(dlc, rule) ==
    {entry.value : entry \in {e \in Entries(dlc, rule.list) : MatchAllAttributes(e, rule.filters)}}

Parses(dlc, config) == \A group \in DOMAIN config : \A rule \in config[group] : IsKnown(dlc, rule)

ParseDomainGroup(dlc, config) ==
    [group \in DOMAIN config |-> UNION {ParseCategorySpec(dlc, rule) : rule \in config[group]}]
=============================================================================
