------------------------------ MODULE Routing ------------------------------
(***************************************************************************)
(* The rule engine (Config in src/src/config.rs, provider::expand in       *)
(* config_provider.rs): a document's proxy groups are searched for cycles, *)
(* its rules are expanded with those of the providers, and connections are *)
(* routed by the first rule that matches while the control API changes the *)
(* groups' selections and name servers change their answers.               *)
(*                                                                         *)
(* Nodes are numbered as in the code: proxies first, groups after them.  A *)
(* matcher is the set of destinations it covers ("context": domain, port,  *)
(* source and process rules) or the set of addresses of its network or     *)
(* country ("address"); a provider is the sequence of its entries.         *)
(***************************************************************************)
EXTENDS Integers, Sequences, FiniteSets
LOCAL INSTANCE SequencesExt

CONSTANTS
    Kinds,       \* kind of each proxy: 1 is DIRECT, 2 is REJECT
    Addresses,   \* IP addresses
    DomainNames, \* destinations that have to be resolved
    MaxRules,    \* MAX_RULES
    Documents    \* [groups, providers, rules] that are loaded

Direct == 1
Rejecting == 2
ASSUME ProxiesAssumption == Kinds[Direct] = "direct" /\ Kinds[Rejecting] = "reject"
ASSUME DestinationsAssumption == Addresses \cap DomainNames = {}

VARIABLES
    document,
    loading,    \* "groups", "rules", "serving", or why the document was refused
    state,      \* colour of each node in resolve_groups: 0, 1 (on the stack), 2
    stack,      \* its frames
    selections, \* position of the selected member of each group
    rules,      \* the expanded rules
    query       \* the connection that is being routed

loadVars == <<document, loading, state, stack, rules>>
routingVars == <<loadVars, selections, query>>

ProxyCount == Len(Kinds)
GroupIds == ProxyCount + 1 .. ProxyCount + Len(document.groups)
Nodes == 1 .. ProxyCount + Len(document.groups)
MembersOf(group) == document.groups[group - ProxyCount]
Destinations == Addresses \cup DomainNames

Unrouted == [pc |-> "none"]

RoutingInit ==
    /\ document \in Documents
    /\ loading = "groups"
    /\ state = [n \in Nodes |-> IF n <= ProxyCount THEN 2 ELSE 0]
    /\ stack = <<>>
    /\ selections = [g \in GroupIds |-> 1]
    /\ rules = <<>>
    /\ query = Unrouted
-----------------------------------------------------------------------------
(* Loading: the search of resolve_groups, then the expansion of the rules. *)

Push(node, below) ==
    /\ state' = [state EXCEPT ![node] = 1]
    /\ stack' = Append(below, [node |-> node, next |-> 1])

NextRoot ==
    /\ loading = "groups" /\ stack = <<>>
    /\ IF \A g \in GroupIds : state[g] = 2
       THEN loading' = "rules" /\ UNCHANGED <<state, stack>>
       ELSE /\ Push(CHOOSE g \in GroupIds : state[g] # 2 /\ \A h \in GroupIds : h < g => state[h] = 2, <<>>)
            /\ UNCHANGED loading
    /\ UNCHANGED <<document, selections, rules, query>>

Top == stack[Len(stack)]
Advanced == [stack EXCEPT ![Len(stack)].next = @ + 1]

\* All members of the group on top have been followed.
Finish ==
    /\ state' = [state EXCEPT ![Top.node] = 2]
    /\ stack' = Front(stack)

\* Mutant of Exhausted: only the member that is selected first is followed.
ExhaustedAfterFirst(frame) == frame.next > 1

Exhausted(frame) == frame.next > Len(MembersOf(frame.node))

FollowEdge ==
    /\ loading = "groups" /\ stack # <<>>
    /\ IF Exhausted(Top) THEN Finish /\ UNCHANGED loading
       ELSE LET child == MembersOf(Top.node)[Top.next]
            IN IF state[child] = 0 THEN Push(child, Advanced) /\ UNCHANGED loading
               ELSE /\ stack' = Advanced
                    /\ loading' = IF state[child] = 1 THEN "cycle" ELSE loading
                    /\ UNCHANGED state
    /\ UNCHANGED <<document, selections, rules, query>>

MatchRule(proxy) == [kind |-> "match", payload |-> {}, noResolve |-> FALSE, proxy |-> proxy]

InheritNoResolve(rule) == [rule EXCEPT !.noResolve = @ \/ rule.kind = "address"]

\* Mutant of Instance: the entries keep the DIRECT target they are parsed with.
InstanceOfTemplate(entry, source) ==
    LET rule == [kind |-> entry.kind, payload |-> entry.payload,
                 noResolve |-> entry.noResolve, proxy |-> Direct]
    IN IF source.noResolve THEN InheritNoResolve(rule) ELSE rule

\* An entry of a provider where a RULE-SET rule uses it.
Instance(entry, source) ==
    LET rule == [kind |-> entry.kind, payload |-> entry.payload,
                 noResolve |-> entry.noResolve, proxy |-> source.proxy]
    IN IF source.noResolve THEN InheritNoResolve(rule) ELSE rule

Entries(source) == document.providers[source.provider]

Expanded(source) ==
    IF source.kind = "rule-set"
    THEN [i \in DOMAIN Entries(source) |-> Instance(Entries(source)[i], source)]
    ELSE <<source>>

\* The source rules, with the fail-closed final rule that a document with
\* providers gets unless one of its own rules is a MATCH.
Planned ==
    IF document.providers # <<>> /\ \A i \in DOMAIN document.rules : document.rules[i].kind # "match"
    THEN Append(document.rules, MatchRule(Rejecting))
    ELSE document.rules

\* Rules that are reserved before any is copied.
Reserved(plan) ==
    FoldLeft(LAMBDA count, source : count + (IF source.kind = "rule-set" THEN Len(Entries(source)) ELSE 1),
             0, plan)

Normalized == FoldLeft(LAMBDA count, entries : count + Len(entries), 0, document.providers)

FinalsFit(expanded) ==
    document.providers # <<>> =>
        {i \in DOMAIN expanded : expanded[i].kind = "match"} = {Len(expanded)}

ExpandRules ==
    LET expanded == FoldLeft(LAMBDA done, source : done \o Expanded(source), <<>>, Planned)
    IN /\ loading = "rules"
       /\ IF Normalized > MaxRules \/ Reserved(Planned) > MaxRules
          THEN loading' = "limit" /\ UNCHANGED rules
          ELSE IF ~FinalsFit(expanded) THEN loading' = "final" /\ UNCHANGED rules
          ELSE loading' = "serving" /\ rules' = expanded
       /\ UNCHANGED <<document, state, stack, selections, query>>
-----------------------------------------------------------------------------
(* Selections: changed by the control API while connections are routed. *)

\* The proxy a node leads to; 0 is the unreachable!() of the code.
ResolveProxy(node) ==
    LET hop[n \in 0 .. Len(document.groups)] ==
            IF n = 0 THEN node
            ELSE IF hop[n - 1] <= ProxyCount THEN hop[n - 1]
            ELSE MembersOf(hop[n - 1])[selections[hop[n - 1]]]
        last == hop[Len(document.groups)]
    IN IF last <= ProxyCount THEN last ELSE 0

\* Position of the first member of that name, as in Config::selection.
Position(group, node) ==
    CHOOSE i \in DOMAIN MembersOf(group) :
        MembersOf(group)[i] = node /\ \A j \in 1 .. i - 1 : MembersOf(group)[j] # node

IsMember(group, node) == \E i \in DOMAIN MembersOf(group) : MembersOf(group)[i] = node

SelectMember(group, node) ==
    /\ loading = "serving"
    /\ IsMember(group, node)
    /\ selections' = [selections EXCEPT ![group] = Position(group, node)]
    /\ UNCHANGED <<loadVars, query>>

\* A persisted snapshot replaces all selections or, if one is invalid, none.
SetSelections(snapshot) ==
    /\ loading = "serving"
    /\ \A g \in DOMAIN snapshot : IsMember(g, snapshot[g])
    /\ selections' = [g \in GroupIds |->
            IF g \in DOMAIN snapshot THEN Position(g, snapshot[g]) ELSE 1]
    /\ UNCHANGED <<loadVars, query>>
-----------------------------------------------------------------------------
(* Routing (route_inner): a step is one rule, or the wait for name servers. *)

Route(destination, udp) ==
    /\ loading = "serving" /\ query = Unrouted
    /\ query' = [pc |-> "rules", destination |-> destination, udp |-> udp, remote |-> ~udp,
                 at |-> 1, resolved |-> <<>>, leaf |-> 0, target |-> destination]
    /\ UNCHANGED <<loadVars, selections>>

Resolving(rule) == rule.kind = "address" /\ ~rule.noResolve

\* remote_domain_allowed once the rule has been visited.
Hinted(q, rule) == IF Resolving(rule) THEN q.remote /\ rule.proxy = Direct ELSE q.remote

\* Mutant of NeedsLookup: every resolving rule asks again.
NeedsLookupAgain(q, rule) == Resolving(rule) /\ q.destination \in DomainNames

NeedsLookup(q, rule) ==
    Resolving(rule) /\ q.destination \in DomainNames /\ q.resolved = <<>>

\* The addresses of q that an address rule covers, in the order of the answer.
Found(q, rule) == SelectSeq(q.resolved, LAMBDA address : address \in rule.payload)

Matched(q, rule) ==
    CASE rule.kind = "match" -> TRUE
      [] rule.kind = "context" -> q.destination \in rule.payload
      [] rule.kind = "address" ->
            IF q.destination \in Addresses THEN q.destination \in rule.payload
            ELSE ~rule.noResolve /\ Found(q, rule) # <<>>

\* The target of the route: the address that matched, the name if it may be
\* left to the proxy, or the first address that was checked.
Pinned(q, rule, leaf) ==
    IF Resolving(rule) /\ q.destination \in DomainNames THEN Found(q, rule)[1]
    ELSE IF (q.remote /\ Kinds[leaf] = "remote") \/ q.resolved = <<>> THEN q.destination
    ELSE q.resolved[1]

\* q after its rule has been compared.
Judged(q) ==
    LET rule == rules[q.at]
        leaf == ResolveProxy(rule.proxy)
    IN IF Matched(q, rule)
       THEN [q EXCEPT !.pc = "routed", !.leaf = leaf,
                      !.target = IF leaf = 0 THEN @ ELSE Pinned(q, rule, leaf)]
       ELSE [q EXCEPT !.pc = "rules", !.at = @ + 1]

NextRule ==
    /\ query.pc = "rules" /\ query.at <= Len(rules)
    /\ LET rule == rules[query.at]
           q == [query EXCEPT !.remote = Hinted(query, rule)]
       IN query' = IF NeedsLookup(query, rule) THEN [q EXCEPT !.pc = "dns"] ELSE Judged(q)
    /\ UNCHANGED <<loadVars, selections>>

\* Answers of name servers: any order, and a different one every time.
Answers == {<<a>> : a \in Addresses} \cup {<<a, b>> : a, b \in Addresses}

Resolve(answer) ==
    /\ query.pc = "dns"
    /\ query' = Judged([query EXCEPT !.resolved = answer])
    /\ UNCHANGED <<loadVars, selections>>

\* The lookup fails, takes too long or finds no slot; no rule matches; or the
\* connection that was routed is over.
RouteEnds ==
    /\ \/ query.pc \in {"dns", "routed"}
       \/ query.pc = "rules" /\ query.at > Len(rules)
    /\ query' = Unrouted
    /\ UNCHANGED <<loadVars, selections>>

RoutingNext ==
    \/ NextRoot \/ FollowEdge \/ ExpandRules
    \/ (\E g \in GroupIds, n \in Nodes : SelectMember(g, n))
    \/ (\E given \in SUBSET GroupIds : \E snapshot \in [given -> Nodes] : SetSelections(snapshot))
    \/ (\E d \in Destinations, udp \in BOOLEAN : Route(d, udp))
    \/ NextRule \/ (\E answer \in Answers : Resolve(answer)) \/ RouteEnds

RoutingSpec == RoutingInit /\ [][RoutingNext]_routingVars
-----------------------------------------------------------------------------
(* Properties. *)

\* Whatever is selected at any time, every group of a document that was
\* accepted leads to a proxy: the unreachable!() of resolve_proxy is never
\* reached, because cycles through members that are not selected were refused.
SelectionsResolve ==
    loading \in {"rules", "serving"} => \A n \in Nodes : ResolveProxy(n) # 0

\* Groups reachable from a set of groups.
Reach(from) ==
    LET step(s) == s \cup {m \in GroupIds : \E g \in s : IsMember(g, m)}
        after[n \in 0 .. Len(document.groups)] == IF n = 0 THEN from ELSE step(after[n - 1])
    IN after[Len(document.groups)]

\* resolve_groups refuses only documents in which some group contains itself:
\* a group that several others contain is no cycle.
OnlyCyclesRefused ==
    loading = "cycle" =>
        \E g \in GroupIds : g \in Reach({m \in GroupIds : IsMember(g, m)})

\* The reservation made before the expansion bounds it: however often the
\* rules of a provider are used, at most MAX_RULES rules are kept.
ExpansionFits == Len(rules) <= MaxRules

\* The source rule, not expanded, decides as its first entry that matches.
SourceMatched(q, source) ==
    IF source.kind = "rule-set"
    THEN \E i \in DOMAIN Entries(source) :
            Matched(q, [kind |-> Entries(source)[i].kind, payload |-> Entries(source)[i].payload,
                        noResolve |-> Entries(source)[i].noResolve \/ source.noResolve])
    ELSE Matched(q, source)

\* A connection goes where the first rule of the document that matches sends
\* it, in the order and with the target the document gives them: expansion
\* neither reorders rules nor lets an entry of a provider choose its target.
DocumentDecides ==
    query.pc = "routed" =>
        \E i \in DOMAIN Planned :
            /\ SourceMatched(query, Planned[i])
            /\ Planned[i].proxy = rules[query.at].proxy
            /\ \A j \in 1 .. i - 1 : ~SourceMatched(query, Planned[j])

\* Where a connection is sent was compared with every rule that was passed:
\* an address lies outside the networks of the resolving rules before the one
\* that matched, and inside that one's, although name servers answer
\* differently each time; a name is left to a remote proxy only if all the
\* resolving rules that were passed send to DIRECT, and never for UDP.
DialledIsChecked ==
    (query.pc = "routed" /\ query.destination \in DomainNames) =>
        LET passed == {i \in 1 .. query.at - 1 : Resolving(rules[i])}
        IN IF query.target \in Addresses
           THEN /\ \A i \in passed : query.target \notin rules[i].payload
                /\ Resolving(rules[query.at]) => query.target \in rules[query.at].payload
           ELSE /\ \A i \in passed : rules[i].proxy = Direct /\ ~query.udp
                /\ ~Resolving(rules[query.at])
                /\ passed # {} => Kinds[query.leaf] = "remote"

\* What resolve_groups accepts can be used whatever is selected, and it refuses
\* nothing but cycles.
GroupsResolve == SelectionsResolve /\ OnlyCyclesRefused

\* The expanded rules fit their reservation and decide as the document does.
RulesFollowDocument == ExpansionFits /\ DocumentDecides
=============================================================================
