----------------------------- MODULE MCServing -----------------------------
(* Model values and inputs for checking Serving. *)
EXTENDS Serving

CONSTANTS k1, k2, raw, full, slim, g1, p1, p2, c1, s1, s2

-----------------------------------------------------------------------------
(* The store's bundles, as in MCStore. *)

BundleMembers ==
    [b \in Bundles |-> IF b = full THEN {<<g1, p1>>, <<g1, p2>>}
                       ELSE IF b = slim THEN {<<g1, p1>>} ELSE {}]
BundleSelectable == [b \in Bundles |-> IF b = full THEN BundleMembers[full] ELSE {}]
LegacyBundles == [k \in Keys |-> IF k = k1 THEN full ELSE raw]
LegacyChoices == [k \in Keys |-> IF k = k1 THEN {<<g1, p2>>} ELSE {}]

-----------------------------------------------------------------------------
(* Documents.  Proxies are 1 to 3, groups start at 4. *)

ProxyKinds == <<"direct", "reject", "remote">>

ContextRule(covered, proxy) ==
    [kind |-> "context", payload |-> covered, noResolve |-> FALSE, proxy |-> proxy]
AddressRule(network, bare, proxy) ==
    [kind |-> "address", payload |-> network, noResolve |-> bare, proxy |-> proxy]
RuleSet(bare, proxy) ==
    [kind |-> "rule-set", provider |-> 1, noResolve |-> bare, proxy |-> proxy]
Document(groups, providers, sources) ==
    [groups |-> groups, providers |-> providers, rules |-> sources]

\* Three groups with cycles, diamonds and members that are not selected.
MemberLists ==
    {<<n>> : n \in {1, 4, 5, 6}} \cup {<<1, n>> : n \in {4, 5, 6}} \cup {<<4, 5>>, <<4, 6>>, <<5, 6>>}
GroupDocuments == {Document(<<a, b, c>>, <<>>, <<MatchRule(4)>>) : a, b, c \in MemberLists}

\* Two rules and a final one, with a group that selects DIRECT or a proxy.
PlainRules ==
    {ContextRule({"n"}, 2)} \cup
    {AddressRule(network, bare, p) : network \in {{"a"}, {"b"}}, bare \in BOOLEAN, p \in {1, 2, 4}}
RuleDocuments ==
    {Document(<<<<1, 3>>>>, <<>>, <<r, s, MatchRule(p)>>) : r, s \in PlainRules, p \in {3, 4}}

\* One provider, used once or twice, with or without a final rule.
ProviderEntries ==
    {<<ContextRule({"n"}, 1)>>, <<AddressRule({"a"}, FALSE, 1)>>,
     <<ContextRule({"b"}, 1), AddressRule({"b"}, FALSE, 1)>>, <<MatchRule(1)>>}
RuleSets == {RuleSet(bare, p) : bare \in BOOLEAN, p \in {2, 3}}
ProviderDocuments ==
    {Document(<<<<1, 3>>>>, <<provider>>, sources) : provider \in ProviderEntries,
        sources \in {<<s>> : s \in RuleSets} \cup {<<s, t>> : s, t \in RuleSets}
            \cup {<<s, MatchRule(3)>> : s \in RuleSets} \cup {<<MatchRule(3), s>> : s \in RuleSets}
            \cup {<<AddressRule({"b"}, FALSE, 1), s>> : s \in RuleSets}}

AllDocuments == GroupDocuments \cup RuleDocuments \cup ProviderDocuments
-----------------------------------------------------------------------------
(* Requests of HTTP clients. *)

Plain == [version |-> 1, length |-> TRUE, chunked |-> FALSE, trailers |-> FALSE, expect |-> FALSE,
          host |-> TRUE, connection |-> "none", head |-> FALSE, items |-> 2, forbidden |-> FALSE]
Chunked == [Plain EXCEPT !.length = FALSE, !.chunked = TRUE, !.items = 1]

HttpRequests ==
    {Plain, [Plain EXCEPT !.expect = TRUE, !.items = 1], [Plain EXCEPT !.connection = "close", !.items = 0],
     [Plain EXCEPT !.head = TRUE, !.items = 0],
     Chunked, [Chunked EXCEPT !.items = 2], [Chunked EXCEPT !.trailers = TRUE, !.forbidden = TRUE],
     [Plain EXCEPT !.version = 0, !.connection = "keep-alive", !.items = 1],
     [Plain EXCEPT !.chunked = TRUE], [Plain EXCEPT !.trailers = TRUE], [Plain EXCEPT !.host = FALSE]}
-----------------------------------------------------------------------------
(* Requests to the control API. *)

Selecting == [kind |-> "select", put |-> TRUE, auth |-> "right", header |-> "right", instance |-> "none",
              body |-> "good", member |-> TRUE, metadata |-> "none"]
Closing == [Selecting EXCEPT !.kind = "close", !.put = FALSE]

ControlRequests ==
    {Selecting, [Selecting EXCEPT !.metadata = "current"], [Selecting EXCEPT !.auth = "wrong"],
     [Selecting EXCEPT !.header = "wrong"],
     [Closing EXCEPT !.auth = "wrong"], [Closing EXCEPT !.instance = "other"],
     [Selecting EXCEPT !.kind = "probe", !.instance = "same"],
     [Closing EXCEPT !.kind = "status"], [Closing EXCEPT !.kind = "unknown"]}

InstanceSetups ==
    {[secret |-> FALSE, wildcard |-> FALSE, managed |-> FALSE],
     [secret |-> TRUE, wildcard |-> TRUE, managed |-> TRUE]}
=============================================================================
