---------------------------- MODULE GroupOutbounds ----------------------------
(***************************************************************************)
(* What is generated from a context: the outbounds of singbox/outbounds.rs  *)
(* for the active profile and for a rule.                                  *)
(*                                                                         *)
(* A tag is a sequence: what the code joins with "-" is appended.  A server *)
(* is [tag, leaf, detour]; an empty detour is none.                         *)
(***************************************************************************)
EXTENDS GroupValidation

-----------------------------------------------------------------------------
(* Outbounds.                                                               *)

ProxyTag == <<"proxy">>
TagWords == STRING \cup NodeIds

\* buildable_child_nodes: without duplicates, registered, and a group or a
\* leaf sing-box has an outbound for.
BuildableChildren(ids) ==
    Distinct(RowsIn(ids, {n \in Registered : n \in Groups \/ Buildable(Leaf[n])}))

\* A group as it is in the map; the profile a build starts from is used as it
\* is stored, before its children were resolved.
MappedChildren(n) == BuildableChildren(proxies[n].kids)
StoredChildren(n) == BuildableChildren(catalog[n].selected)

PolicyTag(base, nodes, i) ==
    IF Len(nodes) = 1 THEN base ELSE base \o <<ToString(i), nodes[i]>>
ChainTag(base, i, node) == <<"chain">> \o base \o <<ToString(i), node>>

LeafServer(n, tag) == [tag |-> tag, leaf |-> n, detour |-> <<>>]
Detoured(servers, tag) ==
    [i \in DOMAIN servers |->
        IF tag # <<>> /\ servers[i].detour = <<>>
        THEN [servers[i] EXCEPT !.detour = tag] ELSE servers[i]]
Redirected(servers, from, to) ==
    [i \in DOMAIN servers |->
        IF servers[i].detour = from THEN [servers[i] EXCEPT !.detour = to]
        ELSE servers[i]]

\* Every copy leads to the hop as a whole.
Mut_ClonedChain(servers, hop, start, branch) ==
    [i \in DOMAIN servers |->
        [servers[i] EXCEPT !.tag = @ \o <<"clone", ToString(branch)>>]]

\* One copy of the chain built so far for each server its next hop can start
\* with; a server that did not lead to that hop leads to the one after it.
ClonedChain(servers, hop, start, branch) ==
    LET cloneTag(i) == servers[i].tag \o <<"clone", ToString(branch)>>
    IN  [i \in DOMAIN servers |->
            [servers[i] EXCEPT
                !.tag = cloneTag(i),
                !.detour = IF servers[i].detour = hop \/ i = Len(servers)
                           THEN start.tag ELSE cloneTag(i + 1)]]

Rewired(servers, hop, starts) ==
    CASE Len(starts) = 0 -> servers
      [] Len(starts) = 1 -> Redirected(servers, hop, starts[1].tag)
      [] OTHER -> FlattenSeq([b \in DOMAIN starts |->
                                 ClonedChain(servers, hop, starts[b], b)])

\* build_outbounds_list and build_chain_outbounds_list; built is what is built for
\* a child and its tag.  The last child of a chain is the one traffic leaves
\* through and has the tag of the chain.
ListServers(nodes, base, built) ==
    FlattenSeq([i \in DOMAIN nodes |-> built[<<nodes[i], PolicyTag(base, nodes, i)>>]])
ChainServers(nodes, base, built) ==
    LET hops == Reverse(nodes)
        tagOf(i) == IF i = 1 THEN base ELSE ChainTag(base, i - 1, hops[i])
        nextTag(i) == IF i = Len(hops) THEN <<>> ELSE tagOf(i + 1)
        chained[i \in 0 .. Len(hops)] ==
            IF i = 0 THEN <<>>
            ELSE LET hop == Detoured(built[<<hops[i], tagOf(i)>>], nextTag(i))
                     startsHere(s) == IsPrefix(tagOf(i), s.tag)
                 IN  IF hops[i] \in Groups /\ i > 1
                     THEN Rewired(chained[i - 1], tagOf(i), SelectSeq(hop, startsHere))
                          \o hop
                     ELSE chained[i - 1] \o hop
    IN  chained[Len(hops)]
GroupServers(nodes, chain, base, built) ==
    IF chain THEN ChainServers(nodes, base, built) ELSE ListServers(nodes, base, built)

\* build_group_proxy_servers, of a child and its tag.
ChildServers[x \in NodeIds \X Seq(TagWords)] ==
    LET n == x[1]
    IN  IF n \in Groups
        THEN GroupServers(MappedChildren(n), catalog[n].chain, x[2], ChildServers)
        ELSE <<LeafServer(n, x[2])>>

\* build_all_proxy_servers: with more than one tag to choose from, a selector
\* takes the base tag and a urltest the tag after it.
Entrances(servers, base) == {t \in {servers[i].tag : i \in DOMAIN servers} :
                                IsPrefix(base, t)}
WithSelectors(servers, base) ==
    LET entrances == Entrances(servers, base)
    IN  [servers |-> servers,
         selectors |-> IF Cardinality(entrances) > 1
                       THEN <<[tag |-> base,
                               outbounds |-> entrances \cup {base \o <<"auto">>}],
                              [tag |-> base \o <<"auto">>, outbounds |-> entrances]>>
                       ELSE <<>>]

EntryServers(n, base) ==
    IF n \in Groups
    THEN GroupServers(StoredChildren(n), catalog[n].chain, base, ChildServers)
    ELSE <<LeafServer(n, base)>>
AllServers(n, base) == WithSelectors(EntryServers(n, base), base)

\* gen_routing_user_rule_outbound: the profile a rule names gets outbounds of
\* its own, once; without a server the rule goes to the proxy.
RuleTag(n) == <<n, "proxy">>
RuleOutbound(n) ==
    IF n \in Registered /\ (n \in Groups \/ Buildable(Leaf[n])) /\
       EntryServers(n, RuleTag(n)) # <<>>
    THEN RuleTag(n) ELSE ProxyTag

\* generate_singbox_speedtest_config: one configuration for the profiles that
\* are tested together, each behind a port of its own, here its place.
SpeedtestTag(port) == <<"proxy", ToString(port)>>
SpeedtestServers(entries) ==
    [port \in DOMAIN entries |-> AllServers(entries[port], SpeedtestTag(port))]
SpeedtestRules(entries) ==
    [port \in DOMAIN entries |-> [inbound |-> <<"mixed", port>>, outbound |-> SpeedtestTag(port)]]

-----------------------------------------------------------------------------
(* What it should be.                                                       *)

\* The servers traffic passes, from the one it leaves through to the one it is
\* sent to: one of the children of a group, all children of a chain.
PathsOf[n \in NodeIds] ==
    LET nodes == MappedChildren(n)
        join(sofar, m) == {p \o q : p \in PathsOf[m], q \in sofar}
    IN  CASE n \notin Groups -> {<<n>>}
          [] n \in Groups /\ catalog[n].chain -> FoldLeft(join, {<<>>}, nodes)
          [] OTHER -> UNION {PathsOf[m] : m \in ToSet(nodes)}

\* The servers passed from tag on; a detour that runs in a circle leads nowhere.
PathFrom(servers, tag) ==
    LET passes(w) ==
            LET here == {i \in DOMAIN servers : servers[i].tag = w.at}
                server == servers[CHOOSE i \in here : TRUE]
            IN  CASE w.at = <<>> -> w
                  [] w.at # <<>> /\ here = {} ->
                        [at |-> <<>>, passed |-> Append(w.passed, "nowhere")]
                  [] OTHER -> [at |-> server.detour, passed |-> Append(w.passed, server.leaf)]
        walk[k \in 0 .. Len(servers)] ==
            IF k = 0 THEN [at |-> tag, passed |-> <<>>] ELSE passes(walk[k - 1])
        end == walk[Len(servers)]
    IN  IF end.at = <<>> THEN end.passed ELSE Append(end.passed, "nowhere")

GeneratedPaths(servers, base) ==
    {PathFrom(servers, t) : t \in Entrances(servers, base)}

-----------------------------------------------------------------------------
(* Properties.                                                              *)

TagsOf(all) == [i \in DOMAIN all.servers |-> all.servers[i].tag] \o
               [i \in DOMAIN all.selectors |-> all.selectors[i].tag]

\* A profile is expanded to servers with tags of their own, one of which has
\* the tag the rules refer to, and traffic takes exactly the paths the groups
\* and chains describe, hop by hop.
ExpandsTo(n, base, expected) ==
    LET all == AllServers(n, base)
    IN  /\ IsInjective(TagsOf(all))
        /\ base \in ToSet(TagsOf(all))
        /\ GeneratedPaths(all.servers, base) = expected

\* What is left out: groups that were not validated when they were saved or
\* that lost a child since, an active group with a subscription (its children
\* are not resolved), and two forms of nested chains whose tags the generator
\* confuses: a chain that ends in a chain, and one with several groups.
HasChain(n) == \E g \in (Below(n) \cup {n}) \cap Groups : catalog[g].chain
OrdinaryGroup(g) ==
    /\ GroupIsValid(g)
    /\ \A i \in DOMAIN GroupChildren(g) :
          LET n == GroupChildren(g)[i] IN n \in Leaves => Buildable(Leaf[n])
    /\ catalog[g].chain =>
          /\ ~HasChain(Last(catalog[g].selected))
          /\ Cardinality(ToSet(catalog[g].selected) \cap Groups) <= 1
OrdinaryGroups ==
    /\ \A n \in ToSet(roots) : \A g \in (Below(n) \cup {n}) \cap Groups : OrdinaryGroup(g)
    /\ \A n \in ToSet(roots) \cap Groups : ~catalog[n].source

\* Profiles tested in one core do not get in each other's way: the rule of each
\* port leads to its own profile's servers and to no others.
TestsAreApart ==
    LET entries == SelectSeq(roots, LAMBDA n : n \in Registered)
        all == SpeedtestServers(entries)
        rules == SpeedtestRules(entries)
    IN  \A i \in DOMAIN entries :
            /\ ExpandsTo(entries[i], rules[i].outbound, PathsOf[entries[i]])
            /\ \A j \in DOMAIN entries \ {i} :
                  ToSet(TagsOf(all[i])) \cap ToSet(TagsOf(all[j])) = {}

GroupOutboundsAreRight ==
    (outcome = "built" /\ OrdinaryGroups) =>
        /\ TestsAreApart
        /\ ExpandsTo(roots[1], ProxyTag, PathsOf[roots[1]])
        /\ \A n \in ToSet(Tail(roots)) \cap Registered :
              RuleOutbound(n) = RuleTag(n) /\ ExpandsTo(n, RuleTag(n), PathsOf[n])

\* A group that takes its members from a subscription has a server for each of
\* them, as the map of proxies has (the test context.rs:779-818).
GroupUsesItsSubscription ==
    LET g == roots[1] IN
    (outcome = "built" /\ g \in Groups /\ catalog[g].source) =>
        \A n \in ToSet(MappedChildren(g)) \cap Leaves :
            \E i \in DOMAIN AllServers(g, ProxyTag).servers :
                AllServers(g, ProxyTag).servers[i].leaf = n
=============================================================================
