----------------------------- MODULE SingboxConfig -----------------------------
(***************************************************************************)
(* The sing-box configuration generated from a context: inbounds, routing,  *)
(* DNS and rule sets of voya-core singbox/.                                 *)
(*                                                                         *)
(* settings is what the user can set; its rules are the active routing.  An *)
(* entry of a domain list is <<kind, name>>, one of an ip list is [kind,    *)
(* name, not].  A rule of the configuration takes what matches all of its    *)
(* fields that are not empty.                                              *)
(***************************************************************************)
EXTENDS GroupOutbounds

CONSTANTS
    Settings,       \* what is tried for the settings
    Flows,          \* connections: [domain, ip, literal, process, port]
    ClashModes      \* modes of the Clash API

\* Rules are a list, and a region is not the one answers come from otherwise.
ASSUME SettingsBounds ==
    /\ \A s \in Settings :
          /\ s.rules \in Seq(ToSet(s.rules)) /\ IsFiniteSet(s.hosts)
          /\ s.region # "elsewhere"
          /\ \A r \in ToSet(s.rules) : \A e \in r.ip : e.not \in BOOLEAN
    /\ \A f \in Flows : f.literal \in BOOLEAN

VARIABLE
    appConfig       \* the settings the configuration is generated from

configVars == <<contextVars, appConfig>>
ConfigInit == ContextInit /\ appConfig \in Settings
ConfigNext == ContextNext /\ UNCHANGED appConfig
ConfigSpec == ConfigInit /\ [][ConfigNext]_configVars

NoWord == ""

NoRule == [out |-> <<>>, action |-> NoWord, mode |-> NoWord, port |-> NoWord, domain |-> {},
           ip |-> {}, except |-> {}, process |-> {}]
Goes(tag) == [NoRule EXCEPT !.out = tag]
Does(action) == [NoRule EXCEPT !.action = action]

-----------------------------------------------------------------------------
(* Inbounds.                                                                *)

\* InboundProtocol::port_offset.
PortOffset == [socks |-> 0, socks2 |-> 1, socks3 |-> 2, api2 |-> 5]

Mixed(tag, local, address) ==
    [tag |-> tag, port |-> local + PortOffset[tag], listen |-> address]

\* gen_inbounds: the second core of a TUN, whose profile is the mixed port of
\* the first, opens none itself.
Inbounds(settings, tun, usesMixedPort) ==
    LET lan == IF settings.lan THEN "any" ELSE "loopback"
        mixed ==
            <<Mixed("socks", settings.local,
                    IF settings.lanPort THEN "loopback" ELSE lan)>>
            \o (IF settings.second
                THEN <<Mixed("socks2", settings.local, "loopback")>> ELSE <<>>)
            \o (IF settings.lan /\ settings.lanPort
                THEN <<Mixed("socks3", settings.local, "any")>> ELSE <<>>)
    IN  (IF tun /\ usesMixedPort THEN <<>> ELSE mixed)
        \o (IF tun THEN <<[tag |-> "tun", port |-> 0, listen |-> "none"]>> ELSE <<>>)

\* state_port2: the controller of a core with a TUN is one port further.
ControllerPort(settings, tun) ==
    settings.local + PortOffset["api2"] + (IF tun THEN 1 ELSE 0)

\* build_tun_inbound: what macOS does differently.
TunInbound(settings, mixed) ==
    [strict |-> settings.strict /\ settings.os # "macos",
     mtu |-> LET mtu == IF settings.mtu > 0 THEN settings.mtu ELSE 1280
             IN  IF settings.os = "macos" /\ mtu > 1500 THEN 1500 ELSE mtu,
     ipv6 |-> (settings.os = "macos" \/ settings.ipv6),
     proxy |-> IF settings.os = "macos" /\ mixed THEN settings.local ELSE 0]

-----------------------------------------------------------------------------
(* Lists of a rule.                                                         *)

\* parse_v2_domain: comments and references to files are left out.
ParsedDomains(list) ==
    {IF e[1] \in {"plain", "dotless"} THEN <<"keyword", e[2]>> ELSE e :
        e \in {x \in list : x[1] \notin {"comment", "ext"}}}

\* normalize_bare_host_domain: a host without a kind is a full name.
HostDomain(e) == IF e[1] = "plain" THEN <<"full", e[2]>> ELSE e

\* parse_v2_address, for the entries with and without a "!".
ParsedAddresses(list, negated) ==
    {<<e.kind, e.name>> : e \in {x \in list : x.not = negated /\ x.kind # "ext"}}

\* The positive addresses of a rule without those it excludes; only exclusions
\* make no rule.
AddressRules(common, list) ==
    LET excludes == \E e \in list : e.not
        positive == ParsedAddresses(list, FALSE)
        negative == ParsedAddresses(list, TRUE)
    IN  IF positive = {} THEN <<>>
        ELSE IF excludes /\ negative = {}
             THEN <<[common EXCEPT !.ip = positive, !.out = <<>>, !.action = NoWord]>>
        ELSE <<[common EXCEPT !.ip = positive, !.except = negative]>>

ProcessRules(common, list) ==
    LET names == {p \in list : p[1] = "name"}
        paths == list \ names
    IN  (IF names # {} THEN <<[common EXCEPT !.process = names]>> ELSE <<>>)
        \o (IF paths # {} THEN <<[common EXCEPT !.process = paths]>> ELSE <<>>)

\* gen_routing_user_rule: a rule for each list; the ports alone when no list
\* gave one.
RuleTarget(rule) ==
    IF rule.outbound \in {"proxy", "direct", "block"} THEN <<rule.outbound>>
    ELSE RuleOutbound(rule.outbound)

RulesTo(target, rule) ==
    LET common == [(IF target = <<"block">> THEN Does("reject") ELSE Goes(target))
                   EXCEPT !.port = rule.port]
        domains == ParsedDomains(rule.domain)
        lists == (IF domains # {} THEN <<[common EXCEPT !.domain = domains]>>
                  ELSE <<>>)
                 \o AddressRules(common, rule.ip)
                 \o ProcessRules(common, rule.process)
        excludesOnly == ParsedAddresses(rule.ip, FALSE) = {} /\ \E e \in rule.ip : e.not
    IN  IF lists = <<>> /\ ~excludesOnly /\ rule.port # NoWord THEN <<common>>
        ELSE lists
UserRule(rule) == RulesTo(RuleTarget(rule), rule)

-----------------------------------------------------------------------------
(* Routing.                                                                 *)

\* tun_route_rules, the core's own traffic, tun_icmp_routing.
TunRules(settings) ==
    <<[Does("reject") EXCEPT !.port = "mdns"],
      [Does("reject") EXCEPT !.ip = {<<"cidr", "multicast">>}],
      [Goes(<<"direct">>) EXCEPT !.process = {<<"name", "sing-box">>}]>>
    \o CASE settings.icmp = "direct" -> <<[Goes(<<"direct">>) EXCEPT !.port = "icmp"]>>
         [] settings.icmp = "reject" -> <<[Does("reject") EXCEPT !.port = "icmp"]>>
         [] OTHER -> <<>>

PriorityDomain == <<"domain", "priority">>
PriorityRule(tag) == [Goes(tag) EXCEPT !.domain = {PriorityDomain}]

\* hosts_resolve_rule: names the user gave addresses are resolved first.
HostNames(settings) ==
    {HostDomain(h.name) : h \in {x \in settings.hosts : ParsedDomains({x.name}) # {}}}
HostsRules(settings) ==
    IF HostNames(settings) = {} THEN <<>>
    ELSE <<[Does("resolve") EXCEPT !.domain = HostNames(settings)]>>

\* The rules of the active routing that are for traffic; those with addresses
\* alone when they are asked again.
ForTraffic(rule) == rule.enabled /\ rule.type # "dns"
UserRules(settings, addressed) ==
    FlattenSeq([i \in DOMAIN settings.rules |->
        LET rule == settings.rules[i]
        IN  IF ForTraffic(rule) /\ (addressed => rule.ip # {}) THEN UserRule(rule) ELSE <<>>])

Mut_NonMatchRules(settings) ==
    IF settings.strategy = "IPIfNonMatch" THEN UserRules(settings, TRUE) ELSE <<>>

\* IPIfNonMatch: when no rule takes a name, it is resolved and the rules with
\* addresses are asked again.
NonMatchRules(settings) ==
    IF settings.strategy = "IPIfNonMatch"
    THEN <<Does("resolve")>> \o UserRules(settings, TRUE)
    ELSE <<>>

\* gen_routing; what no rule takes goes to the proxy.
RouteRules(settings, tun) ==
    (IF tun THEN TunRules(settings) ELSE <<>>)
    \o (IF settings.sniff THEN <<Does("sniff")>> ELSE <<>>)
    \o <<[Does("hijack-dns") EXCEPT !.port = "53"]>>
    \o HostsRules(settings)
    \o <<PriorityRule(ProxyTag),
         [Goes(<<"direct">>) EXCEPT !.mode = "Direct"],
         [Goes(ProxyTag) EXCEPT !.mode = "Global"]>>
    \o (IF settings.strategy = "IPOnDemand" THEN <<Does("resolve")>> ELSE <<>>)
    \o UserRules(settings, FALSE)
    \o NonMatchRules(settings)

-----------------------------------------------------------------------------
(* DNS.                                                                     *)

\* parse_dns_address_or_default: an address is [host, valid].
DnsAddress(address, default) == IF address.valid THEN address.host ELSE default

\* The names that have addresses without asking: the common ones, and those of
\* the user's hosts that are full names.
Predefined(settings) ==
    (IF settings.commonHosts THEN {"dns.common"} ELSE {}) \cup
    {HostDomain(h.name)[2] : h \in {x \in settings.hosts : HostDomain(x.name)[1] = "full"}}

\* gen_dns_servers.
DnsServers(settings) ==
    LET known(host) == host \in Predefined(settings)
        server(tag, address, detour, resolver) ==
            LET host == DnsAddress(address, "ip")
            IN  [tag |-> tag, host |-> host, detour |-> detour,
                 resolver |-> IF known(host) THEN "hosts_dns" ELSE resolver]
    IN  {server("local_local", settings.bootstrap, <<>>, NoWord),
         server("remote_dns", settings.remote, ProxyTag, "local_local"),
         server("direct_dns", settings.direct, <<>>, "local_local"),
         [tag |-> "hosts_dns", host |-> NoWord, detour |-> <<>>, resolver |-> NoWord]}
        \cup (IF settings.fake # "off"
              THEN {[tag |-> "fake_dns", host |-> NoWord, detour |-> <<>>, resolver |-> NoWord]}
              ELSE {})

\* A DNS rule is a rule that also looks at the type of the query ("a" for
\* addresses) and at the regions of the answer.
DnsRule(server, domain) ==
    [out |-> server, action |-> NoWord, mode |-> NoWord, domain |-> domain, ip |-> {},
     except |-> {}, query |-> NoWord, regions |-> {}, accepts |-> FALSE]

\* append_dns_routing_rules: the domains of a rule, by where its traffic goes.
\* With expected addresses, the names of the region are for the direct server
\* only when the answer is in the region.
RegionalNames(settings, domains) ==
    IF settings.region = NoWord THEN {} ELSE {d \in domains : d = <<"geosite", settings.region>>}

DnsUserRule(settings, rule) ==
    LET domains == ParsedDomains(rule.domain)
        regional == RegionalNames(settings, domains)
        plain == domains \ regional
    IN  CASE domains = {} -> <<>>
          [] domains # {} /\ rule.outbound = "direct" ->
                (IF regional # {}
                 THEN <<[DnsRule("direct_dns", domains \ {d \in plain : d[1] = "geosite"})
                            EXCEPT !.regions = {settings.region}]>>
                 ELSE <<>>)
                \o (IF plain # {} THEN <<DnsRule("direct_dns", plain)>> ELSE <<>>)
          [] domains # {} /\ rule.outbound = "block" ->
                <<[DnsRule(NoWord, domains) EXCEPT !.action = "nxdomain"]>>
          [] OTHER ->
                (IF settings.fake = "rules"
                 THEN <<[DnsRule("fake_dns", domains) EXCEPT !.query = "a"]>> ELSE <<>>)
                \o <<DnsRule("remote_dns", domains)>>

\* The answers of the user's hosts that are no addresses of a full name.
HostAnswers(settings) ==
    SetToSeq({[DnsRule(NoWord, ParsedDomains({HostDomain(h.name)}))
                  EXCEPT !.action = "predefined"] :
                h \in {x \in settings.hosts : ParsedDomains({x.name}) # {}
                          /\ (x.answer = "ip" => HostDomain(x.name)[1] # "full")}})

\* final_dns_uses_direct: the last rule, enabled or not, sends all directly.
FinalIsDirect(settings) ==
    /\ settings.rules # <<>>
    /\ LET last == Last(settings.rules)
       IN  /\ last.outbound = "direct" /\ last.port \in {NoWord, "all"}
           /\ last.domain = {} /\ last.process = {}
           /\ last.ip = {} \/ \E e \in last.ip : e.kind = "cidr" /\ e.name = "all"
FinalDns(settings) == IF FinalIsDirect(settings) THEN "direct_dns" ELSE "remote_dns"

ForNames(rule) == rule.enabled /\ rule.type # "routing"
DnsUserRules(settings) ==
    FlattenSeq([i \in DOMAIN settings.rules |->
        LET rule == settings.rules[i]
        IN  IF ForNames(rule) THEN DnsUserRule(settings, rule) ELSE <<>>])

\* gen_dns and gen_dns_rules.
DnsRules(settings) ==
    <<[DnsRule("hosts_dns", {}) EXCEPT !.accepts = TRUE]>>
    \o (IF protect # {}
        THEN <<DnsRule("direct_dns", {<<"full", p>> : p \in protect})>> ELSE <<>>)
    \o <<DnsRule("remote_dns", {PriorityDomain}),
         [DnsRule("remote_dns", {}) EXCEPT !.mode = "Global"],
         [DnsRule("direct_dns", {}) EXCEPT !.mode = "Direct"]>>
    \o HostAnswers(settings)
    \o (IF settings.fake = "global"
        THEN <<[DnsRule("fake_dns", {}) EXCEPT !.query = "a"]>> ELSE <<>>)
    \o DnsUserRules(settings)
    \o (IF settings.fake = "rules" /\ ~FinalIsDirect(settings)
        THEN <<[DnsRule("fake_dns", {}) EXCEPT !.query = "a"]>> ELSE <<>>)

-----------------------------------------------------------------------------
(* Rule sets.                                                               *)

\* convert_rule_geo_to_ruleset, with the rules nested in it.
GeoNames(rule) ==
    {x \in rule.domain : x[1] = "geosite"} \cup
    {x \in rule.ip \cup rule.except : x[1] = "geoip"}

RuleSet(settings, name) ==
    [tag |-> name,
     detour |-> IF name \in settings.ownSets \cup settings.localSets THEN <<>> ELSE ProxyTag]

\* Only the rules of the route are searched.
Mut_RuleSets(settings, tun) ==
    {RuleSet(settings, n) :
        n \in UNION {GeoNames(r) : r \in ToSet(RouteRules(settings, tun))}}

\* convert_geo_to_ruleset: each name once, as the user's own rule set, from a
\* file that was downloaded, or from the source, through the proxy.
RuleSets(settings, tun) ==
    LET route == ToSet(RouteRules(settings, tun))
        dns == ToSet(DnsRules(settings))
    IN  {RuleSet(settings, n) :
            n \in UNION {GeoNames(r) : r \in route \cup dns} \cup
                  UNION {{<<"geoip", g>> : g \in r.regions} : r \in dns}}

-----------------------------------------------------------------------------
(* What sing-box does with the rules.                                       *)

\* A name is known to the core from the connection or by sniffing; its address
\* when it was given or resolved.
Matches(rule, flow, resolved, mode) ==
    /\ rule.mode \in {NoWord, mode}
    /\ rule.port \in {NoWord, "all", flow.port}
    /\ rule.process = {} \/ rule.process \cap flow.process # {}
    /\ \/ rule.domain = {} /\ rule.ip = {}
       \/ rule.domain \cap flow.domain # {}
       \/ resolved /\ rule.ip \cap flow.ip # {} /\ rule.except \cap flow.ip = {}

\* The first rule that takes the connection; a resolve or a sniff goes on.
Passes(now, rule, flow, mode) ==
    IF now.verdict # <<>> \/ ~Matches(rule, flow, now.resolved, mode) THEN now
    ELSE CASE rule.action = "sniff"   -> now
           [] rule.action = "resolve" -> [now EXCEPT !.resolved = TRUE]
           [] rule.action \notin {"sniff", "resolve", NoWord} ->
                 [now EXCEPT !.verdict = <<rule.action>>]
           [] OTHER                   -> [now EXCEPT !.verdict = rule.out]
Passed(rules, start, flow, mode) ==
    LET now[i \in 0 .. Len(rules)] ==
            IF i = 0 THEN start ELSE Passes(now[i - 1], rules[i], flow, mode)
    IN  now[Len(rules)]
Verdict(rules, flow, mode) ==
    LET end == Passed(rules, [verdict |-> <<>>, resolved |-> flow.literal], flow, mode)
    IN  IF end.verdict = <<>> THEN ProxyTag ELSE end.verdict

\* The server a name is asked from; hosts: whether hosts_dns has an address.
TakesName(rule, name, hosts, region, mode) ==
    /\ rule.mode \in {NoWord, mode}
    /\ rule.accepts => hosts
    /\ rule.domain = {} \/ rule.domain \cap name # {}
    /\ rule.regions = {} \/ region \in rule.regions
DnsVerdict(rules, name, hosts, region, mode) ==
    LET taking == {i \in DOMAIN rules : TakesName(rules[i], name, hosts, region, mode)}
        first == rules[CHOOSE i \in taking : \A j \in taking : i <= j]
    IN  IF taking = {} THEN "final" ELSE IF first.action # NoWord THEN first.action ELSE first.out

-----------------------------------------------------------------------------
(* Properties.                                                              *)

\* The contexts and settings the properties are about: groups as they are
\* saved, every profile a rule names registered, and no exclusion that only
\* names a file, which leaves a rule without a target.
Named(settings) == {r.outbound : r \in ToSet(settings.rules)} \
                   {"proxy", "direct", "block", "unknown"}
Generated(settings) ==
    /\ outcome = "built"
    /\ Named(settings) \subseteq ToSet(Tail(roots))
    /\ OrdinaryGroups
    /\ \A r \in ToSet(settings.rules) :
          (\E e \in r.ip : e.not) => ParsedAddresses(r.ip, TRUE) # {}

Servers(settings) ==
    LET main == AllServers(roots[1], ProxyTag)
        extra == SetToSeq({RuleTag(n) : n \in {m \in Named(settings) :
                                                  RuleOutbound(m) # ProxyTag}})
    IN  TagsOf(main) \o FlattenSeq([i \in DOMAIN extra |->
            TagsOf(AllServers(extra[i][1], extra[i]))]) \o <<<<"direct">>>>

\* Every name one part of the configuration has for another is there, once:
\* outbounds, DNS servers with their resolvers and detours, and rule sets,
\* wherever a list named one.  sing-box refuses a configuration that names
\* what is not.
ReferencesAreClosed(settings, tun) ==
    LET route == ToSet(RouteRules(settings, tun))
        dns == ToSet(DnsRules(settings))
        servers == DnsServers(settings)
        sets == RuleSets(settings, tun)
        tags == {s.tag : s \in servers}
    IN  /\ IsInjective(Servers(settings))
        /\ \A r \in route : r.action = NoWord => r.out \in ToSet(Servers(settings))
        /\ \A r \in dns : r.action = NoWord => r.out \in tags
        /\ FinalDns(settings) \in tags
        /\ \A s \in servers \cup sets :
              s.detour # <<>> => s.detour \in ToSet(Servers(settings))
        /\ \A s \in servers : s.resolver # NoWord =>
              s.resolver \in tags /\ s.resolver # s.tag
        /\ {s.tag : s \in sets} =
              UNION {GeoNames(r) : r \in route \cup dns} \cup
              UNION {{<<"geoip", g>> : g \in r.regions} : r \in dns}

\* The two cores of a TUN, the one with the TUN and the one its profile leads
\* to, never listen on the same port; nor does any one twice.
ListenersDoNotCollide(settings) ==
    LET ports(inbounds) == SelectSeq([i \in DOMAIN inbounds |-> inbounds[i].port],
                                     LAMBDA p : p # 0)
        listeners(core, tun, usesMixedPort) ==
            ports(Inbounds(settings, core /\ tun, usesMixedPort))
            \o <<ControllerPort(settings, core /\ tun)>>
        second(tun) == PreSocksItem(FALSE, tun, settings.os = "windows", 0)
    IN  \A tun \in BOOLEAN :
            IsInjective(listeners(~second(tun), tun, FALSE)
                        \o (IF second(tun) THEN listeners(TRUE, tun, TRUE) ELSE <<>>))

\* The proxy a macOS TUN tells the system is an inbound of the same core.
TunProxyListens(settings) ==
    \A usesMixedPort \in BOOLEAN :
        LET inbounds == Inbounds(settings, TRUE, usesMixedPort)
            tunnel == TunInbound(settings, \E i \in DOMAIN inbounds : inbounds[i].tag = "socks")
        IN  /\ tunnel.proxy \in {0} \cup {inbounds[i].port : i \in DOMAIN inbounds}
            /\ settings.os = "macos" => tunnel.mtu \in 1 .. 1500 /\ ~tunnel.strict

\* What the configuration names exists, for every context and all settings.
ConfigurationIsClosed ==
    Generated(appConfig) =>
        /\ \A tun \in BOOLEAN : ReferencesAreClosed(appConfig, tun)
        /\ ListenersDoNotCollide(appConfig)
        /\ TunProxyListens(appConfig)

\* What a rule as the user wrote it takes: a connection in any of its lists,
\* one in an address list not excluded by it; by its port alone when its lists
\* say nothing.
Accepts(rule, flow, resolved) ==
    LET addresses == ParsedAddresses(rule.ip, FALSE)
        excluded == ParsedAddresses(rule.ip, TRUE)
        empty == ParsedDomains(rule.domain) \cup addresses \cup excluded
                 \cup rule.process = {}
    IN  /\ rule.port \in {NoWord, "all", flow.port}
        /\ \/ ParsedDomains(rule.domain) \cap flow.domain # {}
           \/ rule.process \cap flow.process # {}
           \/ resolved /\ addresses \cap flow.ip # {} /\ excluded \cap flow.ip = {}
           \/ empty /\ rule.port # NoWord

\* The first rule that takes the connection, by its address too when that is
\* known: given, in the hosts, or with IPOnDemand.  With IPIfNonMatch, and when
\* there is none, the first that takes the resolved name.
Written(settings, flow) ==
    LET rules == settings.rules
        takes(i, known) == ForTraffic(rules[i]) /\ Accepts(rules[i], flow, known)
        first(known) == {i \in DOMAIN rules :
            takes(i, known) /\ \A j \in 1 .. i - 1 : ~takes(j, known)}
        now == first(\/ flow.literal
                     \/ settings.strategy = "IPOnDemand"
                     \/ flow.domain \cap HostNames(settings) # {})
        later == IF settings.strategy = "IPIfNonMatch" THEN first(TRUE) ELSE {}
        taken == IF now # {} THEN now ELSE later
        target == RuleTarget(rules[CHOOSE i \in taken : TRUE])
    IN  IF taken = {} THEN ProxyTag
        ELSE IF target = <<"block">> THEN <<"reject">> ELSE target

\* Traffic in mode Rule goes where the first rule that takes it says, however
\* its lists were taken apart and whenever its name is resolved; and with a
\* TUN what the core itself sends to a host never enters the core again, in any
\* mode.
CoreProcess == <<"name", "sing-box">>
Multicast == <<"cidr", "multicast">>
TakenByFixedRule(flow, tun) ==
    \/ flow.port = "53" \/ PriorityDomain \in flow.domain
    \/ tun /\ (flow.port \in {"mdns", "icmp"} \/ Multicast \in flow.ip
               \/ CoreProcess \in flow.process)
RulesDecide(settings, tun) ==
    LET rules == RouteRules(settings, tun)
    IN  \A flow \in Flows :
        /\ TakenByFixedRule(flow, tun) \/
              Verdict(rules, flow, "Rule") = Written(settings, flow)
        /\ (/\ tun /\ CoreProcess \in flow.process
            /\ flow.port # "mdns" /\ Multicast \notin flow.ip) =>
              \A mode \in ClashModes : Verdict(rules, flow, mode) = <<"direct">>

\* A proxy's own name is never asked through the proxy, in any mode, and the
\* name of a rule is asked where its traffic goes, unless it is a proxy's or has
\* an address of its own; a name of the region for the direct server only when
\* the answer is of the region too.
NamesAreAskedWhereTheyGo(settings) ==
    LET rules == DnsRules(settings)
        user == settings.rules
        has(i, d) == ForNames(user[i]) /\ d \in ParsedDomains(user[i].domain)
        names == UNION {ParsedDomains(user[i].domain) : i \in {j \in DOMAIN user : ForNames(user[j])}}
        first(d) == user[CHOOSE i \in DOMAIN user : has(i, d) /\ \A j \in 1 .. i - 1 : ~has(j, d)]
        once(d) == \A i, j \in DOMAIN user : has(i, d) /\ has(j, d) => i = j
        asked(d, region) == DnsVerdict(rules, {d}, FALSE, region, "Rule")
        own == {<<"full", p>> : p \in protect} \cup
               ParsedDomains({HostDomain(h.name) : h \in settings.hosts}) \cup {PriorityDomain}
    IN  /\ \A p \in protect, mode \in ClashModes, hosts \in BOOLEAN :
              DnsVerdict(rules, {<<"full", p>>}, hosts, NoWord, mode)
                  \in {"hosts_dns", "direct_dns"}
        /\ settings.fake # "global" => \A d \in names \ own :
              asked(d, settings.region) =
                  CASE first(d).outbound = "direct" -> "direct_dns"
                    [] first(d).outbound = "block"  -> "nxdomain"
                    [] OTHER -> IF settings.fake = "rules" THEN "fake_dns" ELSE "remote_dns"
        /\ \A d \in names :
              (/\ settings.region # NoWord /\ d = <<"geosite", settings.region>>
               /\ once(d) /\ first(d).outbound = "direct") =>
                  asked(d, "elsewhere") # "direct_dns"

\* Rules and modes do what the user was told they do.
TrafficGoesWhereWritten ==
    Generated(appConfig) =>
        /\ \A tun \in BOOLEAN : RulesDecide(appConfig, tun)
        /\ NamesAreAskedWhereTheyGo(appConfig)
=============================================================================
