------------------------------ MODULE MCServices ------------------------------
(* The services that share no state with one another, side by side for TLC:  *)
(* a behaviour runs one of them and leaves the others as they start.         *)
EXTENDS SystemProxy, ProxyRuntime, Statistics, Catalogue, Downloads, SingboxConfig,
        ShareLinks, TunnelService, LeafOutbounds, UdpTest, CoreFiles, Imports, AppSettings, TLC

-----------------------------------------------------------------------------
(* Groups and leaves; "x" is a profile sing-box cannot run.                 *)

ValidLeaf == [type |-> "vmess", address |-> "a.example", port |-> 443,
              network |-> "raw", credential |-> TRUE, method |-> TRUE]
LeafDef == [n \in {"a", "b", "c", "d", "x"} |->
               IF n = "x" THEN [ValidLeaf EXCEPT !.network = "kcp"]
               ELSE [ValidLeaf EXCEPT !.address = n]]
SubLeavesDef == <<"b", "x">>

Policy(list) == [chain |-> FALSE, source |-> FALSE, selected |-> list]
Chain(list) == [chain |-> TRUE, source |-> FALSE, selected |-> list]
Subscribed(group) == [group EXCEPT !.source = TRUE]
Lists(ids, n) == UNION {{s \in [1 .. i -> ids] : IsInjective(s)} : i \in 2 .. n}
Three(g, h, k) == "g" :> g @@ "h" :> h @@ "k" :> k

\* g over all lists, two levels of groups and chains below it.
NestedCatalogs ==
    {Three(g, h, k) :
        g \in {Policy(l) : l \in Lists({"h", "k", "c", "d"}, 3)} \cup
              {Chain(l) : l \in Lists({"h", "k", "c", "d"}, 3)},
        h \in {Policy(<<"a", "b">>), Chain(<<"a", "b">>), Policy(<<"a">>),
               Policy(<<"k", "b">>), Chain(<<"k", "b">>), Chain(<<"b", "k">>)},
        k \in {Policy(<<"a", "b">>), Chain(<<"a", "b">>), Chain(<<"b", "a">>),
               Policy(<<"b">>), Policy(<<"a", "b", "x">>)}}

\* Cycles, missing and unusable children, subscriptions.
CyclicCatalogs ==
    LET some == {Policy(<<"h", "k">>), Policy(<<"k", "a", "g">>), Policy(<<"x">>),
                 Chain(<<"g", "h">>), Policy(<<"h", "gone">>), Policy(<<>>),
                 Subscribed(Policy(<<"k">>)), Subscribed(Chain(<<"g", "c">>))}
    IN  {Three(g, h, k) : g \in some, h \in some, k \in some}

SmallCatalogs ==
    {Three(g, Policy(<<>>), Policy(<<>>)) : g \in {Policy(<<"a", "b">>), Chain(<<"a", "b">>)}}

GraphRoots == {<<"g">>, <<"a", "g">>, <<"g", "h", "x", "k">>}
SmallRoots == {<<"g", "b", "g">>}
CatalogsDef == NestedCatalogs \cup CyclicCatalogs \cup SmallCatalogs
RootListsDef == GraphRoots \cup SmallRoots \cup {<<"a">>}

-----------------------------------------------------------------------------
(* Settings and connections.                                                *)

AnyRule == [enabled |-> TRUE, type |-> "both", outbound |-> "proxy", port |-> "",
            domain |-> {}, ip |-> {}, process |-> {}]
Ip(kind, name) == [kind |-> kind, name |-> name, not |-> FALSE]
NotIp(kind, name) == [kind |-> kind, name |-> name, not |-> TRUE]
Cn == <<"geosite", "cn">>
FullD == <<"full", "d">>
To(out) == [AnyRule EXCEPT !.outbound = out]

RulesTried == {
    [To("direct") EXCEPT !.domain = {Cn, FullD}],
    [To("direct") EXCEPT !.domain = {Cn}, !.ip = {Ip("geoip", "cn")}],
    [To("block") EXCEPT !.domain = {<<"plain", "ads">>, <<"comment", "x">>}],
    [To("b") EXCEPT !.ip = {Ip("geoip", "cn"), NotIp("cidr", "all")}],
    [To("g") EXCEPT !.domain = {FullD}, !.port = "443"],
    [To("unknown") EXCEPT !.process = {<<"name", "p">>, <<"path", "q">>}],
    [To("direct") EXCEPT !.ip = {Ip("cidr", "all"), NotIp("private", "")}],
    [To("direct") EXCEPT !.port = "all"],
    [To("block") EXCEPT !.domain = {<<"ext", "x">>}, !.port = "443"],
    [To("direct") EXCEPT !.ip = {NotIp("private", "")}, !.port = "443"],
    [To("direct") EXCEPT !.enabled = FALSE, !.domain = {Cn}],
    [To("direct") EXCEPT !.type = "dns", !.domain = {FullD}],
    [To("proxy") EXCEPT !.type = "routing", !.domain = {Cn}]}
RuleLists == {<<>>} \cup {<<r>> : r \in RulesTried} \cup (RulesTried \X RulesTried)

IpAddress == [host |-> "ip", valid |-> TRUE]
BaseSettings ==
    [local |-> 10808, lan |-> TRUE, lanPort |-> TRUE, second |-> TRUE,
     strict |-> TRUE, os |-> "linux", mtu |-> 9000, ipv6 |-> FALSE,
     icmp |-> "rule", sniff |-> TRUE, strategy |-> "AsIs", hosts |-> {},
     commonHosts |-> TRUE, bootstrap |-> IpAddress,
     remote |-> [host |-> "dns.common", valid |-> TRUE],
     direct |-> [IpAddress EXCEPT !.valid = FALSE], fake |-> "off", region |-> "",
     ownSets |-> {}, localSets |-> {Cn}, rules |-> <<>>]
HostsTried == {[name |-> <<"plain", "d">>, answer |-> "ip"],
               [name |-> <<"comment", "d">>, answer |-> "ip"],
               [name |-> <<"domain", "e">>, answer |-> "ip"],
               [name |-> <<"full", "x">>, answer |-> "domain"]}
SettingsDef ==
    {BaseSettings} \cup
    {[BaseSettings EXCEPT !.rules = r, !.strategy = s] :
        r \in RuleLists, s \in {"AsIs", "IPIfNonMatch", "IPOnDemand"}} \cup
    {[BaseSettings EXCEPT !.rules = r, !.fake = f, !.region = g, !.hosts = h] :
        r \in {x \in RuleLists : Len(x) < 2}, f \in {"off", "rules", "global"},
        g \in {"", "cn"}, h \in {{}, HostsTried}} \cup
    {[BaseSettings EXCEPT !.rules = r, !.fake = "rules", !.region = "cn"] :
        r \in RuleLists} \cup
    {[BaseSettings EXCEPT !.icmp = i, !.sniff = FALSE, !.os = o, !.mtu = m,
                          !.lanPort = l] :
        i \in {"direct", "reject", "rule"}, o \in {"linux", "macos", "windows"},
        m \in {0, 1400, 9000}, l \in BOOLEAN}

FlowsDef ==
    {[domain |-> d, ip |-> i, literal |-> l, process |-> {}, port |-> "443"] :
        d \in {{}, {Cn, FullD}, {<<"keyword", "ads">>}},
        i \in {{<<"geoip", "cn">>, <<"cidr", "all">>},
               {<<"private", "">>, <<"cidr", "all">>}},
        l \in BOOLEAN} \cup
    {[domain |-> {Cn}, ip |-> {<<"cidr", "all">>}, literal |-> l, process |-> p,
      port |-> "80"] :
        l \in BOOLEAN, p \in {{}, {<<"name", "p">>}, {<<"name", "sing-box">>}}} \cup
    {[domain |-> {}, ip |-> {<<"cidr", "multicast">>}, literal |-> TRUE,
      process |-> {<<"name", "sing-box">>}, port |-> "443"]}
ModesDef == {"Rule", "Global", "Direct"}

-----------------------------------------------------------------------------
(* Profiles an outbound is built for.                                       *)

NoTlsSet == [mode |-> "", sni |-> "", alpn |-> FALSE, pem |-> FALSE, ech |-> <<>>]
NoTransportSet == [kind |-> "raw", http |-> FALSE, host |-> <<>>, early |-> ""]
AnyOutbound ==
    [type |-> "vless", server |-> "remote", user |-> "u", secret |-> "s",
     method |-> "aes", flow |-> "", uot |-> FALSE, quic |-> FALSE, hops |-> "",
     obfs |-> "", key |-> "k", reserved |-> "three", transport |-> NoTransportSet,
     tls |-> NoTlsSet]
TransportsSet ==
    {NoTransportSet} \cup
    {[NoTransportSet EXCEPT !.kind = k, !.host = h, !.http = TRUE] :
        k \in {"raw", "ws", "httpupgrade"}, h \in {<<>>, <<"one", "two">>}} \cup
    {[NoTransportSet EXCEPT !.kind = "ws", !.early = e] : e \in {"ed", "eh"}} \cup
    {[NoTransportSet EXCEPT !.kind = k] : k \in {"grpc", "kcp"}}
TlsSet ==
    {NoTlsSet} \cup
    {[NoTlsSet EXCEPT !.mode = m, !.pem = p, !.ech = e] :
        m \in {"tls", "reality"}, p \in BOOLEAN, e \in {<<>>, <<"name", "url">>}} \cup
    {[NoTlsSet EXCEPT !.mode = "tls", !.sni = "sni", !.alpn = TRUE, !.ech = <<"config">>]}
OutboundTypes == {"vmess", "ss", "socks", "http", "vless", "trojan", "hysteria2", "tuic",
                  "anytls", "naive", "wireguard"}
VariantsSet ==
    {AnyOutbound, [AnyOutbound EXCEPT !.server = "localhost", !.secret = "", !.key = "",
                                      !.hops = "one", !.method = "other"],
     [AnyOutbound EXCEPT !.flow = "vision", !.hops = "range", !.obfs = "x",
                         !.quic = TRUE, !.uot = TRUE, !.reserved = "two"]}
OutboundProfilesDef ==
    {[v EXCEPT !.type = t, !.transport = n, !.tls = l] :
        v \in VariantsSet, t \in OutboundTypes, n \in TransportsSet, l \in TlsSet}
AnyCore == [mux |-> TRUE, insecure |-> TRUE, fragment |-> FALSE, print |-> "chrome",
            agent |-> "", up |-> 0, hop |-> 4, bind |-> TRUE, through |-> TRUE,
            tun |-> TRUE, windows |-> FALSE]
CoreSettingsDef ==
    {AnyCore, [AnyCore EXCEPT !.insecure = FALSE, !.mux = FALSE, !.tun = FALSE,
                              !.hop = 9, !.print = "other", !.up = 1, !.agent = "a"]}
\* Each profile with the strict settings, a part of them with the others.
Core2(p) == IF p.server = "localhost" THEN CoreSettings ELSE {AnyCore}

-----------------------------------------------------------------------------
(* Updates and routings.                                                    *)

AssetFilesDef == <<"geoip", "geosite">>

OneRule == [url |-> FALSE, derived |-> FALSE, rules |-> <<"r">>]
TemplatesDef == {<<OneRule, OneRule>>, <<OneRule, [OneRule EXCEPT !.url = TRUE]>>, <<>>}

-----------------------------------------------------------------------------
(* Profiles that are shared: protocols with transports, TLS modes and what   *)
(* else a link carries, each empty, filled with reserved characters, or with  *)
(* escapes of them.                                                         *)

Reserved == {"a&b", "p&w", "x&y"}
Filled(keys) == [f \in Fields |-> IF f \in keys THEN Word("x&y") ELSE None]
Over(under, upper) == [f \in Fields |-> IF upper[f] # None THEN upper[f] ELSE under[f]]
Plain == [type |-> "vless", address |-> "host", port |-> 443, remarks |-> Word("a&b"),
          user |-> None, secret |-> Word("p&w"), tls |-> "", network |-> "raw",
          fields |-> NoFields]
TransportsOf(n) ==
    LET texts == TransportKeys[n] \ {"headerType", "mode", "mtu", "extra"}
        shown(f) == IF n \in {"raw", "kcp"} THEN f ELSE [f EXCEPT !["headerType"] = None]
    IN  {shown(f) : f \in
            {NoFields, Filled(texts),
             [Filled(texts) EXCEPT !["headerType"] = Word("http"),
                 !["mode"] = Word("multi"), !["path"] = None,
                 !["mtu"] = IF n = "kcp" THEN Word("1400") ELSE None]}}
SharedTransports ==
    {[network |-> n, fields |-> NoFields] : n \in {"", "h2"}} \cup
    UNION {{[network |-> n, fields |-> f] : f \in TransportsOf(n)} : n \in Networks}
SharedTls ==
    {[tls |-> "", fields |-> NoFields]} \cup
    {[tls |-> m, fields |-> f] : m \in {"tls", "reality"},
        f \in {NoFields, Filled(TlsKeys),
               [Filled({"sni", "pbk"}) EXCEPT !["pcs"] = Word("sha-pin,second")]}}
SharedOthers ==
    {NoFields,
     Filled({"pem", "obfs-password", "mport"} \cup WireguardKeys),
     [NoFields EXCEPT !["flow"] = Word("vision"), !["mport"] = Word("1000:2000"),
         !["congestion_control"] = Word("bbr"), !["insecure-concurrency"] = Word("4"),
         !["cipher"] = Word("zero")]}
SharedTypes == {"vmess", "vless", "trojan", "anytls", "naive", "hysteria2", "tuic",
                "wireguard", "ss", "socks", "http"}
AllShared ==
    {[Plain EXCEPT !.type = t, !.tls = s.tls, !.network = n.network,
                   !.user = IF t \in HasUser THEN Word("u") ELSE None,
                   !.fields = Over(Over(n.fields, s.fields), o)] :
        t \in SharedTypes, s \in SharedTls, n \in SharedTransports, o \in SharedOthers}
WithEscapes(p) ==
    LET escaped(t) == IF t[1] \in Reserved THEN Escaped(t) ELSE t
    IN  [p EXCEPT !.remarks = escaped(@), !.secret = escaped(@),
                  !.fields = [f \in Fields |-> escaped(@[f])]]
ShareProfilesDef ==
    AllShared \cup
    {WithEscapes(p) : p \in {x \in AllShared : x.fields["pem"] # None
                                /\ x.fields["pcs"] # Word("sha-pin,second")
                                /\ (x.fields["sni"] # None <=> x.tls # "")}}

Item(kind, children, source, linked) ==
    [kind |-> kind, children |-> children, source |-> source, linked |-> linked]
NodeItem == Item("node", <<>>, FALSE, TRUE)
BundlesDef ==
    {<<NodeItem, Item("custom", <<>>, FALSE, FALSE), g, h>> :
        g \in {Item("group", c, s, TRUE) : s \in BOOLEAN,
                   c \in {<<1>>, <<2>>, <<1, 2>>, <<4>>, <<3>>, <<>>}},
        h \in {Item(k, c, FALSE, TRUE) : k \in {"chain", "group"},
                   c \in {<<3, 1>>, <<1>>, <<4>>, <<5>>}}} \cup
    {<<Item("node", <<>>, FALSE, FALSE)>>}

Server(address, port) ==
    [address |-> address, port |-> port, secret |-> Word("p&w"), sections |-> {}]
ServersTried == {Server("host", 443), Server("other", 0), Server("", 443)}
Sections(s) == [Server("", 0) EXCEPT !.sections = s]
CustomTried == {Sections({"inbounds", "outbounds", "route", "dns"}), Sections({"dns"}),
                Sections({"server", "auth", "up", "down", "listen"})}
DocumentsDef ==
    {[format |-> f, parts |-> p, key |-> k] :
        f \in {"sip008", "wireguard"}, k \in {None, Word("p&w")},
        p \in {<<>>} \cup {<<x>> : x \in ServersTried} \cup (ServersTried \X ServersTried)}
    \cup {[format |-> "custom", parts |-> p, key |-> None] :
             p \in {<<x>> : x \in CustomTried} \cup (CustomTried \X CustomTried)}

\* Targets and packets of the UDP test.
Entered(colon, name, bracket, parts, after) ==
    [colon |-> colon, name |-> name, bracket |-> bracket, parts |-> parts, after |-> after]
UdpTargetsDef ==
    {Entered(FALSE, "", FALSE, <<>>, ""), Entered(TRUE, "dns", FALSE, <<>>, ""),
     Entered(TRUE, "stun", FALSE, <<"host">>, ""), Entered(TRUE, "mcbe", FALSE, <<"host", "53">>, ""),
     Entered(TRUE, "other", TRUE, <<"fe80", "", "1">>, "53"),
     Entered(TRUE, "dns", TRUE, <<"fe80", "", "2">>, "")}
UdpHostsDef ==
    {[type |-> "v4", bytes |-> <<127, 0, 0, 1>>],
     [type |-> "v6", bytes |-> [i \in 1 .. 16 |-> 16 - i]]} \cup
    {[type |-> "domain", bytes |-> [i \in 1 .. n |-> 97]] : n \in {0, 1, 3, 255, 256}}
Response(kind, length, first, id) ==
    [kind |-> kind, length |-> length, first |-> first, id |-> id, flags |-> TRUE,
     count |-> 1, cookie |-> TRUE, body |-> TRUE]
UdpResponsesDef ==
    {Response("ntp", 48, 36, TRUE), Response("ntp", 47, 36, TRUE), Response("dns", 40, 0, TRUE),
     Response("dns", 40, 0, FALSE), Response("stun", 20, 0, TRUE),
     Response("mcbe", 60, 28, TRUE), Response("mcbe", 60, 27, TRUE)}
PortTextsDef == [t \in {"53"} |-> 53]

\* Packages: with the core, without it, and with a file in its place.
SeedDir(files, mark) == [kind |-> "dir", files |-> files, marked |-> mark]
CoreExecutablesDef == <<"sing-box", "sing-box-client">>
PackagesDef ==
    {SeedDir({"sing-box", "lib"}, TRUE), SeedDir({"sing-box", "lib"}, FALSE),
     SeedDir({"lib"}, FALSE)} \cup
    {[kind |-> k, files |-> {}, marked |-> FALSE] : k \in {"none", "missing", "file"}}

\* Start arguments of the tunnel service.
ConfigsDef == [folder : {"binConfigs", "other"}, file : BOOLEAN, inside : BOOLEAN,
               exe : BOOLEAN, checks : BOOLEAN]
NoConfig == [folder |-> "other", file |-> FALSE, inside |-> FALSE, exe |-> FALSE,
             checks |-> FALSE]

-----------------------------------------------------------------------------

VARIABLE part   \* the service that runs

-----------------------------------------------------------------------------
(* Texts that are imported.                                                  *)

Str(text, padded) == [text |-> text, padded |-> padded]
Imported(type, transport, tls, remarks, padded, filled) ==
    LET value == Str(IF filled THEN "v" ELSE "", padded)
        shape == [type |-> type, transport |-> transport, tls |-> tls]
    IN  [type |-> type, transport |-> transport, tls |-> tls,
         text |-> [f \in TextsOf(shape) |->
                     IF f = "remarks" THEN Str(remarks, padded) ELSE Str("v", padded)],
         option |-> [f \in OptionsOf(shape) |-> {value}],
         list |-> [f \in ListsOf(shape) |-> <<value, Str("v", FALSE)>>]]
RawProfilesDef ==
    {Imported(type, transport, tls, "one", padded, filled) :
        type \in OutboundTypes \cup {"custom", "group", "chain"},
        transport \in {"none", "tcp", "kcp", "ws", "xhttp", "grpc"},
        tls, padded, filled \in BOOLEAN}
Line(kind, text, profile) == [kind |-> kind, text |-> text, profile |-> profile]
AnyImported == Imported("vmess", "none", FALSE, "one", FALSE, TRUE)
LinesTried ==
    {Line("link", "a", AnyImported),
     Line("link", "b", Imported("vmess", "none", FALSE, "two", TRUE, TRUE)),
     Line("link", "c", Imported("group", "none", FALSE, "one", FALSE, TRUE)),
     Line("broken", "d", AnyImported), Line("url", "e", AnyImported),
     Line("noise", "f", AnyImported)}
Content(lines, documents) == [lines |-> lines, documents |-> documents]
ImportTextsDef ==
    {[decoded |-> <<>>, content |-> Content(lines, <<>>)] :
        lines \in UNION {[1 .. n -> LinesTried] : n \in 0 .. 3}} \cup
    {[decoded |-> <<Content(lines, documents)>>,
      content |-> Content(<<Line("noise", "g", AnyImported)>>, <<>>)] :
        lines \in UNION {[1 .. n -> LinesTried] : n \in 0 .. 2},
        documents \in {<<>>, <<<<AnyImported, AnyImported>>>>}}

NoContext ==
    /\ catalog = Three(Policy(<<>>), Policy(<<>>), Policy(<<>>))
    /\ roots = <<"a">>
    /\ epoch = 1 /\ clock = 0 /\ stack = <<>> /\ visited = {} /\ protect = {}
    /\ proxies = [n \in NodeIds |-> Unregistered]
    /\ outcome = "building"
    /\ appConfig = BaseSettings

ServicesInit ==
    /\ part = "none"
    /\ mode = "Unchanged"
    /\ Init /\ ProxyRuntimeInit /\ StatisticsInit /\ ProfilesInit
    /\ DownloadsInit /\ RoutingsInit /\ UdpInit /\ SettingsInit
    /\ NoContext
    /\ shared = NoProfileShared /\ trips = 2 /\ bundle = <<>>
    /\ document = NoDocument /\ imported = <<>>
    /\ profileBuilt = AnyOutbound /\ coreSettings = AnyCore /\ outbound = NoOutbound
    /\ config = NoConfig /\ servicePc = "ended" /\ reported = "none"
    /\ stopRequested = FALSE /\ accepts = FALSE /\ child = "none"
    /\ machine = "linux" /\ package = Packaged(SeedDir({}, FALSE), 1) /\ cuts = 0
    /\ bin = [f \in CoreFileNames |-> Absent] /\ seedCopy = [c \in Copiers |-> NoCopy]

\* The first step chooses the service, and where its Init has a choice one of
\* its initial states.
ProxyStarts ==
    /\ part' = "proxy"
    /\ mode' \in Types
    /\ UNCHANGED <<manual, pac, marker, pacServer, app, job, budget>>

ContextStarts ==
    /\ epoch' = 0
    /\ \/ /\ part' = "graph"
          /\ catalog' \in NestedCatalogs \cup CyclicCatalogs
          /\ roots' \in GraphRoots
          /\ UNCHANGED appConfig
       \/ /\ part' = "configuration"
          /\ catalog' \in SmallCatalogs
          /\ roots' \in SmallRoots
          /\ appConfig' \in Settings
    /\ UNCHANGED <<clock, stack, visited, proxies, protect, outcome>>

ShareStarts ==
    /\ part' = "share"
    /\ trips' = 0
    /\ \/ shared' \in ShareProfiles /\ UNCHANGED <<bundle, document>>
       \/ bundle' \in Bundles /\ UNCHANGED <<shared, document>>
       \/ document' \in Documents /\ UNCHANGED <<shared, bundle>>
    /\ UNCHANGED imported

ServiceStarts ==
    /\ part' = "service"
    /\ config' \in Configs
    /\ servicePc' = "new"
    /\ UNCHANGED <<reported, stopRequested, accepts, child>>

OutboundStarts ==
    /\ part' = "outbound"
    /\ profileBuilt' \in OutboundProfiles
    /\ coreSettings' \in Core2(profileBuilt')
    /\ UNCHANGED outbound

CoreFilesStart ==
    /\ part' = "core"
    /\ machine' \in Machines
    /\ \E p \in Packages : package' = Packaged(p, 1)
    /\ \E own \in SUBSET CoreFileNames :
          bin' = [f \in CoreFileNames |-> IF f \in own THEN OwnFile ELSE Absent]
    /\ UNCHANGED <<seedCopy, cuts>>

OtherStarts ==
    part' \in {"monitor", "mode", "statistics", "profiles", "downloads", "routings",
               "udp", "settings"}

Except(own) ==
    /\ IF own = "proxy" THEN TRUE ELSE UNCHANGED vars
    /\ IF own \in {"monitor", "mode"} THEN TRUE ELSE UNCHANGED proxyRuntimeVars
    /\ IF own = "statistics" THEN TRUE ELSE UNCHANGED statisticsVars
    /\ IF own = "profiles" THEN TRUE ELSE UNCHANGED profilesVars
    /\ IF own = "downloads" THEN TRUE ELSE UNCHANGED downloadsVars
    /\ IF own = "context" THEN TRUE ELSE UNCHANGED configVars
    /\ IF own = "routings" THEN TRUE ELSE UNCHANGED routingsVars
    /\ IF own = "share" THEN TRUE ELSE UNCHANGED shareVars
    /\ IF own = "service" THEN TRUE ELSE UNCHANGED serviceVars
    /\ IF own = "outbound" THEN TRUE ELSE UNCHANGED outboundVars
    /\ IF own = "core" THEN TRUE ELSE UNCHANGED coreFilesVars
    /\ IF own = "udp" THEN TRUE ELSE UNCHANGED udpVars
    /\ IF own = "settings" THEN TRUE ELSE UNCHANGED settingsVars

Starts ==
    /\ part = "none"
    /\ \/ Except("proxy") /\ ProxyStarts
       \/ Except("context") /\ ContextStarts
       \/ Except("share") /\ ShareStarts
       \/ Except("service") /\ ServiceStarts
       \/ Except("outbound") /\ OutboundStarts
       \/ Except("core") /\ CoreFilesStart
       \/ Except("none") /\ OtherStarts

Runs(p) == part = p /\ UNCHANGED part

ServicesNext ==
    \/ Starts
    \/ Runs("proxy") /\ Except("proxy") /\ Next
    \/ Runs("monitor") /\ Except("monitor") /\ MonitorNext
    \/ Runs("mode") /\ Except("mode") /\ ModeNext
    \/ Runs("statistics") /\ Except("statistics") /\ StatisticsNext
    \/ Runs("profiles") /\ Except("profiles") /\ ProfilesNext
    \/ Runs("downloads") /\ Except("downloads") /\ DownloadsNext
    \/ Runs("graph") /\ Except("context") /\ ConfigNext
    \/ Runs("configuration") /\ Except("context") /\ ConfigNext
    \/ Runs("routings") /\ Except("routings") /\ RoutingsNext
    \/ Runs("share") /\ Except("share") /\ ShareNext
    \/ Runs("service") /\ Except("service") /\ ServiceNext
    \/ Runs("outbound") /\ Except("outbound") /\ OutboundNext
    \/ Runs("core") /\ Except("core") /\ CoreFilesNext
    \/ Runs("udp") /\ Except("udp") /\ UdpNext
    \/ Runs("settings") /\ Except("settings") /\ SettingsNext

servicesVars ==
    <<part, vars, proxyRuntimeVars, statisticsVars, profilesVars, downloadsVars,
      configVars, routingsVars, shareVars, serviceVars, outboundVars,
      udpVars, coreFilesVars, settingsVars>>

ServicesSpec == ServicesInit /\ [][ServicesNext]_servicesVars

-----------------------------------------------------------------------------
(* Properties of several modules that concern one part of the system.        *)

\* The outbounds of a group are the paths through its members, that of one
\* profile what the profile says; what the configuration names it has, and it
\* sends a connection where the first rule the user wrote for it says
\* (singbox/).
ConfigurationIsRight ==
    /\ GroupOutboundsAreRight /\ OutboundFitsItsProfile
    /\ ConfigurationIsClosed /\ TrafficGoesWhereWritten

\* What concerns values alone is the same in every state: it is evaluated in
\* the one step that chooses its service.
Chooses(p) == part # p /\ part' = p
RulesTogether == UNION {SetToSeqs(rules) : rules \in SUBSET RuleIds}

\* Profiles, subscriptions and routings keep what no command told them to
\* change, and what is read, ordered, packed, shared or transferred is what was
\* written (profiles/, subscriptions/, routing/, fmt/, download.rs, udptest).
NothingIsLost ==
    /\ SharingKeepsProfiles
    /\ [][UpdateReplaces]_profilesVars
    /\ [][/\ Chooses("profiles") => OrdersAreKept /\ ImportsAreWhole
          /\ Chooses("routings") => \A rules \in RulesTogether : MovesOneRule(rules)
          /\ Chooses("monitor") => SnapshotIsRight
          /\ Chooses("downloads") => TransfersAreWhole
          /\ Chooses("udp") => PacketsAreRead /\ TargetsAreRead]_part
=============================================================================
