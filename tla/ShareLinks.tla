------------------------------ MODULE ShareLinks ------------------------------
(***************************************************************************)
(* Share links and profile bundles: voya-core fmt/.                         *)
(*                                                                         *)
(* A text is <<word, n>>: n is how many times it is percent-encoded, of a     *)
(* profile too: what a user wrote with escapes in it has n = 1.  What has      *)
(* reserved characters and is not encoded cannot be read from a query.        *)
(* An empty text and no text are the same; a list is one text.               *)
(***************************************************************************)
EXTENDS Naturals, FiniteSets, SequencesExt

CONSTANTS
    ShareProfiles,  \* profiles that are exported
    Documents,      \* texts of other formats: sip008, wireguard, custom
    Bundles,        \* lists of profiles, some of them groups
    ReservedWords   \* words with characters a query gives a meaning

None == <<"", 0>>
Word(w) == <<w, 0>>
Escaped(t) == IF t = None THEN None ELSE <<t[1], t[2] + 1>>
Unescaped(t) == <<t[1], IF t[2] = 0 THEN 0 ELSE t[2] - 1>>

TlsKeys == {"sni", "alpn", "pbk", "sid", "spx", "pqv", "ech", "pcs", "fm"}
WireguardKeys == {"publickey", "presharedkey", "reserved", "address", "allowedips"}
TransportKeys == [raw |-> {"headerType", "host", "path"},
                  kcp |-> {"headerType", "seed", "mtu"},
                  ws |-> {"host", "path"}, httpupgrade |-> {"host", "path"},
                  xhttp |-> {"host", "path", "mode", "extra"},
                  grpc |-> {"authority", "serviceName", "mode"}]
Networks == DOMAIN TransportKeys
Fields == TlsKeys \cup WireguardKeys \cup UNION {TransportKeys[n] : n \in Networks}
          \cup {"pem", "cipher", "encryption", "flow", "obfs-password", "mport",
                "congestion_control", "insecure-concurrency"}
NoFields == [f \in Fields |-> None]

VARIABLES
    shared,         \* a profile: [type, address, port, remarks, user, secret,
                    \*   tls, network, fields]
    trips,          \* how often it was exported and imported, at most twice
    bundle,         \* profiles exchanged as a bundle: [kind, children, source]
    document,       \* a text that is imported as a whole
    imported        \* the profiles that came of it

shareVars == <<shared, trips, bundle, document, imported>>

-----------------------------------------------------------------------------
(* Queries: sets of <<key, text>> as they are written.                      *)

\* push_encoded_opt, push_encoded_str.
Pushed(fields, keys) == {<<k, Escaped(fields[k])>> : k \in {x \in keys : fields[x] # None}}
RawPair(key, text) == {<<key, text>>}
OrElse(text, default) == IF text = None THEN default ELSE text

\* Query::parse decodes a value, decoded_or once more: what was encoded once
\* when it was written loses an escape it had of its own.
Value(query, key) ==
    LET found == {q[2] : q \in {x \in query : x[1] = key}}
        text == CHOOSE t \in found : TRUE
    IN  IF found = {} \/ (text[2] = 0 /\ text[1] \in ReservedWords) THEN None
        ELSE Unescaped(text)
DecodedValue(query, key) == Unescaped(Value(query, key))

ItemNetwork(p) == IF p.network \in Networks THEN p.network ELSE "raw"

\* The transport's part of to_uri_query.
TransportQuery(p) ==
    LET keys == TransportKeys[p.network]
        plain == keys \ {"headerType", "mtu", "mode"}
        modes == IF p.network = "grpc" THEN {"gun", "multi"}
                 ELSE {"auto", "packet-up", "stream-up", "stream-one"}
    IN  IF p.network \notin Networks \/ (p.network = "grpc" /\ p.fields["serviceName"] = None)
        THEN {}
        ELSE Pushed(p.fields, plain)
             \cup (IF "headerType" \in keys
                   THEN RawPair("headerType", OrElse(p.fields["headerType"], Word("none")))
                   ELSE {})
             \cup (IF "mtu" \in keys /\ p.fields["mtu"] # None
                   THEN RawPair("mtu", p.fields["mtu"]) ELSE {})
             \cup (IF "mode" \in keys /\ p.fields["mode"][1] \in modes
                   THEN Pushed(p.fields, {"mode"}) ELSE {})

\* to_uri_query.
Mut_UriQuery(p, security) ==
    (IF p.tls # "" THEN RawPair("security", Word(p.tls))
     ELSE IF security # None THEN RawPair("security", security) ELSE {})
    \cup (IF p.tls = "tls" THEN Pushed(p.fields, TlsKeys) ELSE {})
    \cup RawPair("type", Word(IF ItemNetwork(p) = "raw" THEN "tcp" ELSE p.network))
    \cup TransportQuery(p)

UriQuery(p, security) ==
    (IF p.tls # "" THEN RawPair("security", Word(p.tls))
     ELSE IF security # None THEN RawPair("security", security) ELSE {})
    \cup (IF p.tls = "" THEN {}
          ELSE Pushed(p.fields, IF p.tls = "tls" THEN TlsKeys ELSE TlsKeys \ {"alpn"}))
    \cup RawPair("type", Word(IF ItemNetwork(p) = "raw" THEN "tcp" ELSE p.network))
    \cup TransportQuery(p)

\* to_uri_query_lite.
LiteQuery(p) == IF p.tls = "" THEN {} ELSE Pushed(p.fields, {"sni", "alpn"})

\* resolve_uri_query.
ResolveUriQuery(query, p) ==
    LET security == Value(query, "security")[1]
        type == Value(query, "type")[1]
        network == IF type \in Networks THEN type ELSE "raw"
        tls == [k \in TlsKeys |-> IF k = "sni" THEN Value(query, k)
                                  ELSE DecodedValue(query, k)]
        default(k) == CASE k = "headerType" -> Word("none")
                        [] k = "path" /\ network # "raw" -> Word("/")
                        [] k = "mode" /\ network = "grpc" -> Word("gun")
                        [] OTHER -> None
    IN  [p EXCEPT
            !.tls = IF security \in {"tls", "reality"} THEN security
                    ELSE IF \E k \in TlsKeys : tls[k] # None THEN "tls" ELSE "",
            !.network = network,
            !.fields = [f \in Fields |->
                CASE f \in TlsKeys -> tls[f]
                  [] f \in TransportKeys[network] ->
                        OrElse(IF f \in {"headerType", "mtu"} THEN Value(query, f)
                               ELSE DecodedValue(query, f), default(f))
                  [] OTHER -> p.fields[f]]]

-----------------------------------------------------------------------------
(* Protocols.                                                               *)

\* The keys of a vmess object that hold a transport's fields.
VmessSlots == [raw |-> [type |-> "headerType", host |-> "host", path |-> "path"],
               kcp |-> [type |-> "headerType", host |-> "", path |-> "seed"],
               ws |-> [type |-> "", host |-> "host", path |-> "path"],
               httpupgrade |-> [type |-> "", host |-> "host", path |-> "path"],
               xhttp |-> [type |-> "mode", host |-> "host", path |-> "path"],
               grpc |-> [type |-> "mode", host |-> "authority", path |-> "serviceName"]]

VmessExport(p) ==
    LET slot(s) == VmessSlots[ItemNetwork(p)][s]
        held(s) == IF p.network \notin Networks \/ slot(s) = "" THEN None
                   ELSE p.fields[slot(s)]
    IN  {<<"net", Word(ItemNetwork(p))>>, <<"tls", Word(p.tls)>>,
         <<"scy", OrElse(p.fields["cipher"], Word("auto"))>>,
         <<"type", OrElse(held("type"), Word("none"))>>,
         <<"host", held("host")>>, <<"path", held("path")>>}
        \cup {<<k, IF p.tls = "" THEN None ELSE p.fields[k]>> : k \in {"sni", "alpn"}}

\* parse_vmess_base64.
VmessParse(object, p) ==
    LET at(k) == (CHOOSE q \in object : q[1] = k)[2]
        network == at("net")[1]
        slots == VmessSlots[network]
        filled(f) == \E s \in {"type", "host", "path"} : slots[s] = f
    IN  [p EXCEPT
            !.tls = IF at("tls")[1] \in {"tls", "reality"} THEN at("tls")[1]
                    ELSE IF at("sni") # None \/ at("alpn") # None THEN "tls" ELSE "",
            !.network = network,
            !.fields = [f \in Fields |->
                CASE f \in {"sni", "alpn"} -> at(f)
                  [] f = "cipher" -> at("scy")
                  [] f \notin {"sni", "alpn", "cipher"} /\ filled(f) ->
                        at(CHOOSE s \in {"type", "host", "path"} : slots[s] = f)
                  [] OTHER -> None]]

\* shadowsocks_plugin and parse_shadowsocks_plugin: a plugin that names a host
\* makes it the server name, and the profile one with TLS.
SsPlugin(p) ==
    IF p.network = "raw" /\ p.fields["headerType"] = Word("http")
    THEN {<<"plugin", Word("obfs-local")>>, <<"host", p.fields["host"]>>}
    ELSE IF p.network = "ws" \/ p.tls = "tls"
    THEN {<<"plugin", Word("v2ray-plugin")>>}
         \cup (IF p.network = "ws"
               THEN {<<"host", p.fields["host"]>>, <<"path", p.fields["path"]>>} ELSE {})
         \cup (IF p.tls = "tls"
               THEN {<<"tls", Word("")>>} \cup Pushed(p.fields, {"pem"}) ELSE {})
    ELSE {}

ParseSsPlugin(plugin, p) ==
    LET has(k) == \E q \in plugin : q[1] = k
        at(k) == IF has(k) THEN (CHOOSE q \in plugin : q[1] = k)[2] ELSE None
    IN  CASE at("plugin") = Word("obfs-local") /\ at("host") # None ->
                [p EXCEPT !.network = "raw", !.fields["headerType"] = Word("http"),
                          !.fields["host"] = at("host")]
          [] at("plugin") = Word("v2ray-plugin") ->
                [p EXCEPT !.network = "ws",
                          !.tls = IF has("host") \/ has("tls") THEN "tls" ELSE "",
                          !.fields["sni"] = at("host"), !.fields["host"] = at("host"),
                          !.fields["path"] = at("path"),
                          !.fields["pem"] = Unescaped(at("pem"))]
          [] OTHER -> p

\* The ports a hysteria2 client hops over, with a dash where it was a colon.
WithDash(t) == IF t = Word("1000:2000") THEN Word("1000-2000") ELSE t

\* certificate_sha256.first(): of several pins the first alone is in the link.
FirstPin(t) == IF t = Word("sha-pin,second") THEN Word("sha-pin") ELSE t

\* The export of each protocol: the login in the form its import reads, and the
\* query.
Sent(form, user, secret, query) ==
    [form |-> form, user |-> user, secret |-> secret, query |-> query]
IfSet(p, f) == IF p.fields[f] = None THEN {} ELSE RawPair(f, p.fields[f])

VlessExport(p) ==
    Sent("one", None, p.secret,
         UriQuery(p, Word("none")) \cup IfSet(p, "flow")
         \cup RawPair("encryption", OrElse(p.fields["encryption"], Word("none"))))

TrojanExport(p) == Sent("one", None, p.secret, UriQuery(p, None))
AnytlsExport(p) == Sent("one", None, p.secret, UriQuery(p, Word("none")))

\* The scheme of a naive link says whether it is spoken over QUIC.
NaiveExport(p) ==
    Sent(IF p.user = None THEN "one" ELSE "pair", p.user, p.secret,
         UriQuery(p, Word("none")) \cup IfSet(p, "insecure-concurrency"))

Hysteria2Export(p) ==
    Sent("one", None, p.secret,
         LiteQuery(p)
         \cup Pushed([p.fields EXCEPT !["mport"] = WithDash(@)], {"obfs-password", "mport"})
         \cup (IF p.tls # "" /\ p.fields["pcs"] # None
               THEN {<<"pinSHA256", Escaped(FirstPin(p.fields["pcs"]))>>} ELSE {}))

TuicExport(p) ==
    Sent("pair", p.user, p.secret, LiteQuery(p) \cup IfSet(p, "congestion_control"))

WireguardExport(p) == Sent("one", None, p.secret, Pushed(p.fields, WireguardKeys))

\* A socks login is base64 of both parts, an ss one of the method and password.
SocksExport(p) == Sent("base64", p.user, p.secret, {})
ShadowsocksExport(p) == Sent("base64", p.user, p.secret, SsPlugin(p))

LinkTypes == {"vmess", "vless", "trojan", "anytls", "naive", "hysteria2", "tuic",
              "wireguard", "ss", "socks"}
HasUser == {"naive", "tuic", "socks", "ss"}
Export(p) ==
    CASE p.type = "vmess" -> Sent("one", None, p.secret, VmessExport(p))
      [] p.type = "vless" -> VlessExport(p)
      [] p.type = "trojan" -> TrojanExport(p)
      [] p.type = "anytls" -> AnytlsExport(p)
      [] p.type = "naive" -> NaiveExport(p)
      [] p.type = "hysteria2" -> Hysteria2Export(p)
      [] p.type = "tuic" -> TuicExport(p)
      [] p.type = "wireguard" -> WireguardExport(p)
      [] p.type = "ss" -> ShadowsocksExport(p)
      [] p.type = "socks" -> SocksExport(p)

\* export_share_link_with_options: the application's own TLS and bandwidth
\* settings, for other programs; no import reads them.
HasTlsOptions(p) ==
    p.type \in {"hysteria2", "tuic", "anytls", "naive"} \/ p.tls \in {"tls", "reality"}
VmessOptions(p) ==
    IF HasTlsOptions(p) THEN {<<"allowInsecure", Word("1")>>, <<"fp", Word("chrome")>>}
    ELSE {}
OptionsQuery(p) ==
    IF p.type = "vmess" THEN VmessOptions(p)
    ELSE IF ~HasTlsOptions(p) THEN {}
    ELSE {<<"insecure", Word("1")>>, <<"allowInsecure", Word("1")>>, <<"fp", Word("chrome")>>}
         \cup (IF p.type = "hysteria2"
               THEN {<<"upmbps", Word("9")>>, <<"downmbps", Word("9")>>,
                     <<"hopInterval", Word("9")>>} ELSE {})

\* ensure_address_port and ensure_nonempty; groups have no link.
HostIsValid(host) == host \notin {"", "bad host"}
AddressIsThere(p) == HostIsValid(p.address) /\ p.port \in 1 .. 65535
CredentialIsThere(p) ==
    /\ p.type # "socks" => p.secret # None
    /\ p.type \in {"tuic", "ss"} => p.user # None
Exportable(p) == p.type \in LinkTypes /\ AddressIsThere(p) /\ CredentialIsThere(p)

\* export_share_link, with the options of the application or without.
Link(p, options) ==
    [scheme |-> p.type, address |-> p.address, port |-> p.port, remarks |-> p.remarks,
     form |-> Export(p).form, user |-> Export(p).user, secret |-> Export(p).secret,
     query |-> Export(p).query \cup (IF options THEN OptionsQuery(p) ELSE {})]

\* profile_from_uri: no login yet.
ProfileFromUri(link) ==
    [type |-> link.scheme, address |-> link.address, port |-> link.port,
     remarks |-> link.remarks, user |-> None, secret |-> None,
     tls |-> "", network |-> "", fields |-> NoFields]
OneLogin(p, link) == [p EXCEPT !.secret = link.secret]
PairLogin(p, link) == [p EXCEPT !.user = link.user, !.secret = link.secret]

\* The parser of each protocol.
VlessParse(link) ==
    LET item == OneLogin(ProfileFromUri(link), link)
    IN  [ResolveUriQuery(link.query, item) EXCEPT
            !.fields["encryption"] = OrElse(Value(link.query, "encryption"), Word("none")),
            !.fields["flow"] = Value(link.query, "flow")]

TrojanParse(link) == ResolveUriQuery(link.query, OneLogin(ProfileFromUri(link), link))
AnytlsParse(link) == ResolveUriQuery(link.query, OneLogin(ProfileFromUri(link), link))

NaiveParse(link) ==
    LET item == ResolveUriQuery(link.query, ProfileFromUri(link))
        concurrency == Value(link.query, "insecure-concurrency")
    IN  [(IF link.form = "pair" THEN PairLogin(item, link) ELSE OneLogin(item, link))
            EXCEPT !.fields["insecure-concurrency"] = concurrency]

\* A pin alone is enough for a profile to have TLS.
Hysteria2Parse(link) ==
    LET item == ResolveUriQuery(link.query, OneLogin(ProfileFromUri(link), link))
        pin == DecodedValue(link.query, "pinSHA256")
    IN  [item EXCEPT
            !.tls = IF pin # None /\ item.tls = "" THEN "tls" ELSE item.tls,
            !.fields["pcs"] = OrElse(pin, item.fields["pcs"]),
            !.fields["mport"] = DecodedValue(link.query, "mport"),
            !.fields["obfs-password"] = DecodedValue(link.query, "obfs-password")]

\* Without two parts the login stays empty, and the link is refused.
TuicParse(link) ==
    LET item == ResolveUriQuery(link.query, ProfileFromUri(link))
    IN  IF link.form = "pair"
        THEN [PairLogin(item, link) EXCEPT
                !.fields["congestion_control"] = Value(link.query, "congestion_control")]
        ELSE item

WireguardParse(link) ==
    LET other == DecodedValue(link.query, "allowed_ips")
        text(f) == IF f = "allowedips" THEN OrElse(DecodedValue(link.query, f), other)
                   ELSE DecodedValue(link.query, f)
    IN  [OneLogin(ProfileFromUri(link), link) EXCEPT
            !.fields = [f \in Fields |-> IF f \in WireguardKeys THEN text(f) ELSE None]]

\* parse_socks_new, parse_shadowsocks_sip002: in two parts, or base64 of them.
SocksParse(link) == PairLogin(ProfileFromUri(link), link)
ShadowsocksParse(link) ==
    ParseSsPlugin(link.query, PairLogin(ProfileFromUri(link), link))

\* parse_vmess_standard: the URI that other programs write.
VmessStandardParse(link) ==
    LET item == OneLogin(ProfileFromUri(link), link)
    IN  ResolveUriQuery(link.query, [item EXCEPT !.fields["cipher"] = Word("auto")])

\* parse_share_link.
ParsedLink(link) ==
    CASE link.scheme = "vmess" ->
            IF link.form = "uri" THEN VmessStandardParse(link)
            ELSE VmessParse(link.query, OneLogin(ProfileFromUri(link), link))
      [] link.scheme = "vless" -> VlessParse(link)
      [] link.scheme = "trojan" -> TrojanParse(link)
      [] link.scheme = "anytls" -> AnytlsParse(link)
      [] link.scheme = "naive" -> NaiveParse(link)
      [] link.scheme = "hysteria2" -> Hysteria2Parse(link)
      [] link.scheme = "tuic" -> TuicParse(link)
      [] link.scheme = "wireguard" -> WireguardParse(link)
      [] link.scheme = "ss" -> ShadowsocksParse(link)
      [] link.scheme = "socks" -> SocksParse(link)

-----------------------------------------------------------------------------
(* Bundles.                                                                 *)

\* export_voya_profile_bundle: references instead of ids, and only to what is
\* exported too.  A node that has no link fails the whole export.
BundleIds(items) == {i \in DOMAIN items : items[i].kind # "custom"}
BundleExportable(items) ==
    /\ BundleIds(items) # {}
    /\ \A i \in BundleIds(items) : items[i].kind = "node" => items[i].linked
ExportedBundle(items) ==
    LET ids == SetToSortSeq(BundleIds(items), LAMBDA a, b : a < b)
        reference(id) == CHOOSE r \in DOMAIN ids : ids[r] = id
        children(id) == SelectSeq(items[id].children, LAMBDA c : c \in BundleIds(items))
    IN  [r \in DOMAIN ids |->
            [kind |-> items[ids[r]].kind, linked |-> TRUE,
             children |-> LET own == children(ids[r])
                          IN  [c \in DOMAIN own |-> reference(own[c])],
             source |-> items[ids[r]].kind = "group" /\ items[ids[r]].source]]

\* validate_voya_bundle: every reference is there and none leads to itself.
Within(items, refs) ==
    refs \cup UNION {ToSet(items[r].children) : r \in refs \cap DOMAIN items}
Mut_BundleIsValid(items) ==
    /\ items # <<>>
    /\ \A r \in DOMAIN items : ToSet(items[r].children) \subseteq DOMAIN items

BundleIsValid(items) ==
    LET below(r) == FoldLeft(LAMBDA refs, one : Within(items, refs),
                             ToSet(items[r].children), items)
    IN  /\ items # <<>>
        /\ \A r \in DOMAIN items :
              ToSet(items[r].children) \subseteq DOMAIN items /\ r \notin below(r)

\* parse_voya_profile_bundle and bundle_group_profile, into a subscription or
\* into none.
BundleParses(items, subscription) ==
    /\ BundleIsValid(items)
    /\ \A r \in {x \in DOMAIN items : items[x].kind # "node"} :
          /\ items[r].children # <<>> \/ items[r].source
          /\ items[r].source => subscription /\ items[r].kind = "group"

-----------------------------------------------------------------------------
(* Texts of other formats: [format, parts, key], parts a sequence.          *)

NoDocument == [format |-> "none", parts |-> <<>>, key |-> None]

\* parse_ss_sip008: one server that has no address or port fails the document;
\* its method and password are not looked at.
Sip008IsRead(d) == d.parts # <<>> /\ \A i \in DOMAIN d.parts : AddressIsThere(d.parts[i])
Sip008Profile(part) ==
    [type |-> "ss", address |-> part.address, port |-> part.port, secret |-> part.secret]

\* parse_wireguard_endpoint: the port that cannot be used becomes 2408.
Endpoint(part) ==
    [address |-> part.address,
     port |-> IF part.port \in 1 .. 65535 THEN part.port ELSE 2408]

\* parse_wireguard_config: the key of the interface for each peer with an
\* endpoint; the others are passed over.
Reachable(part) == part.address # ""
WireguardProfile(key, part) ==
    [type |-> "wireguard", address |-> Endpoint(part).address, port |-> Endpoint(part).port,
     secret |-> key]
WireguardIsRead(d) == d.key # None /\ \E i \in DOMAIN d.parts : Reachable(d.parts[i])

\* parse_full_custom_config and parse_singbox_custom: a configuration that has
\* all four sections of sing-box, or a hysteria one; of a list those that are one.
IsSingbox(part) == {"inbounds", "outbounds", "route", "dns"} \subseteq part.sections
IsHysteria(part) == {"server", "auth", "up", "down", "listen"} \subseteq part.sections
IsCustom(part) == IsSingbox(part) \/ IsHysteria(part)
CustomImport(part) ==
    [type |-> "custom", address |-> IF IsSingbox(part) THEN "singbox" ELSE "hysteria2",
     port |-> 0, secret |-> None]

DocumentIsRead(d) ==
    CASE d.format = "sip008" -> Sip008IsRead(d)
      [] d.format = "wireguard" -> WireguardIsRead(d)
      [] d.format = "custom" -> \E i \in DOMAIN d.parts : IsCustom(d.parts[i])
DocumentProfiles(d) ==
    CASE d.format = "sip008" -> [i \in DOMAIN d.parts |-> Sip008Profile(d.parts[i])]
      [] d.format = "wireguard" ->
            LET peers == SelectSeq(d.parts, Reachable)
            IN  [i \in DOMAIN peers |-> WireguardProfile(d.key, peers[i])]
      [] d.format = "custom" ->
            LET some == SelectSeq(d.parts, IsCustom)
            IN  [i \in DOMAIN some |-> CustomImport(some[i])]

-----------------------------------------------------------------------------
(* A profile, or a bundle, is exported and what was exported is imported.    *)

NoProfileShared == [type |-> "none", address |-> "", port |-> 0, remarks |-> None,
                    user |-> None, secret |-> None, tls |-> "", network |-> "",
                    fields |-> NoFields]

ShareInit ==
    /\ trips = 0 /\ imported = <<>>
    /\ \/ shared \in ShareProfiles /\ bundle = <<>> /\ document = NoDocument
       \/ shared = NoProfileShared /\ bundle \in Bundles /\ document = NoDocument
       \/ shared = NoProfileShared /\ bundle = <<>> /\ document \in Documents

ExchangeLink(options) ==
    /\ trips < 2 /\ Exportable(shared)
    /\ shared' = ParsedLink(Link(shared, options))
    /\ trips' = trips + 1
    /\ UNCHANGED <<bundle, document, imported>>

\* A vmess profile that another program shares as a URI.
ImportVmessUri ==
    /\ trips = 0 /\ Exportable(shared) /\ shared.type = "vmess"
    /\ LET link == [Link(shared, FALSE) EXCEPT !.form = "uri",
                                               !.query = UriQuery(shared, None)]
       IN  shared' = ParsedLink(link)
    /\ trips' = 2
    /\ UNCHANGED <<bundle, document, imported>>

\* A text that is no list of links.
ImportDocument ==
    /\ trips = 0 /\ document # NoDocument /\ DocumentIsRead(document)
    /\ imported' = DocumentProfiles(document)
    /\ trips' = 1
    /\ UNCHANGED <<shared, bundle, document>>

\* A bundle of another program is imported as it is.
ExchangeBundle(own, subscription) ==
    /\ trips < 2 /\ bundle # <<>>
    /\ own => BundleExportable(bundle)
    /\ LET items == IF own THEN ExportedBundle(bundle) ELSE bundle
       IN  BundleParses(items, subscription) /\ bundle' = items
    /\ trips' = trips + 1
    /\ UNCHANGED <<shared, document, imported>>

ShareNext ==
    \/ \E options \in BOOLEAN : ExchangeLink(options)
    \/ ImportVmessUri
    \/ ImportDocument
    \/ \E own, sub \in BOOLEAN : ExchangeBundle(own, sub)
ShareSpec == ShareInit /\ [][ShareNext]_shareVars

-----------------------------------------------------------------------------
(* Properties.                                                              *)

\* What the link of a protocol promises to carry of TLS and of the protocol.
CarriedTls(p) ==
    CASE p.type \in {"vless", "trojan", "anytls", "naive"} ->
            IF p.tls = "reality" THEN TlsKeys \ {"alpn"} ELSE TlsKeys
      [] p.type \in {"vmess", "tuic"} -> {"sni", "alpn"}
      [] p.type = "hysteria2" -> {"sni", "alpn", "pcs"}
      [] OTHER -> {}
CarriedFields(p) ==
    CASE p.type = "hysteria2" -> {"obfs-password", "mport"}
      [] p.type = "wireguard" -> WireguardKeys
      [] p.type = "naive" -> {"insecure-concurrency"}
      [] p.type = "tuic" -> {"congestion_control"}
      [] p.type = "vless" -> {"flow"}
      [] OTHER -> {}

\* How a field arrives: as it was, but that hysteria2 has one pin and a dash
\* between ports, and that the queries' texts, all but the server name, are
\* decoded once more often than they were encoded.
Queried(p) == p.type \notin {"vmess", "ss", "socks"}
Arrives(p, f) ==
    LET text == CASE p.type = "hysteria2" /\ f = "pcs" -> FirstPin(p.fields[f])
                  [] p.type = "hysteria2" /\ f = "mport" -> WithDash(p.fields[f])
                  [] OTHER -> p.fields[f]
    IN  IF Queried(p) /\ f # "sni" THEN Unescaped(text) ELSE text

\* A TLS mode is in the link, or there where the protocol always has TLS.
KeepsTls(p, q) ==
    /\ p.type \in {"vless", "trojan", "anytls", "naive", "vmess"} => q.tls = p.tls
    /\ p.tls # "" => \A k \in CarriedTls(p) : q.fields[k] = Arrives(p, k)

\* A transport arrives with what was set of it.
CarriesTransport(p) ==
    \/ p.type \in {"vless", "trojan", "anytls", "naive"}
          /\ ~(p.network = "grpc" /\ p.fields["serviceName"] = None)
    \/ p.type = "vmess" /\ p.network # "kcp"
KeepsTransport(p, q) ==
    (p.network \in Networks /\ CarriesTransport(p)) =>
        /\ q.network = p.network
        /\ \A k \in TransportKeys[p.network] \ {"mode", "extra"} :
              p.fields[k] # None => q.fields[k] = Arrives(p, k)

\* Whom the profile connects to, as whom and how does not change when it is
\* shared, and what was imported is exported as it came: importing a
\* subscription again finds its profiles unchanged.  Left out are a plain
\* websocket behind Shadowsocks, whose import turns TLS on, and what Arrives says
\* of escapes, pins and ports (fmt/).
SharedProfilesSurvive ==
    [][trips' # trips /\ shared.type # "none" =>
        /\ \A f \in {"type", "address", "port", "remarks", "user", "secret"} :
              shared'[f] = shared[f]
        /\ LET written == IF ImportVmessUri THEN [shared EXCEPT !.type = "vless"] ELSE shared
           IN  KeepsTls(written, shared') /\ KeepsTransport(written, shared')
        /\ \A f \in CarriedFields(shared) : shared'.fields[f] = Arrives(shared, f)
        /\ trips = 1 /\ ~(shared.type = "ss" /\ shared.network = "ws" /\ shared.tls = "") =>
              shared' = [shared EXCEPT !.fields = [f \in Fields |-> Arrives(shared, f)]]
       ]_shareVars

\* What a bundle brings in has no member that is missing and no group within
\* itself, whoever wrote it; and a bundle of this program's own profiles can be
\* imported again, each group with the members it had that were exported.
Ranked(items) ==
    \E rank \in [DOMAIN items -> DOMAIN items] :
        \A r \in DOMAIN items : \A c \in ToSet(items[r].children) :
            c \in DOMAIN items /\ rank[c] < rank[r]
OwnCatalogue(items) ==
    /\ Ranked(items)
    /\ \A r \in DOMAIN items : items[r].kind \in {"group", "chain"} =>
          \/ ToSet(items[r].children) \cap BundleIds(items) # {}
          \/ items[r].kind = "group" /\ items[r].source
SharedBundlesSurvive ==
    /\ trips > 0 => Ranked(bundle)
    /\ (trips = 0 /\ bundle # <<>> /\ OwnCatalogue(bundle) /\ BundleExportable(bundle)) =>
          LET sent == ExportedBundle(bundle)
              place(id) == Cardinality({i \in BundleIds(bundle) : i <= id})
          IN  /\ BundleParses(sent, TRUE)
              /\ \A id \in BundleIds(bundle) :
                    ToSet(sent[place(id)].children)
                        = {place(c) : c \in ToSet(bundle[id].children) \cap BundleIds(bundle)}

\* A document of servers brings in each one that can be reached, and none that
\* cannot: a peer without an endpoint is left out, not the whole document.
DocumentsAreTakenWhole ==
    (imported # <<>> /\ document.format # "custom") =>
        /\ {imported[i].address : i \in DOMAIN imported}
               = {part.address : part \in ToSet(document.parts)} \ {""}
        /\ \A i \in DOMAIN imported : imported[i].port \in 1 .. 65535

\* What sharing promises, of profiles, bundles and documents (fmt/).
SharingKeepsProfiles ==
    /\ [][SharedBundlesSurvive' /\ DocumentsAreTakenWhole']_shareVars
    /\ SharedProfilesSurvive
=============================================================================
