----------------------------- MODULE LeafOutbounds -----------------------------
(***************************************************************************)
(* The outbound of one profile: singbox/outbounds.rs from build_outbound on, *)
(* and singbox/support.rs, which binds what was built to an interface.       *)
(*                                                                         *)
(* A profile is [type, server, user, secret, method, flow, uot, quic, hops,   *)
(* obfs, key, reserved, transport, tls]; its transport [kind, http, host,     *)
(* early] and its tls [mode, sni, alpn, pem, ech].                          *)
(***************************************************************************)
EXTENDS Naturals, Sequences, FiniteSets

CONSTANTS
    OutboundProfiles,   \* profiles an outbound is built for
    CoreSettings,       \* [mux, insecure, fragment, print, agent, up, hop, bind,
                        \*  through, tun, windows]
    VmessCiphers,       \* VMESS_SECURITIES
    SsMethods,          \* SS_SECURITIES_IN_SINGBOX
    Fingerprints        \* SINGBOX_UTLS_FINGERPRINTS

VARIABLES profileBuilt, coreSettings, outbound
outboundVars == <<profileBuilt, coreSettings, outbound>>

\* What a profile does not have.
Unset == ""

\* A profile has TLS, reality or neither (TlsMode), and an interval is a number.
ASSUME OutboundBounds ==
    /\ \A p \in OutboundProfiles :
          /\ p.tls.mode \in {Unset, "tls", "reality"}
          /\ p.tls.pem \in BOOLEAN /\ p.transport.http \in BOOLEAN
    /\ \A s \in CoreSettings : s.hop \in Nat /\ s.insecure \in BOOLEAN

Is(p, types) == p.type \in types
FirstOf(list) == IF list = <<>> THEN Unset ELSE Head(list)
NoOutbound == [type |-> "none"]

-----------------------------------------------------------------------------
(* Parts of an outbound.                                                    *)

\* vmess_security, shadowsocks_method: what sing-box does not know is replaced.
VmessSecurity(p) == IF p.method \in VmessCiphers THEN p.method ELSE "auto"
ShadowsocksMethod(p) == IF p.method \in SsMethods THEN p.method ELSE "none"

\* fill_outbound_mux, for the protocols that call it: not where a flow is set.
Multiplexed(p, s) ==
    /\ s.mux
    /\ Is(p, {"vmess", "ss", "trojan"}) \/ (p.type = "vless" /\ p.flow = Unset)

\* parse_ws_early_data: a number after ed= moves from the path to the fields,
\* and eh= names the header.
EarlyData(t) ==
    [path |-> CASE t.early = "ed" -> "clean" [] t.early = "eh" -> "with-eh" [] OTHER -> "path",
     data |-> t.early = "ed",
     header |-> CASE t.early = "ed" -> "User-Agent" [] t.early = "eh" -> "named" [] OTHER -> Unset]

\* fill_outbound_transport, of raw only with an http header.
NoTransport == [kind |-> Unset, hosts |-> <<>>, early |-> FALSE, agent |-> Unset]
HttpTransport(t, s) ==
    [kind |-> "http", hosts |-> t.host, early |-> FALSE, agent |-> s.agent]
WebsocketTransport(t, s) ==
    [kind |-> "ws", hosts |-> IF t.host = <<>> THEN <<>> ELSE <<Head(t.host)>>,
     early |-> EarlyData(t).data, agent |-> s.agent]
HttpUpgradeTransport(t, s) ==
    [WebsocketTransport(t, s) EXCEPT !.kind = "httpupgrade", !.early = FALSE]
GrpcTransport == [NoTransport EXCEPT !.kind = "grpc"]
Transport(p, s) ==
    IF ~Is(p, {"vmess", "vless", "trojan"}) THEN NoTransport
    ELSE CASE p.transport.kind = "raw" /\ p.transport.http -> HttpTransport(p.transport, s)
           [] p.transport.kind = "ws" -> WebsocketTransport(p.transport, s)
           [] p.transport.kind = "httpupgrade" -> HttpUpgradeTransport(p.transport, s)
           [] p.transport.kind = "grpc" -> GrpcTransport
           [] OTHER -> NoTransport

\* fill_shadowsocks_plugin: the transport and the TLS of Shadowsocks.
NoPlugin == [name |-> Unset, host |-> Unset, tls |-> FALSE, pinned |-> FALSE]
Plugin(p) ==
    IF p.type # "ss" THEN NoPlugin
    ELSE IF p.transport.kind = "raw" /\ p.transport.http
    THEN [NoPlugin EXCEPT !.name = "obfs-local", !.host = FirstOf(p.transport.host)]
    ELSE IF p.transport.kind = "ws" \/ p.tls.mode = "tls"
    THEN [name |-> "v2ray-plugin",
          host |-> IF p.transport.kind = "ws" THEN FirstOf(p.transport.host) ELSE Unset,
          tls |-> p.tls.mode = "tls",
          pinned |-> p.tls.mode = "tls" /\ p.tls.pem]
    ELSE NoPlugin

\* fill_hysteria2_fields: one port, or the ports that are hopped over.
Hops(p) == p.type = "hysteria2" /\ p.hops \in {"range", "list"}
HopInterval(p, s) ==
    IF ~Hops(p) THEN 0 ELSE IF s.hop >= 5 THEN s.hop ELSE 30
Obfuscated(p) == p.type = "hysteria2" /\ p.obfs # Unset

\* parse_ech: a configuration, or the name whose record holds one.
Ech(list) ==
    IF list = <<>> THEN "off"
    ELSE IF \E i \in DOMAIN list : list[i] = "url" THEN "query" ELSE "config"

\* fill_outbound_tls.
NoTls == [on |-> FALSE, name |-> Unset, insecure |-> FALSE, alpn |-> FALSE, ech |-> "off",
          print |-> Unset, fragment |-> FALSE, pinned |-> FALSE, reality |-> FALSE]
Mut_Tls(p, s) ==
    IF p.tls.mode = Unset \/ Is(p, {"ss", "socks", "wireguard"}) THEN NoTls
    ELSE [on |-> TRUE,
          name |-> IF p.tls.sni # Unset THEN p.tls.sni ELSE FirstOf(p.transport.host),
          insecure |-> s.insecure,
          alpn |-> p.tls.alpn,
          ech |-> Ech(p.tls.ech),
          print |-> IF s.print \in Fingerprints THEN s.print ELSE Unset,
          fragment |-> s.fragment,
          pinned |-> p.tls.mode = "tls" /\ p.tls.pem,
          reality |-> p.tls.mode = "reality"]
Tls(p, s) ==
    IF p.tls.mode = Unset \/ Is(p, {"ss", "socks", "wireguard"}) THEN NoTls
    ELSE LET pinned == p.tls.mode = "tls" /\ p.tls.pem
             reality == p.tls.mode = "reality"
         IN  [on |-> TRUE,
              name |-> IF p.tls.sni # Unset THEN p.tls.sni ELSE FirstOf(p.transport.host),
              insecure |-> s.insecure /\ ~pinned /\ ~reality,
              alpn |-> p.tls.alpn,
              ech |-> Ech(p.tls.ech),
              print |-> IF s.print \in Fingerprints THEN s.print ELSE Unset,
              fragment |-> s.fragment,
              pinned |-> pinned,
              reality |-> reality]

\* The login of each protocol in build_outbound; half a login of a socks or
\* http server is none.
Login(p) ==
    CASE Is(p, {"socks", "http"}) ->
            IF p.user # Unset /\ p.secret # Unset THEN <<p.user, p.secret>> ELSE <<Unset, Unset>>
      [] Is(p, {"tuic", "naive"}) -> <<p.user, p.secret>>
      [] p.type = "ss" -> <<ShadowsocksMethod(p), p.secret>>
      [] p.type = "vmess" -> <<VmessSecurity(p), p.secret>>
      [] OTHER -> <<Unset, p.secret>>

\* build_wireguard_endpoint: none without the key of the peer.
WireguardEndpoint(p) ==
    IF p.key = Unset THEN NoOutbound
    ELSE [type |-> "wireguard", server |-> p.server, ports |-> "one", login |-> Login(p),
          mux |-> FALSE, transport |-> NoTransport, plugin |-> NoPlugin, tls |-> NoTls,
          reserved |-> p.reserved = "three", udp |-> FALSE, rate |-> FALSE, interval |-> 0,
          obfs |-> FALSE, quic |-> FALSE, detour |-> Unset, bound |-> FALSE, through |-> FALSE]

\* build_outbound.
BuiltOutbound(p, s) ==
    IF p.type = "wireguard" THEN WireguardEndpoint(p)
    ELSE [type |-> p.type, server |-> p.server,
          ports |-> IF Hops(p) THEN "hops" ELSE "one",
          login |-> Login(p),
          mux |-> Multiplexed(p, s),
          transport |-> Transport(p, s),
          plugin |-> Plugin(p),
          tls |-> Tls(p, s),
          reserved |-> FALSE,
          udp |-> Is(p, {"ss", "naive"}) /\ p.uot,
          rate |-> p.type = "hysteria2" /\ s.up > 0,
          interval |-> HopInterval(p, s),
          obfs |-> Obfuscated(p),
          quic |-> p.type = "naive" /\ p.quic,
          detour |-> Unset, bound |-> FALSE, through |-> FALSE]

-----------------------------------------------------------------------------
(* An outbound is built, perhaps set behind another, and bound.              *)

OutboundInit ==
    /\ profileBuilt \in OutboundProfiles
    /\ coreSettings \in CoreSettings
    /\ outbound = NoOutbound

Build ==
    /\ outbound = NoOutbound
    /\ BuiltOutbound(profileBuilt, coreSettings) # NoOutbound
    /\ outbound' = BuiltOutbound(profileBuilt, coreSettings)
    /\ UNCHANGED <<profileBuilt, coreSettings>>

\* set_detour, in a chain.
Detour ==
    /\ outbound # NoOutbound /\ outbound.detour = Unset
    /\ ~outbound.bound /\ ~outbound.through
    /\ outbound' = [outbound EXCEPT !.detour = "chain"]
    /\ UNCHANGED <<profileBuilt, coreSettings>>

\* should_bind_outbound: not what runs through another or to this machine.
\* An endpoint is in a list of its own.
ShouldBind(o) == o.type # "wireguard" /\ o.detour = Unset /\ o.server # "localhost"

\* apply_outbound_bind_interface, apply_outbound_send_through.
Bind ==
    /\ outbound # NoOutbound
    /\ LET s == coreSettings
           binds == s.bind /\ (s.tun \/ s.windows) /\ ShouldBind(outbound)
           sends == s.through /\ ShouldBind(outbound)
       IN  outbound' = [outbound EXCEPT !.bound = binds, !.through = sends]
    /\ UNCHANGED <<profileBuilt, coreSettings>>

OutboundNext == Build \/ Detour \/ Bind
OutboundSpec == OutboundInit /\ [][OutboundNext]_outboundVars

-----------------------------------------------------------------------------
(* Properties.                                                              *)

\* A certificate is only unchecked where the application was told so, and never
\* where the profile names the one it must be or uses reality
\* (singbox_tls_insecure_requires_application_gate,
\* singbox_pinned_cert_and_reality_force_insecure_false).
ServersAreVerified ==
    outbound # NoOutbound =>
        LET p == profileBuilt
        IN  /\ outbound.tls.insecure => coreSettings.insecure /\ ~p.tls.pem
            /\ outbound.tls.insecure => p.tls.mode = "tls"
            /\ (p.tls.pem /\ ((outbound.tls.on /\ ~outbound.tls.reality) \/ outbound.plugin.tls)) =>
                  outbound.tls.pinned \/ outbound.plugin.pinned

\* A profile with TLS is not spoken to in the clear, whatever its transport and
\* flow; only socks and wireguard have no TLS, and Shadowsocks has it in its
\* plugin unless http obfuscation is what the plugin does.
TlsIsNotLost ==
    (outbound # NoOutbound /\ profileBuilt.tls.mode = "tls") =>
        \/ Is(profileBuilt, {"socks", "wireguard"})
        \/ outbound.tls.on \/ outbound.plugin.tls
        \/ outbound.plugin.name = "obfs-local"

\* What sing-box refuses side by side is never written together, and a server
\* behind another, or on this machine, is not tied to a network interface.
PartsFitTogether ==
    outbound # NoOutbound =>
        LET o == outbound
        IN  /\ ~(o.mux /\ (profileBuilt.flow # Unset /\ o.type = "vless"))
            /\ o.plugin.name # Unset => o.transport.kind = Unset /\ ~o.tls.on
            /\ (o.ports = "hops") = (o.interval >= 5)
            /\ o.bound \/ o.through => o.detour = Unset /\ o.server # "localhost"
            /\ Len(o.transport.hosts) > 1 => o.transport.kind = "http"

OutboundFitsItsProfile == ServersAreVerified /\ TlsIsNotLost /\ PartsFitTogether
=============================================================================
