-------------------------------- MODULE Imports --------------------------------
(***************************************************************************)
(* The text of an import: how it is read, what of it is kept, and the form  *)
(* profiles are stored in: voya-app subscriptions/manager.rs                *)
(* (parse_import_text, import_profiles_from_text) and profiles/manager.rs   *)
(* (normalize_profile).                                                     *)
(*                                                                         *)
(* A string is a text and whether blanks surround it; an Option is a set of *)
(* at most one.  A line is of a kind: a link that can be read ("link"), one *)
(* of a known scheme that cannot ("broken"), an address ("url"), or neither *)
(* ("noise").                                                               *)
(***************************************************************************)
EXTENDS Naturals, FiniteSets, SequencesExt

CONSTANTS
    ImportTexts,    \* what is pasted or fetched: [decoded, content]
    RawProfiles     \* profiles as a link or a document has them

-----------------------------------------------------------------------------
(* normalize_profile.                                                       *)

Blank == [text |-> "", padded |-> FALSE]
TrimString(s) == [s EXCEPT !.padded = FALSE]
TrimOption(o) == {TrimString(s) : s \in o} \ {Blank}
NormalizeValues(list) ==
    SelectSeq([i \in DOMAIN list |-> TrimString(list[i])], LAMBDA s : s # Blank)

\* The strings, Options and lists of each protocol.
ProtocolTexts(type) ==
    CASE type \in {"vmess", "vless"}               -> {"address", "uuid"}
      [] type = "custom"                           -> {"source"}
      [] type = "ss"                               -> {"address", "password", "method"}
      [] type \in {"socks", "http", "naive"}       -> {"address", "username", "password"}
      [] type \in {"trojan", "anytls", "hysteria2"} -> {"address", "password"}
      [] type = "tuic"                             -> {"address", "uuid", "password"}
      [] type = "wireguard"                        -> {"address", "private_key"}
      [] OTHER                                     -> {}
ProtocolOptions(type) ==
    CASE type = "vmess"               -> {"cipher"}
      [] type = "vless"               -> {"flow", "encryption"}
      [] type = "custom"              -> {"filter"}
      [] type = "hysteria2"           -> {"port_hops", "obfuscation_password"}
      [] type \in {"tuic", "naive"}   -> {"congestion_control"}
      [] type = "wireguard"           -> {"peer_public_key", "preshared_key",
                                          "interface_address", "allowed_ips", "reserved"}
      [] type = "group"               -> {"source_subscription_id", "group_filter"}
      [] OTHER                        -> {}
ProtocolLists(type) == IF type \in {"group", "chain"} THEN {"child_profile_ids"} ELSE {}

TransportOptions(transport) ==
    CASE transport = "tcp"   -> {"header", "host", "path"}
      [] transport = "kcp"   -> {"header", "seed"}
      [] transport \in {"ws", "httpupgrade", "http2", "quic"} -> {"host", "path"}
      [] transport = "xhttp" -> {"host", "path", "mode", "extra"}
      [] transport = "grpc"  -> {"authority", "service_name", "grpc_mode"}
      [] OTHER               -> {}
TlsOptions == {"server_name", "reality_public_key", "reality_short_id",
               "reality_spider_x", "mldsa65_verify", "certificate_pem", "final_mask"}
TlsLists == {"alpn", "certificate_sha256", "ech_config"}

TextsOf(p) == ProtocolTexts(p.type) \cup {"remarks"}
OptionsOf(p) == ProtocolOptions(p.type) \cup TransportOptions(p.transport)
                \cup (IF p.tls THEN TlsOptions ELSE {})
ListsOf(p) == ProtocolLists(p.type) \cup (IF p.tls THEN TlsLists ELSE {})

NormalizeProfile(p) ==
    [p EXCEPT !.text   = [f \in DOMAIN @ |-> IF f \in TextsOf(p) THEN TrimString(@[f])
                                             ELSE @[f]],
              !.option = [f \in DOMAIN @ |-> IF f \in OptionsOf(p) THEN TrimOption(@[f])
                                             ELSE @[f]],
              !.list   = [f \in DOMAIN @ |-> IF f \in ListsOf(p) THEN NormalizeValues(@[f])
                                             ELSE @[f]]]

\* profile_items_match without remarks.
ProfilesMatch(p, q) == [p EXCEPT !.text["remarks"] = q.text["remarks"]] = q

-----------------------------------------------------------------------------
(* parse_import_text.                                                       *)

\* One line.  An import for a subscription reads a line once and adds no
\* subscription; what is no link of a known scheme is passed over.
ReadLine(acc, line) ==
    IF acc.forSub /\ line \in acc.seen THEN acc
    ELSE CASE line.kind = "url" /\ ~acc.forSub -> [acc EXCEPT !.urls = Append(@, line)]
           [] line.kind = "link"   -> [acc EXCEPT !.profiles = Append(@, line.profile),
                                                  !.seen = @ \cup {line}]
           [] line.kind = "broken" -> [acc EXCEPT !.failed = @ + 1,
                                                  !.seen = @ \cup {line}]
           [] OTHER                -> acc

\* The lines first, then each kind of document the whole may be: a bundle,
\* SIP008, WireGuard or a full configuration.
ReadContent(acc, content) ==
    LET read == FoldLeft(ReadLine, [acc EXCEPT !.seen = {}], content.lines)
    IN  [read EXCEPT !.profiles = @ \o FlattenSeq(content.documents)]

\* What the text encodes in base64, when it does, and the text itself.
ReadText(text, forSub) ==
    FoldLeft(ReadContent,
             [forSub |-> forSub, seen |-> {}, profiles |-> <<>>, urls |-> <<>>, failed |-> 0],
             text.decoded \o <<text.content>>)

NothingImportable(read) ==
    read.profiles = <<>> /\ read.urls = <<>> /\ read.failed = 0

-----------------------------------------------------------------------------
(* import_profiles_from_text, up to where the profiles are saved.           *)

\* The subscription's filter, a pattern on the remarks as they came.
PassesFilter(p, filter) == filter = {} \/ p.text["remarks"].text \in filter

\* dedupe_profiles of the import: groups, chains and configurations are kept.
KeepFirst(kept, p) ==
    IF p.type \notin {"custom", "group", "chain"} /\
       \E i \in DOMAIN kept : ProfilesMatch(kept[i], p)
    THEN kept ELSE Append(kept, p)

Mut_Prepared(profiles) ==
    LET kept == FoldLeft(KeepFirst, <<>>, profiles)
    IN  [i \in DOMAIN kept |-> NormalizeProfile(kept[i])]

\* Profiles are compared in the form they are stored in.
Prepared(profiles) ==
    FoldLeft(KeepFirst, <<>>, [i \in DOMAIN profiles |-> NormalizeProfile(profiles[i])])

ImportOf(text, forSub, filter) ==
    LET read == ReadText(text, forSub)
        passed == SelectSeq(read.profiles, LAMBDA p : PassesFilter(p, filter))
        profiles == Prepared(passed)
        filtered == Len(read.profiles) - Len(passed)
        deduped == Len(passed) - Len(profiles)
    IN  [refused |-> NothingImportable(read), profiles |-> profiles,
         parsed |-> Len(read.profiles), filtered |-> filtered, deduped |-> deduped,
         failed |-> read.failed, skipped |-> filtered + deduped + read.failed,
         subscriptions |-> {u.text : u \in ToSet(read.urls)}]

-----------------------------------------------------------------------------
(* Properties.                                                              *)

\* The stored form is stable and has no blank value: what is saved again is
\* what was saved, and an option that is set says something.
StoredFormIsStable ==
    \A p \in RawProfiles :
        LET q == NormalizeProfile(p)
        IN  /\ NormalizeProfile(q) = q
            /\ \A f \in DOMAIN q.option : Blank \notin q.option[f]
            /\ \A f \in DOMAIN q.list : Blank \notin ToSet(q.list[f])

\* Every link of a text ends in exactly one count, the profiles that are left
\* differ in more than blanks and remarks, and each link that passes the filter
\* is among them: no text is imported twice or in part without being said.
EveryLinkIsCounted ==
    \A text \in ImportTexts, forSub \in BOOLEAN, filter \in {{}, {"one"}} :
        LET import == ImportOf(text, forSub, filter)
            contents == text.decoded \o <<text.content>>
            lines(c, kind) == {i \in DOMAIN c.lines :
                /\ c.lines[i].kind = kind
                /\ forSub => \A j \in 1 .. i - 1 : c.lines[j] # c.lines[i]}
            total(kind) == FoldLeft(LAMBDA n, c : n + Cardinality(lines(c, kind)), 0, contents)
            links == UNION {{c.lines[i].profile : i \in lines(c, "link")} :
                              c \in ToSet(contents)}
            documents == FoldLeft(LAMBDA n, c : n + Len(FlattenSeq(c.documents)), 0, contents)
            plain(p) == p.type \notin {"custom", "group", "chain"}
        IN  /\ import.parsed = total("link") + documents
            /\ import.failed = total("broken")
            /\ Len(import.profiles) + import.skipped = import.parsed + import.failed
            /\ \A i, j \in DOMAIN import.profiles :
                  (i < j /\ plain(import.profiles[i])) =>
                      ~ProfilesMatch(import.profiles[i], import.profiles[j])
            /\ \A p \in {x \in links : PassesFilter(x, filter)} :
                  \E i \in DOMAIN import.profiles :
                      ProfilesMatch(import.profiles[i], NormalizeProfile(p))
            /\ forSub => import.subscriptions = {}
            /\ import.refused => import.profiles = <<>> /\ import.skipped = 0

\* Imports are read as a whole and stored in one form.
ImportsAreWhole == StoredFormIsStable /\ EveryLinkIsCounted
=============================================================================
