------------------------------ MODULE AppSettings ------------------------------
(***************************************************************************)
(* Settings: what a window shows of the configuration, what it may save,    *)
(* how both are kept in the database, and which changes make the running    *)
(* core start again: voya-app settings_save.rs and services.rs, and the     *)
(* commands that change the configuration.                                  *)
(*                                                                         *)
(* A configuration is a record [index, sub, shortcut, item]; an item is a    *)
(* record too.  What is copied field by field is its field "rest".           *)
(***************************************************************************)
EXTENDS Integers, FiniteSets, TLC

CONSTANT
    MaxSettingsChanges  \* bound: changes of the configuration

VARIABLES
    appState,       \* the shared configuration
    storedSettings, \* the database: [settings, profile, routing]
    window,         \* the settings a window has: none or one
    coreItems,      \* the items the running core was generated from, or <<>>
    proxyItem,      \* the system proxy settings that were applied, or <<>>
    coreIsOld,      \* a restart failed and the core of before may be running
    changes

settingsVars ==
    <<appState, storedSettings, window, coreItems, proxyItem, coreIsOld, changes>>

NoText == ""

Items == {"core", "tun", "grpc", "routing", "gui", "ui", "const", "speedTest", "mux",
          "hysteria", "proxyUi", "systemProxy", "inbound", "dns"}
DefaultItem(i) ==
    CASE i = "tun" -> [mtu |-> 1500, rest |-> 1]
      [] i = "routing" -> [id |-> NoText, rest |-> 1]
      [] i = "ui" -> [theme |-> "none", language |-> "en"]
      [] i = "const" -> [geo |-> NoText, srs |-> NoText, template |-> NoText, converter |-> NoText]
      [] i = "hysteria" -> [up |-> 100, down |-> 100, hop |-> 30]
      [] i = "proxyUi" -> [mode |-> "Rule", rest |-> 1]
      [] i = "systemProxy" -> [mode |-> "ForcedClear", rest |-> 1]
      [] OTHER -> [rest |-> 1]

DefaultState ==
    [index |-> NoText, sub |-> NoText, shortcut |-> {}, item |-> [i \in Items |-> DefaultItem(i)]]

-----------------------------------------------------------------------------
(* Conversion.                                                              *)

\* system_proxy_mode_to_str and traffic_mode_to_str; reading is the inverse and
\* refuses every other text.
SystemProxyText ==
    [ForcedClear |-> "forcedClear", ForcedChange |-> "forcedChange",
     Unchanged |-> "unchanged", Pac |-> "pac"]
TrafficText ==
    [Rule |-> "rule", Global |-> "global", Direct |-> "direct", Unchanged |-> "unchanged"]
ModesOf(texts, text) == {m \in DOMAIN texts : texts[m] = text}

\* theme_from_config, theme_to_config: what is not known follows the system.
ThemeShown(theme) ==
    CASE theme = "Light" -> "light" [] theme = "Dark" -> "dark" [] OTHER -> "system"
ThemeKept(theme) ==
    CASE theme = "light" -> "Light" [] theme = "dark" -> "Dark" [] OTHER -> "FollowSystem"

\* settings_from_app_config: the active profile and routing and the subscription
\* that is shown are not settings; a shortcut without a key is none.
ItemShown(i, v) ==
    CASE i = "routing" -> [rest |-> v.rest]
      [] i = "ui" -> [theme |-> ThemeShown(v.theme), language |-> v.language]
      [] i = "proxyUi" -> [mode |-> TrafficText[v.mode], rest |-> v.rest]
      [] i = "systemProxy" -> [mode |-> SystemProxyText[v.mode], rest |-> v.rest]
      [] OTHER -> v
SettingsFrom(c) ==
    [schema |-> 1,
     shortcut |-> {s \in c.shortcut : s.key # NoText},
     item |-> [i \in Items |-> ItemShown(i, c.item[i])]]

\* app_config_from_settings with the ids of the state record: a configuration,
\* or none when a mode is not known.
ItemKept(i, v, routing, proxy, traffic) ==
    CASE i = "routing" -> [id |-> routing, rest |-> v.rest]
      [] i = "ui" -> [theme |-> ThemeKept(v.theme), language |-> v.language]
      [] i = "proxyUi" -> [mode |-> traffic, rest |-> v.rest]
      [] i = "systemProxy" -> [mode |-> proxy, rest |-> v.rest]
      [] OTHER -> v
ConfigFrom(settings, profile, routing, proxy, traffic) ==
    [index |-> profile, sub |-> NoText, shortcut |-> settings.shortcut,
     item |-> [i \in Items |-> ItemKept(i, settings.item[i], routing, proxy, traffic)]]
ConfigsFrom(settings, profile, routing) ==
    {ConfigFrom(settings, profile, routing, proxy, traffic) :
        proxy \in ModesOf(SystemProxyText, settings.item["systemProxy"].mode),
        traffic \in ModesOf(TrafficText, settings.item["proxyUi"].mode)}

\* validate_optional_source_url, validate_optional_https_source_url: an address is
\* NoText, "blank", "https", "http", "ftp" or "control" (with a control character).
HttpAddresses == {NoText, "blank", "https", "http"}
HttpsAddresses == {NoText, "blank", "https"}
TunnelMtus == 576 .. 65535

\* validate_app_settings.
ValidSettings(settings) ==
    LET item == settings.item
    IN  /\ settings.schema = 1
        /\ item["ui"].language \notin {NoText, "blank"}
        /\ \A source \in {"geo", "srs", "converter"} :
              item["const"][source] \in HttpAddresses
        /\ item["const"].template \in HttpsAddresses
        /\ item["tun"].mtu \in TunnelMtus
        /\ item["hysteria"].up >= 0 /\ item["hysteria"].down >= 0
        /\ item["hysteria"].hop >= 5

\* saved_config_requires_runtime_restart.
Mut_RestartItems ==
    {"core", "tun", "routing", "mux", "hysteria", "proxyUi", "inbound", "dns"}
RestartItems ==
    {"core", "tun", "grpc", "routing", "mux", "hysteria", "proxyUi", "inbound", "dns"}
RequiresRestart(old, new) ==
    \/ old.index # new.index \/ old.sub # new.sub
    \/ \E i \in RestartItems : old.item[i] # new.item[i]

-----------------------------------------------------------------------------
(* What the application does.                                               *)

SettingsInit ==
    /\ storedSettings = [settings |-> SettingsFrom(DefaultState),
                         profile |-> NoText, routing |-> NoText]
    /\ appState \in ConfigsFrom(SettingsFrom(DefaultState), NoText, NoText)
    /\ window = {}
    /\ coreItems = <<>> /\ proxyItem = <<>>
    /\ coreIsOld = FALSE
    /\ changes = 0

\* commit: the database is written, then the configuration is shared.
Commits(c) ==
    /\ changes < MaxSettingsChanges /\ changes' = changes + 1
    /\ appState' = c
    /\ storedSettings' = [settings |-> SettingsFrom(c), profile |-> c.index,
                          routing |-> c.item["routing"].id]

\* A start generates the core from the whole configuration and applies the proxy;
\* it may fail, before or after the core of before was stopped.
StartsCore(c) ==
    \/ coreItems' = c.item /\ proxyItem' = c.item["systemProxy"] /\ coreIsOld' = FALSE
    \/ coreItems # <<>> /\ coreIsOld' = TRUE /\ UNCHANGED <<coreItems, proxyItem>>
    \/ coreItems' = <<>> /\ proxyItem' \in {<<>>, proxyItem} /\ coreIsOld' = FALSE

NothingStarts == UNCHANGED <<coreItems, proxyItem, coreIsOld>>

\* restart_if_connected_after_config_change,
\* apply_system_proxy_if_connected_after_config_change.
RestartIfConnected(c) == IF coreItems = <<>> THEN NothingStarts ELSE StartsCore(c)

AppliesProxy(c) == proxyItem' = c.item["systemProxy"] /\ UNCHANGED <<coreItems, coreIsOld>>
ReapplyIfConnected(c) == IF coreItems = <<>> THEN NothingStarts ELSE AppliesProxy(c)

\* load_config, at a start of the application.
LoadConfig ==
    /\ appState' \in ConfigsFrom(storedSettings.settings, storedSettings.profile,
                                 storedSettings.routing)
    /\ window' = {}
    /\ coreItems' = <<>> /\ proxyItem' = <<>> /\ coreIsOld' = FALSE
    /\ UNCHANGED <<storedSettings, changes>>

LoadAppSettings ==
    /\ window' = {SettingsFrom(appState)}
    /\ UNCHANGED <<appState, storedSettings, coreItems, proxyItem, coreIsOld, changes>>

ConnectCore == StartsCore(appState) /\ UNCHANGED <<appState, storedSettings, window, changes>>
DisconnectCore ==
    /\ coreItems' = <<>> /\ proxyItem' = <<>> /\ coreIsOld' = FALSE
    /\ UNCHANGED <<appState, storedSettings, window, changes>>

\* What the user may change in a window, values that are refused among them.
Edited(s) ==
    {[s EXCEPT !.item[i].rest = 2] : i \in {i \in DOMAIN s.item : "rest" \in DOMAIN s.item[i]}} \cup
    {[s EXCEPT !.item["tun"].mtu = m] : m \in {575, 576, 65535, 65536}} \cup
    {[s EXCEPT !.item["hysteria"][f] = n] : f \in {"up", "down", "hop"}, n \in {-1, 4, 5}} \cup
    {[s EXCEPT !.item["ui"].language = l] : l \in {"blank", "zh"}} \cup
    {[s EXCEPT !.item["ui"].theme = "dark"], [s EXCEPT !.schema = 2], s,
     [s EXCEPT !.shortcut = {[key |-> "v"]}]} \cup
    {[s EXCEPT !.item["const"][f] = a] :
        f \in {"geo", "srs", "template", "converter"}, a \in {"http", "https", "ftp", "control"}} \cup
    {[s EXCEPT !.item["systemProxy"].mode = m] : m \in {"pac", "PAC"}} \cup
    {[s EXCEPT !.item["proxyUi"].mode = m] : m \in {"global", "tun"}}

\* save_app_settings: one call that is refused changes nothing.
SaveAppSettings ==
    \E shown \in window : \E settings \in Edited(shown) :
        /\ ValidSettings(settings)
        /\ \E new \in ConfigsFrom(settings, appState.index, appState.item["routing"].id) :
              /\ Commits(new)
              /\ window' = {SettingsFrom(new)}
              /\ \/ RequiresRestart(appState, new) /\ RestartIfConnected(new)
                 \/ /\ ~RequiresRestart(appState, new)
                    /\ IF appState.item["systemProxy"] # new.item["systemProxy"]
                       THEN ReapplyIfConnected(new)
                       ELSE NothingStarts

\* Commands that restart a core that runs: set_tun_enabled, save_dns_settings,
\* the activation of a routing.
SaveOneItem ==
    /\ \E new \in {[appState EXCEPT !.item["tun"].rest = 2],
                   [appState EXCEPT !.item["dns"].rest = 2],
                   [appState EXCEPT !.item["routing"].id = "r"]} :
          Commits(new) /\ RestartIfConnected(new)
    /\ UNCHANGED window

\* Commands that do not: another active profile, a subscription that is shown,
\* a traffic mode, which the core is told, a system proxy mode, which is applied.
SaveOneChoice ==
    /\ \/ /\ \E new \in {[appState EXCEPT !.index = "p"], [appState EXCEPT !.sub = "s"],
                         [appState EXCEPT !.item["proxyUi"].mode = "Direct"]} :
                Commits(new)
          /\ NothingStarts
       \/ \E new \in {[appState EXCEPT !.item["systemProxy"].mode = "ForcedChange"]} :
             Commits(new) /\ AppliesProxy(new)
    /\ UNCHANGED window

SettingsNext ==
    \/ LoadConfig \/ LoadAppSettings \/ ConnectCore \/ DisconnectCore
    \/ SaveAppSettings \/ SaveOneItem \/ SaveOneChoice

SettingsSpec == SettingsInit /\ [][SettingsNext]_settingsVars

-----------------------------------------------------------------------------
(* Properties.                                                              *)

\* What the database keeps and loads is the configuration: only the subscription
\* that is shown is lost.  Nothing is kept that a window could not save again.
StoredIsTheConfiguration ==
    /\ ValidSettings(storedSettings.settings)
    /\ ConfigsFrom(storedSettings.settings, storedSettings.profile, storedSettings.routing)
         = {[appState EXCEPT !.sub = NoText]}

\* What the generator of voya-core singbox/ reads of the configuration, except
\* the address of rule sets (const), which a running core keeps until its next start.
ItemsGenerated == {"core", "tun", "grpc", "routing", "mux", "hysteria", "inbound", "dns"}

\* A core that runs was generated from what is saved now, whatever was saved
\* since, and the proxy is the one that is saved (save_app_settings).
CoreFollowsSettings ==
    coreItems # <<>> /\ ~coreIsOld =>
        /\ \A i \in ItemsGenerated : coreItems[i] = appState.item[i]
        /\ proxyItem = appState.item["systemProxy"]

\* Both: what a window saves is kept, and the core runs it (settings_save.rs).
SettingsAreKept == StoredIsTheConfiguration /\ CoreFollowsSettings
===============================================================================
