SPECIFICATION ServicesSpec
CONSTANTS
    Callers = {"c"}
    TargetOs = "windows"
    KdeTools = FALSE
    CommandMayFail = TRUE
    FileMayFail = TRUE
    MayCrash = TRUE
    MaxOperations = 4
    Modes = {"Rule", "Global"}
    ModeUnchanged = "Unchanged"
    Setters = {"s", "t"}
    NoSetter = "settings"
    NoCore = "stopped"
    MaxMonitors = 2
    MaxAttempt = 1
    StatProfiles = {"p", "q"}
    NoProfile = "none"
    ChannelSize = 1
    MaxSamples = 2
    MaxCores = 2
    MaxDay = 2
    ProfileIds = {1, 2, 3}
    ListIds = {1, 2, 3, 4}
    NoId = 0
    Keys = {"key", "group"}
    ComplexKeys = {"group"}
    Subs = {"a", "b"}
    NoSub = "none"
    MaxRows = 2
    ImportTexts <- ImportTextsDef
    RawProfiles <- RawProfilesDef
    AssetFiles <- AssetFilesDef
    Acquirers = {"c", "d"}
    MaxServed = 2
    Groups = {"g", "h", "k"}
    Leaf <- LeafDef
    SubLeaves <- SubLeavesDef
    Catalogs <- CatalogsDef
    RootLists <- RootListsDef
    Settings <- SettingsDef
    Flows <- FlowsDef
    ClashModes <- ModesDef
    RoutingIds = {1, 2}
    NoRouting = 0
    RuleIds = {"r", "s", "t"}
    BuiltinItems = 1
    Templates <- TemplatesDef
    MaxRoutings = 2
    MaxSettingsChanges = 2
    ShareProfiles <- ShareProfilesDef
    Bundles <- BundlesDef
    Documents <- DocumentsDef
    ReservedWords <- Reserved
    Configs <- ConfigsDef
    CoreExecutables <- CoreExecutablesDef
    SupportFiles = {"lib"}
    Packages <- PackagesDef
    Machines = {"linux", "macos", "windows"}
    MaxPackage = 2
    MaxCuts = 2
    MaxTime = 3
    MaxAnswers = 3
    UdpTargets <- UdpTargetsDef
    UdpHosts <- UdpHostsDef
    KnownKinds = {"dns", "stun", "mcbe"}
    PortTexts <- PortTextsDef
    UdpResponses <- UdpResponsesDef
    OutboundProfiles <- OutboundProfilesDef
    CoreSettings <- CoreSettingsDef
    VmessCiphers = {"aes", "auto"}
    SsMethods = {"aes", "none"}
    Fingerprints = {"chrome"}
INVARIANTS
    ProxiedHasMarker
    OkMeansApplied
    StatisticsAreRight
    TimesAreOfRightAnswers
    SettingsAreKept
    GroupsAreResolved
    ConfigurationIsRight
    CatalogueHolds
    ServiceGuardsItsCore
PROPERTIES
    RestartRestores
    MonitorAndModeAreRight
    UpdatesAreAllOrNothing
    CoreFilesAreRight
    NothingIsLost
CHECK_DEADLOCK FALSE
