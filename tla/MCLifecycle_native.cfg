SPECIFICATION FairSpec
CONSTANTS
    Callers = {c, d}
    Profiles = {p, q}
    NoCaller = NoCaller
    None = None
    NativeTun = TRUE
    Faults <- AllFaults
    MaxCommands = 2
INVARIANTS
    TunSettingTakesEffect
    WindowIsRight
PROPERTIES
    CommandsReturn
CHECK_DEADLOCK FALSE
