SPECIFICATION Spec
CONSTANTS
    Callers = {c, d}
    Profiles = {p, q}
    NoCaller = NoCaller
    None = None
    NativeTun = FALSE
    Faults = {}
    MaxCommands = 3
SYMMETRY Symmetry
INVARIANTS
    DisconnectStops
CHECK_DEADLOCK FALSE
