SPECIFICATION Spec
CONSTANTS
    Callers = {c, d}
    Profiles = {p, q}
    NoCaller = NoCaller
    None = None
    NativeTun = FALSE
    Faults <- AllFaults
    MaxCommands = 3
SYMMETRY Symmetry
INVARIANTS
    SharedIsStored
    RegisteredIsStored
    RunsItsRequest
PROPERTIES
    NoLostUpdate
CHECK_DEADLOCK FALSE
