SPECIFICATION Spec
CONSTANTS
    Callers = {c}
    TargetOs = "linux"
    KdeTools = FALSE
    CommandMayFail = FALSE
    FileMayFail = FALSE
    MayCrash = FALSE
    MaxOperations = 3
INVARIANTS
    RestoreClearsMarker
CHECK_DEADLOCK FALSE
