SPECIFICATION Spec
CONSTANTS
    Callers = {c, d}
    TargetOs = "windows"
    KdeTools = FALSE
    CommandMayFail = FALSE
    FileMayFail = FALSE
    MayCrash = TRUE
    MaxOperations = 4
PROPERTIES
    RestartRestores
CHECK_DEADLOCK FALSE
