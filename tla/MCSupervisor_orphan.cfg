SPECIFICATION Spec
CONSTANTS
    Proc = {p1, p2}
    Clients = {u}
    Requests <- LinuxRequests
    NoProc = NoProc
    NoClient = NoClient
    NoRequest = NoRequest
    TargetOs = "linux"
    MailboxSize = 2
    MaxCommands = 1
    SpawnMayFail = FALSE
    SudoMayFail = TRUE
    NativeMayFail = FALSE
    StopMayFail = FALSE
    WaitMayFail = FALSE
SYMMETRY Symmetry
INVARIANTS
    NoOrphan
CHECK_DEADLOCK FALSE
