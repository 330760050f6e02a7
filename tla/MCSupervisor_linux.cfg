SPECIFICATION Spec
CONSTANTS
    Proc = {p1, p2, p3}
    Clients = {u, v}
    Requests <- LinuxRequests
    NoProc = NoProc
    NoClient = NoClient
    NoRequest = NoRequest
    TargetOs = "linux"
    MailboxSize = 2
    MaxCommands = 2
    SpawnMayFail = TRUE
    SudoMayFail = TRUE
    NativeMayFail = TRUE
    StopMayFail = TRUE
    WaitMayFail = TRUE
SYMMETRY Symmetry
INVARIANTS
    NoStrayCore
    OneSessionAtATime
    SessionFollowsOrders
    CrashesAreNoticed
    SudoTargetsAreTracked
CHECK_DEADLOCK FALSE
