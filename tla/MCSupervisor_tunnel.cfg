SPECIFICATION FairSpec
CONSTANTS
    Proc = {p1, p2}
    Clients = {u, v}
    Requests <- WindowsRequests
    NoProc = NoProc
    NoClient = NoClient
    NoRequest = NoRequest
    TargetOs = "windows"
    MailboxSize = 1
    MaxCommands = 2
    SpawnMayFail = TRUE
    SudoMayFail = FALSE
    NativeMayFail = TRUE
    StopMayFail = FALSE
    WaitMayFail = FALSE
INVARIANTS
    NoStrayTunnel
    NativeExitsAreReported
PROPERTIES
    CommandsAreAnswered
    DeathsAreHandled
CHECK_DEADLOCK FALSE
