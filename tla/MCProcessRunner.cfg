SPECIFICATION FairSpec
CONSTANTS
    Children = {c1, c2}
    Pids = {p1, p2}
    Callers = {s1, s2}
    Dropper = dropper
    NoChild = NoChild
    NoPid = NoPid
    StopMayFail = TRUE
    WaitMayFail = TRUE
INVARIANTS
    StopsReachTheirChild
    DropStopsEveryChild
    AnnouncedOnceNeverForStopped
PROPERTIES
    KeepsPromise
    StopReturns
    EndedChildIsAnnounced
CHECK_DEADLOCK FALSE
