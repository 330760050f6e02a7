SPECIFICATION Spec
CONSTANTS
    Jobs = {j, k}
    Profiles = {p, q, r}
    NoJob = NoJob
    PageSize = 2
    Concurrency = 2
    Faults = {"database", "core"}
SYMMETRY Symmetry
INVARIANTS
    OneJobGoesOn
    ProbesAreReaped
    EveryoneGetsAResult
    NoJobIsStuck
CHECK_DEADLOCK FALSE
