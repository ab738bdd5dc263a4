SPECIFICATION MCSpec
CONSTANTS
    NoClient = NoClient
    Clients = {c1, c2}
    Sweepers = {}
    Names = {r1, r2}
    OpKeys = {k1, k2}
    Amounts = {1, 2}
    TTLs = {1}
    Opening = 2
    Signing = TRUE
    Ops = {"gated", "settle", "partial", "finalize", "capture"}
    MaxTime = 2
    MaxCalls = 4
    MaxFaults = 1
INVARIANTS HoldsCovered AppliedOnce
PROPERTIES RetryNotRefused
SYMMETRY Sym
CHECK_DEADLOCK FALSE
