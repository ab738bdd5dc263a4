SPECIFICATION ReserverSpec
CONSTANTS
    NoClient = NoClient
    Clients = {c1, w1}
    Sweepers = {w1}
    Names = {r1}
    OpKeys = {k1}
    Amounts = {1, 2}
    TTLs = {1}
    Opening = 2
    Signing = FALSE
    Ops = {"reserve", "partial"}
    MaxTime = 2
    MaxCalls = 2
    MaxFaults = 0
INVARIANTS SweepKeepsPartial
CHECK_DEADLOCK FALSE
