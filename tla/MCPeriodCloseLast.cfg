SPECIFICATION MCSpec
CONSTANTS
    Cuts = {"periods"}
    Clients = {c1, c2}
    Thirds = {}
    NoClient = NoClient
    Others = {}
    NPairs = 2
    NKeys = 2
    Classes = {"main", "fee"}
    MaxEff = 1
    MaxCalls = 2
    Closers = {k1, k2}
    MaxCloses = 2
    Workers = {}
    NoWorker = NoWorker
    Readers = {}
    MaxFails = 1
    MaxFaults = 0
    Requests <- MCRequests
PROPERTIES LastCloseHolds
CHECK_DEADLOCK FALSE
