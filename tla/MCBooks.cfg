SPECIFICATION MCSpec
CONSTANTS
    Cuts = {"posts", "periods", "workers", "readers"}
    Clients = {c1, c2, c3}
    Thirds = {c3}
    NoClient = NoClient
    Others = {o1}
    NPairs = 2
    NKeys = 2
    Classes = {"main", "fee"}
    MaxEff = 1
    MaxCalls = 4
    Closers = {k1, k2}
    MaxCloses = 2
    Workers = {w1, w2}
    NoWorker = NoWorker
    Readers = {r1}
    MaxFails = 1
    MaxFaults = 1
    Requests <- MCRequests
INVARIANTS OneJournalPerKey NoWaitCycle CheckpointExact
PROPERTIES VisibleInIdOrder NoWriteBehindLine RetryAnswered ReadExact
SYMMETRY Sym
CHECK_DEADLOCK FALSE
