SPECIFICATION SuiteSpec
CONSTANTS
    c1 = c1
    c2 = c2
    s1 = s1
    NoClient = NoClient
    k1 = k1
    k2 = k2
    j1 = j1
    j2 = j2
    Clients <- Callers
    Sweepers = {}
    Bookings = {"b1", "b2"}
    TKeys <- TransitionKeys
    JKeys <- JournalKeys
    Amounts = {1}
    Initial = "reserved"
    Edges <- WithdrawalEdges
    Ops = {"create", "transition", "confirm", "post", "plain"}
    MaxCalls = 5
    MaxFaults = 0
    Depositors <- DepositCallers
    Expirers = {s1}
    NoDepositor = NoDepositor
    DepositKeys <- PendingKeys
    Deposits = {1, 2}
    Gated = TRUE
    PendingOps = {"add", "confirm", "cancel"}
    MaxRequests = 3
    MaxDeaths = 1
INVARIANTS HistorySound LinksAgree NeverOverdrawn ReversalsSound BooksSound
           ConfigSound ArithmeticExact LifecycleExact
PROPERTIES PolicyRespected
SYMMETRY Sym
CHECK_DEADLOCK FALSE
