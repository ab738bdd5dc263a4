SPECIFICATION SuiteSpec
CONSTANTS
    Ingesters = {"i1"}
    Recheckers = {"r1", "r2"}
    Reviewers = {"h1"}
    Confirmations = 2
    ShallowReorgMisses = 2
    ConfirmEvidenceMisses = 2
    DeepReorgMisses = 2
    ReconcileFailureLimit = 2
    ReorgRecheckWindow = 3
    Sizes = {"small"}
    AutoReverse = TRUE
    MaxBlock = 3
    MaxMoves = 2
    MaxWrong = 1
    MaxDown = 0
    MaxCrashes = 1
    Tokens = {"usdt", "usdc"}
    Replicas = {"r1", "r2"}
    GasCeiling = 2
    MaxSweepBumps = 1
    MaxNonce = 2
    MaxTx = 3
    MaxMarket = 1
    MaxMarketMoves = 0
    MaxDeaths = 1
    MaxDrops = 0
    MaxLate = 1
INVARIANTS ScanSound CreditSound SweepsSound
CHECK_DEADLOCK FALSE
