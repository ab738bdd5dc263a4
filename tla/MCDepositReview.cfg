SPECIFICATION Spec
CHECK_DEADLOCK FALSE
CONSTANTS
    Ingesters = {"i1"}
    Recheckers = {"r1"}
    Reviewers = {}
    Confirmations = 2
    ShallowReorgMisses = 2
    ConfirmEvidenceMisses = 2
    DeepReorgMisses = 2
    ReconcileFailureLimit = 2
    ReorgRecheckWindow = 3
    Sizes = {"reconciled"}
    AutoReverse = FALSE
    MaxBlock = 3
    MaxMoves = 1
    MaxWrong = 2
    MaxDown = 1
    MaxCrashes = 0
PROPERTY OnlyHumansLeaveReview
