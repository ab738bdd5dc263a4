SPECIFICATION LiveSpec
CONSTANTS
    k1 = k1
    r1 = r1
    e1 = e1
    e2 = e2
    NoWorker = NoWorker
    Events = {e1, e2}
    Parties = {s1, s2}
    Steady = {s1}
    Wants <- WantsAll
    MaxAttempts = 2
    Workers = {v1, v2}
    Local = FALSE
    EventBatch = 2
    MaxLate = 2
    MaxCrashes = 1
    MaxToggles = 1
PROPERTIES
    KeepsPromise EveryEventSettles WritersNotBlocked CatchesUp ExpiredLeave TransfersSettle
    AnchorCatchesUp JobsGoOn DriftReported DefaultDrains
CHECK_DEADLOCK FALSE
