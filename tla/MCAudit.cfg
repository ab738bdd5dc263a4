SPECIFICATION SuiteSpec
CONSTANTS
    Replicas = {"r1", "r2"}
    Parts = {"attest", "verify", "faulty", "damaged", "snapshots", "classes", "slices", "cursor",
             "suite", "settle", "jobs", "migrate", "operate", "merkle"}
    Journals = {1, 2}
    TxMode = {2}
    HasVerifier = TRUE
    BatchSize = 3
    CatchUpPage = 1
    MaxSeq = 3
    LastPost = 3
    MaxFaults = 1
    Processes = {"r1", "r2"}
    LockedJobs = {"j1", "j2"}
    PoolSize = 3
    MaxMishaps = 1
    NoReplica = "-"
INVARIANTS
    ChainSound VerdictsSound SnapshotReadSound GreenMeansClean ReportSound JobsSound
    MigrationsSound MerkleExact
CHECK_DEADLOCK FALSE
