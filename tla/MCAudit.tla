------------------------------- MODULE MCAudit -------------------------------
(* The audits, the maintenance jobs and the pure algorithms on small          *)
(* instances: attestation by two replicas, verification of the chain and the  *)
(* withdrawal gate beside it, snapshots, the sliced scan and the whole        *)
(* reconciliation suite, locked jobs, migrations; then Merkle trees of every  *)
(* small size.                                                                *)
EXTENDS Attestation, Worker, TLC

CONSTANT Parts      \* the parts a configuration checks

VARIABLES
    part, vRows, vCovered, vObjects, vObserved, ver, gate, damage, reads,
    snaps, today, clock, locks, job, rd, runs, posted, cp, cursor, run, spent, journals,
    conf, derived, side, hist, owner, admin, member, operated, db, others, proc, left,
    batch, other

Ve == INSTANCE LedgerVerify WITH
    Replicas <- {"r1"}, HasVerifier <- TRUE, BatchSize <- 3, CatchUpPage <- 1,
    ProbeLimit <- 2, SampleSize <- 1, rows <- vRows, covered <- vCovered, objects <- vObjects,
    observed <- vObserved,
    MaxSeq <- 2, LastPost <- 0, MaxDamage <- 1, Journals <- {1, 2}, TxMode <- {2}, MaxFaults <- 0, ChainPageSize <- 1, MaxReads <- 1
Vf == INSTANCE LedgerVerify WITH
    Replicas <- {"r1"}, HasVerifier <- TRUE, BatchSize <- 3, CatchUpPage <- 1,
    ProbeLimit <- 2, SampleSize <- 1, rows <- vRows, covered <- vCovered, objects <- vObjects,
    observed <- vObserved,
    MaxSeq <- 1, LastPost <- 0, MaxDamage <- 1, Journals <- {1}, TxMode <- {}, MaxFaults <- 1, ChainPageSize <- 2, MaxReads <- 1
Vd == INSTANCE LedgerVerify WITH
    Replicas <- {"r1"}, HasVerifier <- TRUE, BatchSize <- 3, CatchUpPage <- 1,
    ProbeLimit <- 2, SampleSize <- 1, rows <- vRows, covered <- vCovered, objects <- vObjects,
    observed <- vObserved,
    MaxSeq <- 1, LastPost <- 0, MaxDamage <- 2, Journals <- {1}, TxMode <- {}, MaxFaults <- 0, ChainPageSize <- 2, MaxReads <- 1
Sn == INSTANCE Snapshots WITH
    Replicas <- {"r1", "r2"}, Classes <- {"a"}, Amounts <- {1}, MaxDay <- 2, MaxEntries <- 2, MaxRuns <- 2
Sc == INSTANCE Snapshots WITH
    Replicas <- {"r1"}, Classes <- {"a", "b"}, Amounts <- {1}, MaxDay <- 1, MaxEntries <- 3, MaxRuns <- 1
Rs == INSTANCE ReconcileScan WITH
    NPairs <- 3, ScanLimit <- 2, MaxPosts <- 1, MaxDamage <- 1,
    Runs <- {"r1", "r2"}, PageSize <- 1, MaxFaults <- 0, MaxMoves <- 0
Rm == INSTANCE ReconcileScan WITH
    NPairs <- 3, ScanLimit <- 2, MaxPosts <- 1, MaxDamage <- 1,
    Runs <- {"r1"}, PageSize <- 2, MaxFaults <- 1, MaxMoves <- 1
Rc == INSTANCE Reconcile WITH
    MaxJournals <- 2, MaxTime <- 2, MaxDefects <- 1, MaxFaults <- 1, Window <- 0, PageLimit <- 1, HasVerifier <- TRUE,
    Kinds <- {"deposit", "withdraw"}, Auths <- {"good"}, MaxOps <- 3
Rt == INSTANCE Reconcile WITH
    MaxJournals <- 2, MaxTime <- 2, MaxDefects <- 1, MaxFaults <- 1, Window <- 0, PageLimit <- 1, HasVerifier <- TRUE,
    Kinds <- {"settle", "clear"}, Auths <- {"good", "none"}, MaxOps <- 2
Mg == INSTANCE Migrate WITH
    Runs <- {"p1", "p2"}, DbOf <- [p1 |-> "d1", p2 |-> "d2"], CredOf <- [p1 |-> "c", p2 |-> "c"],
    Super <- {}, Last <- 2, Budget <- 1, MaxFaults <- 1, MaxJoins <- 2
Mo == INSTANCE Migrate WITH
    Runs <- {"p1", "p2"}, DbOf <- [p1 |-> "d1", p2 |-> "d2"], CredOf <- [p1 |-> "c1", p2 |-> "c2"],
    Super <- {}, Last <- 1, Budget <- 0, MaxFaults <- 1, MaxJoins <- 2
Mk == INSTANCE MerkleInputs WITH
    MaxLeaves <- 6

suiteVars == <<part, entries, rows, covered, objects, observed, att, faults, vRows,
          vCovered, vObjects, vObserved, ver, gate, damage, reads, snaps, today, clock,
          locks, job, rd, runs, posted, cp, cursor, run, spent, journals, conf, derived,
          side, hist, phase, report, local, early, subs, lock, tick, lost, emitted,
          mishaps, owner, admin, member, operated, db, others, proc, left, batch, other>>

\* A behaviour is about one part; the variables of the others are out of use.
SuiteInit ==
    /\ part \in Parts
    /\ \/ /\ part = "attest" /\ AttInit
          /\ vRows = 0 /\ vCovered = 0 /\ vObjects = 0 /\ vObserved = 0 /\ ver = 0
          /\ gate = 0 /\ damage = 0 /\ reads = 0 /\ snaps = 0 /\ today = 0 /\ clock = 0
          /\ locks = 0 /\ job = 0 /\ rd = 0 /\ runs = 0 /\ posted = 0 /\ cp = 0
          /\ cursor = 0 /\ run = 0 /\ spent = 0 /\ journals = 0 /\ conf = 0
          /\ derived = 0 /\ side = 0 /\ hist = 0 /\ phase = 0 /\ report = 0 /\ local = 0
          /\ early = [p \in Processes |-> FALSE] /\ subs = 0 /\ lock = 0
          /\ tick = [t \in Ticks |-> "idle"] /\ lost = 0
          /\ emitted = [t \in Ticks |-> 0] /\ mishaps = 0 /\ owner = 0 /\ admin = 0
          /\ member = 0 /\ operated = 0 /\ db = 0 /\ others = 0 /\ proc = 0 /\ left = 0
          /\ batch = 0 /\ other = 0
       \/ /\ \/ part = "verify" /\ Ve!Init
             \/ part = "faulty" /\ Vf!Init
             \/ part = "damaged" /\ Vd!Init
          /\ rows = <<>> /\ covered = <<>> /\ objects = <<>> /\ observed = 0
          /\ snaps = 0 /\ today = 0 /\ clock = 0 /\ locks = 0 /\ job = 0 /\ rd = 0
          /\ runs = 0 /\ posted = 0 /\ cp = 0 /\ cursor = 0 /\ run = 0 /\ spent = 0
          /\ journals = 0 /\ conf = 0 /\ derived = 0 /\ side = 0 /\ hist = 0
          /\ phase = 0 /\ report = 0 /\ local = 0 /\ early = [p \in Processes |-> FALSE]
          /\ subs = 0 /\ lock = 0 /\ tick = [t \in Ticks |-> "idle"] /\ lost = 0
          /\ emitted = [t \in Ticks |-> 0] /\ mishaps = 0 /\ owner = 0 /\ admin = 0
          /\ member = 0 /\ operated = 0 /\ db = 0 /\ others = 0 /\ proc = 0 /\ left = 0
          /\ batch = 0 /\ other = 0
       \/ /\ \/ part = "snapshots" /\ Sn!SnapInit
             \/ part = "classes" /\ Sc!SnapInit
          /\ rows = <<>> /\ covered = <<>> /\ objects = <<>> /\ observed = 0 /\ att = 0
          /\ faults = 0 /\ vRows = 0 /\ vCovered = 0 /\ vObjects = 0 /\ vObserved = 0
          /\ ver = 0 /\ gate = 0 /\ damage = 0 /\ reads = 0 /\ posted = 0 /\ cp = 0
          /\ cursor = 0 /\ run = 0 /\ spent = 0 /\ journals = 0 /\ conf = 0
          /\ derived = 0 /\ side = 0 /\ hist = 0 /\ phase = 0 /\ report = 0 /\ local = 0
          /\ early = [p \in Processes |-> FALSE] /\ subs = 0 /\ lock = 0
          /\ tick = [t \in Ticks |-> "idle"] /\ lost = 0
          /\ emitted = [t \in Ticks |-> 0] /\ mishaps = 0 /\ owner = 0 /\ admin = 0
          /\ member = 0 /\ operated = 0 /\ db = 0 /\ others = 0 /\ proc = 0 /\ left = 0
          /\ batch = 0 /\ other = 0
       \/ /\ \/ part = "slices" /\ Rs!ScanInit
             \/ part = "cursor" /\ Rm!ScanInit
          /\ entries = 0 /\ rows = <<>> /\ covered = <<>> /\ objects = <<>>
          /\ observed = 0 /\ att = 0 /\ faults = 0 /\ vRows = 0 /\ vCovered = 0
          /\ vObjects = 0 /\ vObserved = 0 /\ ver = 0 /\ gate = 0 /\ damage = 0
          /\ reads = 0 /\ snaps = 0 /\ today = 0 /\ clock = 0 /\ locks = 0 /\ job = 0
          /\ rd = 0 /\ runs = 0 /\ journals = 0 /\ conf = 0 /\ derived = 0 /\ side = 0
          /\ hist = 0 /\ phase = 0 /\ report = 0 /\ local = 0
          /\ early = [p \in Processes |-> FALSE] /\ subs = 0 /\ lock = 0
          /\ tick = [t \in Ticks |-> "idle"] /\ lost = 0
          /\ emitted = [t \in Ticks |-> 0] /\ mishaps = 0 /\ owner = 0 /\ admin = 0
          /\ member = 0 /\ operated = 0 /\ db = 0 /\ others = 0 /\ proc = 0 /\ left = 0
          /\ batch = 0 /\ other = 0
       \/ /\ \/ part = "suite" /\ Rc!RecInit
             \/ part = "settle" /\ Rt!RecInit
          /\ rows = <<>> /\ covered = <<>> /\ objects = <<>> /\ observed = 0 /\ att = 0
          /\ faults = 0 /\ vRows = 0 /\ vCovered = 0 /\ vObjects = 0 /\ vObserved = 0
          /\ ver = 0 /\ gate = 0 /\ damage = 0 /\ reads = 0 /\ snaps = 0 /\ today = 0
          /\ clock = 0 /\ locks = 0 /\ job = 0 /\ rd = 0 /\ runs = 0 /\ posted = 0
          /\ cp = 0 /\ cursor = 0 /\ phase = 0 /\ report = 0 /\ local = 0
          /\ early = [p \in Processes |-> FALSE] /\ subs = 0 /\ lock = 0
          /\ tick = [t \in Ticks |-> "idle"] /\ lost = 0
          /\ emitted = [t \in Ticks |-> 0] /\ mishaps = 0 /\ owner = 0 /\ admin = 0
          /\ member = 0 /\ operated = 0 /\ db = 0 /\ others = 0 /\ proc = 0 /\ left = 0
          /\ batch = 0 /\ other = 0
       \/ /\ part = "jobs" /\ WorkerInit
          /\ entries = 0 /\ rows = <<>> /\ covered = <<>> /\ objects = <<>>
          /\ observed = 0 /\ att = 0 /\ faults = 0 /\ vRows = 0 /\ vCovered = 0
          /\ vObjects = 0 /\ vObserved = 0 /\ ver = 0 /\ gate = 0 /\ damage = 0
          /\ reads = 0 /\ snaps = 0 /\ today = 0 /\ clock = 0 /\ locks = 0 /\ job = 0
          /\ rd = 0 /\ runs = 0 /\ posted = 0 /\ cp = 0 /\ cursor = 0 /\ run = 0
          /\ spent = 0 /\ journals = 0 /\ conf = 0 /\ derived = 0 /\ side = 0
          /\ hist = 0 /\ owner = 0 /\ admin = 0 /\ member = 0 /\ operated = 0 /\ db = 0
          /\ others = 0 /\ proc = 0 /\ left = 0 /\ batch = 0 /\ other = 0
       \/ /\ \/ part = "migrate" /\ Mg!MigInit
             \/ part = "operate" /\ Mo!MigInit
          /\ entries = 0 /\ rows = <<>> /\ covered = <<>> /\ objects = <<>>
          /\ observed = 0 /\ att = 0 /\ faults = 0 /\ vRows = 0 /\ vCovered = 0
          /\ vObjects = 0 /\ vObserved = 0 /\ ver = 0 /\ gate = 0 /\ damage = 0
          /\ reads = 0 /\ snaps = 0 /\ today = 0 /\ clock = 0 /\ locks = 0 /\ job = 0
          /\ rd = 0 /\ runs = 0 /\ posted = 0 /\ cp = 0 /\ cursor = 0 /\ run = 0
          /\ journals = 0 /\ conf = 0 /\ derived = 0 /\ side = 0 /\ hist = 0
          /\ phase = 0 /\ report = 0 /\ local = 0 /\ early = [p \in Processes |-> FALSE]
          /\ subs = 0 /\ tick = [t \in Ticks |-> "idle"] /\ lost = 0
          /\ emitted = [t \in Ticks |-> 0] /\ mishaps = 0 /\ batch = 0 /\ other = 0
       \/ /\ part = "merkle" /\ Mk!Init
          /\ entries = 0 /\ rows = <<>> /\ covered = <<>> /\ objects = <<>>
          /\ observed = 0 /\ att = 0 /\ faults = 0 /\ vRows = 0 /\ vCovered = 0
          /\ vObjects = 0 /\ vObserved = 0 /\ ver = 0 /\ gate = 0 /\ damage = 0
          /\ reads = 0 /\ snaps = 0 /\ today = 0 /\ clock = 0 /\ locks = 0 /\ job = 0
          /\ rd = 0 /\ runs = 0 /\ posted = 0 /\ cp = 0 /\ cursor = 0 /\ run = 0
          /\ spent = 0 /\ journals = 0 /\ conf = 0 /\ derived = 0 /\ side = 0
          /\ hist = 0 /\ phase = 0 /\ report = 0 /\ local = 0
          /\ early = [p \in Processes |-> FALSE] /\ subs = 0 /\ lock = 0
          /\ tick = [t \in Ticks |-> "idle"] /\ lost = 0
          /\ emitted = [t \in Ticks |-> 0] /\ mishaps = 0 /\ owner = 0 /\ admin = 0
          /\ member = 0 /\ operated = 0 /\ db = 0 /\ others = 0 /\ proc = 0 /\ left = 0

SuiteNext ==
    /\ UNCHANGED part
    /\ \/ /\ part = "attest" /\ AttNext
          /\ UNCHANGED <<vRows, vCovered, vObjects, vObserved, ver, gate, damage, reads,
                         snaps, today, clock, locks, job, rd, runs, posted, cp, cursor,
                         run, spent, journals, conf, derived, side, hist, phase, report,
                         local, early, subs, lock, tick, lost, emitted, mishaps, owner,
                         admin, member, operated, db, others, proc, left, batch, other>>
       \/ /\ \/ part = "verify" /\ Ve!Next
             \/ part = "faulty" /\ Vf!Next
             \/ part = "damaged" /\ Vd!Next
          /\ UNCHANGED <<rows, covered, objects, observed, snaps, today, clock, locks,
                         job, rd, runs, posted, cp, cursor, run, spent, journals, conf,
                         derived, side, hist, phase, report, local, early, subs, lock,
                         tick, lost, emitted, mishaps, owner, admin, member, operated,
                         db, others, proc, left, batch, other>>
       \/ /\ \/ part = "snapshots" /\ Sn!SnapNext
             \/ part = "classes" /\ Sc!SnapNext
          /\ UNCHANGED <<rows, covered, objects, observed, att, faults, vRows, vCovered,
                         vObjects, vObserved, ver, gate, damage, reads, posted, cp,
                         cursor, run, spent, journals, conf, derived, side, hist, phase,
                         report, local, early, subs, lock, tick, lost, emitted, mishaps,
                         owner, admin, member, operated, db, others, proc, left, batch,
                         other>>
       \/ /\ \/ part = "slices" /\ Rs!ScanNext
             \/ part = "cursor" /\ Rm!ScanNext
          /\ UNCHANGED <<entries, rows, covered, objects, observed, att, faults, vRows,
                         vCovered, vObjects, vObserved, ver, gate, damage, reads, snaps,
                         today, clock, locks, job, rd, runs, journals, conf, derived,
                         side, hist, phase, report, local, early, subs, lock, tick,
                         lost, emitted, mishaps, owner, admin, member, operated, db,
                         others, proc, left, batch, other>>
       \/ /\ \/ part = "suite" /\ Rc!RecNext
             \/ part = "settle" /\ Rt!RecNext
          /\ UNCHANGED <<rows, covered, objects, observed, att, faults, vRows, vCovered,
                         vObjects, vObserved, ver, gate, damage, reads, snaps, today,
                         clock, locks, job, rd, runs, posted, cp, cursor, phase, report,
                         local, early, subs, lock, tick, lost, emitted, mishaps, owner,
                         admin, member, operated, db, others, proc, left, batch, other>>
       \/ /\ part = "jobs" /\ WorkerNext
          /\ UNCHANGED <<entries, rows, covered, objects, observed, att, faults, vRows,
                         vCovered, vObjects, vObserved, ver, gate, damage, reads, snaps,
                         today, clock, locks, job, rd, runs, posted, cp, cursor, run,
                         spent, journals, conf, derived, side, hist, owner, admin,
                         member, operated, db, others, proc, left, batch, other>>
       \/ /\ \/ part = "migrate" /\ Mg!MigNext
             \/ part = "operate" /\ Mo!MigNext
          /\ UNCHANGED <<entries, rows, covered, objects, observed, att, faults, vRows,
                         vCovered, vObjects, vObserved, ver, gate, damage, reads, snaps,
                         today, clock, locks, job, rd, runs, posted, cp, cursor, run,
                         journals, conf, derived, side, hist, phase, report, local,
                         early, subs, tick, lost, emitted, mishaps, batch, other>>
       \/ /\ part = "merkle" /\ Mk!Next
          /\ UNCHANGED <<entries, rows, covered, objects, observed, att, faults, vRows,
                         vCovered, vObjects, vObserved, ver, gate, damage, reads, snaps,
                         today, clock, locks, job, rd, runs, posted, cp, cursor, run,
                         spent, journals, conf, derived, side, hist, phase, report,
                         local, early, subs, lock, tick, lost, emitted, mishaps, owner,
                         admin, member, operated, db, others, proc, left>>

SuiteSpec == SuiteInit /\ [][SuiteNext]_suiteVars
-----------------------------------------------------------------------------
\* VerifyLedger and the withdrawal gate miss no damage, raise no alarm without one, and
\* name the entries that were edited.
VerdictsSound ==
    /\ part = "verify" => Ve!VerdictsSound
    /\ part = "faulty" => Vf!VerdictsSound
    /\ part = "damaged" => Vd!VerdictsSound

\* A snapshot read back is the balance of its day, but for entries that were begun before
\* its first row and committed after it was listed.
SnapshotReadSound ==
    (part = "snapshots" => Sn!SnapshotReadSound) /\ (part = "classes" => Sc!SnapshotReadSound)

\* What docs/INVARIANTS.md:839 says of such a read: it is right, without exception.
SnapshotReadsCorrect == part = "snapshots" => Sn!SnapshotReadsCorrect

\* What postgres/verified_balance_store.go:185 says of the withdrawal gate: each journal in
\* the balance has just been checked.
GateChecksAll == part = "verify" => Ve!GateChecksAll

\* RunFullReconciliation: passed and complete clear every checkpoint that had drifted when
\* the lap of its scan began.
GreenMeansClean == (part = "slices" => Rs!GreenMeansClean) /\ (part = "cursor" => Rm!GreenMeansClean)

\* RunFullReconciliation accounts for every defect, and fails a check for nothing else.
ReportSound == (part = "suite" => Rc!ReportSound) /\ (part = "settle" => Rt!ReportSound)

\* Migrate: no membership in ledger_owner outlives its run silently, and a database is left
\* dirty for want of authority only where an operator had granted the credential something.
MigrationsSound ==
    /\ part = "migrate" => Mg!MigrationsSound
    /\ part = "operate" => Mo!MigrationsSound

\* Migrate: no run dies inside 001 for want of authority.
NeverDirtyForAuthority ==
    /\ part = "migrate" => Mg!NeverDirtyForAuthority
    /\ part = "operate" => Mo!NeverDirtyForAuthority

\* VerifyInclusion and LocateMismatches agree with their reference definitions.
MerkleExact == part = "merkle" => Mk!MerkleExact
=============================================================================
