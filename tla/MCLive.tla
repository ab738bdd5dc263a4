------------------------------- MODULE MCLive --------------------------------
(* What must happen in the end, each part under the fairness of its own loops: *)
(* timers fire again, calls under way go on, blocks are mined.  Instances are  *)
(* as small as a race of the loop with one other actor and one fault allow.    *)
EXTENDS Delivery, TLC

CONSTANTS k1, r1,     \* an idempotency key, the name of a reservation
          e1, e2      \* events

\* A journal of one entry and its date.
Dated(k, d) == [key |-> k, eff |-> d, legs |-> <<[pair |-> 1, cls |-> "main"]>>]

\* One event is for everybody, the other for the receiver that is always there.
WantsAll == [e \in Events |-> IF e = e1 THEN Parties ELSE Steady]

VARIABLES
    part, req, at, got, txJ, txE, idemLock, balLock, readers, closing, closes,
    journals, entries, seq, answers, calls, cpc, row, clock, closeSeq, lastLine,
    booking, events, receipts, list, rowLock, call, pend, faults, queue, cp, wpc, item,
    val, opc, target, reading, bal, resv, claims, mem, result, tip, blk, reorgs, cursor,
    registered, jobs, bookings, dead, fixed, watch, failures, rescan, lost, deep, moved,
    wrong, down, size, depositStatus, ref, block, journal, reversed, anomalies, th,
    misses, recon, txs, mined, pool, market, moves, drops, deaths, lock, job, sweepTx,
    sweepBump, sweepClock, lastFee, rows, covered, objects, observed, att, phase,
    report, local, early, subs, tick, emitted, mishaps, posted, run, spent, now, parts,
    home, month

InProcess == INSTANCE Delivery WITH
    Local <- TRUE
Pc == INSTANCE PeriodClose WITH
    Clients <- {"c1", "c2"}, NoClient <- "-", Closers <- {"o1"}, Others <- {}, NPairs <- 1, NKeys <- 2,
    Classes <- {"main"}, MaxEff <- 1, MaxCalls <- 2, MaxCloses <- 2,
    Requests <- {<<"post", <<Dated(1, 1)>>>>, <<"batch", <<Dated(1, 1), Dated(2, 0)>>>>}
Bk == INSTANCE Booking WITH
    NoClient <- "-", Clients <- {"c1", "s1"}, Sweepers <- {"s1"}, Bookings <- {"b1", "b2"}, TKeys <- {k1},
    JKeys <- {"j1"}, Amounts <- {1}, Initial <- "pending", Ops <- {"create", "transition"}, MaxCalls <- 3,
    Edges <- {<<"pending", "confirming">>, <<"pending", "expired">>, <<"confirming", "confirmed">>},
    MaxFaults <- 1
Ru == INSTANCE Rollup WITH
    Clients <- {"c1"}, NoClient <- "-", Others <- {}, NPairs <- 1, NKeys <- 2, Classes <- {"main"},
    MaxEff <- 0, MaxCalls <- 2, Workers <- {"w1", "w2"}, NoWorker <- "-", Readers <- {}, MaxFails <- 1,
    MaxFaults <- 1, Requests <- {<<"post", <<[key |-> k, eff |-> 0, legs |-> <<[pair |-> 1, cls |-> "main"]>>]>>>> : k \in {1, 2}}
Rv == INSTANCE Reserver WITH
    NoClient <- "-", Clients <- {"c1", "w1"}, Sweepers <- {"w1"}, Names <- {r1}, OpKeys <- {k1},
    Amounts <- {1, 2}, TTLs <- {1}, Opening <- 2, Signing <- FALSE, Ops <- {"reserve", "partial", "release"},
    MaxTime <- 2, MaxCalls <- 3, MaxFaults <- 1
Sc == INSTANCE DepositScan WITH
    Txs <- {"x"}, Logs <- [x |-> <<"a">>], Addresses <- {"a"}, Unbookable <- {<<"x", 0>>},
    Watchers <- {"w1"}, Rescanners <- {"r1"}, Confirmations <- 2, MaxBlocksPerScan <- 4,
    RescanLookback <- 4, ScanStartBlock <- 0, WatcherStallAlertAfter <- 1, MaxBlock <- 4, MaxReorgs <- 1,
    MaxLag <- 1, MaxFaults <- 0, MaxLost <- 0
Dp == INSTANCE Deposit WITH
    Ingesters <- {"i1"}, Recheckers <- {"r1"}, Reviewers <- {}, Confirmations <- 2,
    ShallowReorgMisses <- 2, ConfirmEvidenceMisses <- 2, DeepReorgMisses <- 2, ReconcileFailureLimit <- 2,
    status <- depositStatus, ReorgRecheckWindow <- 3, Sizes <- {"reconciled"}, AutoReverse <- TRUE, MaxBlock <- 4,
    MaxMoves <- 1, MaxWrong <- 0, MaxDown <- 2, MaxCrashes <- 1
Sw == INSTANCE Sweep WITH
    Tokens <- {"usdt"}, Replicas <- {"r1"}, GasCeiling <- 5, MaxSweepBumps <- 2, MaxNonce <- 2,
    MaxTx <- 6, MaxMarket <- 2, MaxMarketMoves <- 1, MaxDeaths <- 0, MaxDrops <- 1, MaxLate <- 0
At == INSTANCE Attestation WITH
    Replicas <- {"r1"}, Journals <- {1, 2}, TxMode <- {2}, HasVerifier <- TRUE, BatchSize <- 3,
    CatchUpPage <- 1, MaxSeq <- 4, LastPost <- 1, MaxFaults <- 2
Wk == INSTANCE Worker WITH
    Processes <- {"r1", "r2"}, LockedJobs <- {"j1"}, PoolSize <- 2, MaxMishaps <- 1, NoReplica <- "-"
Wp == INSTANCE Worker WITH
    Processes <- {"r1"}, LockedJobs <- {"j1", "j2"}, PoolSize <- 3, MaxMishaps <- 2, NoReplica <- "-"
Rs == INSTANCE ReconcileScan WITH
    NPairs <- 3, Runs <- {"r1"}, ScanLimit <- 2, PageSize <- 1, MaxPosts <- 1, MaxDamage <- 1,
    MaxFaults <- 1, MaxMoves <- 0
Pt == INSTANCE Partitions WITH
    MaxMonth <- 3, MonthsAhead <- 1, MaxRows <- 2, MaxFaults <- 1

liveVars == <<part, status, attempts, due, owner, active, accepted, batch, listed, cur,
          left, ok, pc, late, crashes, toggles, req, at, got, txJ, txE, idemLock,
          balLock, readers, closing, closes, journals, entries, seq, answers, calls,
          cpc, row, clock, closeSeq, lastLine, booking, events, receipts, list, rowLock,
          call, pend, faults, queue, cp, wpc, item, val, opc, target, reading, bal,
          resv, claims, mem, result, tip, blk, reorgs, cursor, registered, jobs,
          bookings, dead, fixed, watch, failures, rescan, lost, deep, moved, wrong,
          down, size, depositStatus, ref, block, journal, reversed, anomalies, th,
          misses, recon, txs, mined, pool, market, moves, drops, deaths, lock, job,
          sweepTx, sweepBump, sweepClock, lastFee, rows, covered, objects, observed,
          att, phase, report, local, early, subs, tick, emitted, mishaps, posted, run,
          spent, now, parts, home, month>>

\* A behaviour is about one part; the variables of the others are out of use.
LiveInit ==
    \/ /\ \/ part = "pair" /\ Init
          \/ part = "changes" /\ Init
          \/ part = "handlers" /\ InProcess!Init
       /\ req = 0 /\ at = 0 /\ got = 0 /\ txJ = 0 /\ txE = 0 /\ idemLock = 0
       /\ balLock = 0 /\ readers = 0 /\ closing = 0 /\ closes = 0 /\ journals = 0
       /\ entries = 0 /\ seq = 0 /\ answers = 0 /\ calls = 0 /\ cpc = 0 /\ row = 0
       /\ clock = 0 /\ closeSeq = 0 /\ lastLine = 0 /\ booking = 0 /\ events = 0
       /\ receipts = 0 /\ list = 0 /\ rowLock = 0 /\ call = 0 /\ pend = 0 /\ faults = 0
       /\ queue = 0 /\ cp = 0 /\ wpc = 0 /\ item = 0 /\ val = 0 /\ opc = 0 /\ target = 0
       /\ reading = 0 /\ bal = 0 /\ resv = 0 /\ claims = 0 /\ mem = 0 /\ result = 0
       /\ tip = 0 /\ blk = 0 /\ reorgs = 0 /\ cursor = 0 /\ registered = 0 /\ jobs = 0
       /\ bookings = 0 /\ dead = 0 /\ fixed = 0 /\ watch = 0 /\ failures = 0
       /\ rescan = 0 /\ lost = 0 /\ deep = 0 /\ moved = 0 /\ wrong = 0 /\ down = 0
       /\ size = 0 /\ depositStatus = 0 /\ ref = 0 /\ block = 0 /\ journal = 0
       /\ reversed = 0 /\ anomalies = 0 /\ th = 0 /\ misses = 0 /\ recon = 0 /\ txs = 0
       /\ mined = 0 /\ pool = 0 /\ market = 0 /\ moves = 0 /\ drops = 0 /\ deaths = 0
       /\ lock = 0 /\ job = 0 /\ sweepTx = 0 /\ sweepBump = 0 /\ sweepClock = 0
       /\ lastFee = 0 /\ rows = 0 /\ covered = 0 /\ objects = 0 /\ observed = 0
       /\ att = 0 /\ phase = 0 /\ report = 0 /\ local = 0 /\ early = 0 /\ subs = 0
       /\ tick = 0 /\ emitted = 0 /\ mishaps = 0 /\ posted = 0 /\ run = 0 /\ spent = 0
       /\ now = 0 /\ parts = 0 /\ home = 0 /\ month = 0
    \/ /\ part = "period" /\ Pc!PeriodInit
       /\ status = [e \in Events |-> "none"] /\ attempts = [e \in Events |-> 0]
       /\ due = 0 /\ owner = 0 /\ active = 0 /\ accepted = [e \in Events |-> {}]
       /\ batch = 0 /\ listed = 0 /\ cur = 0 /\ left = 0 /\ ok = 0 /\ late = 0
       /\ crashes = 0 /\ toggles = 0 /\ booking = 0 /\ events = 0 /\ receipts = 0
       /\ list = 0 /\ rowLock = 0 /\ call = 0 /\ pend = 0 /\ faults = 0 /\ queue = 0
       /\ cp = 0 /\ wpc = 0 /\ item = 0 /\ val = 0 /\ opc = 0 /\ target = 0
       /\ reading = 0 /\ bal = 0 /\ resv = 0 /\ claims = 0 /\ mem = 0 /\ result = 0
       /\ tip = 0 /\ blk = 0 /\ reorgs = 0 /\ cursor = 0 /\ registered = 0 /\ jobs = 0
       /\ bookings = 0 /\ dead = 0 /\ fixed = 0 /\ watch = 0 /\ failures = 0
       /\ rescan = 0 /\ lost = 0 /\ deep = 0 /\ moved = 0 /\ wrong = 0 /\ down = 0
       /\ size = 0 /\ depositStatus = 0 /\ ref = 0 /\ block = 0 /\ journal = 0
       /\ reversed = 0 /\ anomalies = 0 /\ th = 0 /\ misses = 0 /\ recon = 0 /\ txs = 0
       /\ mined = 0 /\ pool = 0 /\ market = 0 /\ moves = 0 /\ drops = 0 /\ deaths = 0
       /\ lock = 0 /\ job = 0 /\ sweepTx = 0 /\ sweepBump = 0 /\ sweepClock = 0
       /\ lastFee = 0 /\ rows = 0 /\ covered = 0 /\ objects = 0 /\ observed = 0
       /\ att = 0 /\ phase = 0 /\ report = 0 /\ local = 0 /\ early = 0 /\ subs = 0
       /\ tick = 0 /\ emitted = 0 /\ mishaps = 0 /\ posted = 0 /\ run = 0 /\ spent = 0
       /\ now = 0 /\ parts = 0 /\ home = 0 /\ month = 0
    \/ /\ part = "booking" /\ Bk!Init
       /\ status = [e \in Events |-> "none"] /\ attempts = [e \in Events |-> 0]
       /\ owner = 0 /\ active = 0 /\ accepted = [e \in Events |-> {}] /\ batch = 0
       /\ listed = 0 /\ cur = 0 /\ left = 0 /\ ok = 0 /\ late = 0 /\ crashes = 0
       /\ toggles = 0 /\ req = 0 /\ at = 0 /\ got = 0 /\ txJ = 0 /\ txE = 0
       /\ readers = 0 /\ closing = 0 /\ closes = 0 /\ entries = 0 /\ cpc = 0 /\ row = 0
       /\ clock = 0 /\ closeSeq = 0 /\ lastLine = 0 /\ queue = 0 /\ cp = 0 /\ wpc = 0
       /\ item = 0 /\ val = 0 /\ opc = 0 /\ target = 0 /\ reading = 0 /\ bal = 0
       /\ resv = 0 /\ claims = 0 /\ mem = 0 /\ result = 0 /\ tip = 0 /\ blk = 0
       /\ reorgs = 0 /\ cursor = 0 /\ registered = 0 /\ jobs = 0 /\ bookings = 0
       /\ dead = 0 /\ fixed = 0 /\ watch = 0 /\ failures = 0 /\ rescan = 0 /\ lost = 0
       /\ deep = 0 /\ moved = 0 /\ wrong = 0 /\ down = 0 /\ size = 0
       /\ depositStatus = 0 /\ ref = 0 /\ block = 0 /\ journal = 0 /\ reversed = 0
       /\ anomalies = 0 /\ th = 0 /\ misses = 0 /\ recon = 0 /\ txs = 0 /\ mined = 0
       /\ pool = 0 /\ market = 0 /\ moves = 0 /\ drops = 0 /\ deaths = 0 /\ lock = 0
       /\ job = 0 /\ sweepTx = 0 /\ sweepBump = 0 /\ sweepClock = 0 /\ lastFee = 0
       /\ rows = 0 /\ covered = 0 /\ objects = 0 /\ observed = 0 /\ att = 0 /\ phase = 0
       /\ report = 0 /\ local = 0 /\ early = 0 /\ subs = 0 /\ tick = 0 /\ emitted = 0
       /\ mishaps = 0 /\ posted = 0 /\ run = 0 /\ spent = 0 /\ now = 0 /\ parts = 0
       /\ home = 0 /\ month = 0
    \/ /\ part = "rollup" /\ Ru!RollupInit
       /\ status = [e \in Events |-> "none"] /\ attempts = [e \in Events |-> 0]
       /\ due = 0 /\ owner = 0 /\ active = 0 /\ accepted = [e \in Events |-> {}]
       /\ listed = 0 /\ cur = 0 /\ left = 0 /\ ok = 0 /\ late = 0 /\ crashes = 0
       /\ toggles = 0 /\ cpc = 0 /\ row = 0 /\ clock = 0 /\ closeSeq = 0 /\ lastLine = 0
       /\ booking = 0 /\ events = 0 /\ receipts = 0 /\ list = 0 /\ rowLock = 0
       /\ call = 0 /\ pend = 0 /\ bal = 0 /\ resv = 0 /\ claims = 0 /\ mem = 0
       /\ result = 0 /\ tip = 0 /\ blk = 0 /\ reorgs = 0 /\ cursor = 0 /\ registered = 0
       /\ jobs = 0 /\ bookings = 0 /\ dead = 0 /\ fixed = 0 /\ watch = 0 /\ failures = 0
       /\ rescan = 0 /\ lost = 0 /\ deep = 0 /\ moved = 0 /\ wrong = 0 /\ down = 0
       /\ size = 0 /\ depositStatus = 0 /\ ref = 0 /\ block = 0 /\ journal = 0
       /\ reversed = 0 /\ anomalies = 0 /\ th = 0 /\ misses = 0 /\ recon = 0 /\ txs = 0
       /\ mined = 0 /\ pool = 0 /\ market = 0 /\ moves = 0 /\ drops = 0 /\ deaths = 0
       /\ lock = 0 /\ job = 0 /\ sweepTx = 0 /\ sweepBump = 0 /\ sweepClock = 0
       /\ lastFee = 0 /\ rows = 0 /\ covered = 0 /\ objects = 0 /\ observed = 0
       /\ att = 0 /\ phase = 0 /\ report = 0 /\ local = 0 /\ early = 0 /\ subs = 0
       /\ tick = 0 /\ emitted = 0 /\ mishaps = 0 /\ posted = 0 /\ run = 0 /\ spent = 0
       /\ now = 0 /\ parts = 0 /\ home = 0 /\ month = 0
    \/ /\ part = "reserve" /\ Rv!ReserverInit
       /\ status = [e \in Events |-> "none"] /\ attempts = [e \in Events |-> 0]
       /\ due = 0 /\ owner = 0 /\ active = 0 /\ accepted = [e \in Events |-> {}]
       /\ batch = 0 /\ listed = 0 /\ cur = 0 /\ left = 0 /\ ok = 0 /\ late = 0
       /\ crashes = 0 /\ toggles = 0 /\ req = 0 /\ at = 0 /\ got = 0 /\ txJ = 0
       /\ txE = 0 /\ readers = 0 /\ closing = 0 /\ closes = 0 /\ journals = 0
       /\ entries = 0 /\ seq = 0 /\ answers = 0 /\ cpc = 0 /\ row = 0 /\ closeSeq = 0
       /\ lastLine = 0 /\ booking = 0 /\ events = 0 /\ receipts = 0 /\ list = 0
       /\ queue = 0 /\ cp = 0 /\ wpc = 0 /\ item = 0 /\ val = 0 /\ opc = 0 /\ target = 0
       /\ reading = 0 /\ tip = 0 /\ blk = 0 /\ reorgs = 0 /\ cursor = 0
       /\ registered = 0 /\ jobs = 0 /\ bookings = 0 /\ dead = 0 /\ fixed = 0
       /\ watch = 0 /\ failures = 0 /\ rescan = 0 /\ lost = 0 /\ deep = 0 /\ moved = 0
       /\ wrong = 0 /\ down = 0 /\ size = 0 /\ depositStatus = 0 /\ ref = 0 /\ block = 0
       /\ journal = 0 /\ reversed = 0 /\ anomalies = 0 /\ th = 0 /\ misses = 0
       /\ recon = 0 /\ txs = 0 /\ mined = 0 /\ pool = 0 /\ market = 0 /\ moves = 0
       /\ drops = 0 /\ deaths = 0 /\ lock = 0 /\ job = 0 /\ sweepTx = 0 /\ sweepBump = 0
       /\ sweepClock = 0 /\ lastFee = 0 /\ rows = 0 /\ covered = 0 /\ objects = 0
       /\ observed = 0 /\ att = 0 /\ phase = 0 /\ report = 0 /\ local = 0 /\ early = 0
       /\ subs = 0 /\ tick = 0 /\ emitted = 0 /\ mishaps = 0 /\ posted = 0 /\ run = 0
       /\ spent = 0 /\ now = 0 /\ parts = 0 /\ home = 0 /\ month = 0
    \/ /\ part = "scan" /\ Sc!Init
       /\ status = [e \in Events |-> "none"] /\ attempts = [e \in Events |-> 0]
       /\ due = 0 /\ owner = 0 /\ active = 0 /\ accepted = [e \in Events |-> {}]
       /\ batch = 0 /\ listed = 0 /\ cur = 0 /\ left = 0 /\ ok = 0 /\ pc = 0 /\ late = 0
       /\ crashes = 0 /\ toggles = 0 /\ req = 0 /\ at = 0 /\ got = 0 /\ txJ = 0
       /\ txE = 0 /\ idemLock = 0 /\ balLock = 0 /\ readers = 0 /\ closing = 0
       /\ closes = 0 /\ journals = 0 /\ entries = 0 /\ seq = 0 /\ answers = 0
       /\ calls = 0 /\ cpc = 0 /\ row = 0 /\ clock = 0 /\ closeSeq = 0 /\ lastLine = 0
       /\ booking = 0 /\ events = 0 /\ receipts = 0 /\ list = 0 /\ rowLock = 0
       /\ call = 0 /\ pend = 0 /\ queue = 0 /\ cp = 0 /\ wpc = 0 /\ item = 0 /\ val = 0
       /\ opc = 0 /\ target = 0 /\ reading = 0 /\ bal = 0 /\ resv = 0 /\ claims = 0
       /\ mem = 0 /\ result = 0 /\ deep = 0 /\ moved = 0 /\ wrong = 0 /\ down = 0
       /\ size = 0 /\ depositStatus = 0 /\ ref = 0 /\ block = 0 /\ journal = 0
       /\ reversed = 0 /\ anomalies = 0 /\ th = 0 /\ misses = 0 /\ recon = 0 /\ txs = 0
       /\ mined = 0 /\ pool = 0 /\ market = 0 /\ moves = 0 /\ drops = 0 /\ deaths = 0
       /\ lock = 0 /\ job = 0 /\ sweepTx = 0 /\ sweepBump = 0 /\ sweepClock = 0
       /\ lastFee = 0 /\ rows = 0 /\ covered = 0 /\ objects = 0 /\ observed = 0
       /\ att = 0 /\ phase = 0 /\ report = 0 /\ local = 0 /\ early = 0 /\ subs = 0
       /\ tick = 0 /\ emitted = 0 /\ mishaps = 0 /\ posted = 0 /\ run = 0 /\ spent = 0
       /\ now = 0 /\ parts = 0 /\ home = 0 /\ month = 0
    \/ /\ part = "deposit" /\ Dp!Init
       /\ status = [e \in Events |-> "none"] /\ attempts = [e \in Events |-> 0]
       /\ due = 0 /\ owner = 0 /\ active = 0 /\ accepted = [e \in Events |-> {}]
       /\ batch = 0 /\ listed = 0 /\ cur = 0 /\ left = 0 /\ ok = 0 /\ pc = 0 /\ late = 0
       /\ toggles = 0 /\ req = 0 /\ got = 0 /\ txJ = 0 /\ txE = 0 /\ idemLock = 0
       /\ balLock = 0 /\ readers = 0 /\ closing = 0 /\ closes = 0 /\ journals = 0
       /\ entries = 0 /\ seq = 0 /\ answers = 0 /\ calls = 0 /\ cpc = 0 /\ row = 0
       /\ clock = 0 /\ closeSeq = 0 /\ lastLine = 0 /\ booking = 0 /\ events = 0
       /\ list = 0 /\ rowLock = 0 /\ call = 0 /\ pend = 0 /\ faults = 0 /\ queue = 0
       /\ cp = 0 /\ wpc = 0 /\ item = 0 /\ val = 0 /\ opc = 0 /\ target = 0
       /\ reading = 0 /\ bal = 0 /\ resv = 0 /\ claims = 0 /\ mem = 0 /\ result = 0
       /\ blk = 0 /\ reorgs = 0 /\ cursor = 0 /\ registered = 0 /\ jobs = 0
       /\ bookings = 0 /\ dead = 0 /\ fixed = 0 /\ watch = 0 /\ failures = 0
       /\ rescan = 0 /\ lost = 0 /\ txs = 0 /\ mined = 0 /\ pool = 0 /\ market = 0
       /\ moves = 0 /\ drops = 0 /\ deaths = 0 /\ lock = 0 /\ job = 0 /\ sweepTx = 0
       /\ sweepBump = 0 /\ sweepClock = 0 /\ lastFee = 0 /\ rows = 0 /\ covered = 0
       /\ objects = 0 /\ observed = 0 /\ att = 0 /\ phase = 0 /\ report = 0 /\ local = 0
       /\ early = 0 /\ subs = 0 /\ tick = 0 /\ emitted = 0 /\ mishaps = 0 /\ posted = 0
       /\ run = 0 /\ spent = 0 /\ now = 0 /\ parts = 0 /\ home = 0 /\ month = 0
    \/ /\ part = "sweep" /\ Sw!SweepInit
       /\ status = [e \in Events |-> "none"] /\ attempts = [e \in Events |-> 0]
       /\ due = 0 /\ owner = 0 /\ active = 0 /\ accepted = [e \in Events |-> {}]
       /\ batch = 0 /\ listed = 0 /\ cur = 0 /\ left = 0 /\ ok = 0 /\ pc = 0
       /\ crashes = 0 /\ toggles = 0 /\ req = 0 /\ at = 0 /\ got = 0 /\ txJ = 0
       /\ txE = 0 /\ idemLock = 0 /\ balLock = 0 /\ readers = 0 /\ closing = 0
       /\ closes = 0 /\ journals = 0 /\ entries = 0 /\ seq = 0 /\ answers = 0
       /\ calls = 0 /\ cpc = 0 /\ row = 0 /\ clock = 0 /\ closeSeq = 0 /\ lastLine = 0
       /\ booking = 0 /\ events = 0 /\ receipts = 0 /\ list = 0 /\ rowLock = 0
       /\ call = 0 /\ pend = 0 /\ faults = 0 /\ queue = 0 /\ cp = 0 /\ wpc = 0
       /\ item = 0 /\ val = 0 /\ opc = 0 /\ target = 0 /\ reading = 0 /\ bal = 0
       /\ resv = 0 /\ claims = 0 /\ mem = 0 /\ result = 0 /\ tip = 0 /\ blk = 0
       /\ reorgs = 0 /\ cursor = 0 /\ registered = 0 /\ jobs = 0 /\ dead = 0
       /\ fixed = 0 /\ watch = 0 /\ failures = 0 /\ rescan = 0 /\ lost = 0 /\ deep = 0
       /\ moved = 0 /\ wrong = 0 /\ down = 0 /\ size = 0 /\ depositStatus = 0 /\ ref = 0
       /\ block = 0 /\ journal = 0 /\ reversed = 0 /\ anomalies = 0 /\ th = 0
       /\ misses = 0 /\ recon = 0 /\ rows = 0 /\ covered = 0 /\ objects = 0
       /\ observed = 0 /\ att = 0 /\ phase = 0 /\ report = 0 /\ local = 0 /\ early = 0
       /\ subs = 0 /\ tick = 0 /\ emitted = 0 /\ mishaps = 0 /\ posted = 0 /\ run = 0
       /\ spent = 0 /\ now = 0 /\ parts = 0 /\ home = 0 /\ month = 0
    \/ /\ part = "attest" /\ At!AttInit
       /\ status = [e \in Events |-> "none"] /\ attempts = [e \in Events |-> 0]
       /\ due = 0 /\ owner = 0 /\ active = 0 /\ accepted = [e \in Events |-> {}]
       /\ batch = 0 /\ listed = 0 /\ cur = 0 /\ left = 0 /\ ok = 0 /\ pc = 0 /\ late = 0
       /\ crashes = 0 /\ toggles = 0 /\ req = 0 /\ at = 0 /\ got = 0 /\ txJ = 0
       /\ txE = 0 /\ idemLock = 0 /\ balLock = 0 /\ readers = 0 /\ closing = 0
       /\ closes = 0 /\ journals = 0 /\ seq = 0 /\ answers = 0 /\ calls = 0 /\ cpc = 0
       /\ row = 0 /\ clock = 0 /\ closeSeq = 0 /\ lastLine = 0 /\ booking = 0
       /\ events = 0 /\ receipts = 0 /\ list = 0 /\ rowLock = 0 /\ call = 0 /\ pend = 0
       /\ queue = 0 /\ cp = 0 /\ wpc = 0 /\ item = 0 /\ val = 0 /\ opc = 0 /\ target = 0
       /\ reading = 0 /\ bal = 0 /\ resv = 0 /\ claims = 0 /\ mem = 0 /\ result = 0
       /\ tip = 0 /\ blk = 0 /\ reorgs = 0 /\ cursor = 0 /\ registered = 0 /\ jobs = 0
       /\ bookings = 0 /\ dead = 0 /\ fixed = 0 /\ watch = 0 /\ failures = 0
       /\ rescan = 0 /\ lost = 0 /\ deep = 0 /\ moved = 0 /\ wrong = 0 /\ down = 0
       /\ size = 0 /\ depositStatus = 0 /\ ref = 0 /\ block = 0 /\ journal = 0
       /\ reversed = 0 /\ anomalies = 0 /\ th = 0 /\ misses = 0 /\ recon = 0 /\ txs = 0
       /\ mined = 0 /\ pool = 0 /\ market = 0 /\ moves = 0 /\ drops = 0 /\ deaths = 0
       /\ lock = 0 /\ job = 0 /\ sweepTx = 0 /\ sweepBump = 0 /\ sweepClock = 0
       /\ lastFee = 0 /\ phase = 0 /\ report = 0 /\ local = 0 /\ early = 0 /\ subs = 0
       /\ tick = 0 /\ emitted = 0 /\ mishaps = 0 /\ posted = 0 /\ run = 0 /\ spent = 0
       /\ now = 0 /\ parts = 0 /\ home = 0 /\ month = 0
    \/ /\ \/ part = "jobs" /\ Wk!WorkerInit
          \/ part = "pool" /\ Wp!WorkerInit
       /\ status = [e \in Events |-> "none"] /\ attempts = [e \in Events |-> 0]
       /\ due = 0 /\ owner = 0 /\ active = 0 /\ accepted = [e \in Events |-> {}]
       /\ batch = 0 /\ listed = 0 /\ cur = 0 /\ left = 0 /\ ok = 0 /\ pc = 0 /\ late = 0
       /\ crashes = 0 /\ toggles = 0 /\ req = 0 /\ at = 0 /\ got = 0 /\ txJ = 0
       /\ txE = 0 /\ idemLock = 0 /\ balLock = 0 /\ readers = 0 /\ closing = 0
       /\ closes = 0 /\ journals = 0 /\ entries = 0 /\ seq = 0 /\ answers = 0
       /\ calls = 0 /\ cpc = 0 /\ row = 0 /\ clock = 0 /\ closeSeq = 0 /\ lastLine = 0
       /\ booking = 0 /\ events = 0 /\ receipts = 0 /\ list = 0 /\ rowLock = 0
       /\ call = 0 /\ pend = 0 /\ faults = 0 /\ queue = 0 /\ cp = 0 /\ wpc = 0
       /\ item = 0 /\ val = 0 /\ opc = 0 /\ target = 0 /\ reading = 0 /\ bal = 0
       /\ resv = 0 /\ claims = 0 /\ mem = 0 /\ result = 0 /\ tip = 0 /\ blk = 0
       /\ reorgs = 0 /\ cursor = 0 /\ registered = 0 /\ jobs = 0 /\ bookings = 0
       /\ dead = 0 /\ fixed = 0 /\ watch = 0 /\ failures = 0 /\ rescan = 0 /\ deep = 0
       /\ moved = 0 /\ wrong = 0 /\ down = 0 /\ size = 0 /\ depositStatus = 0 /\ ref = 0
       /\ block = 0 /\ journal = 0 /\ reversed = 0 /\ anomalies = 0 /\ th = 0
       /\ misses = 0 /\ recon = 0 /\ txs = 0 /\ mined = 0 /\ pool = 0 /\ market = 0
       /\ moves = 0 /\ drops = 0 /\ deaths = 0 /\ job = 0 /\ sweepTx = 0
       /\ sweepBump = 0 /\ sweepClock = 0 /\ lastFee = 0 /\ rows = 0 /\ covered = 0
       /\ objects = 0 /\ observed = 0 /\ att = 0 /\ posted = 0 /\ run = 0 /\ spent = 0
       /\ now = 0 /\ parts = 0 /\ home = 0 /\ month = 0
    \/ /\ part = "reconcile" /\ Rs!ScanInit
       /\ status = [e \in Events |-> "none"] /\ attempts = [e \in Events |-> 0]
       /\ due = 0 /\ owner = 0 /\ active = 0 /\ accepted = [e \in Events |-> {}]
       /\ batch = 0 /\ listed = 0 /\ cur = 0 /\ left = 0 /\ ok = 0 /\ pc = 0 /\ late = 0
       /\ crashes = 0 /\ toggles = 0 /\ req = 0 /\ at = 0 /\ got = 0 /\ txJ = 0
       /\ txE = 0 /\ idemLock = 0 /\ balLock = 0 /\ readers = 0 /\ closing = 0
       /\ closes = 0 /\ journals = 0 /\ entries = 0 /\ seq = 0 /\ answers = 0
       /\ calls = 0 /\ cpc = 0 /\ row = 0 /\ clock = 0 /\ closeSeq = 0 /\ lastLine = 0
       /\ booking = 0 /\ events = 0 /\ receipts = 0 /\ list = 0 /\ rowLock = 0
       /\ call = 0 /\ pend = 0 /\ faults = 0 /\ queue = 0 /\ wpc = 0 /\ item = 0
       /\ val = 0 /\ opc = 0 /\ target = 0 /\ reading = 0 /\ bal = 0 /\ resv = 0
       /\ claims = 0 /\ mem = 0 /\ result = 0 /\ tip = 0 /\ blk = 0 /\ reorgs = 0
       /\ registered = 0 /\ jobs = 0 /\ bookings = 0 /\ dead = 0 /\ fixed = 0
       /\ watch = 0 /\ failures = 0 /\ rescan = 0 /\ lost = 0 /\ deep = 0 /\ moved = 0
       /\ wrong = 0 /\ down = 0 /\ size = 0 /\ depositStatus = 0 /\ ref = 0 /\ block = 0
       /\ journal = 0 /\ reversed = 0 /\ anomalies = 0 /\ th = 0 /\ misses = 0
       /\ recon = 0 /\ txs = 0 /\ mined = 0 /\ pool = 0 /\ market = 0 /\ moves = 0
       /\ drops = 0 /\ deaths = 0 /\ lock = 0 /\ job = 0 /\ sweepTx = 0 /\ sweepBump = 0
       /\ sweepClock = 0 /\ lastFee = 0 /\ rows = 0 /\ covered = 0 /\ objects = 0
       /\ observed = 0 /\ att = 0 /\ phase = 0 /\ report = 0 /\ local = 0 /\ early = 0
       /\ subs = 0 /\ tick = 0 /\ emitted = 0 /\ mishaps = 0 /\ now = 0 /\ parts = 0
       /\ home = 0 /\ month = 0
    \/ /\ part = "partitions" /\ Pt!PartInit
       /\ status = [e \in Events |-> "none"] /\ attempts = [e \in Events |-> 0]
       /\ due = 0 /\ owner = 0 /\ active = 0 /\ accepted = [e \in Events |-> {}]
       /\ batch = 0 /\ listed = 0 /\ cur = 0 /\ left = 0 /\ ok = 0 /\ pc = 0 /\ late = 0
       /\ crashes = 0 /\ toggles = 0 /\ req = 0 /\ at = 0 /\ got = 0 /\ txJ = 0
       /\ txE = 0 /\ idemLock = 0 /\ balLock = 0 /\ readers = 0 /\ closing = 0
       /\ closes = 0 /\ journals = 0 /\ entries = 0 /\ seq = 0 /\ answers = 0
       /\ calls = 0 /\ cpc = 0 /\ row = 0 /\ clock = 0 /\ closeSeq = 0 /\ lastLine = 0
       /\ booking = 0 /\ events = 0 /\ receipts = 0 /\ list = 0 /\ rowLock = 0
       /\ call = 0 /\ pend = 0 /\ queue = 0 /\ cp = 0 /\ wpc = 0 /\ item = 0 /\ val = 0
       /\ opc = 0 /\ target = 0 /\ reading = 0 /\ bal = 0 /\ resv = 0 /\ claims = 0
       /\ mem = 0 /\ result = 0 /\ tip = 0 /\ blk = 0 /\ reorgs = 0 /\ cursor = 0
       /\ registered = 0 /\ jobs = 0 /\ bookings = 0 /\ dead = 0 /\ fixed = 0
       /\ watch = 0 /\ failures = 0 /\ rescan = 0 /\ lost = 0 /\ deep = 0 /\ moved = 0
       /\ wrong = 0 /\ down = 0 /\ size = 0 /\ depositStatus = 0 /\ ref = 0 /\ block = 0
       /\ journal = 0 /\ reversed = 0 /\ anomalies = 0 /\ th = 0 /\ misses = 0
       /\ recon = 0 /\ txs = 0 /\ mined = 0 /\ pool = 0 /\ market = 0 /\ moves = 0
       /\ drops = 0 /\ deaths = 0 /\ lock = 0 /\ sweepTx = 0 /\ sweepBump = 0
       /\ sweepClock = 0 /\ lastFee = 0 /\ rows = 0 /\ covered = 0 /\ objects = 0
       /\ observed = 0 /\ att = 0 /\ phase = 0 /\ report = 0 /\ local = 0 /\ early = 0
       /\ subs = 0 /\ tick = 0 /\ emitted = 0 /\ mishaps = 0 /\ posted = 0 /\ run = 0
       /\ spent = 0

LiveNext ==
    /\ UNCHANGED part
    /\ \/ /\ \/ part = "pair" /\ Next /\ UNCHANGED toggles /\ late' + crashes' <= 1
             \/ part = "changes" /\ Next /\ status'[e2] = "none"
             \/ part = "handlers" /\ InProcess!Next /\ status'[e2] = "none" /\ UNCHANGED toggles
          /\ UNCHANGED <<req, at, got, txJ, txE, idemLock, balLock, readers, closing,
                         closes, journals, entries, seq, answers, calls, cpc, row,
                         clock, closeSeq, lastLine, booking, events, receipts, list,
                         rowLock, call, pend, faults, queue, cp, wpc, item, val, opc,
                         target, reading, bal, resv, claims, mem, result, tip, blk,
                         reorgs, cursor, registered, jobs, bookings, dead, fixed, watch,
                         failures, rescan, lost, deep, moved, wrong, down, size,
                         depositStatus, ref, block, journal, reversed, anomalies, th,
                         misses, recon, txs, mined, pool, market, moves, drops, deaths,
                         lock, job, sweepTx, sweepBump, sweepClock, lastFee, rows,
                         covered, objects, observed, att, phase, report, local, early,
                         subs, tick, emitted, mishaps, posted, run, spent, now, parts,
                         home, month>>
       \/ /\ part = "period" /\ Pc!PeriodNext
          /\ UNCHANGED <<status, attempts, due, owner, active, accepted, batch, listed,
                         cur, left, ok, late, crashes, toggles, booking, events,
                         receipts, list, rowLock, call, pend, faults, queue, cp, wpc,
                         item, val, opc, target, reading, bal, resv, claims, mem,
                         result, tip, blk, reorgs, cursor, registered, jobs, bookings,
                         dead, fixed, watch, failures, rescan, lost, deep, moved, wrong,
                         down, size, depositStatus, ref, block, journal, reversed,
                         anomalies, th, misses, recon, txs, mined, pool, market, moves,
                         drops, deaths, lock, job, sweepTx, sweepBump, sweepClock,
                         lastFee, rows, covered, objects, observed, att, phase, report,
                         local, early, subs, tick, emitted, mishaps, posted, run, spent,
                         now, parts, home, month>>
       \/ /\ part = "booking" /\ Bk!Next
          /\ UNCHANGED <<status, attempts, owner, active, accepted, batch, listed, cur,
                         left, ok, late, crashes, toggles, req, at, got, txJ, txE,
                         readers, closing, closes, entries, cpc, row, clock, closeSeq,
                         lastLine, queue, cp, wpc, item, val, opc, target, reading, bal,
                         resv, claims, mem, result, tip, blk, reorgs, cursor,
                         registered, jobs, bookings, dead, fixed, watch, failures,
                         rescan, lost, deep, moved, wrong, down, size, depositStatus,
                         ref, block, journal, reversed, anomalies, th, misses, recon,
                         txs, mined, pool, market, moves, drops, deaths, lock, job,
                         sweepTx, sweepBump, sweepClock, lastFee, rows, covered,
                         objects, observed, att, phase, report, local, early, subs,
                         tick, emitted, mishaps, posted, run, spent, now, parts, home,
                         month>>
       \/ /\ part = "rollup" /\ Ru!RollupNext
          /\ UNCHANGED <<status, attempts, due, owner, active, accepted, listed, cur,
                         left, ok, late, crashes, toggles, cpc, row, clock, closeSeq,
                         lastLine, booking, events, receipts, list, rowLock, call, pend,
                         bal, resv, claims, mem, result, tip, blk, reorgs, cursor,
                         registered, jobs, bookings, dead, fixed, watch, failures,
                         rescan, lost, deep, moved, wrong, down, size, depositStatus,
                         ref, block, journal, reversed, anomalies, th, misses, recon,
                         txs, mined, pool, market, moves, drops, deaths, lock, job,
                         sweepTx, sweepBump, sweepClock, lastFee, rows, covered,
                         objects, observed, att, phase, report, local, early, subs,
                         tick, emitted, mishaps, posted, run, spent, now, parts, home,
                         month>>
       \/ /\ part = "reserve" /\ Rv!ReserverNext
          /\ UNCHANGED <<status, attempts, due, owner, active, accepted, batch, listed,
                         cur, left, ok, late, crashes, toggles, req, at, got, txJ, txE,
                         readers, closing, closes, journals, entries, seq, answers, cpc,
                         row, closeSeq, lastLine, booking, events, receipts, list,
                         queue, cp, wpc, item, val, opc, target, reading, tip, blk,
                         reorgs, cursor, registered, jobs, bookings, dead, fixed, watch,
                         failures, rescan, lost, deep, moved, wrong, down, size,
                         depositStatus, ref, block, journal, reversed, anomalies, th,
                         misses, recon, txs, mined, pool, market, moves, drops, deaths,
                         lock, job, sweepTx, sweepBump, sweepClock, lastFee, rows,
                         covered, objects, observed, att, phase, report, local, early,
                         subs, tick, emitted, mishaps, posted, run, spent, now, parts,
                         home, month>>
       \/ /\ part = "scan" /\ Sc!Next
          /\ UNCHANGED <<status, attempts, due, owner, active, accepted, batch, listed,
                         cur, left, ok, pc, late, crashes, toggles, req, at, got, txJ,
                         txE, idemLock, balLock, readers, closing, closes, journals,
                         entries, seq, answers, calls, cpc, row, clock, closeSeq,
                         lastLine, booking, events, receipts, list, rowLock, call, pend,
                         queue, cp, wpc, item, val, opc, target, reading, bal, resv,
                         claims, mem, result, deep, moved, wrong, down, size,
                         depositStatus, ref, block, journal, reversed, anomalies, th,
                         misses, recon, txs, mined, pool, market, moves, drops, deaths,
                         lock, job, sweepTx, sweepBump, sweepClock, lastFee, rows,
                         covered, objects, observed, att, phase, report, local, early,
                         subs, tick, emitted, mishaps, posted, run, spent, now, parts,
                         home, month>>
       \/ /\ part = "deposit" /\ Dp!Next
          /\ UNCHANGED <<status, attempts, due, owner, active, accepted, batch, listed,
                         cur, left, ok, pc, late, toggles, req, got, txJ, txE, idemLock,
                         balLock, readers, closing, closes, journals, entries, seq,
                         answers, calls, cpc, row, clock, closeSeq, lastLine, booking,
                         events, list, rowLock, call, pend, faults, queue, cp, wpc,
                         item, val, opc, target, reading, bal, resv, claims, mem,
                         result, blk, reorgs, cursor, registered, jobs, bookings, dead,
                         fixed, watch, failures, rescan, lost, txs, mined, pool, market,
                         moves, drops, deaths, lock, job, sweepTx, sweepBump,
                         sweepClock, lastFee, rows, covered, objects, observed, att,
                         phase, report, local, early, subs, tick, emitted, mishaps,
                         posted, run, spent, now, parts, home, month>>
       \/ /\ part = "sweep" /\ Sw!SweepNext
          /\ UNCHANGED <<status, attempts, due, owner, active, accepted, batch, listed,
                         cur, left, ok, pc, crashes, toggles, req, at, got, txJ, txE,
                         idemLock, balLock, readers, closing, closes, journals, entries,
                         seq, answers, calls, cpc, row, clock, closeSeq, lastLine,
                         booking, events, receipts, list, rowLock, call, pend, faults,
                         queue, cp, wpc, item, val, opc, target, reading, bal, resv,
                         claims, mem, result, tip, blk, reorgs, cursor, registered,
                         jobs, dead, fixed, watch, failures, rescan, lost, deep, moved,
                         wrong, down, size, depositStatus, ref, block, journal,
                         reversed, anomalies, th, misses, recon, rows, covered, objects,
                         observed, att, phase, report, local, early, subs, tick,
                         emitted, mishaps, posted, run, spent, now, parts, home, month>>
       \/ /\ part = "attest" /\ At!AttNext
          /\ UNCHANGED <<status, attempts, due, owner, active, accepted, batch, listed,
                         cur, left, ok, pc, late, crashes, toggles, req, at, got, txJ,
                         txE, idemLock, balLock, readers, closing, closes, journals,
                         seq, answers, calls, cpc, row, clock, closeSeq, lastLine,
                         booking, events, receipts, list, rowLock, call, pend, queue,
                         cp, wpc, item, val, opc, target, reading, bal, resv, claims,
                         mem, result, tip, blk, reorgs, cursor, registered, jobs,
                         bookings, dead, fixed, watch, failures, rescan, lost, deep,
                         moved, wrong, down, size, depositStatus, ref, block, journal,
                         reversed, anomalies, th, misses, recon, txs, mined, pool,
                         market, moves, drops, deaths, lock, job, sweepTx, sweepBump,
                         sweepClock, lastFee, phase, report, local, early, subs, tick,
                         emitted, mishaps, posted, run, spent, now, parts, home, month>>
       \/ /\ \/ part = "jobs" /\ Wk!WorkerNext
             \/ part = "pool" /\ Wp!WorkerNext
          /\ UNCHANGED <<status, attempts, due, owner, active, accepted, batch, listed,
                         cur, left, ok, pc, late, crashes, toggles, req, at, got, txJ,
                         txE, idemLock, balLock, readers, closing, closes, journals,
                         entries, seq, answers, calls, cpc, row, clock, closeSeq,
                         lastLine, booking, events, receipts, list, rowLock, call, pend,
                         faults, queue, cp, wpc, item, val, opc, target, reading, bal,
                         resv, claims, mem, result, tip, blk, reorgs, cursor,
                         registered, jobs, bookings, dead, fixed, watch, failures,
                         rescan, deep, moved, wrong, down, size, depositStatus, ref,
                         block, journal, reversed, anomalies, th, misses, recon, txs,
                         mined, pool, market, moves, drops, deaths, job, sweepTx,
                         sweepBump, sweepClock, lastFee, rows, covered, objects,
                         observed, att, posted, run, spent, now, parts, home, month>>
       \/ /\ part = "reconcile" /\ Rs!ScanNext
          /\ UNCHANGED <<status, attempts, due, owner, active, accepted, batch, listed,
                         cur, left, ok, pc, late, crashes, toggles, req, at, got, txJ,
                         txE, idemLock, balLock, readers, closing, closes, journals,
                         entries, seq, answers, calls, cpc, row, clock, closeSeq,
                         lastLine, booking, events, receipts, list, rowLock, call, pend,
                         faults, queue, wpc, item, val, opc, target, reading, bal, resv,
                         claims, mem, result, tip, blk, reorgs, registered, jobs,
                         bookings, dead, fixed, watch, failures, rescan, lost, deep,
                         moved, wrong, down, size, depositStatus, ref, block, journal,
                         reversed, anomalies, th, misses, recon, txs, mined, pool,
                         market, moves, drops, deaths, lock, job, sweepTx, sweepBump,
                         sweepClock, lastFee, rows, covered, objects, observed, att,
                         phase, report, local, early, subs, tick, emitted, mishaps, now,
                         parts, home, month>>
       \/ /\ part = "partitions" /\ Pt!PartNext
          /\ UNCHANGED <<status, attempts, due, owner, active, accepted, batch, listed,
                         cur, left, ok, pc, late, crashes, toggles, req, at, got, txJ,
                         txE, idemLock, balLock, readers, closing, closes, journals,
                         entries, seq, answers, calls, cpc, row, clock, closeSeq,
                         lastLine, booking, events, receipts, list, rowLock, call, pend,
                         queue, cp, wpc, item, val, opc, target, reading, bal, resv,
                         claims, mem, result, tip, blk, reorgs, cursor, registered,
                         jobs, bookings, dead, fixed, watch, failures, rescan, lost,
                         deep, moved, wrong, down, size, depositStatus, ref, block,
                         journal, reversed, anomalies, th, misses, recon, txs, mined,
                         pool, market, moves, drops, deaths, lock, sweepTx, sweepBump,
                         sweepClock, lastFee, rows, covered, objects, observed, att,
                         phase, report, local, early, subs, tick, emitted, mishaps,
                         posted, run, spent>>

periodVars  == Pc!periodVars
bookingVars == Bk!vars
rollupVars  == Ru!allVars
reserveVars == Rv!vars
scanVars    == Sc!vars
depositVars == Dp!vars
sweepVars   == Sw!sweepVars
attestVars  == At!attVars
jobVars     == Wk!workerVars
checkVars   == Rs!scanVars
partVars    == Pt!partVars

\* The fairness of FairBookingSpec, FairRollupSpec and so on, each for its own part.
DeliveryFair ==
    /\ \A e \in Events : WF_vars(part \in {"pair", "changes", "handlers"} /\ TimePasses(e))
    /\ \A w \in Workers :
          /\ WF_vars(part \in {"pair", "changes", "handlers"} /\ GetPendingEvents(w))
          /\ WF_vars(\/ part \in {"pair", "changes"} /\ Work(w)
                     \/ part = "handlers" /\ InProcess!Work(w))

LedgerFair ==
    /\ \A c \in {"c1", "c2"} : WF_periodVars(part = "period" /\ Pc!Step(c) /\ UNCHANGED <<cpc, row, clock, closeSeq, lastLine>>)
    /\ WF_periodVars(part = "period" /\ (Pc!CloseStep("o1") \/ Pc!AbandonClose("o1")))
    /\ \A c \in {"c1", "s1"} : WF_bookingVars(part = "booking" /\ Bk!Step(c))
    /\ WF_bookingVars(part = "booking" /\ Bk!SweepStart("s1"))
    /\ WF_bookingVars(part = "booking" /\ Bk!SweepNext("s1"))
    /\ \A w \in {"w1", "w2"} :
          /\ WF_rollupVars(part = "rollup" /\ Ru!WorkerStep(w))
          /\ \A d \in Ru!Dims : WF_rollupVars(part = "rollup" /\ Ru!Dequeue(w) /\ d \in batch'[w])
    /\ \A c \in {"c1", "w1"} : /\ WF_reserveVars(part = "reserve" /\ Rv!Step(c))
                             /\ WF_reserveVars(part = "reserve" /\ Rv!Sweep(c))

ChainFair ==
    /\ WF_scanVars(part = "scan" /\ Sc!Mine)
    /\ WF_scanVars(part = "scan" /\ Sc!Watch("w1"))
    /\ WF_scanVars(part = "scan" /\ Sc!EnqueueRegistrationRescans("a"))
    /\ WF_scanVars(part = "scan" /\ Sc!LeaseExpires("a"))
    /\ WF_scanVars(part = "scan" /\ (Sc!Rescan("r1") \/ Sc!ClaimRegistrationRescans("r1", "a")))
    /\ WF_depositVars(part = "deposit" /\ Dp!Mine)
    /\ WF_depositVars(part = "deposit" /\ Dp!Recheck("r1"))
    /\ WF_sweepVars(part = "sweep" /\ Sw!MineNonce)
    /\ \A j \in Sw!Jobs : WF_sweepVars(part = "sweep" /\ Sw!Tick(j))
    /\ \A k \in Sw!Keys : WF_sweepVars(part = "sweep" /\ Sw!StuckAfter("r1", k))

JobFair ==
    /\ WF_attestVars(part = "attest" /\ At!RunAttestBatch("r1"))
    /\ \A r \in {"r1", "r2"} : /\ WF_jobVars(part = "jobs" /\ Wk!StartupReport(r))
                              /\ WF_jobVars(part = "jobs" /\ Wk!Run(r))
                              /\ WF_jobVars(part = "jobs" /\ Wk!Restart(r))
    /\ \A t \in Wk!Ticks : /\ WF_jobVars(part = "jobs" /\ Wk!Tick(t))
                           /\ WF_jobVars(part = "jobs" /\ Wk!Step(t))
    /\ WF_jobVars(part = "pool" /\ Wp!StartupReport("r1"))
    /\ WF_jobVars(part = "pool" /\ Wp!Run("r1"))
    /\ WF_jobVars(part = "pool" /\ Wp!Restart("r1"))
    /\ \A t \in Wp!Ticks : /\ WF_jobVars(part = "pool" /\ Wp!Tick(t))
                           /\ WF_jobVars(part = "pool" /\ Wp!Step(t))
    /\ SF_jobVars(part = "pool" /\ Wp!Step(<<"r1", "j1">>))
    /\ WF_checkVars(part = "reconcile" /\ Rs!RunStep("r1"))
    /\ WF_partVars(part = "partitions" /\ Pt!JobStep)

Fairness == DeliveryFair /\ LedgerFair /\ ChainFair /\ JobFair

LiveSpec == LiveInit /\ [][LiveNext]_liveVars /\ Fairness
-----------------------------------------------------------------------------
\* A lagging checkpoint catches up, unless its queue row has used up its attempts.
CatchesUp == \A d \in Ru!Dims : []<>(part = "rollup" => ~Ru!Behind(d))

\* Every call of a client ends although closes come and go: the exclusive half of the
\* barrier is never queued, so it blocks a writer only while a close is committing.
WritersNotBlocked == \A c \in {"c1", "c2"} : []<>(part = "period" => pc[c] = "idle")

\* What has expired does not stay: ExpireStaleReservations winds the reservation down, and
\* some pass of ExpireStaleBookings, or a caller, moves the booking on.
ExpiredLeave ==
    /\ []<>(part = "reserve" => ~Rv!Overdue(r1))
    /\ \A b \in {"b1", "b2"} : []<>(part = "booking" => b \notin Bk!ListExpiredBookings)

\* A transfer that stays on the chain, to an address that was handed out, is booked or
\* dead-lettered in the end; its deposit is credited, failed or put before a human, even
\* when the second source never answers; and a broadcast sweep is confirmed or failed.
TransfersSettle ==
    /\ \A t \in Sc!Transfers : []<>(part = "scan" => (Sc!Awaited(t) => Sc!Served(t)))
    /\ []<>(part = "deposit" => depositStatus \notin {"pending", "confirming"})
    /\ \A k \in Sw!Keys : []<>(part = "sweep" => bookings[k].status # "sent")

\* Every committed entry is attested in the end, in whatever order the journals committed,
\* and after failed and unanswered publishes the anchor's head reaches the end of the chain
\* (catchUpAnchor, "will retry next run").
AnchorCatchesUp ==
    /\ []<>(part = "attest" => DOMAIN entries = DOMAIN covered)
    /\ []<>(part = "attest" => \A s \in DOMAIN rows : At!AnchorHead >= s)

\* Every tick of a locked job ends, also the one that waits for its second connection while
\* another job's tick has the last one, and no failure, panic, lost session or shutdown
\* leaves an advisory lock behind that stops a job for good: every job runs again and again.
\* It takes a pool with more connections than there are locked jobs.  The two jobs that share
\* a pool are interchangeable; it is stated for one of them.
JobsGoOn ==
    /\ \A t \in Wk!Ticks : []<>(part = "jobs" => tick[t] = "idle")
    /\ []<>(part = "jobs" => \E t \in Wk!Ticks : tick[t] = "busy")
    /\ []<>(part = "pool" => tick["r1", "j1"] = "idle")
    /\ []<>(part = "pool" => tick["r1", "j1"] = "busy")

\* A drifted checkpoint is reported, and reported again while it is not repaired, however
\* many pairs precede it and however small the scan limit: runs resume where the last one
\* stopped.
DriftReported ==
    []<>(part = "reconcile" => Rs!Drifted = {} \/ (run["r1"].pc = "done" /\ ~run["r1"].passed))

\* Rows that fell into the default partition are moved out, however long the job was
\* down and whatever month they belong to (EnsureUpcoming).
DefaultDrains == []<>(part = "partitions" => Pt!Stranded = {})
=============================================================================
