------------------------------- MODULE MCChain -------------------------------
(* The on-chain service on small instances: the scan of a chain with one      *)
(* transaction that pays two addresses behind a log of somebody else, the     *)
(* leases of one registration rescan, the life of one deposit seen by two     *)
(* recheck loops and of one that moves twice, and the sweeps of two tokens by *)
(* two replicas with one signer, also where the market or a bump reaches the  *)
(* ceiling.                                                                   *)
EXTENDS Deposit, Sweep, TLC

\* One deposit is watched by two recheck loops, or moves twice and its process dies.
NextWatched == Next /\ moved' <= 1 /\ crashes' = 0
NextMoved == Next /\ th'["r2"] = Idle

VARIABLES
    part, blk, reorgs, cursor, registered, jobs, booked, dead, fixed, watch,
    failures, rescan, faults, lost

Sc == INSTANCE DepositScan WITH
    Txs <- {"x"}, Watchers <- {"w1"}, Confirmations <- 2, MaxBlocksPerScan <- 2, RescanLookback <- 0,
    ScanStartBlock <- 0, WatcherStallAlertAfter <- 1, MaxBlock <- 3, MaxLag <- 0, MaxLost <- 0,
    bookings <- booked,
    Logs <- [x |-> <<"other", "a", "b">>], Addresses <- {"a", "b"}, Unbookable <- {<<"x", 1>>},
    Rescanners <- {"r1"}, MaxReorgs <- 1, MaxFaults <- 0
Ls == INSTANCE DepositScan WITH
    Txs <- {"x"}, Watchers <- {"w1"}, Confirmations <- 2, MaxBlocksPerScan <- 2, RescanLookback <- 0,
    ScanStartBlock <- 0, WatcherStallAlertAfter <- 1, MaxBlock <- 3, MaxLag <- 0, MaxLost <- 0,
    bookings <- booked,
    Logs <- [x |-> <<"a">>], Addresses <- {"a"}, Unbookable <- {}, Rescanners <- {"r1", "r2"},
    MaxReorgs <- 0, MaxFaults <- 2
Sg == INSTANCE Sweep WITH
    GasCeiling <- 1, MaxMarket <- 2, MaxMarketMoves <- 1, MaxDeaths <- 0

suiteVars == <<part, tip, blk, reorgs, cursor, registered, jobs, booked, dead, fixed,
          watch, failures, rescan, faults, lost, at, deep, moved, wrong, down, size,
          status, ref, block, receipts, journal, reversed, anomalies, th, misses, recon,
          crashes, txs, mined, pool, market, moves, drops, late, deaths, bookings, lock,
          job, sweepTx, sweepBump, sweepClock, lastFee>>

\* A behaviour is about one part; the variables of the others are out of use.
SuiteInit ==
    \/ /\ \/ part = "scan" /\ Sc!Init
          \/ part = "leases" /\ Ls!Init
       /\ at = 0 /\ deep = FALSE /\ moved = 0 /\ wrong = 0 /\ down = 0 /\ size = 0
       /\ status = "none" /\ ref = 0 /\ block = 0 /\ receipts = 0 /\ journal = "none"
       /\ reversed = FALSE /\ anomalies = 0 /\ th = 0 /\ misses = 0 /\ recon = 0
       /\ crashes = 0 /\ txs = 0 /\ mined = 0 /\ pool = 0 /\ market = 0 /\ moves = 0
       /\ drops = 0 /\ late = 0 /\ deaths = 0
       /\ bookings = [k \in Keys |-> [status |-> "none", nonce |-> 0, ref |-> 0]]
       /\ lock = 0 /\ job = [j \in Jobs |-> NoTick] /\ sweepTx = 0 /\ sweepBump = 0
       /\ sweepClock = 0 /\ lastFee = 0
    \/ /\ \/ part = "watched" /\ Init
          \/ part = "moves" /\ Init
       /\ blk = 0 /\ reorgs = 0 /\ cursor = 0 /\ registered = 0 /\ jobs = 0
       /\ booked = 0 /\ dead = 0 /\ fixed = 0 /\ watch = 0 /\ failures = 0 /\ rescan = 0
       /\ faults = 0 /\ lost = 0 /\ txs = 0 /\ mined = 0 /\ pool = 0 /\ market = 0
       /\ moves = 0 /\ drops = 0 /\ late = 0 /\ deaths = 0
       /\ bookings = [k \in Keys |-> [status |-> "none", nonce |-> 0, ref |-> 0]]
       /\ lock = 0 /\ job = [j \in Jobs |-> NoTick] /\ sweepTx = 0 /\ sweepBump = 0
       /\ sweepClock = 0 /\ lastFee = 0
    \/ /\ \/ part = "sweep" /\ SweepInit
          \/ part = "ceiling" /\ Sg!SweepInit
       /\ tip = 0 /\ blk = 0 /\ reorgs = 0 /\ cursor = 0 /\ registered = 0 /\ jobs = 0
       /\ booked = 0 /\ dead = 0 /\ fixed = 0 /\ watch = 0 /\ failures = 0 /\ rescan = 0
       /\ faults = 0 /\ lost = 0 /\ at = 0 /\ deep = FALSE /\ moved = 0 /\ wrong = 0
       /\ down = 0 /\ size = 0 /\ status = "none" /\ ref = 0 /\ block = 0
       /\ receipts = 0 /\ journal = "none" /\ reversed = FALSE /\ anomalies = 0
       /\ th = 0 /\ misses = 0 /\ recon = 0 /\ crashes = 0

SuiteNext ==
    /\ UNCHANGED part
    /\ \/ /\ \/ part = "scan" /\ Sc!Next
             \/ part = "leases" /\ Ls!Next
          /\ UNCHANGED <<at, deep, moved, wrong, down, size, status, ref, block,
                         receipts, journal, reversed, anomalies, th, misses, recon,
                         crashes, txs, mined, pool, market, moves, drops, late, deaths,
                         bookings, lock, job, sweepTx, sweepBump, sweepClock, lastFee>>
       \/ /\ \/ part = "watched" /\ NextWatched
             \/ part = "moves" /\ NextMoved
          /\ UNCHANGED <<blk, reorgs, cursor, registered, jobs, booked, dead, fixed,
                         watch, failures, rescan, faults, lost, txs, mined, pool,
                         market, moves, drops, late, deaths, bookings, lock, job,
                         sweepTx, sweepBump, sweepClock, lastFee>>
       \/ /\ \/ part = "sweep" /\ SweepNext
             \/ part = "ceiling" /\ Sg!SweepNext
          /\ UNCHANGED <<tip, blk, reorgs, cursor, registered, jobs, booked, dead,
                         fixed, watch, failures, rescan, faults, lost, at, deep, moved,
                         wrong, down, size, status, ref, block, receipts, journal,
                         reversed, anomalies, th, misses, recon, crashes>>

SuiteSpec == SuiteInit /\ [][SuiteNext]_suiteVars
-----------------------------------------------------------------------------
ASSUME ConstantsFit == Sc!ScanAssumption /\ Ls!ScanAssumption

\* scanChainOnce: what lies at or below the cursor is booked, dead-lettered or still in
\* front of its address's rescan, and booked once.
ScanSound == (part = "scan" => Sc!ScanSound) /\ (part = "leases" => Ls!ScanSound)
=============================================================================
