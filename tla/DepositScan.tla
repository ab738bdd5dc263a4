------------------------------ MODULE DepositScan ------------------------------
(***************************************************************************)
(* How transfers on a chain become deposit bookings: service/onchain.go's  *)
(* forward scan with its cursor, the registration rescans behind every new *)
(* address, webhook sightings and the dead letters.  The chain itself is   *)
(* the environment: it grows, it replaces blocks less deep than            *)
(* Confirmations, and the node that answers may lag behind it.  What       *)
(* happens to a booking once it exists is the subject of module Deposit.   *)
(***************************************************************************)
EXTENDS Integers, Sequences, FiniteSets, FiniteSetsExt

CONSTANTS
    Txs,               \* transactions that may be mined
    Logs,              \* [Txs -> Seq(recipient)]: the logs of a receipt
    Addresses,         \* deposit addresses of the holders
    Unbookable,        \* transfers <<tx, seq>> whose ingestion is rejected for good
    Watchers,          \* watch loops and manual scans of the chain
    Rescanners,        \* workers of the registration rescans
    Confirmations, MaxBlocksPerScan, RescanLookback, ScanStartBlock,
    WatcherStallAlertAfter,
    MaxBlock,          \* bound: height of the chain
    MaxReorgs,         \* bound: replacements of the tip
    MaxLag,            \* bound: blocks by which the node may lag
    MaxFaults,         \* bound: transient failures, crashes and expired leases
    MaxLost            \* bound: failed writes of a dead letter

ScanAssumption ==
    /\ Unbookable \subseteq Txs \X Nat
    /\ MaxBlocksPerScan \in Nat \ {0} /\ RescanLookback \in Nat
    /\ Confirmations \in Nat /\ ScanStartBlock \in Nat /\ MaxLag \in Nat

VARIABLES
    tip, blk,          \* height of the chain, block of each transaction
    reorgs,
    cursor,            \* chain_cursors.last_scanned_block, or NoCursor
    registered,        \* deposit_addresses
    jobs,              \* registration_rescans, one row per address or NoJob
    bookings,          \* deposit bookings: [tx, seq, to, log]
    dead,              \* ingest_dead_letters: sightings by their key
    fixed,             \* the configuration that made Unbookable fail is corrected
    watch,             \* [Watchers -> the scan in progress]
    failures,          \* [Watchers -> consecutive failed scans, in memory]
    rescan,            \* [Rescanners -> the claimed job in progress]
    faults, lost

chainVars == <<tip, blk, reorgs>>
dbVars    == <<cursor, registered, jobs, bookings, dead, fixed>>
bounds    == <<faults, lost>>
vars      == <<chainVars, dbVars, watch, failures, rescan, bounds>>

Unmined  == -1
NoCursor == -1
NoJob    == [status |-> "none"]
Idle     == [pc |-> "idle"]

Init ==
    /\ tip = 0 /\ blk = [x \in Txs |-> Unmined] /\ reorgs = 0
    /\ cursor = NoCursor /\ registered = {} /\ bookings = {} /\ dead = {}
    /\ jobs = [a \in Addresses |-> NoJob]
    /\ fixed = FALSE
    /\ watch = [w \in Watchers |-> Idle] /\ failures = [w \in Watchers |-> 0]
    /\ rescan = [r \in Rescanners |-> Idle]
    /\ faults = 0 /\ lost = 0

-----------------------------------------------------------------------------
(* The chain.                                                              *)

confirmationDepth == Max({Confirmations, 1})

Mine ==
    /\ tip < MaxBlock
    /\ tip' = tip + 1
    /\ \E S \in SUBSET {x \in Txs : blk[x] = Unmined} :
          blk' = [x \in Txs |-> IF x \in S THEN tip + 1 ELSE blk[x]]
    /\ UNCHANGED <<reorgs, dbVars, watch, failures, rescan, bounds>>

\* Fewer than Confirmations blocks are replaced: their transactions go back to the
\* mempool or into another of the new blocks.
Reorg ==
    /\ reorgs < MaxReorgs /\ reorgs' = reorgs + 1
    /\ \E d \in 1..(confirmationDepth - 1), new \in [Txs -> {Unmined} \union 1..tip] :
          LET replaced == {x \in Txs : blk[x] = Unmined \/ blk[x] > tip - d} IN
          /\ d <= tip
          /\ \A x \in Txs : IF x \in replaced THEN new[x] = Unmined \/ new[x] > tip - d
                                              ELSE new[x] = blk[x]
          /\ blk' = new
    /\ UNCHANGED <<tip, dbVars, watch, failures, rescan, bounds>>

\* The answer of the node, which may be behind the chain.
LatestBlock == Max({tip - MaxLag, 0})..tip

\* Transfers of the window to the given addresses.  seq is the position of the log
\* in the receipt of its transaction; log is that position too, kept to tell
\* transfers apart whatever seq is.
FetchDeposits(from, to, addrs) ==
    UNION {{[tx |-> x, seq |-> i - 1, to |-> Logs[x][i], log |-> i - 1] :
               i \in {j \in DOMAIN Logs[x] : Logs[x][j] \in addrs}} :
           x \in {y \in Txs : blk[y] \in from..to}}

-----------------------------------------------------------------------------
(* Ingestion of one sighting.                                              *)

Key(s) == <<s.tx, s.seq>>
Booked(s) == \E b \in bookings : Key(b) = Key(s)
Rejected(s) == Key(s) \in Unbookable /\ ~fixed

\* ensureBookingMatchesInput: the key is taken by a booking of another payload.
Conflict(s) == \E b \in bookings : Key(b) = Key(s) /\ b.to # s.to

\* ON CONFLICT (idempotency_key) DO NOTHING.
InsertIngestDeadLetter(S) == dead' = dead \union {Key(s) : s \in S}

\* A failed write is logged and nothing more.
recordIngestDeadLetter(S) ==
    \/ InsertIngestDeadLetter(S) /\ UNCHANGED lost
    \/ S # {} /\ lost < MaxLost /\ lost' = lost + 1 /\ UNCHANGED dead

\* The outcome of IngestDeposit: "ok", "ignored" (unregistered address), "rejected"
\* (an error no retry can change) or "retry".  The booking exists before the
\* confirmation is attempted, so either error may leave it behind.
IngestDeposit(s, res) ==
    \/ /\ s.to \notin registered /\ res = "ignored" /\ UNCHANGED <<bookings, faults>>
    \/ /\ s.to \in registered /\ (Rejected(s) \/ Conflict(s)) /\ res = "rejected"
       /\ UNCHANGED <<bookings, faults>>
    \/ /\ s.to \in registered /\ ~Rejected(s) /\ ~Conflict(s) /\ res = "ok"
       /\ bookings' = IF Booked(s) THEN bookings ELSE bookings \union {s}
       /\ UNCHANGED faults
    \/ /\ s.to \in registered /\ faults < MaxFaults /\ faults' = faults + 1
       /\ res = "retry"
       /\ bookings' \in {bookings} \union
             (IF Rejected(s) \/ Conflict(s) \/ Booked(s) THEN {}
              ELSE {bookings \union {s}})

-----------------------------------------------------------------------------
(* The forward scan: scanChainOnce.                                        *)

SafeTip(latest) == latest - confirmationDepth + 1

\* Fault: no lookback.
WindowFromCursor(latest) == cursor + 1

\* from = cursor+1, moved back by the lookback below the safe tip.
WindowFrom(latest) ==
    LET back == SafeTip(latest) - RescanLookback + 1 IN
    IF RescanLookback > 0 /\ back < cursor + 1 THEN Max({back, 0}) ELSE cursor + 1

WatchBegin(w) ==
    /\ watch[w] = Idle
    /\ \E latest \in LatestBlock :
          /\ WindowFrom(latest) <= SafeTip(latest)
          /\ watch' = [watch EXCEPT ![w] =
                [pc |-> "list", from |-> WindowFrom(latest),
                 to |-> Min({SafeTip(latest), WindowFrom(latest) + MaxBlocksPerScan - 1})]]
    /\ UNCHANGED <<chainVars, dbVars, failures, rescan, bounds>>

SetChainCursor(to) == cursor' = Max({cursor, to})

\* With no address registered the window is scanned by definition.
WatchList(w) ==
    /\ watch[w].pc = "list"
    /\ IF registered = {}
       THEN /\ SetChainCursor(watch[w].to)
            /\ watch' = [watch EXCEPT ![w] = Idle]
       ELSE /\ watch' = [watch EXCEPT ![w] = [pc |-> "fetch", from |-> @.from, to |-> @.to,
                                              addrs |-> registered]]
            /\ UNCHANGED cursor
    /\ UNCHANGED <<chainVars, registered, jobs, bookings, dead, fixed, failures, rescan, bounds>>

WatchFetch(w) ==
    /\ watch[w].pc = "fetch"
    /\ LET v == watch[w] IN
       watch' = [watch EXCEPT ![w] =
          [pc |-> "ingest", from |-> v.from, to |-> v.to,
           left |-> FetchDeposits(v.from, v.to, v.addrs), blocked |-> {}]]
    /\ UNCHANGED <<chainVars, dbVars, failures, rescan, bounds>>

\* A call to the node or to the database fails: the tick returns, nothing moves.
WatchFail(w) ==
    /\ watch[w].pc \in {"list", "fetch", "ingest"} /\ faults < MaxFaults
    /\ faults' = faults + 1
    /\ watch' = [watch EXCEPT ![w] = Idle]
    /\ UNCHANGED <<chainVars, dbVars, failures, rescan, lost>>

\* Fault: a failed ingestion is logged and the scan goes on.
WatchIngestLogged(w) ==
    /\ watch[w].pc = "ingest"
    /\ \E s \in watch[w].left, res \in {"ok", "ignored", "rejected", "retry"} :
          /\ IngestDeposit(s, res)
          /\ recordIngestDeadLetter(IF res = "rejected" THEN {s} ELSE {})
          /\ watch' = [watch EXCEPT ![w].left = @ \ {s}]
    /\ UNCHANGED <<chainVars, cursor, registered, jobs, fixed, failures, rescan>>

WatchIngest(w) ==
    /\ watch[w].pc = "ingest"
    /\ \E s \in watch[w].left, res \in {"ok", "ignored", "rejected", "retry"} :
          /\ IngestDeposit(s, res)
          /\ recordIngestDeadLetter(IF res = "rejected" THEN {s} ELSE {})
          /\ watch' = [watch EXCEPT ![w].left = @ \ {s},
                                    ![w].blocked = @ \union (IF res = "retry" THEN {s} ELSE {})]
    /\ UNCHANGED <<chainVars, cursor, registered, jobs, fixed, failures, rescan>>

WatchDone(w) ==
    /\ watch[w].pc = "ingest" /\ watch[w].left = {} /\ watch[w].blocked = {}
    /\ SetChainCursor(watch[w].to)
    /\ failures' = [failures EXCEPT ![w] = 0]
    /\ watch' = [watch EXCEPT ![w] = Idle]
    /\ UNCHANGED <<chainVars, registered, jobs, bookings, dead, fixed, rescan, bounds>>

\* escalateWatcherStall: the cursor stays, and after enough failed ticks the sightings
\* in the way are dead-lettered for an operator to see.
WatchStalled(w) ==
    /\ watch[w].pc = "ingest" /\ watch[w].left = {} /\ watch[w].blocked # {}
    /\ failures' = [failures EXCEPT ![w] = Min({@ + 1, WatcherStallAlertAfter})]
    /\ recordIngestDeadLetter(IF failures'[w] < WatcherStallAlertAfter
                              THEN {} ELSE watch[w].blocked)
    /\ watch' = [watch EXCEPT ![w] = Idle]
    /\ UNCHANGED <<chainVars, cursor, registered, jobs, bookings, fixed, rescan, faults>>

\* The process dies and comes back: its counters start again.
WatchCrash(w) ==
    /\ watch[w] # Idle /\ faults < MaxFaults
    /\ faults' = faults + 1
    /\ watch' = [watch EXCEPT ![w] = Idle]
    /\ failures' = [failures EXCEPT ![w] = 0]
    /\ UNCHANGED <<chainVars, dbVars, rescan, lost>>

-----------------------------------------------------------------------------
(* Registration of an address and the rescan of its history.               *)

\* Address -> row, by holder: registering again finds the row.  The rescan is a
\* second statement, which a failed call leaves for the retry.
EnsureAddress(a) ==
    /\ a \notin registered
    /\ registered' = registered \union {a}
    /\ UNCHANGED <<chainVars, cursor, jobs, bookings, dead, fixed, watch, failures, rescan, bounds>>

\* ON CONFLICT (chain_id, address) DO NOTHING.
EnqueueRegistrationRescans(a) ==
    /\ a \in registered /\ jobs[a] = NoJob
    /\ jobs' = [jobs EXCEPT ![a] = [status |-> "pending", next |-> ScanStartBlock, attempts |-> 0]]
    /\ UNCHANGED <<chainVars, cursor, registered, bookings, dead, fixed, watch, failures, rescan, bounds>>

\* The claim counts the attempt, which is its token.
ClaimRegistrationRescans(r, a) ==
    /\ rescan[r] = Idle /\ jobs[a].status = "pending"
    /\ jobs' = [jobs EXCEPT ![a].status = "running", ![a].attempts = @ + 1]
    /\ rescan' = [rescan EXCEPT ![r] =
          [pc |-> "fetch", addr |-> a, next |-> jobs[a].next, attempts |-> jobs[a].attempts + 1]]
    /\ UNCHANGED <<chainVars, cursor, registered, bookings, dead, fixed, watch, failures, bounds>>

\* claimed_until passes: another worker may claim the job.
LeaseExpires(a) ==
    /\ jobs[a].status = "running"
    /\ LET held == \E r \in Rescanners : /\ rescan[r] # Idle
                                         /\ rescan[r].addr = a
                                         /\ rescan[r].attempts = jobs[a].attempts IN
       /\ held => faults < MaxFaults
       /\ faults' = IF held THEN faults + 1 ELSE faults
    /\ jobs' = [jobs EXCEPT ![a].status = "pending"]
    /\ UNCHANGED <<chainVars, cursor, registered, bookings, dead, fixed, watch, failures, rescan, lost>>

\* UPDATE ... WHERE uid = $1 AND attempts = $4: a worker that lost its claim changes
\* no row.
UpdateJob(v, next, status) ==
    jobs' = IF jobs[v.addr].attempts = v.attempts
            THEN [jobs EXCEPT ![v.addr].next = next, ![v.addr].status = status]
            ELSE jobs

\* processRegistrationRescan up to the sightings of its window.
RescanFetch(r) ==
    /\ rescan[r].pc = "fetch"
    /\ \E latest \in LatestBlock :
          LET v  == rescan[r]
              to == Min({SafeTip(latest), v.next + MaxBlocksPerScan - 1}) IN
          IF v.next > SafeTip(latest)
          THEN /\ UpdateJob(v, v.next, "completed")
               /\ rescan' = [rescan EXCEPT ![r] = Idle]
          ELSE /\ rescan' = [rescan EXCEPT ![r] =
                     [pc |-> "ingest", addr |-> v.addr, next |-> v.next, attempts |-> v.attempts,
                      to |-> to, last |-> to >= SafeTip(latest),
                      left |-> FetchDeposits(v.next, to, {v.addr})]]
               /\ UNCHANGED jobs
    /\ UNCHANGED <<chainVars, cursor, registered, bookings, dead, fixed, watch, failures, bounds>>

\* One sighting: rejected ones are dead-lettered and skipped, any other error ends the
\* attempt with the window still to do.
RescanIngest(r) ==
    /\ rescan[r].pc = "ingest"
    /\ \E s \in rescan[r].left, res \in {"ok", "ignored", "rejected", "retry"} :
          /\ IngestDeposit(s, res)
          /\ recordIngestDeadLetter(IF res = "rejected" THEN {s} ELSE {})
          /\ IF res = "retry"
             THEN /\ UpdateJob(rescan[r], rescan[r].next, "pending")
                  /\ rescan' = [rescan EXCEPT ![r] = Idle]
             ELSE /\ rescan' = [rescan EXCEPT ![r].left = @ \ {s}]
                  /\ UNCHANGED jobs
    /\ UNCHANGED <<chainVars, cursor, registered, fixed, watch, failures>>

AdvanceRegistrationRescan(r) ==
    /\ rescan[r].pc = "ingest" /\ rescan[r].left = {}
    /\ LET v == rescan[r] IN
       UpdateJob(v, v.to + 1, IF v.last THEN "completed" ELSE "pending")
    /\ rescan' = [rescan EXCEPT ![r] = Idle]
    /\ UNCHANGED <<chainVars, cursor, registered, bookings, dead, fixed, watch, failures, bounds>>

\* The node fails, or the attempt runs into its timeout.
RetryRegistrationRescan(r) ==
    /\ rescan[r] # Idle /\ faults < MaxFaults
    /\ faults' = faults + 1
    /\ UpdateJob(rescan[r], rescan[r].next, "pending")
    /\ rescan' = [rescan EXCEPT ![r] = Idle]
    /\ UNCHANGED <<chainVars, cursor, registered, bookings, dead, fixed, watch, failures, lost>>

RescanCrash(r) ==
    /\ rescan[r] # Idle /\ faults < MaxFaults
    /\ faults' = faults + 1
    /\ rescan' = [rescan EXCEPT ![r] = Idle]
    /\ UNCHANGED <<chainVars, dbVars, watch, failures, lost>>

-----------------------------------------------------------------------------
(* Sightings that do not come from a scan.                                 *)

\* A webhook reports a mined transfer; its producer may report it again.
WebhookSighting(s) ==
    /\ \E res \in {"ok", "rejected", "retry"} :
          /\ IngestDeposit(s, res)
          /\ recordIngestDeadLetter(IF Conflict(s) THEN {s} ELSE {})
    /\ UNCHANGED <<chainVars, cursor, registered, jobs, fixed, watch, failures, rescan>>

FixConfiguration ==
    /\ ~fixed /\ fixed' = TRUE
    /\ UNCHANGED <<chainVars, cursor, registered, jobs, bookings, dead, watch, failures, rescan, bounds>>

ReplayDeadLetter(k) ==
    /\ k \in dead
    /\ LET to == Logs[k[1]][k[2] + 1]
           s  == [tx |-> k[1], seq |-> k[2], to |-> to, log |-> k[2]] IN
       /\ ~Booked(s)
       /\ IngestDeposit(s, "ok")
    /\ UNCHANGED <<chainVars, cursor, registered, jobs, dead, fixed, watch, failures, rescan, lost>>

-----------------------------------------------------------------------------
Watch(w) ==
    \/ WatchBegin(w) \/ WatchList(w) \/ WatchFetch(w) \/ WatchIngest(w)
    \/ WatchDone(w) \/ WatchStalled(w)

Rescan(r) == RescanFetch(r) \/ RescanIngest(r) \/ AdvanceRegistrationRescan(r)

Next ==
    \/ Mine \/ Reorg \/ FixConfiguration
    \/ \E w \in Watchers : Watch(w) \/ WatchFail(w) \/ WatchCrash(w)
    \/ \E a \in Addresses : EnsureAddress(a) \/ EnqueueRegistrationRescans(a) \/ LeaseExpires(a)
    \/ \E r \in Rescanners :
          \/ Rescan(r) \/ RetryRegistrationRescan(r) \/ RescanCrash(r)
          \/ \E a \in Addresses : ClaimRegistrationRescans(r, a)
    \/ \E s \in FetchDeposits(0, tip, Addresses) : WebhookSighting(s)
    \/ \E k \in dead : ReplayDeadLetter(k)

Spec == Init /\ [][Next]_vars

(* Blocks keep coming, the loops keep ticking, a caller whose registration *)
(* failed half way calls again, and leases run out.                        *)
Fairness ==
    /\ WF_vars(Mine)
    /\ \A w \in Watchers : WF_vars(Watch(w))
    /\ \A a \in Addresses : WF_vars(EnqueueRegistrationRescans(a)) /\ WF_vars(LeaseExpires(a))
    /\ \A r \in Rescanners :
          WF_vars(Rescan(r) \/ \E a \in Addresses : ClaimRegistrationRescans(r, a))

FairSpec == Spec /\ Fairness

-----------------------------------------------------------------------------
Transfers == {<<x, i>> \in Txs \X (0..3) : i < Len(Logs[x]) /\ Logs[x][i + 1] \in Addresses}
To(t) == Logs[t[1]][t[2] + 1]
Mined(t) == blk[t[1]] # Unmined
IsBooked(t) == \E b \in bookings : b.tx = t[1] /\ b.log = t[2]

\* The address of the transfer was handed out: EnsureDepositAddress has returned.
HandedOut(t) == jobs[To(t)] # NoJob

(* A transfer is booked at most once, whichever paths reported it and      *)
(* whatever filter they used, and for the holder it was sent to: the key   *)
(* of CreateBooking is the position in the receipt (reader.go,             *)
(* FetchDeposits).                                                         *)
BookedOnce ==
    \A b, c \in bookings : b.tx = c.tx /\ (b.log = c.log \/ b.seq = c.seq) => b = c

(* The cursor never outruns ingestion (I-52, I-53): a transfer to an       *)
(* address that was handed out, in a block at or below the cursor, is      *)
(* booked, or dead-lettered, or still in front of the rescan of its        *)
(* address.  Below the cursor nothing looks again.                         *)
CursorCovers ==
    \A t \in Transfers :
        Mined(t) /\ blk[t[1]] \in ScanStartBlock..cursor /\ HandedOut(t) =>
            \/ IsBooked(t) \/ t \in dead
            \/ jobs[To(t)].status # "completed" /\ jobs[To(t)].next <= blk[t[1]]

\* A transfer to an address that was handed out, which the chain grows deep enough past
\* for the scan to reach; and what may become of it.
Awaited(t) ==
    /\ Mined(t) /\ HandedOut(t)
    /\ blk[t[1]] \in ScanStartBlock..(MaxBlock - MaxLag - confirmationDepth + 1)
Served(t) == IsBooked(t) \/ t \in dead \/ ~Mined(t)

\* No path of the scan loses a transfer, and none books it again.
ScanSound == CursorCovers /\ BookedOnce
=============================================================================
