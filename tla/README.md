# Verification of the ledger: TLA+ models and proofs

This directory holds TLA+ models of the ledger, the TLC configurations that
check them on small instances, and proofs that TLAPS checks for every instance.

The ledger is a Go library over PostgreSQL. No process of its own orders the
operations: every caller opens a transaction at READ COMMITTED, background jobs
run on every replica, and correctness rests on advisory and row locks, look-ups
repeated under a lock, leases with tokens, idempotency keys and the order of
statements. The models are about that. In all of them a step is one SQL
statement, one call to an outside service or one access to shared memory, so
that every interleaving READ COMMITTED allows is a behaviour; uncommitted rows
stay with their transaction and COMMIT publishes them at once; a transaction or
a process may die between any two steps.

## Parts and modules

| Part | Code | Module |
|---|---|---|
| Journal write path | `postgres/ledger_store.go` | `LedgerStore` |
| Period close | `postgres/period_close_store.go` | `PeriodClose`, over `LedgerStore` |
| Checkpoints, rollup queue, rebuild, balance reads | `service/rollup.go`, `postgres/rollup_adapter.go`, `checkpoint_integrity_store.go` | `Rollup`, over `LedgerStore` |
| Reservations, capture, expiry | `postgres/reserver_store.go`, `reserver_discharge_auth.go`, `capture.go`, `service/expiration.go` | `Reserver` |
| Bookings, events, journal links, expiry | `postgres/booking_store.go`, `ledger_store.go`, `service/expiration.go` | `Booking` |
| Pending deposits | `postgres/pending_store.go` | `Pending` |
| Reversals | `postgres/reversal_fraction_store.go` | `Reversal`, over `Money` |
| Account policies | `postgres/account_policy_*.go` | `AccountPolicy` |
| Exchange | `exchange.go` | `Exchange` |
| Event delivery | `postgres/event_store.go`, `service/delivery` | `Delivery`, implements `Outbox` |
| On-chain scan | `service/onchain.go`, `postgres/chain_cursor_store.go`, `registration_rescan_store.go` | `DepositScan` |
| Deposit life, review, reorganisations | `service/onchain.go`, `postgres/deposit_reorg_store.go` | `Deposit` |
| Sweeps to the treasury | `service/onchain.go`, `chains/evm/sweeper.go` | `Sweep` |
| Attestation chain and anchor | `service/attestation.go`, `anchors/r2` | `Attestation` |
| Verification, verified balance | `service/attest_verify.go`, `postgres/verified_balance_store.go` | `LedgerVerify`, over `Attestation` |
| Daily snapshots | `service/snapshot*.go` | `Snapshots` |
| Reconciliation | `service/reconcile.go` | `ReconcileScan` (the paged scan), `Reconcile` (the rest of the suite) |
| Locked jobs, worker | `service/locked_job.go`, `worker.go` | `Worker` |
| Partitions | `service/partition.go` | `Partitions` |
| Migrations | `postgres/migrate.go` | `Migrate` |
| Configuration rows, dimension cache, presets | `postgres/dims.go`, `presets/templates.go` | `Config` |
| Amounts, Merkle trees, lifecycles (pure functions) | `core/money.go`, `core/merkle.go`, `core/types.go` | `Money`, `Merkle`, `Lifecycle` and their `*Inputs` |

`PROJECT.json` gives, for every definition, the lines of the source it
translates, and lists every hazard at the line where it bites.

### State and actions, module by module

**LedgerStore.** `pc` is the place in `postJournalWithQueries` (look-up,
idempotency lock, second look-up, period barrier, gate, balance locks, inserts)
or in `preacquireBatchLocks`; `txJ`/`txE` are its uncommitted rows. `answers` is
what callers were told; a COMMIT may go unacknowledged. Keys and pairs are
numbers, in the order in which the code sorts them. Amounts are left out: which
rows exist, and when, does not depend on them. A journal rejected for its
content is a `Rollback`. The unique index on the key is left out on purpose: the
locks are shown to be enough.

**PeriodClose** adds operators: BEGIN fixes `created_at`, then they poll for the
exclusive half of the barrier, insert and commit, or give up.

**Rollup** adds the queue, workers, the rebuild operator and readers. A balance
is the multiset of entry ids it sums, so that an entry counted twice or not at
all is visible. A claim may run out at any time, since no bound on a worker's
speed is assumed. The queue keeps the one unprocessed row a dimension may have.

**Reserver** is one (holder, currency) pair: rows, receipts and legs, row locks,
the verified-balance gate, Capture, the sweep and a clock. The available balance
falls only through Capture, the way `capture.go` asks hosts to spend. A sweep
handles one reservation at a time, since nothing joins the members of its batch.
The verifier of the gate always answers, and hosts and database share one clock.

**Booking** follows CreateBooking, Transition with its receipts, PostJournal with
an event, and the recipe of RunInTx that does both in one transaction. A journal
that names an event and the row of its booking are linked by the statements the
code uses, with their locks.

**Pending**, **Reversal**, **AccountPolicy** and **Exchange** are statement by
statement too. In Reversal entries have amounts and are split by the arithmetic
of `Money`, in which a decimal is a coefficient and an exponent. AccountPolicy
resolves the policy of each dimension in a statement of its own. Exchange is the
whole transaction, beside posts and holds that take the same locks in their own
order.

**Delivery** has leases: the claim moves `next_attempt_at`, and the token is
known by its owner. **Outbox** is what delivery promises, without workers or
leases: published events are handed to whoever wants them, perhaps repeatedly,
until all have taken them or the attempts are used up, and that is final.

**DepositScan**, **Deposit** and **Sweep** have the chain as environment: it grows,
replaces shallow blocks, and its node lags, errs or denies what it has. Threads
act on what they read; only the transition looks at the row again. Nonces and
fee bumps live where the code keeps them: rows, or one process's memory.

**Attestation** and **LedgerVerify** take a hash for the value it is taken of, so
there are no collisions. Damage to rows or to the anchor is an environment step
in LedgerVerify: it is what verification is there to notice. A call that fails during a
run of VerifyLedger becomes the finding the code makes of it (an unreadable leaf set or
anchor object is TAMPERED there, not NOT_RUN); `failed` keeps those apart, so that
`VerdictsSound` can say that every finding on a sound ledger is an unsigned journal, such
a failure, or an anchor that moved between two reads. An edited entry is named in the
report unless its batch is `Blurred`: one of its leaves or its root is damaged, gone or
unread, or the chain was truncated.

**Reconcile** has one action per check, in the suite's order, beside the operations
that change the tables and the defects the checks exist for. Derived tables hold rows or
none, as in the code: a check that starts from the rows of a table does not see a row that
is missing. The system-rollup check reads the rollups and the entries in two queries.
**ReconcileScan** has the cursor row that overlapping runs share.

**Worker** has replicas, a session lock per job and a pool of connections.
**Migrate** has several runs on one cluster, whose roles the databases share. `member`
are the memberships in ledger_owner that runs granted, `operated` those an operator did,
with their options; `left` records how a run came to leave one behind: the revoke failed
and the caller was told, the process was killed, or the answer to the GRANT was lost.
**Config** has installers of two releases, callers with their own transaction,
posters and an operator. **Snapshots** has the daily job and the backfill on several
replicas, and **Partitions** its job, beside postings that carry a business day and a
transaction start. A snapshot row keeps when it was listed and when it was written;
`Missed` are the entries that fall between the two and that no timestamp gives away.

**MoneyInputs**, **MerkleInputs** and **LifecycleInputs** enumerate inputs, one per
state, and compare the code's algorithm with a reference definition. Rounding down or up
leaves a decimal that is already exact with the exponent it has, so a conversion in those
modes refuses an exact product with too many digits (1.0 times 1.0 at one digit); the
properties say when.

Definitions that begin with `\* Fault:` are variants of the definition after them,
each with a plausible mistake; `PROJECT.json` names the property each must break.

## Runs

The `MC*` modules give constants their values. MCBusiness, MCChain, MCAudit and
MCLive are suites: a variable `part` chooses, in the initial state, the component
a behaviour is about, and the variables of the others stay out of use. The suites
extend the components that theorems are about and instantiate the others. A suite
explores exactly the union of its instances. It says nothing about interactions
of its parts; modules that interact are composed for real (PeriodClose and Rollup
with LedgerStore, LedgerVerify with Attestation). MCBooks has these compositions in
four cuts, chosen the same way.

| Run | Checks | Distinct states |
|---|---|---|
| `books` | `OneJournalPerKey`, `NoWaitCycle`, `VisibleInIdOrder` (LedgerStore), `NoWriteBehindLine`, `RetryAnswered` (PeriodClose), `CheckpointExact`, `ReadExact` (Rollup) | 583,210 |
| `reserve` | `HoldsCovered`, `AppliedOnce`, `RetryNotRefused` | 1,816,434 |
| `business` | `HistorySound`, `LinksAgree` (Booking), `NeverOverdrawn` (Pending), `ReversalsSound`, `PolicyRespected`, `BooksSound` (Exchange), `ConfigSound`, `ArithmeticExact`, `LifecycleExact` | 1,266,182 |
| `chain` | `ScanSound`, `CreditSound` (Deposit), `SweepsSound` | 1,727,704 |
| `audit` | `ChainSound`, `VerdictsSound`, `SnapshotReadSound`, `GreenMeansClean`, `ReportSound`, `JobsSound`, `MigrationsSound`, `MerkleExact` | 2,014,925 |
| `live` | `KeepsPromise` (Delivery implements Outbox, fairness included), `EveryEventSettles`, `WritersNotBlocked` (PeriodClose), `CatchesUp` (Rollup), `ExpiredLeave` (Reserver, Booking), `TransfersSettle` (DepositScan, Deposit, Sweep), `AnchorCatchesUp`, `JobsGoOn`, `DriftReported`, `DefaultDrains` | 346,724 |
| `period_last` | **violated**: `LastCloseHolds` (MCBooks) | |
| `reserve_partial` | **violated**: `SweepKeepsPartial` (Reserver alone) | |
| `deposit_review` | **violated**: `OnlyHumansLeaveReview` (Deposit alone) | |
| `snapshots` | **violated**: `SnapshotReadsCorrect` (MCAudit) | |
| `gate` | **violated**: `GateChecksAll` (MCAudit) | |
| `migrate` | **violated**: `NeverDirtyForAuthority` (MCAudit) | |

Each passing run takes two to four minutes with two workers, a violated one seconds.

The violated runs are disagreements between the code and its comments or documents:

- `period_last`: `created_at` is the start of a transaction, so of two
  overlapping closes the one that started first and committed last reports
  success and is never active.
- `reserve_partial`: the sweep lists a reservation as active while a partial
  settlement that passed its expiry check is uncommitted; Release waits for the
  row and then releases it with the settled part recorded.
- `deposit_review`: a thread that read `confirming`, passed the gate and was
  overtaken by the one that parked the booking moves it from `review` to
  `confirmed`.
- `snapshots`: an entry whose transaction began before a day's first snapshot row and
  committed after the row's balance was listed is in no row and makes none stale, so
  GetSnapshotBalances returns the day without it; `docs/INVARIANTS.md:839` calls these
  reads "guaranteed correct". `SnapshotReadSound` says that these are the only ones missed.
- `gate`: VerifiedBalance lists, checks and then sums in queries of their own, so a journal
  committed in between is counted unchecked; the comment above the sum says each one "just
  passed a live check". `VerdictsSound` makes the promise for the journals listed.
- `migrate`: a credential an operator made a member of ledger_owner without ADMIN OPTION,
  as the refusal's text asks, passes the preparation and fails at 001's own GRANT, which
  leaves the database dirty; `migrate.go:374` calls that unreachable. `MigrationsSound`
  says that it happens to no other credential.

### Bounds

Two or three clients are enough for the races here: each involves one holder of
a lock and one or two that wait, and two keys and two pairs give every lock
order. Batches of two inputs and journals of two legs in opposite orders are
included. One fault (a crash, a failure, an unanswered call, a damaged row) falls
at every point of a behaviour. `MaxCalls`, `MaxCloses`, `MaxTime`, `MaxFaults` and
the other `Max*` constants bound counters; behaviours stop when they are used up,
which is why the configurations do not check for deadlock. Waiting in a circle is
a property of its own (`NoWaitCycle`, `WritersNotBlocked`, the progress properties
of `live`). The theorems below hold without the bounds.

The cuts of MCBooks are three callers; two callers and two operators who close periods;
two rollup workers that may fail against the write path; one that does not, against a
rebuild, a reader and the write path. In MCReserver one part is a store with signing and
the gate, the other one without. Symmetry is used only in runs without liveness.

In MCAudit verification is checked three times: `verify` has two attestations, an unsigned
journal and one damage beside the running job, `faulty` a call that fails at any read
together with one damage, `damaged` two damages at once. `snapshots` has two replicas and
two runs, so that a day is rewritten or backfilled over an earlier row; `classes` has two
classes, one replica and one run. The reconciliation suite runs after up to three
operations on deposits and withdrawals (`suite`) or two on settlements (`settle`), with one
defect and one failing query; every defect the checks exist for is reached. The sliced scan has
three pairs of at most one entry each. `migrate` has two runs under one credential,
`operate` two under different ones with the operator's grants.

In MCLive delivery has three parts: two events, changing subscribers and in-process
handlers. Jobs have two: two replicas with one job, and one replica with two jobs that
compete for a pool of three connections. Its sweep has no deaths, and fees that stay below
the ceiling; MCChain has the deaths (`sweep`), and the market and a bump above the ceiling
(`ceiling`).

### Fairness

Weak fairness but for one case, on steps the code repeats or continues, and never on a
rollback, a failure, a crash or a caller's decision to call. A call under way goes
on while its next statement can run. The worker's loops tick for ever: rollup
workers, expiry sweeps, scan, recheck, token sweeps, attestation, reconciliation,
partitions. A lease or a stuck timer runs out. A poll of ClosePeriod ends by its
budget. Blocks are mined. `DequeueRollupBatch` takes rows by age, so every
dimension's row is claimed in the end (fairness per dimension). A replica that died
is restarted (`Worker`), as the deployment's supervisor does. Strong fairness is assumed
of the steps of a locked job's tick: ticks compete for the connections of a pool, and
pgxpool serves those who wait in order. `JobsGoOn` further needs a pool larger than the
number of locked jobs, an assumption of the instance and not of the code or its documents.

## Proofs

TLAPS proves the following for all values of the constants, without bounds on
clients, replicas, keys, calls, closes or faults.

| Module | Theorem | Says |
|---|---|---|
| `LedgerStoreProofs` | `PostTypeCorrect` | variables keep their types |
| | `IdempotentPosting` | `[]OneJournalPerKey` |
| | `DurableAnswers` | who was told "ok" has its journal in the database |
| | `RetriesAnswered` | `RetryAnswered`, an action property: once a journal is committed its key is answered with it |
| | `VisibleInOrder` | `VisibleInIdOrder`: entries of a pair are committed in id order |
| | `NoDeadlock` | `[]NoWaitCycle` |
| `BalanceProofs` | `LineHolds` | `NoWriteBehindLine` |
| | `RetriesAcrossCloses` | `RetryAnswered`, with closes |
| | `CheckpointsExact` | `[]CheckpointExact` |
| | `ReadsExact` | `ReadExact` |
| `ReserverProofs` | `NoOverSell` | `[]HoldsCovered` |
| | `DischargedOnce` | `[]AppliedOnce` |
| | `RetriesSucceed` | `RetryNotRefused` |
| | `ReserverInvariant` | the inductive invariant behind the three |
| `PendingProofs` | `PendingNeverOverdrawn` | `[]NeverOverdrawn` |
| | `PendingInvariant` | the inductive invariant behind it |
| `BookingProofs` | `LinksSound` | `[]LinksAgree` |
| | `HistoriesSound` | `[]HistorySound` |
| | `BookingInvariant` | the inductive invariant behind the two |
| `DepositProofs` | `CreditsSound` | `[]CreditSound`, if a node wrongly denies a transfer fewer times than either threshold of misses |
| | `CreditedWhenConfirmed` | without that proviso, the first two of its three parts |
| `SweepProofs` | `SweepsAreSound` | `[]SweepsSound`, in behaviours in which the node forgets no transaction |
| | `SweepsLanded` | without that proviso, `[]ConfirmedLanded` |
| | `SweepInvariant` | the inductive invariant behind the first |
| `JobProofs` | `ChainsSound` | `[]ChainSound` |
| | `ChainGrows` | an action property: attestations are only added, one at a time, at the end |
| | `AttestationInvariant` | the inductive invariant behind the two |
| | `JobsAreSound` | `[]JobsSound` |
| | `WorkerInvariant` | the inductive invariant behind it |
| | `LeasesSound` | the invariant of the leases |
| | `Refinement` | every behaviour of Delivery is one of Outbox (safety part of `KeepsPromise`) |

`BalanceProofs` is about PeriodClose and Rollup and builds on `LedgerStoreProofs`;
`JobProofs` is about Attestation, Worker and Delivery. `ReserverProofs` opens with the
lemmas about sums; `PendingProofs` takes them from there.

### Assumptions

They are those of the modules that declare the constants, and TLC evaluates them
in the runs. `LedgerStore`: sets of sessions are disjoint, bounds are naturals, a
request has at least one input and a post exactly one. `Rollup`: the marker for
"no worker" is none, and at least one failure is allowed before a row is
abandoned. `Reserver`: amounts and lifetimes are positive, the opening balance is
not negative, and the set of reservation keys is finite (a sum over reservations
has to exist). `Pending`: deposits are positive, the sweepers are callers, and the marker
for a free lock is none. `Booking`: the sweepers are callers, amounts are positive, and the marker
"none" for a null journal is neither a journal nor a status. `Delivery`: at least one attempt; those always subscribed are
receivers. `Deposit`, `Sweep`: thresholds and the gas ceiling are positive.
`Attestation`: the batch and the page of the catch-up are not empty. `Worker`: the marker
for "no replica" is none.

Two theorems have a hypothesis besides. `CreditsSound` is about fewer wrong denials
(`FewWrong`) than the thresholds, since that is what the thresholds are for: with as many,
the code gives up a transfer the chain has. `SweepsAreSound` is about behaviours without
`NodeDrops`: a node that forgets a pending transaction reports its nonce as free, the code
gives it to another token's sweep, and two bookings are sent at one nonce until one of
them is mined. Neither restricts the constants to something no deployment has: the runs
`chain` and `live` are instances.

### Arguments

None of the properties is inductive alone.

**Write path.** `PostInv` adds what the code relies on silently: `InProgress` (the
position in the batch and the journals found agree), `LocksHeld` (at each place the
locks taken so far are held), `RowsLocked` (uncommitted rows belong to keys and
pairs whose lock their transaction holds), `IdsOrdered` (uncommitted entries of a
pair have larger ids than committed ones, because ids are drawn under the balance
lock), `KeysUnique` (after the second look-up no visible journal has the key).

**No deadlock.** `LockOrder` adds which locks are held at each place, so that a
client waiting for a lock holds only smaller ones, keys before pairs. In a set of
clients that all waited for one another, the one waiting for the largest lock would
wait for a client that waits for a larger one.

**Period close.** A writer reads the line and inserts in different statements.
`PeriodInv` says the line cannot move in between: who has passed the barrier is
among its readers until the transaction ends (`BarrierHeld`), a close past its poll
has none (`BarrierExclusive`), so what is past the gate is not behind the active
line (`InFlightAhead`).

**Rollup.** Workers, readers and operators carry a checkpoint from one statement
to the next and it may be stale when used. It is still exact, because nothing
uncommitted on its pair has an id at or below its watermark (`Good`), now or
later: ids are drawn under the balance lock and read only after commit. This is why
a late or duplicate UPSERT does no harm.

**Reservations.** The property speaks of unexpired reservations, and time passes
between a capture's expiry check and its commit. `Hold(r)` is therefore what
reservation r may still take from the balance: what is outstanding while it has not
expired, and after that the amount of a capture that holds its row lock and is past
its checks. `Covered` says that the holds, and the holds plus a reservation about to
be committed, are within the balance. It needs the locks at each place (`LocksHeld`),
that what a call read under a lock, or credited to itself from verified discharges,
is still a lower bound (`ReadsSound`), that uncommitted writes are what was checked
(`WritesSound`), that no two uncommitted claims share a key (`KeysApart`), and that a
finalisation or release carries no amount (`CallSound`; without it `AppliedOnce` is
not inductive). A discharge takes no balance lock: it only lowers the holds, and a
reservation in flight has compared its amount with more. `ReserverInv` was found with
TLC on the instances of `reserve`, with and without signing, before it was proved.

**Pending deposits.** A confirm is measured against a figure it read before it took any
lock and against the entries under the lock, a cancel against the entries alone; the
journal is posted statements later. `PendingInv` says what a call knows at each place
(`CallerKnows`): it holds the lock of its key, which nobody else does (`KeyLocksApart`);
from its second look on nothing has been posted under the key; and from the gate to the
commit it holds the lock of the user's balance, so that the amount it compared is still
there. A deposit needs only the first two, since it adds to the balance. The figure read
early may be as stale as it likes: it can only refuse more.

**Bookings.** The three tables are written by one transaction, so between its statements
they agree only with what it has pending. `BookingInv` describes that at each place:
a fresh event has an id no committed one has, above all of its booking, and goes on
from the status the row has (`Fresh`); an event being linked once more is a committed
one without a journal (`Old`); a receipt pending has a key no committed receipt has
(`Receipted`); a journal pending names the event pending, and the row pending names the
journal (`Linked`). All of it rests on the row lock (`Holds`). Receipts
and events belong together one by one (`ReceiptsSound`), which is why a key is applied
once. Two transactions never have the same event, or receipts of one key, pending
(`Apart`): the first by the sequence, the second because the insert of a receipt waits
for whoever has inserted the same key. `Walk` states the path of a booking without
CHOOSE: each event goes on from the newest before it, and the row stands where the newest
one led.

**Sums.** The balance, the holds and the settled amounts are sums over sets. The
library states induction with operator parameters, which the installed provers do
not instantiate, so `ReserverProofs` proves induction for sets of sets, and with it that
a sum moves by what one summand moves, is monotone and is additive.

**Deposits.** A thread reads the chain and the row, and posts long after. `CreditInv`
says what a call believes at each place (`Knows`): confirmations it counted from the
transfer's own block, or from the booking's block and then corroborated, mean that the
transfer was deep then; the booking's block never changes, the chain only grows, so the
belief does not age. The journal and the receipt of the confirmation are written with
the status (`RowAgrees`). `DenialInv` adds that, while the transfer has not left its block,
no replica has counted more misses than there were wrong denials (`Bounded`), so that
none is about to fail or to reverse (`Calm`).

**Sweeps.** One signer serves all tokens, and a booking is given the next free nonce two
steps before it is written and several before it is broadcast. `SweepInv` says that one
tick runs at a time, the one with the lock (`OneTick`), that the nonces taken are the first
ones and every booking's nonce has only taken ones before it (`NoncesKept`), and what a
tick has established at each step (`TickKnows`): a booking dispatched for the first time
has the first free nonce, so nobody else is at it. `LandedInv`, enough for
`ConfirmedLanded` even with a forgetful node, says that hashes on the record and in the
memory of a replica are broadcasts of the booking's own token.

**Attestations.** The replicas run with or without the advisory lock that normally keeps
them apart, so two may build the same attestation. What a replica read of the end of the chain may be overtaken, but it is still an attestation, and
what it is about to publish is committed (`InHand`); the insert refuses a number that is
taken, so the one that succeeds goes on from the last row. For the anchor it is the order
commit, publish, record that matters.

**Jobs.** A tick whose session lives holds its lock from the try to the release
(`LockKept`), nothing is emitted before a tick ends (`OutcomeOnce`), and who subscribed before
Run is in the deliverer when the report is taken (`SubscriberKnown`).

**Refinement.** Outbox has no leases. `DeliveryInv` says that the claim in a row
belongs to a worker that has not yet recorded the outcome, so that the row is pending
when it does, and that as long as no call has failed whoever is not still to be called
has taken the event. The refinement mapping is the identity on the shared variables;
every step of a worker is then a step of Outbox or a stutter.

### Only model-checked

- Liveness (all of `live` but the safety part of `KeepsPromise`): the prover does not do
  ENABLED.
- `MerkleExact`, `LifecycleExact`: recursive operators over trees and graphs.
  `ArithmeticExact` and `ReversalsSound`: rounding and allocation by folds over sequences
  of decimals; what they compute for every input would need induction over sequences.
- Sweeps beside a node that forgets transactions: only `ConfirmedLanded` is proved, and
  `live` checks that the sweeps still settle.
- Policies, exchange, the scan, verification, snapshots,
  reconciliation, partitions, migrations and configuration: nothing stands in the way in
  principle; the bounded runs are what there is.

## Where code and documentation differ

The six violated runs are findings. While modelling, these further differences were
met; no run is kept for them, and the properties above are stated so that they hold
of the code as it is.

- A transition to the status a booking is already in writes no receipt; once the booking
  has moved on its retry is refused (`postgres/booking_store.go:302`; `core/booking.go:92`
  promises the original event).
- The pending sweep cancels fresh deposits of a pair whose oldest journal was confirmed,
  and looks at that one journal for ever (`postgres/pending_store.go:678`).
- With a signer, the retry of a complete reversal is refused before its key is looked up
  (`postgres/reversal_fraction_store.go:445`). `scaleByFraction` can round twice (`:734`).
- Two concurrent first calls of SetPolicy for a whole holder leave an audit row with an
  empty old state (`postgres/account_policy_store.go:106`). A wide policy takes no balance
  lock, so a post that read the old policy may commit after it.
- A failed write of a dead letter is only logged and the scan goes on
  (`service/onchain.go:2219`); a later rescan finds the transfer while it is within the
  lookback.
- A crash between the failure of a deposit and its anomaly row leaves no row (`:2536`);
  an unverified deposit's transition to confirming conflicts with the honest one (`:2601`).
- Sweeps: when an earlier broadcast of a nonce is mined the bumps never reach their limit
  (`:3562`); a booking created but not broadcast is refused once another token used its
  nonce (`:3390`); the fee is quoted again after the ceiling was compared (`:3562`); after
  a restart a bump may bid below what is pending (`chains/evm/sweeper.go:329`).
- ReconcileAccount reads checkpoints and entry sums in two queries, so a rollup between
  them shows as drift (`service/reconcile.go:1787` says the comparison is "immune to
  in-flight rollups"); a query error leaves the report complete for every check but the
  reversal chain (`core/reconcile_extra.go:17`).
- A refresh of the dimension cache replaces the maps with what it listed, so one that
  listed earlier and stores later hides a row from a lookup that has just refreshed
  (`postgres/dims.go:171`).
- Installers of two releases that both find an empty holder_kind both set it, and the
  later one wins silently (`presets/templates.go:518`); of two concurrent first installs
  the loser fails at boot; the check of a balance role's history races an uncommitted post.
- catchUpAnchor goes on from the anchor's head, so an attestation whose publish failed and
  which a later one has overtaken is not republished (`service/attestation.go`).
- VerifyLedger reads the anchor's head before the highest head observed; a publish in
  between looks like an anchor gone backwards (`service/attest_verify.go:501`).
- A first Subscribe between the start-up report and the running flag succeeds and is never
  served (`service/worker.go`).
- A Migrate call that holds the cluster lock counts the sessions of Migrate calls waiting
  for it on the same credential and refuses (`docs/INVARIANTS.md:5204` says they are
  serialized).
- Ticks wait for one another for ever when the pool has no more connections than there are
  locked jobs: each pins one and its work needs another (`service/locked_job.go`). Nothing
  in the code or in the documents asks for a larger pool; `JobsGoOn` is checked with one.
- A database or anchor call that fails inside VerifyLedger is reported as TAMPERED in three
  places (`service/attest_verify.go:311`, `:364`, `:660`).
- The reconciliation checks of system rollups and snapshots start from the rows there are,
  so a missing row is not drift (`service/reconcile.go:1442`).
- In the modes down and up a conversion refuses an exact product with too many digits
  (`core/money.go:66`), where the half modes rescale it.
- A membership in ledger_owner whose GRANT was applied and not answered stays
  (`postgres/migrate.go:462`); a later run finds that SET ROLE works and grants nothing.
- One key used both for a post with an event and for RunInTx's recipe closes a lock circle;
  PostgreSQL aborts one. The recipe in the docs derives different keys, and so do the runs.

## Not modelled

Reporting, the HTTP server and the command line read or parse and call the stores.
JSON-RPC transport, ABI encoding, signatures and hash functions are values. The DDL of
the migrations, triggers and the tables they fill (`config_history`), metrics, logging
and option wiring are left out. Batch, role and breakdown reads of balances follow the
pattern of GetBalance. Reports that merge snapshots with live balances, the rebuild of a
checkpoint that is wrong to begin with, and a migration whose lock session is lost midway
are left out. Exchange does not model a host that swallows an error inside its own
transaction; the documentation forbids it. In LedgerVerify the damage a verdict answers
for is what stood when its queries began.
