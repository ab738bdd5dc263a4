-------------------------------- MODULE Rollup --------------------------------
(***************************************************************************)
(* Checkpoints and the rollup queue (service/rollup.go,                    *)
(* postgres/rollup_adapter.go, postgres/checkpoint_integrity_store.go)     *)
(* beside the write path of LedgerStore.  Workers claim dirty dimensions   *)
(* and fold the entries past a checkpoint into it, operators rebuild       *)
(* checkpoints and reset stuck rows, readers compute checkpoint + delta.   *)
(*                                                                         *)
(* A balance is the multiset of the entries it sums: the ids counted at    *)
(* least once and the ids counted more than once.                          *)
(***************************************************************************)
EXTENDS LedgerStore

CONSTANTS
    Workers,    \* processes running RollupService.ProcessBatch
    NoWorker,   \* claimed_until IS NULL
    Readers,    \* callers of GetBalance in tx mode (two statements)
    MaxFails,   \* failed_attempts at which a row is no longer dequeued
    MaxFaults   \* bound: failures and crashes of workers in a behaviour

ASSUME WorkersAssumption == NoWorker \notin Workers
ASSUME FailsAssumption   == MaxFails \in Nat \ {0} /\ MaxFaults \in Nat

Operators == Others     \* callers of RebuildCheckpoint

VARIABLES
    queue,      \* [Dims -> the unprocessed rollup_queue row, if any]
    cp,         \* [Dims -> balance_checkpoints row]
    wpc,        \* [Workers -> where the worker is in processItem]
    batch,      \* [Workers -> dimensions claimed and not yet processed]
    item,       \* [Workers -> dimension being processed]
    val,        \* [Workers -> checkpoint read, then checkpoint to write]
    opc,        \* [Operators -> where the operator is in RebuildCheckpoint]
    target,     \* [Operators -> dimension being rebuilt]
    reading,    \* [Readers -> dimension being read, its checkpoint, the answer]
    faults      \* failures and crashes so far

workerVars == <<wpc, batch, item, val>>
opVars     == <<opc, target>>
rollVars   == <<queue, cp, workerVars, opVars, reading, faults>>
allVars    == <<postVars, rollVars>>

Dims == Pairs \X Classes

-----------------------------------------------------------------------------
(* Balances and the reads of journal_entries.                              *)

Zero      == [once |-> {}, twice |-> {}]
Plus(b, S) == [once |-> b.once \cup S, twice |-> b.twice \cup (b.once \cap S)]

Ids(E) == {e.id : e \in E}

OnPair(p, since) == {e \in entries : e.pair = p /\ e.id > since}
OnDim(d, since)  == {e \in OnPair(d[1], since) : e.cls = d[2]}

\* The largest id in a set of entries, 0 for none.
MaxId(E) == IF E = {} THEN 0
            ELSE CHOOSE m \in Ids(E) : \A i \in Ids(E) : i <= m

Checkpoint(bal, last) == [bal |-> bal, last |-> last]

\* Fault: the delta starts at the checkpoint's last entry instead of after it.
AdvanceInclusive(d, c) == Checkpoint(Plus(c.bal, Ids(OnDim(d, c.last - 1))),
                                     MaxId(OnPair(d[1], c.last)))

\* SumEntriesSince in one REPEATABLE READ snapshot: the sum is per
\* classification, the watermark over all entries of the (holder, currency).
Advance(d, c) == Checkpoint(Plus(c.bal, Ids(OnDim(d, c.last))),
                            MaxId(OnPair(d[1], c.last)))

\* RecomputeCheckpointFromEntries.
Recompute(d) == Checkpoint(Plus(Zero, Ids(OnDim(d, 0))), MaxId(OnDim(d, 0)))

-----------------------------------------------------------------------------
(* rollup_queue: one unprocessed row per dimension at most.                *)

Unqueued == [pending |-> FALSE, claim |-> NoWorker, fails |-> 0]

Fresh(r) == [pending |-> TRUE, claim |-> NoWorker,
             fails |-> IF r.pending THEN r.fails ELSE 0]

\* EnqueueRollup: a new row, or the claim of the unprocessed one reset.
Enqueue(D) == queue' = [d \in Dims |-> IF d \in D THEN Fresh(queue[d])
                                                  ELSE queue[d]]

Owns(w, d) == queue[d].pending /\ queue[d].claim = w

\* Fault: a claimed row is never claimed again, its lease run out or not.
DequeueableOnce(d) ==
    queue[d].pending /\ queue[d].claim = NoWorker /\ queue[d].fails < MaxFails

Dequeueable(d) == queue[d].pending /\ queue[d].fails < MaxFails

RollupInit ==
    /\ PostInit
    /\ queue   = [d \in Dims |-> Unqueued]
    /\ cp      = [d \in Dims |-> Checkpoint(Zero, 0)]
    /\ wpc     = [w \in Workers |-> "idle"]
    /\ batch   = [w \in Workers |-> {}]
    /\ item    = [w \in Workers |-> <<>>]
    /\ val     = [w \in Workers |-> Checkpoint(Zero, 0)]
    /\ opc     = [o \in Operators |-> "idle"]
    /\ target  = [o \in Operators |-> <<>>]
    /\ reading = [r \in Readers |-> [dim |-> <<>>, base |-> Checkpoint(Zero, 0),
                                     ans |-> Zero]]
    /\ faults  = 0

\* The write path: COMMIT makes the EnqueueRollup of every dimension visible.
PostStep ==
    \/ /\ \E c \in Clients : Begin(c) \/ Statement(c) \/ Rollback(c)
       /\ UNCHANGED rollVars
    \/ \E c \in Clients :
          /\ Commit(c)
          /\ Enqueue(Dirtied(c))
          /\ UNCHANGED <<cp, workerVars, opVars, reading, faults>>

\* DequeueRollupBatch.  A claimed row whose lease has run out is claimed again;
\* no bound on a worker's speed is assumed, so any claim may have run out.
Dequeue(w) ==
    /\ wpc[w] = "idle" /\ batch[w] = {}
    /\ \E D \in (SUBSET {d \in Dims : Dequeueable(d)}) \ {{}} :
          /\ batch' = [batch EXCEPT ![w] = D]
          /\ queue' = [d \in Dims |-> IF d \in D
                                      THEN [queue[d] EXCEPT !.claim = w]
                                      ELSE queue[d]]
    /\ UNCHANGED <<postVars, cp, wpc, item, val, opVars, reading, faults>>

GetCheckpoint(w) ==
    /\ wpc[w] = "idle"
    /\ \E d \in batch[w] :
          /\ item' = [item EXCEPT ![w] = d]
          /\ val'  = [val EXCEPT ![w] = cp[d]]
    /\ wpc' = [wpc EXCEPT ![w] = "sum"]
    /\ UNCHANGED <<postVars, queue, cp, batch, opVars, reading, faults>>

\* The snapshot read and the new balance; no new entries on the pair: nothing
\* to write.
SumEntries(w) ==
    /\ wpc[w] = "sum"
    /\ IF OnPair(item[w][1], val[w].last) = {}
       THEN /\ wpc' = [wpc EXCEPT ![w] = "done"]
            /\ UNCHANGED val
       ELSE /\ wpc' = [wpc EXCEPT ![w] = "upsert"]
            /\ val' = [val EXCEPT ![w] = Advance(item[w], @)]
    /\ UNCHANGED <<postVars, queue, cp, batch, item, opVars, reading, faults>>

\* UpsertBalanceCheckpoint only moves last_entry_id forward.
Upsert(w) ==
    /\ wpc[w] = "upsert"
    /\ cp' = [cp EXCEPT ![item[w]] = IF @.last < val[w].last THEN val[w] ELSE @]
    /\ wpc' = [wpc EXCEPT ![w] = "mark"]
    /\ UNCHANGED <<postVars, queue, batch, item, val, opVars, reading, faults>>

FinishItem(w) ==
    /\ batch' = [batch EXCEPT ![w] = @ \ {item[w]}]
    /\ wpc'   = [wpc   EXCEPT ![w] = "idle"]
    /\ item'  = [item  EXCEPT ![w] = <<>>]
    /\ val'   = [val   EXCEPT ![w] = Checkpoint(Zero, 0)]

\* MarkRollupProcessed touches the row only under the worker's own claim.
MarkProcessed(w) ==
    /\ wpc[w] \in {"done", "mark"}
    /\ IF Owns(w, item[w])
       THEN queue' = [queue EXCEPT ![item[w]] = Unqueued]
       ELSE UNCHANGED queue
    /\ IF wpc[w] = "mark" /\ Owns(w, item[w])
       THEN /\ wpc' = [wpc EXCEPT ![w] = "recheck"]
            /\ UNCHANGED <<batch, item, val>>
       ELSE FinishItem(w)
    /\ UNCHANGED <<postVars, cp, opVars, reading, faults>>

\* Entries past the checkpoint just written dirty the dimension again; a
\* failure of this stage is swallowed.
RecheckEntries(w) ==
    /\ wpc[w] = "recheck"
    /\ FinishItem(w)
    /\ \/ /\ OnDim(item[w], val[w].last) # {}
          /\ Enqueue({item[w]})
          /\ UNCHANGED faults
       \/ /\ OnDim(item[w], val[w].last) = {}
          /\ UNCHANGED <<queue, faults>>
       \/ /\ faults < MaxFaults
          /\ faults' = faults + 1
          /\ UNCHANGED queue
    /\ UNCHANGED <<postVars, cp, opVars, reading>>

\* ReleaseRollupClaim counts the attempt; ResetRollupClaim forgets all of them.
Released(r) == [r EXCEPT !.claim = NoWorker, !.fails = @ + 1]
Reset(r)    == [r EXCEPT !.claim = NoWorker, !.fails = 0]

\* processItem returns an error: the claim is released if it is still the worker's.
FailItem(w) ==
    /\ wpc[w] \in {"sum", "upsert", "mark", "done"}
    /\ faults < MaxFaults
    /\ faults' = faults + 1
    /\ queue' = [queue EXCEPT ![item[w]] =
                    IF Owns(w, item[w]) THEN Released(@) ELSE @]
    /\ FinishItem(w)
    /\ UNCHANGED <<postVars, cp, opVars, reading>>

\* The process dies; its claims stay until their lease runs out.
CrashWorker(w) ==
    /\ batch[w] # {}
    /\ faults < MaxFaults
    /\ faults' = faults + 1
    /\ batch' = [batch EXCEPT ![w] = {}]
    /\ wpc'   = [wpc   EXCEPT ![w] = "idle"]
    /\ item'  = [item  EXCEPT ![w] = <<>>]
    /\ val'   = [val   EXCEPT ![w] = Checkpoint(Zero, 0)]
    /\ UNCHANGED <<postVars, queue, cp, opVars, reading>>

WorkerStep(w) ==
    \/ Dequeue(w) \/ GetCheckpoint(w) \/ SumEntries(w) \/ Upsert(w)
    \/ MarkProcessed(w) \/ RecheckEntries(w)

\* ResetRollupClaim (ledger-cli rollup reset-claim): any unprocessed row.
ResetRollupClaim(d) ==
    /\ queue[d].pending
    /\ queue' = [queue EXCEPT ![d] = Reset(@)]
    /\ UNCHANGED <<postVars, cp, workerVars, opVars, reading, faults>>

-----------------------------------------------------------------------------
(* RebuildCheckpoint: balance lock, refuse while a row is pending, overwrite. *)

EndRebuild(o) ==
    /\ balLock' = [balLock EXCEPT ![target[o][1]] = NoClient]
    /\ opc'     = [opc EXCEPT ![o] = "idle"]
    /\ target'  = [target EXCEPT ![o] = <<>>]
    /\ UNCHANGED <<txVars, idemLock, readers, dbVars, closeVars, answers, calls,
                   queue, workerVars, reading, faults>>

RebuildLock(o) ==
    /\ opc[o] = "idle"
    /\ \E d \in Dims :
          /\ balLock[d[1]] = NoClient
          /\ balLock' = [balLock EXCEPT ![d[1]] = o]
          /\ target'  = [target EXCEPT ![o] = d]
    /\ opc' = [opc EXCEPT ![o] = "check"]
    /\ UNCHANGED <<txVars, idemLock, readers, dbVars, closeVars, answers, calls,
                   queue, cp, workerVars, reading, faults>>

RebuildCheck(o) ==
    /\ opc[o] = "check"
    /\ \/ /\ Dequeueable(target[o])
          /\ EndRebuild(o)
          /\ UNCHANGED cp
       \/ /\ ~ Dequeueable(target[o])
          /\ opc' = [opc EXCEPT ![o] = "write"]
          /\ UNCHANGED <<postVars, target, queue, cp, workerVars, reading, faults>>

RebuildWrite(o) ==
    /\ opc[o] = "write"
    /\ cp' = [cp EXCEPT ![target[o]] = Recompute(target[o])]
    /\ EndRebuild(o)

-----------------------------------------------------------------------------
(* GetBalance on a caller's READ COMMITTED transaction: two statements.  In  *)
(* pool mode both read one snapshot, as when nothing happens in between.     *)

ReadCheckpoint(r) ==
    /\ reading[r].dim = <<>>
    /\ \E d \in Dims :
          reading' = [reading EXCEPT ![r] =
                         [dim |-> d, base |-> cp[d], ans |-> Zero]]
    /\ UNCHANGED <<postVars, queue, cp, workerVars, opVars, faults>>

\* Fault: the delta is taken from the watermark of a later checkpoint.
ReadDeltaFresh(r) ==
    /\ reading[r].dim # <<>>
    /\ reading' = [reading EXCEPT ![r] =
          [dim |-> <<>>, base |-> Checkpoint(Zero, 0),
           ans |-> Plus(@.base.bal, Ids(OnDim(@.dim, cp[@.dim].last)))]]
    /\ UNCHANGED <<postVars, queue, cp, workerVars, opVars, faults>>

ReadDelta(r) ==
    /\ reading[r].dim # <<>>
    /\ reading' = [reading EXCEPT ![r] =
          [dim |-> <<>>, base |-> Checkpoint(Zero, 0),
           ans |-> Plus(@.base.bal, Ids(OnDim(@.dim, @.base.last)))]]
    /\ UNCHANGED <<postVars, queue, cp, workerVars, opVars, faults>>

RollupNext ==
    \/ PostStep
    \/ \E w \in Workers : WorkerStep(w) \/ FailItem(w) \/ CrashWorker(w)
    \/ \E d \in Dims : ResetRollupClaim(d)
    \/ \E o \in Operators : RebuildLock(o) \/ RebuildCheck(o) \/ RebuildWrite(o)
    \/ \E r \in Readers : ReadCheckpoint(r) \/ ReadDelta(r)

RollupSpec == RollupInit /\ [][RollupNext]_allVars

\* The worker loop ticks for ever and a step it has started goes on; rows are
\* claimed oldest first, so one that stays dequeueable is not passed over.
FairRollupSpec ==
    /\ RollupSpec
    /\ \A w \in Workers :
          /\ WF_allVars(WorkerStep(w))
          /\ \A d \in Dims : WF_allVars(Dequeue(w) /\ d \in batch'[w])

-----------------------------------------------------------------------------

\* c is the balance of dimension d up to and including entry c.last.
Exact(d, c) ==
    c.bal = Plus(Zero, {e.id : e \in {f \in OnDim(d, 0) : f.id <= c.last}})

\* Every checkpoint counts each committed entry of its dimension up to its
\* last_entry_id exactly once and no other (I-5, I-23), however posts, workers
\* with lost claims, crashes and rebuilds interleave.
CheckpointExact == \A d \in Dims : Exact(d, cp[d])

\* A balance read is exact even when its two statements see different moments:
\* it counts every entry committed by the second statement exactly once.
ReadExact ==
    [][\A r \in Readers :
          reading[r].dim # <<>> /\ reading'[r].dim = <<>> =>
             reading'[r].ans = Plus(Zero, Ids(OnDim(reading[r].dim, 0)))]_allVars

Lagging(d) == OnDim(d, cp[d].last) # {}

\* Work that is owed: the checkpoint lags and its row has attempts left.
Behind(d) == Lagging(d) /\ queue[d].fails < MaxFails
=============================================================================
