---------------------------- MODULE Attestation ----------------------------
(***************************************************************************)
(* The batch attestation chain and its external anchor:                    *)
(*   service/attestation.go      RunAttestBatch, catchUpAnchor,            *)
(*   core/attestation.go         the digests and the root hash,            *)
(*   postgres/attestation_store.go  ledger_attestations,                   *)
(*                               entry_attestations, anchor_observations,  *)
(*   anchors/r2/r2.go            one create-only object per seq.           *)
(* Several replicas run the job, with or without the advisory lock that    *)
(* normally keeps them apart: a step here is one query or one external     *)
(* call, and a replica may die between any two of them.                    *)
(*                                                                         *)
(* A hash is modelled by the value it is taken of, so two hashes are equal *)
(* exactly when their inputs are (no collisions).  The Merkle root of a    *)
(* batch is the sequence of its leaves; the tree built over them is in     *)
(* module Merkle.                                                          *)
(***************************************************************************)
EXTENDS Integers, Sequences, FiniteSets, FiniteSetsExt

CONSTANTS Replicas,    \* processes that run the attestation job
          Journals,    \* journal ids, 1..n; journal j has entries 2j-1 and 2j
          TxMode,      \* the journals posted inside a caller's transaction, unsigned
          HasVerifier, \* an AuthVerifier is configured: batches carry verdicts
          BatchSize,   \* the most entries of one batch
          CatchUpPage, \* catchUpPageSize
          MaxSeq,      \* bound: the chain is not explored past this seq
          LastPost,    \* bound: a journal is posted while the chain is at most this long
          MaxFaults    \* bound: failed or unanswered calls, and crashes

ASSUME AttestationAssumption == BatchSize \in Nat \ {0} /\ CatchUpPage \in Nat \ {0}

VARIABLES entries,   \* journal_entries: id -> content, the rows that exist
          rows,      \* ledger_attestations: seq -> row
          covered,   \* entry_attestations: entry id -> [seq, leaf, verdict]
          objects,   \* the anchor: seq -> published root
          observed,  \* MAX(observed_seq) of anchor_observations
          att,       \* the locals of each replica's run
          faults

dbVars == <<entries, rows, covered, observed>>
attVars == <<dbVars, objects, att, faults>>

Genesis == [seq |-> 0]  \* GenesisRoot, 32 zero bytes
Posted == 1             \* the content an entry was posted with
Unauthorized == "unauthorized"
Authorized == "authorized"
Unknown == ""

\* The entries of journal j, and the journal of entry id.
EntriesOf(j) == {2 * j - 1, 2 * j}
JournalOf(id) == (id + 1) \div 2
Latest == Max(DOMAIN rows \cup {0})
IdsOf(batch) == {batch[i].id : i \in DOMAIN batch}

\* f where it is defined, and g elsewhere.
Over(f, g) == [x \in DOMAIN f \cup DOMAIN g |-> IF x \in DOMAIN f THEN f[x] ELSE g[x]]

---------------------------------------------------------------------------
\* core/attestation.go and core/auth.go

\* The encoding of one entry, which is also its Merkle leaf.
EncodeAttestedEntry(id) == [id |-> id, content |-> entries[id]]

\* Entry ids in ascending order, as every query here returns them.
Ascending(ids) ==
    [i \in 1..Cardinality(ids) |-> CHOOSE x \in ids : Cardinality({y \in ids : y < x}) = i - 1]

\* The digest of a batch: injective in the entries and their order.
CanonicalBatchDigest(batch) == batch

MerkleRoot(leaves) == leaves

AuthVerdictDigest(batch, verdict) ==
    [i \in DOMAIN batch |-> <<batch[i].id, verdict[JournalOf(batch[i].id)]>>]

\* Root hash v3, or v2 when the batch carries no verdicts.
AttestationRootHash(seq, prev, digest, merkle, verdicts, count) ==
    [seq |-> seq, prev |-> prev, digest |-> digest, merkle |-> merkle,
     verdicts |-> verdicts, count |-> count]

\* A journal verifies when it was signed and every entry of it is still what
\* was signed.
VerifyJournalAuth(j) ==
    /\ j \notin TxMode
    /\ \A id \in EntriesOf(j) : id \in DOMAIN entries /\ entries[id] = Posted

\* One verification for each distinct journal.
VerdictsForJournals(js) ==
    [j \in js |-> IF VerifyJournalAuth(j) THEN Authorized ELSE Unauthorized]

---------------------------------------------------------------------------
\* The queries

Uncovered == DOMAIN entries \ DOMAIN covered

\* Fault: the batch starts after the highest entry covered so far.
UncoveredAfterHighest(limit) ==
    LET top == Max(DOMAIN covered \cup {0})
        ids == {id \in DOMAIN entries : id > top}
        asc == Ascending(ids)
    IN  [i \in 1..Min({limit, Len(asc)}) |-> EncodeAttestedEntry(asc[i])]

\* The oldest entries no attestation covers: a fact of the tables, whatever
\* order the entries were committed in.
ListUncoveredEntries(limit) ==
    LET asc == Ascending(Uncovered)
    IN  [i \in 1..Min({limit, Len(asc)}) |-> EncodeAttestedEntry(asc[i])]

ListAttestationsFrom(from, limit) ==
    LET asc == Ascending({s \in DOMAIN rows : s >= from})
    IN  [i \in 1..Min({limit, Len(asc)}) |-> [seq |-> asc[i], row |-> rows[asc[i]]]]

\* Fault: no unique index on seq and no primary key on the entry.
InsertUnchecked(seq, row, batch, verdict) ==
    /\ rows' = Over([s \in {seq} |-> row], rows)
    /\ covered' = Over([id \in IdsOf(batch) |-> [seq |-> seq,
                           leaf |-> batch[CHOOSE i \in DOMAIN batch : batch[i].id = id],
                           verdict |-> verdict[JournalOf(id)]]], covered)

\* One transaction: the row, unique by seq, and its coverage, unique by entry.
InsertAttestation(seq, row, batch, verdict) ==
    /\ seq \notin DOMAIN rows
    /\ IdsOf(batch) \cap DOMAIN covered = {}
    /\ rows' = Over([s \in {seq} |-> row], rows)
    /\ covered' = Over([id \in IdsOf(batch) |-> [seq |-> seq,
                           leaf |-> batch[CHOOSE i \in DOMAIN batch : batch[i].id = id],
                           verdict |-> verdict[JournalOf(id)]]], covered)

\* ledger_record_anchor_observation refuses a seq ahead of the chain.
RecordAnchorObservation(seq) ==
    observed' = IF seq <= Latest THEN Max({observed, seq}) ELSE observed

---------------------------------------------------------------------------
\* anchors/r2: one object per seq, created and never overwritten

AnchorHead == Max(DOMAIN objects \cup {0})

\* The conditional put: the first writer of a seq wins, the same bytes again
\* are a replay.
Put(seq, root) == objects' = Over(objects, [s \in {seq} |-> root])

PublishAccepted(seq, root) == seq \in DOMAIN objects => objects[seq] = root

---------------------------------------------------------------------------
\* The job of one replica

Idle == [at |-> "idle", from |-> 0, todo |-> <<>>, latest |-> 0, prev |-> Genesis,
         batch |-> <<>>, row |-> Genesis, verdict |-> <<>>]

Go(r, to) == att' = [att EXCEPT ![r].at = to]
At(r, where) == att[r].at = where

\* A call to the anchor or the database fails; a bounded number of times.
Fault == faults < MaxFaults /\ faults' = faults + 1

\* A journal commits, its two entries together; ids were handed out earlier,
\* so journals become visible in any order.
PostJournal(j) ==
    /\ Latest <= LastPost
    /\ EntriesOf(j) \cap DOMAIN entries = {}
    /\ entries' = Over(entries, [id \in EntriesOf(j) |-> Posted])
    /\ UNCHANGED <<rows, covered, observed, objects, att, faults>>

Start(r) ==
    /\ At(r, "idle")
    /\ Go(r, "head")
    /\ UNCHANGED <<dbVars, objects, faults>>

\* catchUpAnchor: read the anchor's head and remember it before anything else.
\* Recording may fail without stopping the catch-up.
ReadHead(r) ==
    /\ At(r, "head")
    /\ \/ /\ RecordAnchorObservation(AnchorHead)
          /\ UNCHANGED faults
       \/ Fault /\ UNCHANGED observed
    /\ att' = [att EXCEPT ![r].at = "list", ![r].from = AnchorHead]
    /\ UNCHANGED <<entries, rows, covered, objects>>

\* The head could not be read: no catch-up in this run.
HeadUnavailable(r) ==
    /\ At(r, "head")
    /\ Fault
    /\ Go(r, "latest")
    /\ UNCHANGED <<dbVars, objects>>

\* The gap between the anchor's head and the chain, one page of it.
ListMissing(r) ==
    /\ At(r, "list")
    /\ LET gap == IF Latest <= att[r].from THEN <<>>
                  ELSE ListAttestationsFrom(att[r].from + 1, CatchUpPage)
       IN  att' = [att EXCEPT ![r].at = IF gap = <<>> THEN "latest" ELSE "catchup",
                              ![r].todo = gap]
    /\ UNCHANGED <<dbVars, objects, faults>>

\* Publish seq, then record that the anchor holds it.  The anchor may refuse
\* or be away, and an object may be created although the answer is lost; a
\* failure to record does not undo the publish.
Publish(seq, root, ok) ==
    \/ /\ ok
       /\ PublishAccepted(seq, root)
       /\ Put(seq, root)
       /\ RecordAnchorObservation(seq)
       /\ UNCHANGED faults
    \/ /\ PublishAccepted(seq, root)
       /\ Put(seq, root)
       /\ Fault
       /\ UNCHANGED observed
    \/ /\ ~ok
       /\ Fault
       /\ UNCHANGED <<objects, observed>>
    \/ /\ ~ok
       /\ ~PublishAccepted(seq, root)
       /\ UNCHANGED <<objects, observed, faults>>

\* The next missing attestation; the first failure ends the catch-up.
CatchUp(r) ==
    /\ At(r, "catchup")
    /\ \E ok \in BOOLEAN :
          /\ Publish(Head(att[r].todo).seq, Head(att[r].todo).row.root, ok)
          /\ LET left == IF ok THEN Tail(att[r].todo) ELSE <<>>
             IN  att' = [att EXCEPT ![r].todo = left,
                                    ![r].at = IF left = <<>> THEN "latest" ELSE "catchup"]
    /\ UNCHANGED <<entries, rows, covered>>

\* The chain's current end.  (Bound: a run at MaxSeq stops here.)
ReadLatest(r) ==
    /\ At(r, "latest")
    /\ att' = [att EXCEPT ![r].at = IF Latest < MaxSeq THEN "entries" ELSE "idle",
                          ![r].latest = Latest,
                          ![r].prev = IF Latest = 0 THEN Genesis ELSE rows[Latest].root]
    /\ UNCHANGED <<dbVars, objects, faults>>

ReadEntries(r) ==
    /\ At(r, "entries")
    /\ att' = [att EXCEPT ![r].at = "sign", ![r].batch = ListUncoveredEntries(BatchSize)]
    /\ UNCHANGED <<dbVars, objects, faults>>

\* The verdicts are taken from the live journals, the digests from the
\* entries read before; the root is signed outside any transaction.  An empty
\* batch is signed too.
Sign(r) ==
    /\ At(r, "sign")
    /\ LET batch == att[r].batch
           js == {JournalOf(id) : id \in IdsOf(batch)}
           verdict == IF HasVerifier THEN VerdictsForJournals(js)
                      ELSE [j \in js |-> Unknown]
           vd == IF HasVerifier THEN AuthVerdictDigest(batch, verdict) ELSE <<>>
           digest == CanonicalBatchDigest(batch)
           merkle == MerkleRoot(batch)
           root == AttestationRootHash(att[r].latest + 1, att[r].prev, digest, merkle, vd, Len(batch))
       IN  att' = [att EXCEPT ![r].at = "insert", ![r].verdict = verdict,
                     ![r].row = [count |-> Len(batch), digest |-> digest, merkle |-> merkle,
                                 verdicts |-> vd, prev |-> att[r].prev, root |-> root,
                                 signature |-> root]]
    /\ UNCHANGED <<dbVars, objects, faults>>

SignFails(r) ==
    /\ At(r, "sign")
    /\ Fault
    /\ att' = [att EXCEPT ![r] = Idle]
    /\ UNCHANGED <<dbVars, objects>>

Insert(r) ==
    /\ At(r, "insert")
    /\ InsertAttestation(att[r].latest + 1, att[r].row, att[r].batch, att[r].verdict)
    /\ att' = [att EXCEPT ![r] = [Idle EXCEPT !.at = "publish", !.latest = att[r].latest + 1,
                                                      !.row = att[r].row]]
    /\ UNCHANGED <<entries, observed, objects, faults>>

\* Another replica took the seq, or covered one of the entries, first.
InsertRefused(r) ==
    /\ At(r, "insert")
    /\ \/ att[r].latest + 1 \in DOMAIN rows
       \/ IdsOf(att[r].batch) \cap DOMAIN covered # {}
    /\ att' = [att EXCEPT ![r] = Idle]
    /\ UNCHANGED <<dbVars, objects, faults>>

\* The new attestation is published once its row is committed; a failure is
\* left to a later run's catch-up.
PublishNew(r) ==
    /\ At(r, "publish")
    /\ \E ok \in BOOLEAN : Publish(att[r].latest, att[r].row.root, ok)
    /\ att' = [att EXCEPT ![r] = Idle]
    /\ UNCHANGED <<entries, rows, covered>>

Crash(r) ==
    /\ ~At(r, "idle")
    /\ Fault
    /\ att' = [att EXCEPT ![r] = Idle]
    /\ UNCHANGED <<dbVars, objects>>

RunAttestBatch(r) ==
    \/ Start(r) \/ ReadHead(r) \/ HeadUnavailable(r) \/ ListMissing(r) \/ CatchUp(r)
    \/ ReadLatest(r) \/ ReadEntries(r) \/ Sign(r) \/ SignFails(r) \/ Insert(r)
    \/ InsertRefused(r) \/ PublishNew(r)

AttInit ==
    /\ entries = <<>>
    /\ rows = <<>>
    /\ covered = <<>>
    /\ objects = <<>>
    /\ observed = 0
    /\ att = [r \in Replicas |-> Idle]
    /\ faults = 0

AttNext ==
    \/ \E j \in Journals : PostJournal(j)
    \/ \E r \in Replicas : RunAttestBatch(r) \/ Crash(r)

AttSpec == AttInit /\ [][AttNext]_attVars

\* Every replica's job runs again and again, and each of its steps is taken
\* (the worker's ticker; a failing run is repeated at the next tick).
AttFairSpec == AttSpec /\ \A r \in Replicas : WF_attVars(RunAttestBatch(r))
---------------------------------------------------------------------------
\* Properties

\* However many replicas run the job at once, the chain has no gap and no
\* fork: each attestation is signed over the root of the one before it
\* (RunAttestBatch reads the end of the chain long before it inserts).
ChainLinked ==
    \A s \in DOMAIN rows :
        /\ rows[s].prev = IF s = 1 THEN Genesis ELSE rows[s - 1].root
        /\ rows[s].signature = AttestationRootHash(s, rows[s].prev, rows[s].digest, rows[s].merkle,
                                                   rows[s].verdicts, rows[s].count)

\* What a batch is signed over is what the coverage table says it covers:
\* replicas that read the same uncovered entries never both cover them.
CoverageMatchesBatch ==
    \A s \in DOMAIN rows :
        /\ IdsOf(rows[s].digest) = {id \in DOMAIN covered : covered[id].seq = s}
        /\ Len(rows[s].digest) = rows[s].count

\* The anchor never holds a root the database did not commit, whichever
\* replica published it and however often; and the database never remembers
\* more of the anchor than the anchor holds (publish before commit, or record
\* before publish, would break it).
AnchorAgrees ==
    /\ \A s \in DOMAIN objects : s \in DOMAIN rows /\ objects[s] = rows[s].root
    /\ observed <= AnchorHead

\* Chain, coverage and anchor agree, whichever replicas run and wherever they die.
ChainSound == ChainLinked /\ CoverageMatchesBatch /\ AnchorAgrees
===========================================================================
