--------------------------- MODULE LedgerVerify ---------------------------
(***************************************************************************)
(* service.VerifyLedger (`ledger-cli verify`) and the withdrawal gate's    *)
(* postgres.VerifiedBalanceStore.VerifiedBalance, running beside the       *)
(* attestation job of module Attestation.  Both read the tables with       *)
(* separate queries outside any transaction, so the job goes on between    *)
(* their steps.                                                            *)
(*                                                                         *)
(* Damage to the tables or to the anchor (a row edited, a row lost, an     *)
(* object gone) is an environment step: it is what the two are there to    *)
(* notice.                                                                 *)
(***************************************************************************)
EXTENDS Attestation

CONSTANTS ChainPageSize, ProbeLimit, SampleSize, \* VerifyConfig
          MaxDamage,                             \* bound: damaging steps
          MaxReads                               \* bound: runs of the verifier and the gate

VARIABLES ver,     \* the locals and the report of the VerifyLedger run
          gate,    \* the locals and the answer of the VerifiedBalance call
          damage,  \* what has been damaged: <<kind, id or seq>>
          reads

verifyVars == <<attVars, ver, gate, damage, reads>>

Changed == 2            \* an entry's content after an edit
Wrong == [seq |-> MaxSeq + 1]

---------------------------------------------------------------------------
\* Damage

\* An entry that an attestation covers is edited, or gone.
EditEntry(id) ==
    /\ entries' = [entries EXCEPT ![id] = Changed]
    /\ damage' = damage \cup {<<"edit", id>>}
    /\ UNCHANGED <<rows, covered, objects>>

LoseEntry(id) ==
    /\ entries' = [i \in DOMAIN entries \ {id} |-> entries[i]]
    /\ damage' = damage \cup {<<"lose", id>>}
    /\ UNCHANGED <<rows, covered, objects>>

\* A stored leaf hash is edited, the entry left alone.
EditLeaf(id) ==
    /\ covered' = [covered EXCEPT ![id].leaf.content = Changed]
    /\ damage' = damage \cup {<<"leaf", id>>}
    /\ UNCHANGED <<entries, rows, objects>>

\* One column of an attestation is edited.
Columns == {"digest", "merkle", "verdicts", "count", "prev", "root"}

EditRow(s, col) ==
    /\ rows' = [rows EXCEPT ![s][col] =
                  CASE col \in {"digest", "merkle"} -> Append(@, [id |-> 0, content |-> Changed])
                    [] col = "verdicts" -> Append(@, <<0, Unknown>>)
                    [] col = "count" -> @ + 1
                    [] OTHER -> Wrong]
    /\ damage' = damage \cup {<<col, s>>}
    /\ UNCHANGED <<entries, covered, objects>>

\* The newest attestation, already anchored, is gone together with its coverage.
LoseRow(s) ==
    /\ s = Latest /\ s = AnchorHead
    /\ rows' = [t \in DOMAIN rows \ {s} |-> rows[t]]
    /\ covered' = [id \in {i \in DOMAIN covered : covered[i].seq # s} |-> covered[id]]
    /\ damage' = damage \cup {<<"truncate", s>>}
    /\ UNCHANGED <<entries, objects>>

\* The anchor goes back below what was recorded of it.
LoseObject(s) ==
    /\ s = AnchorHead /\ s <= observed
    /\ objects' = [t \in DOMAIN objects \ {s} |-> objects[t]]
    /\ damage' = damage \cup {<<"anchor", s>>}
    /\ UNCHANGED <<entries, rows, covered>>

\* The damage there is now.  Of the two losses at the end of the chain one is
\* gone once the job has rebuilt the same row, the other once the catch-up has
\* published again; a truncated chain is no longer compared with the anchor
\* once later attestations are the anchor's head.  An edited column or leaf,
\* which differs from what was signed, goes with its row.  An edited or a lost
\* entry is for ever.
Standing ==
    {d \in damage :
        CASE d[1] \in Columns -> /\ d[2] \in DOMAIN rows
                                 /\ LET row == rows[d[2]]
                                    IN  IF d[1] = "root" THEN row.root # row.signature
                                        ELSE row[d[1]] # row.signature[d[1]]
          [] d[1] = "leaf" -> /\ d[2] \in DOMAIN covered
                              /\ covered[d[2]].leaf \notin Range(rows[covered[d[2]].seq].signature.merkle)
          [] d[1] = "truncate" -> /\ d[2] = AnchorHead
                                  /\ d[2] \in DOMAIN rows => rows[d[2]].root \notin {objects[d[2]], Wrong}
          [] d[1] = "anchor" -> AnchorHead < observed
          [] OTHER -> TRUE}

Damage ==
    /\ Cardinality(damage) < MaxDamage
    /\ \/ \E id \in DOMAIN covered \cap DOMAIN entries : EditEntry(id) \/ LoseEntry(id)
       \/ \E id \in DOMAIN covered : EditLeaf(id)
       \/ \E s \in DOMAIN rows : LoseRow(s) \/ \E col \in Columns : EditRow(s, col)
       \/ \E s \in DOMAIN objects : LoseObject(s)
    /\ damage' # damage
    /\ UNCHANGED <<observed, att, faults, ver, gate, reads>>

---------------------------------------------------------------------------
\* VerifyLedger

NoRun == [at |-> "idle", seq |-> 0, head |-> Genesis, next |-> 1, prev |-> Genesis, max |-> 0,
          page |-> <<>>, full |-> FALSE, found |-> {}, drift |-> {}, located |-> {}, status |-> "", before |-> {},
          failed |-> {}]     \* the findings that a failed call caused

VGo(v) == ver' = v

\* A call of the run that fails and is reported as a finding: the check of one
\* signature, or a read whose error the walk does not return.
NoFailure == <<"none", 0>>
CallFails(failed) == IF failed = NoFailure THEN UNCHANGED faults ELSE Fault

\* The entries an attestation covers that still exist, and the stored leaves.
ListEntriesForAttestation(s) ==
    LET asc == Ascending({id \in DOMAIN covered \cap DOMAIN entries : covered[id].seq = s})
    IN  [i \in DOMAIN asc |-> EncodeAttestedEntry(asc[i])]

ListLeafHashesForAttestation(s) ==
    LET asc == Ascending({id \in DOMAIN covered : covered[id].seq = s})
    IN  [i \in DOMAIN asc |-> covered[asc[i]].leaf]

\* Localisation: the leaves in which two equally long batches differ.
LocateMismatches(stored, live) ==
    IF Len(stored) # Len(live) THEN {}
    ELSE {stored[i].id : i \in {k \in DOMAIN stored : stored[k] # live[k]}}

\* Stored leaves localise only when they rebuild the signed Merkle root.
LocalizeUsingStoredLeafHashes(row, stored, live) ==
    IF MerkleRoot(stored) = row.merkle THEN LocateMismatches(stored, live) ELSE {}

Flag(cond, kind, s) == IF cond THEN {<<kind, s>>} ELSE {}

\* The stored leaves as the run has them: none when they cannot be read.
StoredLeaves(s, failed) ==
    IF failed = <<"leaves", s>> THEN <<>> ELSE ListLeafHashesForAttestation(s)

\* The batch against the entries that are there and against its stored leaves.
ContentFindings(s, row, failed) ==
    LET live == ListEntriesForAttestation(s)
        stored == StoredLeaves(s, failed)
    IN  Flag(Len(live) # row.count, "count", s)
        \cup Flag(CanonicalBatchDigest(live) # row.digest, "digest", s)
        \cup Flag(MerkleRoot(live) # row.merkle, "merkle", s)
        \cup Flag(stored # <<>> /\ MerkleRoot(stored) # row.merkle, "leaf", s)
        \cup Flag(failed = <<"leaves", s>>, "leaves", s)

\* The recorded verdicts against a live check of the batch's journals.  Without
\* the journals' material there is nothing to compare; a signature that cannot
\* be checked is an unauthorized journal.
VerdictFindings(s, row, failed) ==
    LET live == ListEntriesForAttestation(s)
        js == {JournalOf(id) : id \in IdsOf(live)}
        now == VerdictsForJournals(js)
        verdict == [j \in js |-> IF failed = <<"journal", j>> THEN Unauthorized ELSE now[j]]
    IN  IF row.verdicts = <<>> THEN {}
        ELSE IF failed = <<"material", s>> THEN {failed}
        ELSE Flag(AuthVerdictDigest(live, verdict) # row.verdicts, "verdict", s)
             \cup Flag(\E j \in js : verdict[j] = Unauthorized, "unauthorized", s)

\* What the walk reports of one attestation.
RowFindings(s, row, failed) ==
    Flag(s # ver.next, "gap", s)
    \cup Flag(row.prev # ver.prev, "prev", s)
    \cup Flag(row.signature # row.root \/ failed = <<"signature", s>>, "signature", s)
    \cup ContentFindings(s, row, failed)
    \cup VerdictFindings(s, row, failed)
    \cup Flag(AttestationRootHash(s, ver.prev, row.digest, row.merkle, row.verdicts, row.count)
              # row.root, "root", s)
    \cup Flag(s = ver.seq /\ row.root # ver.head, "anchor", s)

\* Step 1: the anchor's head, before the database is looked at.
VerifyStart ==
    /\ ver.at = "idle"
    /\ reads < MaxReads
    /\ reads' = reads + 1
    /\ VGo([NoRun EXCEPT !.at = "page", !.seq = AnchorHead, !.before = Standing,
                         !.head = IF AnchorHead = 0 THEN Genesis ELSE objects[AnchorHead]])
    /\ UNCHANGED <<attVars, gate, damage>>

\* Step 2: one page of the chain from the expected seq.
VerifyPage ==
    /\ ver.at = "page"
    /\ LET page == ListAttestationsFrom(ver.next, ChainPageSize)
       IN  VGo([ver EXCEPT !.at = IF page = <<>> THEN "observed" ELSE "row",
                           !.page = page, !.full = Len(page) = ChainPageSize])
    /\ UNCHANGED <<attVars, gate, damage, reads>>

\* Steps 2 and 3 of one attestation; neither a finding nor one of these failures
\* stops the walk.  A page that is not full is the last one.  The batch is read
\* with three queries: only damage could change it between them.
RowFailures(s) ==
    {NoFailure, <<"signature", s>>, <<"leaves", s>>, <<"material", s>>}
    \cup {<<"journal", JournalOf(id)>> : id \in IdsOf(ListEntriesForAttestation(s))}

VerifyRow ==
    /\ ver.at = "row"
    /\ \E failed \in RowFailures(Head(ver.page).seq) :
       LET a == Head(ver.page)
           left == Tail(ver.page)
           new == RowFindings(a.seq, a.row, failed)
           mismatch == \E k \in {"count", "digest", "merkle", "leaf"} : <<k, a.seq>> \in new
       IN  /\ CallFails(failed)
           /\ VGo([ver EXCEPT
                 !.found = @ \cup new,
                 !.failed = @ \cup (new \ RowFindings(a.seq, a.row, NoFailure)),
                 !.located = IF mismatch
                             THEN @ \cup LocalizeUsingStoredLeafHashes(a.row,
                                            StoredLeaves(a.seq, failed),
                                            ListEntriesForAttestation(a.seq))
                             ELSE @,
                 !.prev = a.row.root, !.max = a.seq, !.next = a.seq + 1, !.page = left,
                 !.at = IF left # <<>> THEN "row"
                        ELSE IF ver.full THEN "page" ELSE "observed"])
    /\ UNCHANGED <<dbVars, objects, att, gate, damage, reads>>

\* The anchor against the chain, and against what was recorded of it.
VerifyObserved ==
    /\ ver.at = "observed"
    /\ VGo([ver EXCEPT !.at = "probe",
              !.found = @ \cup (IF ver.seq > ver.max THEN {<<"ahead", ver.seq>>} ELSE {})
                          \cup (IF ver.seq < observed THEN {<<"regressed", ver.seq>>} ELSE {})])
    /\ UNCHANGED <<attVars, gate, damage, reads>>

\* Step 3b: entries no attestation covers.  A signed journal must verify; an
\* unsigned one is tolerated inside the grace period only (its age is open).
\* The check of one signature may fail.
VerifyProbe ==
    /\ ver.at = "probe"
    /\ \E old \in SUBSET TxMode, failed \in {NoFailure} \cup {<<"journal", j>> : j \in Journals \ TxMode} :
          LET uncovered == ListUncoveredEntries(ProbeLimit)
              js == {JournalOf(id) : id \in IdsOf(uncovered)}
              unaccounted == {j \in js : IF j \in TxMode THEN j \in old ELSE ~VerifyJournalAuth(j)}
              unchecked == {<<"unaccounted", j>> : j \in {k \in js : failed = <<"journal", k>>}}
          IN  /\ CallFails(failed)
              /\ failed # NoFailure => unchecked # {}
              /\ VGo([ver EXCEPT !.at = "sample",
                     !.found = @ \cup {<<"unaccounted", j>> : j \in unaccounted} \cup unchecked,
                     !.failed = @ \cup unchecked,
                     !.drift = @ \cup (IF uncovered = <<>> THEN {} ELSE {"uncovered"})])
    /\ UNCHANGED <<dbVars, objects, att, gate, damage, reads>>

\* Step 4: the signatures of the newest journals; then the classification, in
\* strict order of precedence.
Classify(v) ==
    CASE v.found # {} -> "TAMPERED"
      [] v.found = {} /\ v.seq = 0 /\ v.max > 0 -> "NOT_RUN"
      [] v.found = {} /\ ~(v.seq = 0 /\ v.max > 0) /\ v.drift # {} -> "DRIFT"
      [] OTHER -> "VERIFIED"

\* Fetching one journal again, or checking its signature, may fail.
VerifySample ==
    /\ ver.at = "sample"
    /\ LET all == Ascending({JournalOf(id) : id \in DOMAIN entries})
           recent == {all[i] : i \in {k \in DOMAIN all : k > Len(all) - SampleSize}} \ TxMode
       IN  \E failed \in {NoFailure} \cup {<<"journal", j>> : j \in recent} :
             LET unchecked == {<<"sample", j>> : j \in {k \in recent : failed = <<"journal", k>>}}
                 v == [ver EXCEPT !.at = "done",
                         !.found = @ \cup {<<"sample", j>> : j \in {k \in recent : ~VerifyJournalAuth(k)}}
                                     \cup unchecked,
                         !.failed = @ \cup unchecked,
                         !.drift = @ \cup (IF ver.seq > 0 /\ ver.seq < ver.max THEN {"behind"} ELSE {})]
             IN  CallFails(failed) /\ VGo([v EXCEPT !.status = Classify(v)])
    /\ UNCHANGED <<dbVars, objects, att, gate, damage, reads>>

\* The other reads return their error: the head of the anchor, a page of the
\* chain, a batch's entries, what was observed of the anchor, the uncovered
\* entries with their material, the newest journals.  The report is a new one,
\* NOT_RUN, and what was found so far is dropped with the old.
VerifyReadFails ==
    /\ \/ ver.at = "idle" /\ reads < MaxReads /\ reads' = reads + 1
       \/ ver.at \notin {"idle", "done"} /\ UNCHANGED reads
    /\ Fault
    /\ VGo([NoRun EXCEPT !.at = "done", !.status = "NOT_RUN"])
    /\ UNCHANGED <<dbVars, objects, att, gate, damage>>

VerifyReturn ==
    /\ ver.at = "done"
    /\ VGo(NoRun)
    /\ UNCHANGED <<attVars, gate, damage, reads>>

Verify ==
    \/ VerifyStart \/ VerifyPage \/ VerifyRow \/ VerifyObserved \/ VerifyProbe
    \/ VerifySample \/ VerifyReadFails \/ VerifyReturn

---------------------------------------------------------------------------
\* VerifiedBalance: the dimension that holds the first entry of every journal

NoRead == [at |-> "idle", journals |-> {}, counted |-> {}, before |-> {}, seen |-> {}]
InDimension(id) == id % 2 = 1

\* Fault: a verdict cached when the batch was attested is taken as the answer.
TrustsCachedVerdict(verdict) == verdict # Authorized

\* A cached verdict spares no journal the live check.
NeedsLiveCheck(verdict) == TRUE

\* The contributing entries with their cached verdicts; one unauthorized
\* verdict refuses the whole dimension.
ListContributingEntryVerdicts ==
    /\ gate.at = "idle"
    /\ reads < MaxReads
    /\ reads' = reads + 1
    /\ LET ids == {id \in DOMAIN entries : InDimension(id)}
           cached == [id \in ids |-> IF id \in DOMAIN covered THEN covered[id].verdict ELSE Unknown]
       IN  gate' = [NoRead EXCEPT
                      !.at = IF \E id \in ids : cached[id] = Unauthorized THEN "refused" ELSE "check",
                      !.journals = {JournalOf(id) : id \in {i \in ids : NeedsLiveCheck(cached[i])}},
                      !.before = Standing,
                      !.seen = {JournalOf(id) : id \in ids}]
    /\ UNCHANGED <<attVars, ver, damage>>

\* Without a verifier a dimension with any journal is refused; so is one with
\* a journal that does not verify live.
VerifyJournalsNaively ==
    /\ gate.at = "check"
    /\ gate' = [gate EXCEPT !.at = IF /\ gate.journals # {} => HasVerifier
                                      /\ \A j \in gate.journals : VerifyJournalAuth(j)
                                   THEN "sum" ELSE "refused"]
    /\ UNCHANGED <<attVars, ver, damage, reads>>

\* RecomputeBalance: a query of its own over the entries there are now.
RecomputeBalance ==
    /\ gate.at = "sum"
    /\ gate' = [gate EXCEPT !.at = "answered",
                            !.counted = {JournalOf(id) : id \in {i \in DOMAIN entries : InDimension(i)}}]
    /\ UNCHANGED <<attVars, ver, damage, reads>>

\* A query or a check of the call fails: its error is the answer.
GateFails ==
    /\ gate.at \in {"check", "sum"}
    /\ Fault
    /\ gate' = [gate EXCEPT !.at = "refused"]
    /\ UNCHANGED <<dbVars, objects, att, ver, damage, reads>>

GateReturn ==
    /\ gate.at \in {"refused", "answered"}
    /\ gate' = NoRead
    /\ UNCHANGED <<attVars, ver, damage, reads>>

VerifiedBalance ==
    \/ ListContributingEntryVerdicts \/ VerifyJournalsNaively \/ RecomputeBalance
    \/ GateFails \/ GateReturn

---------------------------------------------------------------------------
Init ==
    /\ AttInit
    /\ ver = NoRun
    /\ gate = NoRead
    /\ damage = {}
    /\ reads = 0

Next ==
    \/ /\ AttNext
       /\ \A id \in DOMAIN entries' : <<"lose", id>> \notin damage   \* ids are never used again
       /\ UNCHANGED <<ver, gate, damage, reads>>
    \/ Damage
    \/ Verify
    \/ VerifiedBalance

Spec == Init /\ [][Next]_verifyVars
---------------------------------------------------------------------------
\* Properties

\* Damage that was there when a run of VerifyLedger began, and still is when
\* it ends, is never reported as VERIFIED or DRIFT: an edited or lost entry, an
\* edited leaf or attestation column, a truncated chain, an anchor that went
\* back.
DamageReported ==
    ver.at = "done" /\ ver.before \cap Standing # {} => ver.status \in {"TAMPERED", "NOT_RUN"}

\* A run over undamaged tables reports nothing but journals that really are
\* unsigned, "the anchor went back" only if the job published in the meantime
\* (the reads of VerifyLedger are spread over the job's steps), and otherwise
\* only what a call that failed in the run made it report.
FindingsExplained ==
    ver.at = "done" /\ damage = {} =>
        \A f \in ver.found :
            \/ f \in ver.failed
            \/ f[1] = "unauthorized" /\ \E id \in DOMAIN covered : covered[id].seq = f[2] /\ JournalOf(id) \in TxMode
            \/ f[1] = "unaccounted" /\ f[2] \in TxMode
            \/ f[1] = "regressed" /\ AnchorHead > f[2]

Edits(ds) == {d[2] : d \in {e \in ds : e[1] = "edit"}}

\* What keeps an edited entry from being named: an entry of its batch is gone, a
\* leaf or the Merkle root of its batch is edited or could not be read, or the
\* batch was truncated and attested again.
Blurred(id) ==
    \/ \E d \in damage : d[1] = "truncate"
    \/ LET s == covered[id].seq
       IN  \/ <<"leaves", s>> \in ver.failed \/ <<"merkle", s>> \in damage
           \/ \E d \in damage : d[1] \in {"lose", "leaf"} /\ covered[d[2]].seq = s

\* The report names only entries that were edited, and every edited entry of a
\* batch whose stored leaves still rebuild the signed root, whatever else is
\* damaged (localizeUsingStoredLeafHashes).
LocatesEdits ==
    /\ ver.located \subseteq Edits(damage)
    /\ ver.at = "done" /\ ver.status = "TAMPERED" =>
          \A id \in Edits(ver.before) : id \in ver.located \/ Blurred(id)

\* Of the journals the call listed, the withdrawal gate counts none that was
\* edited, shortened or unsigned then, whatever verdict the attestation cached
\* for it.  Journals that were committed after the listing are counted too.
GateSeesEdits ==
    gate.at = "answered" =>
        \A j \in gate.counted \cap gate.seen :
            /\ j \notin TxMode
            /\ \A d \in gate.before : d[1] \in {"edit", "lose"} => JournalOf(d[2]) # j

\* postgres/verified_balance_store.go:185, of the balance the gate answers with:
\* "Every contributing journal (if any) just passed a live check against its
\* current content".
GateChecksAll == gate.at = "answered" => gate.counted \subseteq gate.journals

\* What VerifyLedger and the withdrawal gate answer is right: no damage missed,
\* none made up, the edited entries named.
VerdictsSound == DamageReported /\ FindingsExplained /\ LocatesEdits /\ GateSeesEdits
===========================================================================
