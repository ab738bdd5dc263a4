------------------------------- MODULE Reconcile -------------------------------
(***************************************************************************)
(* The reconciliation suite (service/reconcile.go, RunFullReconciliation)  *)
(* over the tables its queries read (postgres/reconcile_queries.go and the *)
(* sqlc queries behind it): one action per check, in the suite's order,    *)
(* beside the operations that change those tables and the defects the      *)
(* checks exist for.  The paged checkpoint scan is module ReconcileScan.   *)
(*                                                                         *)
(* One currency: every query groups by it.  Holder 1 is a user, holder -1  *)
(* the system counterpart.                                                 *)
(***************************************************************************)
EXTENDS Integers, FiniteSets, FiniteSetsExt, Sequences, TLC

CONSTANTS
    Kinds,          \* the journals that are posted, of deposit, withdraw, settle, clear
    Auths,          \* auth_status of what is posted: "good" (signed) or "none"
    MaxJournals,    \* bound: journals
    MaxTime,        \* bound: the clock
    MaxOps,         \* bound: changes of the tables, and failed queries, together
    MaxDefects,     \* bound: rows changed behind the library's back
    MaxFaults,      \* bound: queries that fail
    Window,         \* SettlementWindow
    PageLimit,      \* the page limit of the checks that have one
    HasVerifier     \* SetAuthCheck was called

VARIABLES
    journals,       \* journals rows
    entries,        \* journal_entries rows
    conf,           \* configuration rows: balance_role, holder_kind
    derived,        \* balance_checkpoints and system_rollups, class -> balance, and
                    \* balance_snapshots, <<day, holder, class>> -> balance; only
                    \* for the rows there are
    side,           \* period line, reservation link, rollup lease, clock
    run,            \* the report being built
    spent,          \* changes, defects and failed queries so far
    hist            \* history: defects there ever since the run began, and ever

dbVars  == <<journals, entries, conf, derived, side>>
recVars == <<dbVars, run, spent, hist>>

Classes == {"wallet", "custody", "settlement"}
Normal  == [wallet |-> "debit", custody |-> "credit", settlement |-> "credit"]
IsSystem(c) == c # "wallet"
User == 1
Holders == {User, -1}
Nil == 0

Flip(s) == IF s = "debit" THEN "credit" ELSE "debit"

Amount(E) == MapThenSumSet(LAMBDA e : e.amt, E)
Debits(E)  == Amount({e \in E : e.type = "debit"})
Credits(E) == Amount({e \in E : e.type = "credit"})

\* core.Delta.
Delta(ns, debit, credit) == IF ns = "debit" THEN debit - credit ELSE credit - debit

OfClass(E, c) == {e \in E : e.cls = c}
Balance(E, c) == Delta(Normal[c], Debits(OfClass(E, c)), Credits(OfClass(E, c)))
Dim(h, c)     == {e \in entries : e.h = h /\ e.cls = c}

Checks == << "global_dr_cr_equality", "orphan_entries", "accounting_equation",
             "settlement_netting", "non_negative_balances",
             "role_less_liability", "untagged_holder_kind",
             "orphan_reservations", "idempotency_uniqueness",
             "stale_rollup_queue", "journal_dr_cr", "system_rollup_integrity",
             "snapshot_integrity", "unauthorized_journals",
             "period_close_violations", "reversal_chain_integrity" >>

\* rollups: what ListSystemRollupsRaw returned, once it has.
NoReport == [next |-> 0, failed |-> {}, partial |-> {}, skipped |-> {}, rollups |-> {}]

RecInit ==
    /\ journals = {} /\ entries = {}
    /\ conf    = [role |-> "available", kind |-> "deposit"]
    /\ derived = [cps |-> <<>>, rollups |-> <<>>, snaps |-> <<>>]
    /\ side    = [now |-> 1, before |-> 0, closedAt |-> 0, resv |-> Nil,
                  lease |-> Nil]
    /\ run     = NoReport
    /\ spent   = [ops |-> 0, defects |-> 0, faults |-> 0]
    /\ hist    = [stayed |-> {}, seen |-> {}]

-----------------------------------------------------------------------------
(* Operations of the library.                                              *)

Leg(h, c, t) == [h |-> h, cls |-> c, type |-> t, amt |-> 1]
Legs(k) == CASE k = "deposit"  -> {Leg(1, "wallet", "debit"),  Leg(-1, "custody", "credit")}
             [] k = "withdraw" -> {Leg(1, "wallet", "credit"), Leg(-1, "custody", "debit")}
             [] k = "settle"   -> {Leg(1, "wallet", "debit"),  Leg(-1, "settlement", "credit")}
             [] k = "clear"    -> {Leg(-1, "settlement", "debit"), Leg(-1, "custody", "credit")}

NextId == Cardinality(journals) + 1
IdFree == \A j \in journals : j.id < NextId

Insert(row, legs) ==
    /\ journals' = journals \cup {row}
    /\ entries'  = entries \cup {[j |-> row.id, h |-> l.h, cls |-> l.cls,
                                  type |-> l.type, amt |-> l.amt,
                                  eff |-> row.eff, at |-> row.at] : l \in legs}

Row(eff, of, auth) == [id |-> NextId, key |-> NextId, eff |-> eff,
                       at |-> side.now, of |-> of, auth |-> auth]

\* PostJournal behind the close line's gate and the balance gate (LedgerStore).
PostJournal(k, eff, auth) ==
    /\ IdFree /\ NextId <= MaxJournals
    /\ eff >= side.before /\ eff <= side.now
    /\ k = "withdraw" => Balance(Dim(User, "wallet"), "wallet") > 0
    /\ Insert(Row(eff, Nil, auth), Legs(k))
    /\ UNCHANGED <<conf, derived, side>>

\* ReverseJournal, whole (Reversal).
ReverseJournal(j) ==
    /\ IdFree /\ NextId <= MaxJournals
    /\ j.of = Nil /\ \A r \in journals : r.of # j.id
    /\ side.now >= side.before
    /\ Insert(Row(side.now, j.id, "good"),
              {[Leg(e.h, e.cls, Flip(e.type)) EXCEPT !.amt = e.amt] :
                  e \in {x \in entries : x.j = j.id}})
    /\ UNCHANGED <<conf, derived, side>>

\* The rollup worker catches up (Rollup): a checkpoint for every class posted to.
RollUp ==
    /\ derived' = [derived EXCEPT !.cps =
                      [c \in {e.cls : e \in entries} \cup DOMAIN @ |-> Balance(entries, c)]]
    /\ derived' # derived
    /\ UNCHANGED <<journals, entries, conf, side>>

\* What is reached when a loop over the classes stops.
Prefixes == {{"custody"}, {"custody", "settlement"}, Classes}

\* RefreshSystemRollups: one upsert per class that has checkpoints, in order; it
\* may stop part way.
RefreshSystemRollups(C) ==
    /\ derived' = [derived EXCEPT !.rollups = [c \in C \cap DOMAIN derived.cps |-> derived.cps[c]] @@ @]
    /\ derived' # derived
    /\ UNCHANGED <<journals, entries, conf, side>>

ByDay(h, c, day) == {e \in Dim(h, c) : e.eff <= day}

\* The balance of the latest snapshot row of a dimension before a day, if any.
LastSnapshot(h, c, day) ==
    LET days == {d \in 0..day - 1 : <<d, h, c>> \in DOMAIN derived.snaps}
    IN  IF days = {} THEN {} ELSE {derived.snaps[Max(days), h, c]}

\* CreateDailySnapshot of the day that has ended (Snapshots): a row for each
\* dimension whose balance is not that of its last snapshot; it may stop part way.
TakeSnapshot(C) ==
    /\ LET day == side.now - 1
           Moved == {d \in {day} \X Holders \X C :
                        /\ ByDay(d[2], d[3], day) # {}
                        /\ Balance(ByDay(d[2], d[3], day), d[3]) \notin LastSnapshot(d[2], d[3], day)}
       IN  derived' = [derived EXCEPT !.snaps = [d \in Moved |-> Balance(ByDay(d[2], d[3], day), d[3])] @@ @]
    /\ derived' # derived
    /\ UNCHANGED <<journals, entries, conf, side>>

ClosePeriod ==
    /\ side.before < side.now
    /\ side' = [side EXCEPT !.before = side.now, !.closedAt = side.now]
    /\ UNCHANGED <<journals, entries, conf, derived>>

\* A claim on a rollup row, given back or left behind by a crash.
ClaimRollup ==
    /\ side' = [side EXCEPT !.lease = IF @ = Nil THEN side.now ELSE Nil]
    /\ UNCHANGED <<journals, entries, conf, derived>>

Tick ==
    /\ side.now < MaxTime
    /\ side' = [side EXCEPT !.now = @ + 1]
    /\ UNCHANGED <<journals, entries, conf, derived>>

Operate ==
    /\ \/ \E k \in Kinds, eff \in {0, side.now}, auth \in Auths :
             PostJournal(k, eff, auth)
       \/ \E j \in journals : ReverseJournal(j)
       \/ RollUp
       \/ \E C \in Prefixes : RefreshSystemRollups(C) \/ TakeSnapshot(C)
       \/ ClosePeriod \/ ClaimRollup
    /\ spent' = [spent EXCEPT !.ops = @ + 1]

-----------------------------------------------------------------------------
(* Rows that change without the library: what the checks are there to find. *)

Spend == /\ spent.defects < MaxDefects
         /\ spent' = [spent EXCEPT !.defects = @ + 1, !.ops = @ + 1]

EditEntry(e) == /\ entries' = (entries \ {e}) \cup {[e EXCEPT !.amt = @ + 1]}
                /\ UNCHANGED <<journals, conf, derived, side>>

EditJournal(j) ==
    /\ \E row \in {[j EXCEPT !.auth = "bad"], [j EXCEPT !.auth = "unknown"]}
                  \cup {[j EXCEPT !.key = k.key] : k \in journals}
                  \cup {[j EXCEPT !.of = o.id] : o \in journals \ {j}} :
          journals' = (journals \ {j}) \cup {row}
    /\ UNCHANGED <<entries, conf, derived, side>>

LoseJournal(j) == /\ journals' = journals \ {j}
                  /\ UNCHANGED <<entries, conf, derived, side>>

\* A journal inserted past every gate: an overdraft, behind the close line, under
\* a key that is taken, or calling itself the reversal of another.
InsertJournal ==
    /\ IdFree /\ NextId <= MaxJournals
    /\ \E k \in Kinds :
          \/ \E eff \in {0, side.now} : Insert(Row(eff, Nil, "none"), Legs(k))
          \/ \E j \in journals : \/ Insert([Row(side.now, Nil, "none") EXCEPT !.key = j.key], Legs(k))
                                 \/ Insert(Row(side.now, j.id, "none"), Legs(k))
    /\ UNCHANGED <<conf, derived, side>>

\* A rollup or a snapshot row is edited, or made up.
EditDerived ==
    /\ \/ \E c \in Classes :
             derived' = [derived EXCEPT !.rollups = (c :> IF c \in DOMAIN @ THEN @[c] + 1 ELSE 1) @@ @]
       \/ \E d \in DOMAIN derived.snaps \cup {<<side.now - 1, User, "wallet">>} :
             derived' = [derived EXCEPT !.snaps = (d :> IF d \in DOMAIN @ THEN @[d] + 1 ELSE 1) @@ @]
    /\ UNCHANGED <<journals, entries, conf, side>>

EditRest ==
    /\ \/ /\ side' = [side EXCEPT !.resv = MaxJournals + 1]
          /\ UNCHANGED conf
       \/ /\ conf' \in {[conf EXCEPT !.role = ""], [conf EXCEPT !.kind = ""]}
          /\ UNCHANGED side
    /\ UNCHANGED <<journals, entries, derived>>

Corrupt ==
    /\ Spend
    /\ \/ \E e \in entries : EditEntry(e)
       \/ \E j \in journals : EditJournal(j) \/ LoseJournal(j)
       \/ InsertJournal \/ EditDerived \/ EditRest

-----------------------------------------------------------------------------
(* The queries (postgres/sqlcgen).                                         *)

OrphanEntries == {e \in entries : \A j \in journals : j.id # e.j}

\* Entries joined with their classification, grouped: (class, debit, credit).
AccountingEquationRows ==
    {[cls |-> c, debit |-> Debits(OfClass(entries, c)),
      credit |-> Credits(OfClass(entries, c))] :
        c \in {k \in Classes : OfClass(entries, k) # {}}}

SettlementNetting ==
    LET old == {e \in OfClass(entries, "settlement") : e.at < side.now - Window}
    IN  Balance(old, "settlement")

NegativeBalanceAccounts ==
    {c \in Classes : Balance(Dim(User, c), c) < 0}

RoleLessLiabilities ==
    {c \in Classes : /\ ~IsSystem(c) /\ conf.role = ""
                     /\ Balance(Dim(User, c), c) # 0}

\* Journal types with an entry of a user on a class with a spendable role.
UntaggedHolderKindJournalTypes ==
    {j \in journals : /\ conf.kind = "" /\ conf.role \notin {"", "memo"}
                      /\ \E e \in entries : e.j = j.id /\ e.h > 0 /\ ~IsSystem(e.cls)}

OrphanReservations == side.resv # Nil /\ \A j \in journals : j.id # side.resv

DuplicateIdempotencyKeys ==
    {k \in {j.key : j \in journals} : Cardinality({j \in journals : j.key = k}) > 1}

StaleRollupItems == side.lease # Nil /\ side.lease < side.now - Window

UnbalancedJournals ==
    {id \in {e.j : e \in entries} :
        LET E == {e \in entries : e.j = id} IN Debits(E) - Credits(E) # 0}

\* The rows of the latest date against the entries of their dimension, if any.
LatestSnapshotDrift ==
    LET latest == Max({d[1] : d \in DOMAIN derived.snaps} \cup {-1})
    IN  {d \in DOMAIN derived.snaps :
            d[1] = latest /\ derived.snaps[d] # Balance(ByDay(d[2], d[3], latest), d[3])}

ListRecentJournals(limit) ==
    {j \in journals : Cardinality({k \in journals : k.id > j.id}) < limit}

PeriodCloseViolations ==
    {j \in journals : j.eff < side.before /\ j.at > side.closedAt}

\* The two halves of CorruptReversalLinks: an entry that flips onto nothing the
\* original posted, and a dimension reversed by more than it posted.
Linked == UNION {{[of |-> j.of, e |-> e] : e \in {x \in entries : x.j = j.id}} :
                    j \in {x \in journals : x.of # Nil}}
OnOrig(o, h, c, t) == {e \in entries : e.j = o /\ e.h = h /\ e.cls = c /\ e.type = t}
Exists(o) == \E j \in journals : j.id = o

Unmatched ==
    {re \in Linked : /\ Exists(re.of)
                     /\ OnOrig(re.of, re.e.h, re.e.cls, Flip(re.e.type)) = {}}

OverReversed ==
    {od \in entries :
        /\ Exists(od.j)
        /\ LET back == {re \in Linked : /\ re.of = od.j /\ re.e.h = od.h
                                        /\ re.e.cls = od.cls
                                        /\ Flip(re.e.type) = od.type}
           IN  /\ back # {}
               /\ Amount({re.e : re \in back})
                     > Amount(OnOrig(od.j, od.h, od.cls, od.type))}

-----------------------------------------------------------------------------
(* The checks: [passed, complete].                                         *)

Result(p, c) == [passed |-> p, complete |-> c]
Paged(rows) == Result(rows = {}, Cardinality(rows) < PageLimit)

\* runCheck1JournalBalance over CheckAccountingEquation.
GlobalDrCr == Result(Debits(entries) = Credits(entries), TRUE)

\* runCheck4AccountingEquation: the debit-normal nets against the credit-normal.
AccountingEquation ==
    LET Net(ns) == MapThenSumSet(LAMBDA r : Delta(ns, r.debit, r.credit),
                       {r \in AccountingEquationRows : Normal[r.cls] = ns})
    IN  Result(Net("debit") = Net("credit"), TRUE)

\* Fault: the rollups are held against the checkpoints they were built from.
SystemRollupAgainstCheckpoints ==
    LET Cp(c) == IF c \in DOMAIN derived.cps THEN derived.cps[c] ELSE 0
    IN  Result(\A rows \in run.rollups : \A c \in DOMAIN rows : rows[c] = Cp(c), TRUE)

\* The rows that ListSystemRollupsRaw returned against a second query; a row
\* without entries stands against zero.
SystemRollupIntegrity ==
    LET Expected(c) == LET R == {r \in AccountingEquationRows : r.cls = c}
                       IN  MapThenSumSet(LAMBDA r : Delta(Normal[c], r.debit, r.credit), R)
    IN  Result(\A rows \in run.rollups : \A c \in DOMAIN rows : rows[c] = Expected(c), TRUE)

\* Unsigned journals are skipped and take the claim of coverage with them.
UnauthorizedJournals ==
    LET page == ListRecentJournals(PageLimit + 1)
        signed == {j \in page : j.auth # "none"}
    IN  Result(\A j \in signed : j.auth = "good",
               signed = page /\ Cardinality(page) < PageLimit + 1)

ReversalChainIntegrity ==
    Result(Unmatched = {} /\ OverReversed = {},
           Cardinality(Unmatched) + Cardinality(OverReversed) < PageLimit)

OrphanEntriesCheck       == Result(OrphanEntries = {}, TRUE)
SettlementNettingCheck   == Result(SettlementNetting = 0, TRUE)
NonNegativeBalances      == Result(NegativeBalanceAccounts = {}, TRUE)
RoleLessLiability        == Result(RoleLessLiabilities = {}, TRUE)
UntaggedHolderKind       == Result(UntaggedHolderKindJournalTypes = {}, TRUE)
OrphanReservationsCheck  == Result(~OrphanReservations, TRUE)
IdempotencyAudit         == Result(DuplicateIdempotencyKeys = {}, TRUE)
StaleRollup              == Result(~StaleRollupItems, TRUE)
JournalBalance           == Result(UnbalancedJournals = {}, TRUE)
SnapshotIntegrity        == Paged(LatestSnapshotDrift)
PeriodCloseViolationsCheck == Paged(PeriodCloseViolations)

Check(name) ==
    CASE name = "global_dr_cr_equality"    -> GlobalDrCr
      [] name = "orphan_entries"           -> OrphanEntriesCheck
      [] name = "accounting_equation"      -> AccountingEquation
      [] name = "settlement_netting"       -> SettlementNettingCheck
      [] name = "non_negative_balances"    -> NonNegativeBalances
      [] name = "role_less_liability"      -> RoleLessLiability
      [] name = "untagged_holder_kind"     -> UntaggedHolderKind
      [] name = "orphan_reservations"      -> OrphanReservationsCheck
      [] name = "idempotency_uniqueness"   -> IdempotencyAudit
      [] name = "stale_rollup_queue"       -> StaleRollup
      [] name = "journal_dr_cr"            -> JournalBalance
      [] name = "system_rollup_integrity"  -> SystemRollupIntegrity
      [] name = "snapshot_integrity"       -> SnapshotIntegrity
      [] name = "unauthorized_journals"    -> UnauthorizedJournals
      [] name = "period_close_violations"  -> PeriodCloseViolationsCheck
      [] name = "reversal_chain_integrity" -> ReversalChainIntegrity

\* The report.  Passed and Complete are kept apart.
Record(name, res) ==
    [run EXCEPT !.next    = @ + 1, !.rollups = {},
                !.failed  = IF res.passed THEN @ ELSE @ \cup {name},
                !.partial = IF res.complete THEN @ ELSE @ \cup {name}]

InSuite == run.next \in DOMAIN Checks     \* next is 0 before the suite
Done    == run.next = Len(Checks) + 1
-----------------------------------------------------------------------------
(* What is wrong with the tables, said without the queries.                *)

Signed(e) == IF e.type = "debit" THEN e.amt ELSE -e.amt
Worth(E, c) == LET v == MapThenSumSet(Signed, {e \in E : e.cls = c})
               IN  IF Normal[c] = "debit" THEN v ELSE -v

\* How much of a dimension of journal o its reversals take back, and posted.
Taken(o, h, c, t) ==
    Amount({e \in entries : /\ e.h = h /\ e.cls = c /\ e.type # t
                            /\ \E r \in journals : r.id = e.j /\ r.of = o})
Posted(o, h, c, t) ==
    Amount({e \in entries : e.j = o /\ e.h = h /\ e.cls = c /\ e.type = t})

FoundBy ==
    [unbalanced |-> "journal_dr_cr",          orphan   |-> "orphan_entries",
     unsettled  |-> "settlement_netting",     negative |-> "non_negative_balances",
     roleless   |-> "role_less_liability",    untagged |-> "untagged_holder_kind",
     dangling   |-> "orphan_reservations",    repeated |-> "idempotency_uniqueness",
     abandoned  |-> "stale_rollup_queue",     rollup   |-> "system_rollup_integrity",
     snapshot   |-> "snapshot_integrity",     forged   |-> "unauthorized_journals",
     behind     |-> "period_close_violations", unlinked |-> "reversal_chain_integrity"]

\* A rollup row that shows what its class is not worth.
WrongRollups == {c \in DOMAIN derived.rollups : derived.rollups[c] # Worth(entries, c)}

Present(d) ==
    CASE d = "unbalanced" -> \E id \in {e.j : e \in entries} :
                                MapThenSumSet(Signed, {e \in entries : e.j = id}) # 0
      [] d = "orphan"     -> {e.j : e \in entries} \ {j.id : j \in journals} # {}
      [] d = "unsettled"  -> Worth({e \in entries : e.at + Window < side.now}, "settlement") # 0
      [] d = "negative"   -> \E c \in Classes : Worth({e \in entries : e.h = User}, c) < 0
      [] d = "roleless"   -> conf.role = "" /\ Worth({e \in entries : e.h = User}, "wallet") # 0
      [] d = "untagged"   -> /\ conf.kind = "" /\ conf.role # ""
                             /\ \E e \in entries, j \in journals :
                                   e.j = j.id /\ e.h = User /\ e.cls = "wallet"
      [] d = "dangling"   -> side.resv \notin {Nil} \cup {j.id : j \in journals}
      [] d = "repeated"   -> \E i, j \in journals : i # j /\ i.key = j.key
      [] d = "abandoned"  -> side.lease # Nil /\ side.lease + Window < side.now
      [] d = "rollup"     -> WrongRollups # {}
      [] d = "snapshot"   -> \E s \in DOMAIN derived.snaps :
                                /\ \A t \in DOMAIN derived.snaps : t[1] <= s[1]
                                /\ derived.snaps[s] #
                                     Worth({e \in entries : e.h = s[2] /\ e.eff <= s[1]}, s[3])
      [] d = "forged"     -> HasVerifier /\ \E j \in journals : j.auth \in {"bad", "unknown"}
      [] d = "behind"     -> \E j \in journals : side.closedAt < j.at /\ j.eff < side.before
      [] d = "unlinked"   -> \E o \in journals, h \in Holders, c \in Classes,
                                t \in {"debit", "credit"} :
                                Taken(o.id, h, c, t) > Posted(o.id, h, c, t)

\* A wrong rollup row is told from another one, and from itself with another
\* balance: its check reads the rows and the entries at different times.
Defects ==
    {<<d, "", 0>> : d \in {x \in DOMAIN FoundBy \ {"rollup"} : Present(x)}}
    \cup {<<"rollup", c, derived.rollups[c]>> : c \in WrongRollups}

-----------------------------------------------------------------------------
(* The suite.                                                              *)

BeginSuite ==
    /\ run.next = 0
    /\ run' = [NoReport EXCEPT !.next = 1]
    /\ hist' = [stayed |-> Defects, seen |-> Defects]
    /\ UNCHANGED <<dbVars, spent>>

\* The first of the two queries of the rollup check.
ListSystemRollupsRaw ==
    /\ InSuite /\ Checks[run.next] = "system_rollup_integrity"
    /\ run.rollups = {}
    /\ run' = [run EXCEPT !.rollups = {derived.rollups}]
    /\ UNCHANGED <<dbVars, spent, hist>>

RunCheck ==
    /\ InSuite
    /\ Checks[run.next] = "system_rollup_integrity" => run.rollups # {}
    /\ LET name == Checks[run.next] IN
       run' = IF name = "unauthorized_journals" /\ ~HasVerifier
              THEN [run EXCEPT !.next = @ + 1, !.skipped = @ \cup {name}]
              ELSE Record(name, Check(name))
    /\ UNCHANGED <<dbVars, spent, hist>>

\* A query fails: a finding, and the suite goes on.  Only the reversal chain
\* check also gives up its claim of coverage.
CheckFails ==
    /\ InSuite
    /\ spent.faults < MaxFaults /\ spent.ops < MaxOps
    /\ LET name == Checks[run.next] IN
       run' = Record(name, Result(FALSE, name # "reversal_chain_integrity"))
    /\ spent' = [spent EXCEPT !.faults = @ + 1, !.ops = @ + 1]
    /\ UNCHANGED <<dbVars, hist>>

\* The tables change, or time goes on, until the report is out: some defects go,
\* some come.
Change(A) ==
    /\ ~Done
    /\ A
    /\ IF run.next = 0 THEN UNCHANGED hist
       ELSE \E now \in {Defects'} :
               hist' = [stayed |-> hist.stayed \cap now, seen |-> hist.seen \cup now]
    /\ UNCHANGED run

RecNext ==
    \/ Change(spent.ops < MaxOps /\ Operate)
    \/ Change(spent.ops < MaxOps /\ Corrupt)
    \/ Change(Tick /\ UNCHANGED spent)
    \/ BeginSuite \/ ListSystemRollupsRaw \/ RunCheck \/ CheckFails

RecSpec == RecInit /\ [][RecNext]_recVars

-----------------------------------------------------------------------------
(* Properties.                                                             *)

\* Once the suite is through, every defect that was there the whole time is
\* accounted for by the check meant to find it: it failed, or it gave up its
\* claim of coverage.  A report that is passed and fully covered (what the
\* worker and the CLI call a clean bill of health) leaves none out, whatever
\* posted, rolled up or closed while the checks ran one after the other.
DefectsAnswered ==
    Done => \A d \in hist.stayed : FoundBy[d[1]] \in run.failed \cup run.partial

\* A check fails only for something that was wrong at some point of the run,
\* or for a query that failed.
FailuresExplained ==
    spent.faults = 0 =>
        \A c \in run.failed :
            \/ \E d \in hist.seen : FoundBy[d[1]] = c
            \/ /\ c \in {"global_dr_cr_equality", "accounting_equation"}
               /\ <<"unbalanced", "", 0>> \in hist.seen

\* The report is right both ways.
ReportSound == DefectsAnswered /\ FailuresExplained
=============================================================================
