------------------------------ MODULE Snapshots ------------------------------
(***************************************************************************)
(* The daily balance snapshots of one holder and currency:                 *)
(*   service/snapshot.go           CreateDailySnapshot,                    *)
(*   service/snapshot_backfill.go  BackfillSnapshots,                      *)
(*   postgres/snapshot_extra_store.go  UpsertSnapshotSparse,               *)
(*   postgres/rollup_adapter.go    ListBalancesAt, GetSnapshotBalances.    *)
(* Entries carry a business day and the time their transaction began, and  *)
(* become visible when it commits; both may lie on either side of a        *)
(* snapshot's own queries, which are separate statements.                  *)
(***************************************************************************)
EXTENDS Integers, Sequences, FiniteSets, SequencesExt, FiniteSetsExt, TLC

CONSTANTS Replicas, Classes, Amounts,
          MaxDay, MaxEntries,  \* bounds: days, entries
          MaxRuns              \* bound: snapshot and backfill runs

VARIABLES entries, \* journal_entries: [class, day, amount, at, seen]; seen = 0 while uncommitted
          snaps,   \* balance_snapshots: <<day, class>> -> [balance, at, listed]
          today,
          clock,   \* a stamp for created_at and for commits
          locks,   \* the days whose snapshot lock is held
          job,     \* the locals of each replica's run
          rd,      \* the locals and the answer of GetSnapshotBalances
          runs

snapVars == <<entries, snaps, today, clock, locks, job, rd, runs>>

Days == 1..MaxDay
Stamp == clock' = clock + 1

---------------------------------------------------------------------------
\* The queries

Visible(day) == {i \in DOMAIN entries : entries[i].seen > 0 /\ entries[i].day <= day}
Total(ids) == FoldSet(LAMBDA i, acc : acc + entries[i].amount, 0, ids)

\* Balances as of the end of a day: every class that has an entry by then.
ListBalancesAt(day) ==
    LET classes == {entries[i].class : i \in Visible(day)}
    IN  [c \in classes |-> Total({i \in Visible(day) : entries[i].class = c})]

\* The row's created_at is that of its first insertion.
InsertSnapshot(day, c, balance, listed) ==
    snaps' = (<<day, c>> :> [balance |-> balance, listed |-> listed,
                             at |-> IF <<day, c>> \in DOMAIN snaps THEN snaps[day, c].at ELSE clock + 1])
             @@ snaps

\* The latest snapshot before the day, if any.
GetLatestSnapshotBefore(day, c) ==
    LET before == {d \in 1..day - 1 : <<d, c>> \in DOMAIN snaps}
    IN  IF before = {} THEN {} ELSE {snaps[Max(before), c].balance}

GetMaxEntryCreatedAt(day) == Max({entries[i].at : i \in Visible(day)} \cup {0})

\* Fault: compared with the newest row of the day.
StaleByNewest(day, rows) == GetMaxEntryCreatedAt(day) > Max({rows[c].at : c \in DOMAIN rows})

\* Some entry of the day or before was written after the oldest row of the day.
SnapshotIsStale(day, rows) == GetMaxEntryCreatedAt(day) > Min({rows[c].at : c \in DOMAIN rows})

---------------------------------------------------------------------------
\* Posting, and time

\* created_at is the start of the transaction; effective_at may be backdated.
BeginEntry(c, day, amount) ==
    /\ Len(entries) < MaxEntries
    /\ day <= today
    /\ Stamp
    /\ entries' = Append(entries, [class |-> c, day |-> day, amount |-> amount, at |-> clock + 1, seen |-> 0])
    /\ UNCHANGED <<snaps, today, locks, job, rd, runs>>

CommitEntry(i) ==
    /\ entries[i].seen = 0
    /\ Stamp
    /\ entries' = [entries EXCEPT ![i].seen = clock + 1]
    /\ UNCHANGED <<snaps, today, locks, job, rd, runs>>

NextDay ==
    /\ today < MaxDay
    /\ today' = today + 1
    /\ UNCHANGED <<entries, snaps, clock, locks, job, rd, runs>>

---------------------------------------------------------------------------
\* The writers

NoJob == [at |-> "idle", day |-> 0, last |-> 0, locked |-> FALSE, todo |-> <<>>, listed |-> 0]
JobAt(r, where) == job[r].at = where

\* CreateDailySnapshot of yesterday; skipped when another replica has the lock
\* of that day.
CreateDailySnapshot(r) ==
    /\ JobAt(r, "idle") /\ runs < MaxRuns
    /\ today > 1 /\ today - 1 \notin locks
    /\ runs' = runs + 1
    /\ locks' = locks \cup {today - 1}
    /\ job' = [job EXCEPT ![r] = [NoJob EXCEPT !.at = "list", !.day = today - 1, !.last = today - 1,
                                               !.locked = TRUE]]
    /\ UNCHANGED <<entries, snaps, today, clock, rd>>

\* BackfillSnapshots takes no lock.  At startup it runs from the earliest entry
\* to yesterday if there is no snapshot at all.
BackfillSnapshots(r) ==
    /\ JobAt(r, "idle") /\ runs < MaxRuns
    /\ runs' = runs + 1
    /\ \E from, to \in 1..today :
          /\ from <= to
          /\ job' = [job EXCEPT ![r] = [NoJob EXCEPT !.at = "list", !.day = from, !.last = to]]
    /\ UNCHANGED <<entries, snaps, today, clock, locks, rd>>

CheckAndBackfillOnStartup(r) ==
    /\ JobAt(r, "idle") /\ runs < MaxRuns
    /\ snaps = <<>> /\ Visible(today - 1) # {}
    /\ runs' = runs + 1
    /\ LET from == Min({entries[i].day : i \in Visible(today)})
       IN  job' = [job EXCEPT ![r] = [NoJob EXCEPT !.at = "list", !.day = from, !.last = today - 1]]
    /\ UNCHANGED <<entries, snaps, today, clock, locks, rd>>

\* After the last balance of a day: the next day, or the end of the run.
NextOrDone(r, left) ==
    IF left # <<>> THEN [job[r] EXCEPT !.at = "write", !.todo = left]
    ELSE IF job[r].day < job[r].last THEN [job[r] EXCEPT !.at = "list", !.day = @ + 1, !.todo = <<>>]
    ELSE NoJob

Unlock(r, next) == locks' = IF next = NoJob /\ job[r].locked THEN locks \ {job[r].day} ELSE locks

ListDay(r) ==
    /\ JobAt(r, "list")
    /\ LET b == ListBalancesAt(job[r].day)
           todo == SetToSeq({[class |-> c, balance |-> b[c]] : c \in DOMAIN b})
           next == [NextOrDone(r, todo) EXCEPT !.listed = IF todo = <<>> THEN 0 ELSE clock]
       IN  job' = [job EXCEPT ![r] = next] /\ Unlock(r, next)
    /\ UNCHANGED <<entries, snaps, today, clock, rd, runs>>

\* UpsertSnapshotSparse of the next balance: written unless it is what the
\* latest earlier snapshot says.
UpsertSnapshotSparse(r) ==
    /\ JobAt(r, "write")
    /\ LET b == Head(job[r].todo)
           next == NextOrDone(r, Tail(job[r].todo))
       IN  /\ IF b.balance \in GetLatestSnapshotBefore(job[r].day, b.class)
              THEN UNCHANGED <<snaps, clock>>
              ELSE InsertSnapshot(job[r].day, b.class, b.balance, job[r].listed) /\ Stamp
           /\ job' = [job EXCEPT ![r] = next]
           /\ Unlock(r, next)
    /\ UNCHANGED <<entries, today, rd, runs>>

\* A failing statement ends the daily run; the backfill goes on with the next
\* day.  What was written before stays.
JobFails(r) ==
    /\ ~JobAt(r, "idle")
    /\ LET next == NextOrDone(r, <<>>)
       IN  job' = [job EXCEPT ![r] = next] /\ Unlock(r, next)
    /\ UNCHANGED <<entries, snaps, today, clock, rd, runs>>

---------------------------------------------------------------------------
\* GetSnapshotBalances: three queries, the rows of the day, the staleness check
\* and, if stale, the live balances, which then stand for the rows.  Ghosts: what
\* is true at the last query, and when that was.

NoReading == [at |-> "idle", day |-> 0, rows |-> <<>>, answer |-> <<>>, truth |-> <<>>, now |-> 0]

ReadRows(day) ==
    /\ rd.at = "idle"
    /\ LET classes == {c \in Classes : <<day, c>> \in DOMAIN snaps}
       IN  rd' = [NoReading EXCEPT !.at = IF classes = {} THEN "done" ELSE "check", !.day = day,
                                   !.rows = [c \in classes |-> snaps[day, c]],
                                   !.truth = IF classes = {} THEN ListBalancesAt(day) ELSE <<>>]
    /\ UNCHANGED <<entries, snaps, today, clock, locks, job, runs>>

ReadAnswer ==
    /\ rd.at = "check"
    /\ rd' = IF SnapshotIsStale(rd.day, rd.rows) THEN [rd EXCEPT !.at = "live"]
             ELSE [rd EXCEPT !.at = "done", !.truth = ListBalancesAt(rd.day), !.now = clock,
                             !.answer = [c \in DOMAIN rd.rows |-> rd.rows[c].balance]]
    /\ UNCHANGED <<entries, snaps, today, clock, locks, job, runs>>

ReadLive ==
    /\ rd.at = "live"
    /\ LET live == ListBalancesAt(rd.day)
           both == DOMAIN rd.rows \cup DOMAIN live
       IN  rd' = [rd EXCEPT !.at = "done", !.truth = live, !.rows = <<>>,
                            !.answer = [c \in both |-> IF c \in DOMAIN live THEN live[c] ELSE 0]]
    /\ UNCHANGED <<entries, snaps, today, clock, locks, job, runs>>

ReadReturn ==
    /\ rd.at = "done"
    /\ rd' = NoReading
    /\ UNCHANGED <<entries, snaps, today, clock, locks, job, runs>>

---------------------------------------------------------------------------
SnapInit ==
    /\ entries = <<>> /\ snaps = <<>> /\ today = 1 /\ clock = 0 /\ locks = {}
    /\ job = [r \in Replicas |-> NoJob]
    /\ rd = NoReading
    /\ runs = 0

SnapNext ==
    \/ \E c \in Classes, d \in Days, a \in Amounts : BeginEntry(c, d, a)
    \/ \E i \in DOMAIN entries : CommitEntry(i)
    \/ NextDay
    \/ \E r \in Replicas :
          \/ CreateDailySnapshot(r) \/ BackfillSnapshots(r) \/ CheckAndBackfillOnStartup(r)
          \/ ListDay(r) \/ UpsertSnapshotSparse(r) \/ JobFails(r)
    \/ \E d \in Days : ReadRows(d)
    \/ ReadAnswer \/ ReadLive \/ ReadReturn

SnapSpec == SnapInit /\ [][SnapNext]_snapVars
---------------------------------------------------------------------------
\* Properties

\* The entries that a row of the answer misses and no created_at gives away: of
\* its class, begun before the oldest row of the day was inserted, and committed
\* after the listing from which the row has its balance.
Missed(c) ==
    {i \in DOMAIN entries :
        /\ entries[i].class = c /\ entries[i].day <= rd.day
        /\ entries[i].seen \in (rd.rows[c].listed + 1)..rd.now
        /\ entries[i].at <= Min({rd.rows[k].at : k \in DOMAIN rd.rows})}

\* A snapshot that is read back gives each class it names its balance as of the
\* end of that day, short of exactly the entries of Missed: whatever was begun
\* after the day's first row is in it, backdated or not, in whatever order the
\* daily runs and the backfills of several replicas rewrote the rows.
SnapshotReadSound ==
    rd.at = "done" =>
        \A c \in DOMAIN rd.answer :
            rd.answer[c] = rd.truth[c] - (IF c \in DOMAIN rd.rows THEN Total(Missed(c)) ELSE 0)

\* docs/INVARIANTS.md:839: "only reads through GetSnapshotBalances are guaranteed
\* correct".
SnapshotReadsCorrect ==
    rd.at = "done" => \A c \in DOMAIN rd.answer : rd.answer[c] = rd.truth[c]
=============================================================================
