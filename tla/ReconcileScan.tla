----------------------------- MODULE ReconcileScan -----------------------------
(***************************************************************************)
(* checkpoint_balance, the paged check of the reconciliation suite         *)
(* (service/reconcile.go, runCheck2GlobalBalance and ReconcileAccount).    *)
(* A run walks the (holder, currency) pairs that have a checkpoint from    *)
(* the persisted cursor, compares each checkpoint with the entries below   *)
(* its watermark, and leaves the cursor, the lap's dirty flag and the      *)
(* lap's count for the next run.  Runs overlap: the worker's tick, the     *)
(* HTTP handler and the CLI share nothing but the cursor row.              *)
(*                                                                         *)
(* A pair stands for its place in the scan order; every entry has amount   *)
(* one, so the entries below a watermark sum to the watermark.             *)
(***************************************************************************)
EXTENDS Integers, FiniteSets, FiniteSetsExt, Sequences, SequencesExt

CONSTANTS
    NPairs,     \* (holder, currency) pairs, in scan order
    Runs,       \* callers of RunFullReconciliation
    ScanLimit,  \* Check2ScanLimit
    PageSize,   \* checkpointScanPageSize
    MaxPosts,   \* bound: entries of a pair
    MaxDamage,  \* bound: checkpoints damaged in a behaviour
    MaxFaults,  \* bound: timeouts, failed statements and crashes
    MaxMoves    \* bound: cursor rows rewritten by something else

VARIABLES
    posted,     \* [Pairs -> journal_entries of the pair]
    cp,         \* [Pairs -> balance_checkpoints row]
    cursor,     \* reconcile_scan_cursors row
    run,        \* [Runs -> the call in progress and its CheckResult]
    spent       \* damage, faults and moves so far

scanVars == <<posted, cp, cursor, run, spent>>

Pairs == 1..NPairs
Start == 0      \* (cursorStartHolder, cursorStartCurrency)

Drifted == {p \in Pairs : cp[p].row /\ cp[p].bal # cp[p].last}

\* The row of a fresh lap.  bad and torn are history: the pairs drifted when
\* the lap began, and the pairs whose two reads straddled a rollup.
FreshLap == [after |-> Start, dirty |-> FALSE, scanned |-> 0,
             bad |-> {}, torn |-> {}]

Idle == [pc |-> "idle", after |-> Start, dirty |-> FALSE, lap |-> 0,
         resumed |-> FALSE, scanned |-> 0, page |-> <<>>, full |-> FALSE,
         got |-> [bal |-> 0, last |-> 0], partial |-> FALSE,
         passed |-> TRUE, complete |-> TRUE, keep |-> FALSE,
         bad |-> {}, torn |-> {}]

ScanInit ==
    /\ posted = [p \in Pairs |-> 0]
    /\ cp     = [p \in Pairs |-> [row |-> FALSE, bal |-> 0, last |-> 0]]
    /\ cursor = FreshLap
    /\ run    = [r \in Runs |-> Idle]
    /\ spent  = [damage |-> 0, faults |-> 0, moves |-> 0]

-----------------------------------------------------------------------------
(* The ledger the scan reads.                                              *)

Post(p) ==
    /\ posted[p] < MaxPosts
    /\ posted' = [posted EXCEPT ![p] = @ + 1]
    /\ UNCHANGED <<cp, cursor, run, spent>>

\* A rollup adds the entries above the watermark to whatever is stored.
Rollup(p) ==
    /\ posted[p] > cp[p].last
    /\ cp' = [cp EXCEPT ![p] = [row  |-> TRUE, last |-> posted[p],
                                bal  |-> @.bal + posted[p] - @.last]]
    /\ UNCHANGED <<posted, cursor, run, spent>>

\* Something other than a rollup changes a stored balance.
Damage(p) ==
    /\ spent.damage < MaxDamage
    /\ cp[p].row /\ p \notin Drifted
    /\ cp'    = [cp EXCEPT ![p].bal = @ + 1]
    /\ spent' = [spent EXCEPT !.damage = @ + 1]
    /\ UNCHANGED <<posted, cursor, run>>

\* Something other than the scan moves the resume point of a lap.
MoveCursor(p) ==
    /\ spent.moves < MaxMoves
    /\ cursor.after # Start
    /\ cursor' = [cursor EXCEPT !.after = p]
    /\ spent'  = [spent EXCEPT !.moves = @ + 1]
    /\ UNCHANGED <<posted, cp, run>>

-----------------------------------------------------------------------------
(* The statements of one run.                                              *)

Set(r, rec) == run' = [run EXCEPT ![r] = rec]

Fault == /\ spent.faults < MaxFaults
         /\ spent' = [spent EXCEPT !.faults = @ + 1]

\* SumEntriesByAccountClassification: the entries at or below the watermark
\* the checkpoint row has when this statement runs.
SumEntriesByAccountClassification(p) == cp[p].last

CountCheckpointAccountPairs == Cardinality({p \in Pairs : cp[p].row})

\* ListCheckpointAccountsPage.
ListCheckpointAccountsPage(after, size) ==
    LET rows == SetToSortSeq({p \in Pairs : cp[p].row /\ p > after},
                             LAMBDA a, b : a < b)
    IN  SubSeq(rows, 1, Min({size, Len(rows)}))

GetScanCursor(r) ==
    /\ run[r].pc \in {"idle", "done"}
    /\ LET fresh == cursor.after = Start IN
       Set(r, [Idle EXCEPT !.pc      = "page",
                           !.after   = cursor.after,
                           !.dirty   = cursor.dirty,
                           !.lap     = cursor.scanned,
                           !.resumed = ~fresh,
                           !.bad     = IF fresh THEN Drifted ELSE cursor.bad,
                           !.torn    = cursor.torn])
    /\ UNCHANGED <<posted, cp, cursor, spent>>

\* The cursor cannot be read: neither passed nor complete.
GetScanCursorFails(r) ==
    /\ run[r].pc \in {"idle", "done"}
    /\ Fault
    /\ Set(r, [Idle EXCEPT !.pc = "done", !.passed = FALSE, !.complete = FALSE])
    /\ UNCHANGED <<posted, cp, cursor>>

\* Where the loop goes once a page is used up.
NextPage(s) == IF s.full /\ s.scanned < ScanLimit THEN "page" ELSE "end"

FetchPage(r) ==
    /\ run[r].pc = "page"
    /\ LET size == Min({PageSize, ScanLimit - run[r].scanned})
           rows == ListCheckpointAccountsPage(run[r].after, size)
       IN  Set(r, [run[r] EXCEPT !.pc   = IF rows = <<>> THEN "end" ELSE "pair",
                                 !.page = rows,
                                 !.full = Len(rows) = size])
    /\ UNCHANGED <<posted, cp, cursor, spent>>

\* A page query that fails for another reason than the deadline ends the run.
FetchPageFails(r) ==
    /\ run[r].pc = "page"
    /\ Fault
    /\ Set(r, [run[r] EXCEPT !.pc = "done", !.passed = FALSE])
    /\ UNCHANGED <<posted, cp, cursor>>

\* The deadline passes, or the caller's context ends.
TimesOut(r) ==
    /\ run[r].pc \in {"page", "pair", "sum"}
    /\ Fault
    /\ Set(r, [run[r] EXCEPT !.pc = "end", !.partial = TRUE, !.page = <<>>])
    /\ UNCHANGED <<posted, cp, cursor>>

\* ReconcileAccount, first statement: GetCheckpoints.
GetCheckpoints(r) ==
    /\ run[r].pc = "pair"
    /\ LET p == Head(run[r].page) IN
       Set(r, [run[r] EXCEPT !.pc  = "sum",
                             !.got = [bal |-> cp[p].bal, last |-> cp[p].last]])
    /\ UNCHANGED <<posted, cp, cursor, spent>>

\* The pair counts as scanned and the loop moves on.
Advance(s, ok) ==
    LET t == [s EXCEPT !.after   = Head(s.page),
                       !.scanned = @ + 1,
                       !.page    = Tail(@),
                       !.passed  = @ /\ ok]
    IN  [t EXCEPT !.pc = IF t.page # <<>> THEN "pair" ELSE NextPage(t)]

\* ReconcileAccount, second statement: the sum, and the comparison.
ReconcileAccount(r) ==
    /\ run[r].pc = "sum"
    /\ LET p == Head(run[r].page)
           s == [run[r] EXCEPT !.torn =
                    IF cp[p].last = run[r].got.last THEN @ ELSE @ \cup {p}]
       IN  Set(r, Advance(s, s.got.bal = SumEntriesByAccountClassification(p)))
    /\ UNCHANGED <<posted, cp, cursor, spent>>

\* One account cannot be read: a finding, and the scan moves on.
ReconcileAccountFails(r) ==
    /\ run[r].pc \in {"pair", "sum"}
    /\ Fault
    /\ Set(r, Advance(run[r], FALSE))
    /\ UNCHANGED <<posted, cp, cursor>>

-----------------------------------------------------------------------------
(* After the loop: the verdict and the cursor row for the next run.        *)

Capped(s)   == s.partial \/ s.scanned >= ScanLimit
LapCount(s) == s.lap + s.scanned

\* Fault: an earlier segment's violation is left to the run that found it.
ConcludeSliceOnly(r) ==
    /\ run[r].pc = "end"
    /\ LET s == run[r] IN
       Set(r, [s EXCEPT !.pc = "persist", !.keep = Capped(s),
                        !.complete = /\ ~Capped(s)
                                     /\ s.resumed =>
                                          /\ s.scanned > 0
                                          /\ LapCount(s) >= CountCheckpointAccountPairs])
    /\ UNCHANGED <<posted, cp, cursor, spent>>

\* A capped run keeps its place.  A resumed lap that ends is complete only
\* when its runs together counted every pair there is now.
Conclude(r) ==
    /\ run[r].pc = "end"
    /\ LET s == run[r] IN
       Set(r, [s EXCEPT !.pc = "persist", !.keep = Capped(s),
                        !.passed = @ /\ ~s.dirty,
                        !.dirty  = @ \/ ~s.passed,
                        !.complete = /\ ~Capped(s)
                                     /\ s.resumed =>
                                          /\ s.scanned > 0
                                          /\ LapCount(s) >= CountCheckpointAccountPairs])
    /\ UNCHANGED <<posted, cp, cursor, spent>>

\* CountCheckpointAccountPairs fails: the cursor row stays as it was.
CountFails(r) ==
    /\ run[r].pc = "end"
    /\ ~Capped(run[r]) /\ run[r].resumed /\ run[r].scanned > 0
    /\ Fault
    /\ Set(r, [run[r] EXCEPT !.pc = "done", !.passed = FALSE])
    /\ UNCHANGED <<posted, cp, cursor>>

\* Fault: every run starts again at the first pair.
SetScanCursorReset(r) ==
    /\ run[r].pc = "persist"
    /\ cursor' = FreshLap
    /\ Set(r, [run[r] EXCEPT !.pc = "done"])
    /\ UNCHANGED <<posted, cp, spent>>

SetScanCursor(r) ==
    /\ run[r].pc = "persist"
    /\ LET s == run[r] IN
       cursor' = IF s.keep
                 THEN [after |-> s.after, dirty |-> s.dirty,
                       scanned |-> LapCount(s), bad |-> s.bad, torn |-> s.torn]
                 ELSE FreshLap
    /\ Set(r, [run[r] EXCEPT !.pc = "done"])
    /\ UNCHANGED <<posted, cp, spent>>

\* noteCursorWriteFailure.
SetScanCursorFails(r) ==
    /\ run[r].pc = "persist"
    /\ Fault
    /\ Set(r, [run[r] EXCEPT !.pc = "done", !.complete = FALSE])
    /\ UNCHANGED <<posted, cp, cursor>>

\* The process ends; nothing of the run is left.
Crash(r) ==
    /\ run[r].pc \notin {"idle", "done"}
    /\ Fault
    /\ Set(r, Idle)
    /\ UNCHANGED <<posted, cp, cursor>>

RunStep(r) == \/ GetScanCursor(r) \/ FetchPage(r) \/ GetCheckpoints(r)
              \/ ReconcileAccount(r) \/ Conclude(r) \/ SetScanCursor(r)

RunFails(r) == \/ GetScanCursorFails(r) \/ FetchPageFails(r) \/ TimesOut(r)
               \/ ReconcileAccountFails(r) \/ CountFails(r)
               \/ SetScanCursorFails(r) \/ Crash(r)

ScanNext ==
    \/ \E p \in Pairs : Post(p) \/ Rollup(p) \/ Damage(p) \/ MoveCursor(p)
    \/ \E r \in Runs : RunStep(r) \/ RunFails(r)

ScanSpec == ScanInit /\ [][ScanNext]_scanVars

\* The worker's ticker starts a run after every run.
ScanFairSpec == ScanSpec /\ \A r \in Runs : WF_scanVars(RunStep(r))

-----------------------------------------------------------------------------
(* Properties.                                                             *)

\* Passed and complete together clear every checkpoint that had drifted when
\* the lap began, over however many runs, overlapping or cut short, the lap
\* took.  A pair whose two reads (checkpoint, then entries) straddled a rollup
\* is left out: its comparison is of two moments.
GreenMeansClean ==
    \A r \in Runs :
        run[r].pc = "done" /\ run[r].passed /\ run[r].complete
            => run[r].bad \subseteq run[r].torn
=============================================================================
