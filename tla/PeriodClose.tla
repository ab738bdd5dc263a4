----------------------------- MODULE PeriodClose -----------------------------
(***************************************************************************)
(* postgres/period_close_store.go beside the write path of LedgerStore:    *)
(* operators append lines to period_closes while clients post journals.    *)
(* ClosePeriod polls for the exclusive half of the period barrier and      *)
(* gives up after a budget; writers hold the shared half to COMMIT.        *)
(***************************************************************************)
EXTENDS LedgerStore

CONSTANTS
    Closers,    \* operators calling ClosePeriod
    MaxCloses   \* bound: ClosePeriod calls begun in a behaviour

ASSUME ClosersAssumption == MaxCloses \in Nat

VARIABLES
    cpc,        \* [Closers -> "idle", "poll", "insert" or "commit"]
    row,        \* [Closers -> the row to append: close_before, created_at, id]
    clock,      \* transaction start times handed out so far
    closeSeq,   \* last id of the period_closes sequence
    lastLine    \* history: close_before of the line committed last

closerVars == <<cpc, row, clock, closeSeq, lastLine>>
periodVars == <<postVars, closerVars>>

NoRow == [created |-> 0, id |-> 0, line |-> 0]

PeriodInit ==
    /\ PostInit
    /\ cpc      = [k \in Closers |-> "idle"]
    /\ row      = [k \in Closers |-> NoRow]
    /\ clock    = 0
    /\ closeSeq = 0
    /\ lastLine = 0

\* BEGIN: created_at defaults to now(), the transaction's start time.
BeginClose(k) ==
    /\ cpc[k] = "idle"
    /\ clock < MaxCloses
    /\ clock' = clock + 1
    /\ \E d \in Dates :
          row' = [row EXCEPT ![k] = [created |-> clock + 1, id |-> 0, line |-> d]]
    /\ cpc' = [cpc EXCEPT ![k] = "poll"]
    /\ UNCHANGED <<postVars, closeSeq, lastLine>>

\* pg_try_advisory_xact_lock succeeds: no writer holds the shared half.
TryBarrier(k) ==
    /\ cpc[k] = "poll"
    /\ readers = {} /\ ~closing
    /\ closing' = TRUE
    /\ cpc' = [cpc EXCEPT ![k] = "insert"]
    /\ UNCHANGED <<txVars, lockVars, dbVars, closes, answers, calls,
                   row, clock, closeSeq, lastLine>>

InsertPeriodClose(k) ==
    /\ cpc[k] = "insert"
    /\ closeSeq' = closeSeq + 1
    /\ row' = [row EXCEPT ![k].id = closeSeq + 1]
    /\ cpc' = [cpc EXCEPT ![k] = "commit"]
    /\ UNCHANGED <<postVars, clock, lastLine>>

CommitClose(k) ==
    /\ cpc[k] = "commit"
    /\ closes'   = closes \cup {row[k]}
    /\ lastLine' = row[k].line
    /\ closing'  = FALSE
    /\ cpc' = [cpc EXCEPT ![k] = "idle"]
    /\ row' = [row EXCEPT ![k] = NoRow]
    /\ UNCHANGED <<txVars, lockVars, dbVars, answers, calls, clock, closeSeq>>

\* Fault: a close that fails after the barrier leaves it locked.
AbandonKeepsBarrier(k) ==
    /\ cpc[k] # "idle"
    /\ cpc' = [cpc EXCEPT ![k] = "idle"]
    /\ row' = [row EXCEPT ![k] = NoRow]
    /\ UNCHANGED <<postVars, clock, closeSeq, lastLine>>

\* The polling budget runs out (ErrTransient), or the transaction dies later:
\* nothing is appended and the exclusive half, if held, is released.
AbandonClose(k) ==
    /\ cpc[k] # "idle"
    /\ closing' = (closing /\ cpc[k] = "poll")
    /\ cpc' = [cpc EXCEPT ![k] = "idle"]
    /\ row' = [row EXCEPT ![k] = NoRow]
    /\ UNCHANGED <<txVars, lockVars, dbVars, closes, answers, calls,
                   clock, closeSeq, lastLine>>

CloseStep(k) == TryBarrier(k) \/ InsertPeriodClose(k) \/ CommitClose(k)

PeriodNext ==
    \/ PostNext /\ UNCHANGED closerVars
    \/ \E k \in Closers : BeginClose(k) \/ CloseStep(k) \/ AbandonClose(k)

PeriodSpec == PeriodInit /\ [][PeriodNext]_periodVars

\* Clients and operators go on when they can; a poll that the barrier refuses
\* ends when its budget does.  Calls are bounded, so a lock is not passed over
\* for ever and weak fairness is enough.
FairPeriodSpec ==
    /\ PeriodSpec
    /\ \A c \in Clients : WF_periodVars(Step(c) /\ UNCHANGED closerVars)
    /\ \A k \in Closers : WF_periodVars(CloseStep(k) \/ AbandonClose(k))

-----------------------------------------------------------------------------
Rows == [created : Nat, id : Nat, line : Dates]

\* No journal is committed behind the active close line (I-15, I-59): a close
\* cannot become active while a writer that read the previous line is still in
\* flight, whatever the order in which the writer took its other locks.
NoWriteBehindLine ==
    [][\A j \in journals' \ journals : j.input.eff >= ActiveLine]_periodVars

\* core/period_close.go: once ClosePeriod(line) has returned, "journals with
\* EffectiveAt before this timestamp are rejected"; stated for the line that
\* was committed last, whatever was committed before it.
LastCloseHolds ==
    [][\A j \in journals' \ journals : j.input.eff >= lastLine]_periodVars
=============================================================================
