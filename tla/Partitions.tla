------------------------------ MODULE Partitions ------------------------------
(***************************************************************************)
(* The monthly partitions of journal_entries (service/partition.go,        *)
(* postgres/partition_store.go).  A job keeps the partitions of the        *)
(* current month and of the months ahead in place; a row no partition      *)
(* covers lands in the default one and is moved out by a rebalance.  The   *)
(* two functions the store calls (ledger_create_monthly_partition,         *)
(* ledger_rebalance_default_partition) each run as one statement.          *)
(***************************************************************************)
EXTENDS Integers, FiniteSets, FiniteSetsExt

CONSTANTS
    MaxMonth,       \* bound: months of the clock
    MonthsAhead,    \* PartitionMonthsAhead
    MaxRows,        \* bound: rows written
    MaxFaults       \* bound: failed statements and crashes of the job

VARIABLES
    now,        \* current month
    parts,      \* months that have a partition
    home,       \* [row -> month of the partition it is in, or Default]
    month,      \* [row -> month of its created_at]
    job,        \* EnsureUpcoming in progress
    faults

partVars == <<now, parts, home, month, job, faults>>

Default == -1
Months  == 0..(MaxMonth + MonthsAhead)
Rows    == DOMAIN month
Stranded == {r \in Rows : home[r] = Default}

Idle == [pc |-> "idle", at |-> 0, first |-> 0]

PartInit ==
    /\ now   = 0
    /\ parts = 0..MonthsAhead          \* the baseline migration's horizon
    /\ home  = <<>> /\ month = <<>>
    /\ job   = Idle
    /\ faults = 0

\* INSERT INTO journal_entries routes by created_at, which is the writer's
\* transaction start: this month, or last month when the month just turned.
WriteEntry(m) ==
    /\ Cardinality(Rows) < MaxRows
    /\ m \in {now, now - 1} \cap Months
    /\ LET r == Cardinality(Rows) + 1 IN
       /\ month' = [x \in 1..r |-> IF x = r THEN m ELSE month[x]]
       /\ home'  = [x \in 1..r |-> IF x # r THEN home[x]
                                  ELSE IF m \in parts THEN m ELSE Default]
    /\ UNCHANGED <<now, parts, job, faults>>

\* The month turns; the job may not have run for a long time.
Tick ==
    /\ now < MaxMonth
    /\ now' = now + 1
    /\ UNCHANGED <<parts, home, month, job, faults>>

\* Archival of a month nothing is written to any more (RUNBOOK section 11) is
\* an operator's DDL and not part of the job.

-----------------------------------------------------------------------------
(* EnsureUpcoming.                                                         *)

\* EnsureMonthlyPartitions takes the month of its own clock.
EnsureUpcoming ==
    /\ job.pc = "idle"
    /\ job' = [pc |-> "create", at |-> now, first |-> now]
    /\ UNCHANGED <<now, parts, home, month, faults>>

\* Creating a partition fails (SQLSTATE 23514) while the default partition
\* holds rows of its month.
Overlaps(m) == \E r \in Stranded : month[r] = m

AfterCreate(m) == IF m = job.first + MonthsAhead
                  THEN [job EXCEPT !.pc = "check"]
                  ELSE [job EXCEPT !.at = m + 1]

\* createPartition: made, or there already.
CreatePartition ==
    /\ job.pc = "create"
    /\ LET m == job.at IN
       IF m \notin parts /\ Overlaps(m)
       THEN job' = [job EXCEPT !.pc = "rebalance"] /\ UNCHANGED parts
       ELSE job' = AfterCreate(m) /\ parts' = parts \cup {m}
    /\ UNCHANGED <<now, home, month, faults>>

\* DefaultPartitionHasRows.
CheckDefault ==
    /\ job.pc = "check"
    /\ job' = IF Stranded = {} THEN Idle ELSE [job EXCEPT !.pc = "heal"]
    /\ UNCHANGED <<now, parts, home, month, faults>>

\* Fault: only the horizon is created, not the months of the stranded rows.
RebalanceHorizon == job.first..(job.first + MonthsAhead)

\* The months a rebalance covers: the horizon, stretched to the rows it found.
RebalanceSpan ==
    LET M == {month[r] : r \in Stranded} \cup {job.first, job.first + MonthsAhead}
    IN  Min(M)..Max(M)

\* ledger_rebalance_default_partition: one statement under ACCESS EXCLUSIVE.
\* A row for which no partition was made would be lost with the TRUNCATE.
RebalanceDefault ==
    /\ job.pc \in {"rebalance", "heal"}
    /\ parts' = parts \cup RebalanceSpan
    /\ home'  = [r \in Rows |-> IF r \in Stranded
                                THEN IF month[r] \in parts' THEN month[r] ELSE Default
                                ELSE home[r]]
    \* From the fast path the job goes on to the default check, and from the
    \* heal it is through.
    /\ job'   = IF job.pc = "heal" THEN Idle ELSE [job EXCEPT !.pc = "check"]
    /\ UNCHANGED <<now, month, faults>>

\* A statement fails, or the process ends: the tick is over, the next one
\* starts from the top.
JobFails ==
    /\ job.pc # "idle"
    /\ faults < MaxFaults
    /\ faults' = faults + 1
    /\ job' = Idle
    /\ UNCHANGED <<now, parts, home, month>>

JobStep == EnsureUpcoming \/ CreatePartition \/ CheckDefault \/ RebalanceDefault

PartNext ==
    \/ \E m \in Months : WriteEntry(m)
    \/ Tick \/ JobFails \/ JobStep

PartSpec     == PartInit /\ [][PartNext]_partVars
PartFairSpec == PartSpec /\ WF_partVars(JobStep)

=============================================================================
