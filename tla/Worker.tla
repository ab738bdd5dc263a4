------------------------------- MODULE Worker -------------------------------
(***************************************************************************)
(* service/worker.go and service/locked_job.go: the background jobs of     *)
(* several replicas, each job kept to one replica at a time by a session   *)
(* advisory lock, and the in-process event subscription.                   *)
(*                                                                         *)
(* A tick of a locked job pins one pooled connection, the session that     *)
(* holds the lock, and takes a second one for the job's own queries.       *)
(***************************************************************************)
EXTENDS Integers, FiniteSets

CONSTANTS Processes,
          LockedJobs,  \* expiration, reconcile, system_rollup, full_reconcile, ...
          PoolSize,    \* connections of one replica's pool
          MaxMishaps,  \* bound: failed calls, panics, lost sessions, shutdowns
          NoReplica

\* The lock of a job nobody runs is held by no replica.
ASSUME WorkerAssumption == NoReplica \notin Processes

VARIABLES phase,   \* replica -> built, reported, running, stopping
          report,  \* replica -> StartupReport.EventDeliveryLocalCallback
          local,   \* replica -> localDeliverer is set
          early,   \* replica -> a Subscribe returned nil before Run was called
          subs,    \* replica -> a Subscribe returned nil
          lock,    \* job -> the replica whose session holds the advisory lock
          tick,    \* <<replica, job>> -> where the tick of the job is
          lost,    \* the ticks whose session is gone
          emitted, \* <<replica, job>> -> outcomes emitted by the current tick
          mishaps

workerVars == <<phase, report, local, early, subs, lock, tick, lost, emitted, mishaps>>
startVars == <<phase, report, local, early, subs>>
tickVars == <<lock, tick, lost, emitted>>

Ticks == Processes \X LockedJobs
Mishap == mishaps < MaxMishaps /\ mishaps' = mishaps + 1
Goto(t, to) == tick' = [tick EXCEPT ![t] = to]
Emit(t) == emitted' = [emitted EXCEPT ![t] = @ + 1]

\* Connections a tick holds, and whether the replica's pool has one left.
Holds(t) == CASE tick[t] \in {"try", "work", "release"} -> 1
              [] tick[t] = "busy" -> 2
              [] tick[t] = "leaked" -> 1
              [] OTHER -> 0
Sum(f) == LET n[S \in SUBSET DOMAIN f] ==
                  IF S = {} THEN 0 ELSE LET x == CHOOSE x \in S : TRUE IN f[x] + n[S \ {x}]
          IN  n[DOMAIN f]
ConnectionFree(r) == Sum([j \in LockedJobs |-> Holds(<<r, j>>)]) < PoolSize

---------------------------------------------------------------------------
\* Worker.Run and Worker.Subscribe

\* Subscribe, under w.mu: the first one creates the dispatcher, unless Run has
\* set `running`.
Subscribe(r) ==
    /\ local[r] \/ phase[r] \notin {"running", "stopping"}
    /\ ~subs[r]
    /\ local' = [local EXCEPT ![r] = TRUE]
    /\ subs' = [subs EXCEPT ![r] = TRUE]
    /\ early' = [early EXCEPT ![r] = phase[r] = "built"]
    /\ UNCHANGED <<phase, report, tickVars, mishaps>>

\* Run first takes the StartupReport, which reads localDeliverer under w.mu ...
StartupReport(r) ==
    /\ phase[r] = "built"
    /\ report' = [report EXCEPT ![r] = local[r]]
    /\ phase' = [phase EXCEPT ![r] = "reported"]
    /\ UNCHANGED <<local, early, subs, tickVars, mishaps>>

\* ... and sets `running` later; which loops exist is decided by the report.
Run(r) ==
    /\ phase[r] = "reported"
    /\ phase' = [phase EXCEPT ![r] = "running"]
    /\ UNCHANGED <<report, local, early, subs, tickVars, mishaps>>

\* ctx is cancelled: no further ticks; Run returns once every loop has.
Cancel(r) ==
    /\ phase[r] = "running"
    /\ Mishap
    /\ phase' = [phase EXCEPT ![r] = "stopping"]
    /\ UNCHANGED <<report, local, early, subs, tickVars>>

\* The process is started again with a new Worker.
Restart(r) ==
    /\ phase[r] = "stopping"
    /\ \A j \in LockedJobs : tick[r, j] \in {"idle", "leaked"}
    /\ phase' = [phase EXCEPT ![r] = "built"]
    /\ report' = [report EXCEPT ![r] = FALSE]
    /\ local' = [local EXCEPT ![r] = FALSE]
    /\ early' = [early EXCEPT ![r] = FALSE]
    /\ subs' = [subs EXCEPT ![r] = FALSE]
    /\ UNCHANGED <<tickVars, mishaps>>

---------------------------------------------------------------------------
\* LockedJob.Run, one tick

Tick(t) ==
    /\ phase[t[1]] = "running"
    /\ tick[t] = "idle"
    /\ Goto(t, "acquire")
    /\ emitted' = [emitted EXCEPT ![t] = 0]
    /\ lost' = lost \ {t}
    /\ UNCHANGED <<startVars, lock, mishaps>>

\* pool.Acquire waits for a free connection; a cancelled context ends the wait.
Acquire(t) ==
    /\ tick[t] = "acquire"
    /\ ConnectionFree(t[1])
    /\ Goto(t, "try")
    /\ UNCHANGED <<startVars, lock, lost, emitted, mishaps>>

AcquireCancelled(t) ==
    /\ tick[t] = "acquire"
    /\ phase[t[1]] = "stopping"
    /\ Goto(t, "idle")
    /\ Emit(t)
    /\ UNCHANGED <<startVars, lock, lost, mishaps>>

\* pg_try_advisory_lock: the lock, or the connection goes back and the tick is
\* skipped.
TryLock(t) ==
    /\ tick[t] = "try"
    /\ \/ /\ lock[t[2]] = NoReplica
          /\ lock' = [lock EXCEPT ![t[2]] = t[1]]
          /\ Goto(t, "work")
          /\ UNCHANGED emitted
       \/ /\ lock[t[2]] # NoReplica
          /\ Goto(t, "idle")
          /\ Emit(t)
          /\ UNCHANGED lock
    /\ UNCHANGED <<startVars, lost, mishaps>>

\* The query failed: the tick fails closed.
TryLockFails(t) ==
    /\ tick[t] = "try"
    /\ Mishap
    /\ Goto(t, "idle")
    /\ Emit(t)
    /\ UNCHANGED <<startVars, lock, lost>>

\* fn takes a connection of the same pool for its queries ...
FnBegin(t) ==
    /\ tick[t] = "work"
    /\ ConnectionFree(t[1])
    /\ Goto(t, "busy")
    /\ UNCHANGED <<startVars, lock, lost, emitted, mishaps>>

\* ... and returns, with or without an error, or because ctx was cancelled.
FnReturn(t) ==
    /\ \/ tick[t] = "busy"
       \/ tick[t] = "work" /\ phase[t[1]] = "stopping"
    /\ Goto(t, "release")
    /\ Emit(t)
    /\ UNCHANGED <<startVars, lock, lost, mishaps>>

\* A panic in fn runs the deferred release and is recovered by safeRun, which
\* emits JobPanicked in place of an outcome.
FnPanic(t) ==
    /\ tick[t] = "busy"
    /\ Mishap
    /\ Goto(t, "release")
    /\ Emit(t)
    /\ UNCHANGED <<startVars, lock, lost>>

\* Fault: after a failed unlock the connection goes back to the pool as it is.
ReleaseToPool(t) ==
    /\ tick[t] = "release"
    /\ \/ /\ lock' = IF t \in lost THEN lock ELSE [lock EXCEPT ![t[2]] = NoReplica]
          /\ UNCHANGED mishaps
       \/ Mishap /\ UNCHANGED lock
    /\ Goto(t, "idle")
    /\ UNCHANGED <<startVars, lost, emitted>>

\* Fault: the lock is freed whoever holds it.
ReleaseAny(t) ==
    /\ tick[t] = "release"
    /\ lock' = [lock EXCEPT ![t[2]] = NoReplica]
    /\ Goto(t, "idle")
    /\ UNCHANGED <<startVars, lost, emitted, mishaps>>

\* The deferred release, on the session that took the lock and with a context
\* of its own: an unlock that fails closes the session instead, so the lock is
\* free either way.  A session already lost holds nothing.
Release(t) ==
    /\ tick[t] = "release"
    /\ lock' = IF t \in lost THEN lock ELSE [lock EXCEPT ![t[2]] = NoReplica]
    /\ Goto(t, "idle")
    /\ UNCHANGED <<startVars, lost, emitted, mishaps>>

\* The pinned session dies while the job runs: Postgres drops its locks.
SessionLost(t) ==
    /\ tick[t] \in {"work", "busy"}
    /\ t \notin lost
    /\ Mishap
    /\ lost' = lost \cup {t}
    /\ lock' = [lock EXCEPT ![t[2]] = NoReplica]
    /\ UNCHANGED <<startVars, tick, emitted>>

---------------------------------------------------------------------------
Step(t) ==
    \/ Acquire(t) \/ AcquireCancelled(t) \/ TryLock(t) \/ FnBegin(t) \/ FnReturn(t) \/ Release(t)

Trouble(t) == TryLockFails(t) \/ FnPanic(t) \/ SessionLost(t)

WorkerInit ==
    /\ phase = [r \in Processes |-> "built"]
    /\ report = [r \in Processes |-> FALSE]
    /\ local = report
    /\ early = report
    /\ subs = report
    /\ lock = [j \in LockedJobs |-> NoReplica]
    /\ tick = [t \in Ticks |-> "idle"]
    /\ lost = {}
    /\ emitted = [t \in Ticks |-> 0]
    /\ mishaps = 0

WorkerNext ==
    \/ \E r \in Processes : Subscribe(r) \/ StartupReport(r) \/ Run(r) \/ Cancel(r) \/ Restart(r)
    \/ \E t \in Ticks : Tick(t) \/ Step(t) \/ Trouble(t)

WorkerSpec == WorkerInit /\ [][WorkerNext]_workerVars

\* The runtime schedules every goroutine, the tickers fire, and a pool serves those who
\* wait for a connection in their order, so none is passed over for good.  Ticks can still
\* wait for one another: a pool with no more connections than there are locked jobs is
\* exhausted by their first ones, and nothing in the code asks for a larger pool.
WorkerFair ==
    /\ \A r \in Processes : WF_workerVars(StartupReport(r)) /\ WF_workerVars(Run(r)) /\ WF_workerVars(Restart(r))
    /\ \A t \in Ticks : WF_workerVars(Tick(t)) /\ SF_workerVars(Step(t))

WorkerFairSpec == WorkerSpec /\ WorkerFair
---------------------------------------------------------------------------
\* Properties

InFn(t) == tick[t] \in {"work", "busy"}

\* A job runs on one replica at a time, whatever failed before, and a tick that
\* still has its session still has the lock: no other tick's release, skip or
\* failure takes it away.
SingleFlight ==
    /\ \A t, u \in Ticks : t[2] = u[2] /\ InFn(t) /\ InFn(u) /\ t # u => t \in lost \/ u \in lost
    /\ \A t \in Ticks : InFn(t) /\ t \notin lost => lock[t[2]] = t[1]

\* "Exactly one of JobTickCompleted / JobTickFailed / JobTickSkippedLocked is
\* emitted per call" (LockedJob.Run), JobPanicked standing in after a panic.
OneOutcome == \A t \in Ticks : emitted[t] <= 1 /\ (tick[t] = "release" => emitted[t] = 1)

\* A handler subscribed before Run is served by the event_callback loop.
EarlySubscriberServed == \A r \in Processes : early[r] /\ phase[r] = "running" => report[r]

\* One replica and one outcome for every tick, and no subscription lost at the start.
JobsSound == SingleFlight /\ OneOutcome /\ EarlySubscriberServed
=============================================================================
