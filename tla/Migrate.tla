------------------------------- MODULE Migrate -------------------------------
(***************************************************************************)
(* MigrateContext (postgres/migrate.go): several Migrate calls on one      *)
(* Postgres cluster, each with a target database and a credential.  A run  *)
(* takes the cluster lock, makes sure its credential can act as            *)
(* ledger_owner (granting itself a SET-only membership where it has to),   *)
(* applies 001 and then 002..Last, takes the membership back and drops the *)
(* lock.  Roles and memberships are shared by the databases of a cluster.  *)
(***************************************************************************)
EXTENDS Integers, FiniteSets

CONSTANTS
    Runs,           \* Migrate calls
    DbOf, CredOf,   \* [Runs -> target database], [Runs -> credential]
    Super,          \* credentials that are superusers
    Last,           \* highest migration
    Budget,         \* attempts at the cluster lock
    MaxFaults,      \* bound: failed statements, kills, cancellations
    MaxJoins        \* bound: calls made again, sessions an application opens on a
                    \* credential, memberships an operator grants

VARIABLES
    lock,       \* holder of the cluster lock: at most one run
    owner,      \* the role ledger_owner exists
    admin,      \* credentials with ADMIN OPTION on it
    member,     \* credentials holding a SET membership a run granted
    operated,   \* [credential -> options of the membership an operator granted]
    db,         \* [database -> [v, dirty, cause]]
    others,     \* credentials an application session is connected as
    proc,       \* [Runs -> state of the call]
    left,       \* {<<credential, why>>}: memberships runs left standing, and how
    spent       \* [faults, joins]

migVars == <<lock, owner, admin, member, operated, db, others, proc, left, spent>>

Dbs   == {DbOf[p] : p \in Runs}
Creds == {CredOf[p] : p \in Runs}
None  == "none"

Idle == [pc |-> "idle", tries |-> 0, base |-> FALSE, own |-> FALSE, res |-> None]

MigInit ==
    /\ lock = {} /\ owner = FALSE /\ admin = {} /\ member = {} /\ left = {}
    /\ operated = [c \in Creds |-> {}]
    /\ db = [d \in Dbs |-> [v |-> 0, dirty |-> FALSE, cause |-> None]]
    /\ others \in {{}, Creds}
    /\ proc = [p \in Runs |-> Idle]
    /\ spent = [faults |-> 0, joins |-> 0]

Going(p)  == proc[p].pc \notin {"idle", "done", "killed"}
Goto(p, pc) == proc' = [proc EXCEPT ![p].pc = pc]
\* The run is over but for its deferred revokes and the lock.
EndWith(p, res) == proc' = [proc EXCEPT ![p].pc = "undo", ![p].res = res]

\* What a run's GRANT and REVOKE change: the membership it granted itself, and
\* with it the record of why one was left.  An operator's grant has another
\* grantor and is not touched.
memberships == <<member, left>>

Grant(c) == member' = member \cup {c}
Revoke(c) ==
    /\ member' = member \ {c}
    /\ left' = {l \in left : l[1] # c}

roles  == <<owner, admin, operated>>

Fault ==
    /\ spent.faults < MaxFaults
    /\ spent' = [spent EXCEPT !.faults = @ + 1]

Event ==
    /\ spent.joins < MaxJoins
    /\ spent' = [spent EXCEPT !.joins = @ + 1]

-----------------------------------------------------------------------------
(* waitForDatabase and acquireClusterLock.                                 *)

Begin(p) ==
    /\ proc[p].pc = "idle"
    /\ Goto(p, "lock")
    /\ UNCHANGED <<lock, roles, memberships, db, others, spent>>

\* pg_try_advisory_lock, polled within the budget.
AcquireClusterLock(p) ==
    /\ proc[p].pc = "lock"
    /\ \/ /\ lock = {}
          /\ lock' = {p}
          /\ Goto(p, "baseline-identity")
       \/ /\ lock # {}
          /\ proc' = IF proc[p].tries < Budget
                     THEN [proc EXCEPT ![p].tries = @ + 1]
                     ELSE [proc EXCEPT ![p].pc = "done", ![p].res = "timeout"]
          /\ UNCHANGED lock
    /\ UNCHANGED <<roles, memberships, db, others, spent>>

-----------------------------------------------------------------------------
(* Becoming ledger_owner.                                                  *)

\* SET ROLE ledger_owner succeeds: more than one arrangement permits it.
CanSetRole(c) == c \in Super \cup member \/ operated[c] # {}

\* pg_has_role(current_user, 'ledger_owner', 'USAGE').
HasUsage(c) == c \in Super \/ "inherit" \in operated[c]

\* GRANT ledger_owner TO ... is accepted from this credential.
MayGrant(c) == c \in Super \cup admin \/ "admin" \in operated[c]

\* pg_stat_activity is cluster-wide: the application's sessions on this
\* credential, and those of any other Migrate call that uses it.  A killed
\* process' sessions stay until the server reclaims them.
OtherSessions(p) ==
    {q \in Runs \ {p} : CredOf[q] = CredOf[p] /\ (Going(q) \/ proc[q].pc = "killed")}

AssertSoleSessionOnCredential(p) ==
    CredOf[p] \notin others /\ OtherSessions(p) = {}

\* prepareBaselineOwnerMembership up to its GRANT.
PrepareBaselineOwnerMembership(p) ==
    /\ proc[p].pc = "baseline-identity"
    /\ IF ~owner \/ CanSetRole(CredOf[p]) THEN Goto(p, "baseline")
       ELSE IF AssertSoleSessionOnCredential(p) THEN Goto(p, "baseline-grant")
       ELSE EndWith(p, "refused")
    /\ UNCHANGED <<lock, roles, memberships, db, others, spent>>

\* prepareLedgerOwnerIdentity up to its GRANT.
PrepareLedgerOwnerIdentity(p) ==
    /\ proc[p].pc = "owner-identity"
    /\ IF HasUsage(CredOf[p]) THEN Goto(p, "open")
       ELSE IF ~AssertSoleSessionOnCredential(p) THEN EndWith(p, "refused")
       ELSE IF CanSetRole(CredOf[p]) THEN Goto(p, "open")
       ELSE Goto(p, "owner-grant")
    /\ UNCHANGED <<lock, roles, memberships, db, others, spent>>

\* GRANT ledger_owner TO runner WITH SET TRUE, INHERIT FALSE.  Once it is
\* answered the run has the membership to give back, at the second count or
\* when it ends.
GrantLedgerOwner(p) ==
    /\ proc[p].pc \in {"baseline-grant", "owner-grant"}
    /\ LET first == proc[p].pc = "baseline-grant" IN
       IF MayGrant(CredOf[p])
       THEN /\ Grant(CredOf[p])
            /\ proc' = [proc EXCEPT ![p].pc   = IF first THEN "baseline-again" ELSE "owner-again",
                                    ![p].base = @ \/ first,
                                    ![p].own  = @ \/ ~first]
       ELSE EndWith(p, "no-authority") /\ UNCHANGED member
    /\ UNCHANGED <<lock, roles, left, db, others, spent>>

\* The server applies the GRANT and its answer is lost, or ctx ends first: the
\* run returns the error, and revokes nothing.
GrantUnanswered(p) ==
    /\ proc[p].pc \in {"baseline-grant", "owner-grant"} /\ MayGrant(CredOf[p])
    /\ Fault
    /\ Grant(CredOf[p])
    /\ left' = left \cup {<<CredOf[p], "unanswered">>}
    /\ EndWith(p, "failed")
    /\ UNCHANGED <<lock, roles, db, others>>

\* The second count, with the membership in place.
AssertSoleAgain(p) ==
    /\ proc[p].pc \in {"baseline-again", "owner-again"}
    /\ IF AssertSoleSessionOnCredential(p)
       THEN Goto(p, IF proc[p].pc = "baseline-again" THEN "baseline" ELSE "open")
       ELSE EndWith(p, "refused")
    /\ UNCHANGED <<lock, roles, memberships, db, others, spent>>

-----------------------------------------------------------------------------
(* The migrations; golang-migrate marks a version dirty, runs its file and *)
(* marks it clean.                                                         *)

\* migrateBaselineFirst: 001 alone, and only on a database with no version.
MigrateBaselineFirst(p) ==
    /\ proc[p].pc = "baseline"
    /\ IF db[DbOf[p]].v = 0
       THEN /\ db' = [db EXCEPT ![DbOf[p]].v = 1, ![DbOf[p]].dirty = TRUE]
            /\ Goto(p, "001")
       ELSE Goto(p, "owner-identity") /\ UNCHANGED db
    /\ UNCHANGED <<lock, roles, memberships, others, spent>>

\* 001_baseline, one transaction.  It creates ledger_owner where there is
\* none, which makes the runner its admin; its ownership transfer needs SET
\* ROLE and its last GRANT the ADMIN OPTION; it ends with REVOKE
\* ledger_owner FROM runner.
ApplyBaseline(p) ==
    /\ proc[p].pc = "001"
    /\ LET c == CredOf[p] IN
       IF ~owner \/ (CanSetRole(c) /\ MayGrant(c))
       THEN /\ owner' = TRUE
            /\ admin' = IF owner THEN admin ELSE admin \cup {c}
            /\ Revoke(c)
            /\ db' = [db EXCEPT ![DbOf[p]].dirty = FALSE]
            /\ Goto(p, "owner-identity")
       ELSE /\ db' = [db EXCEPT ![DbOf[p]].cause = IF CanSetRole(c) THEN "grant" ELSE "set role"]
            /\ EndWith(p, "failed")
            /\ UNCHANGED <<owner, admin, memberships>>
    /\ UNCHANGED <<lock, operated, others, spent>>

\* The connection of 002..N opens and switches roles.
OpenAsOwner(p) ==
    /\ proc[p].pc = "open"
    /\ IF CanSetRole(CredOf[p]) THEN Goto(p, "up") ELSE EndWith(p, "failed")
    /\ UNCHANGED <<lock, roles, memberships, db, others, spent>>

\* m.Up: the next file, or ErrDirty, or ErrNoChange.
UpNext(p) ==
    /\ proc[p].pc = "up"
    /\ LET d == db[DbOf[p]] IN
       \/ d.dirty /\ EndWith(p, "dirty") /\ UNCHANGED db
       \/ ~d.dirty /\ d.v = Last /\ EndWith(p, "ok") /\ UNCHANGED db
       \/ /\ ~d.dirty /\ d.v < Last
          /\ db' = [db EXCEPT ![DbOf[p]].v = @ + 1, ![DbOf[p]].dirty = TRUE]
          /\ Goto(p, "file")
    /\ UNCHANGED <<lock, roles, memberships, others, spent>>

\* The file runs on the connection that is ledger_owner.
UpFile(p) ==
    /\ proc[p].pc = "file"
    /\ db' = [db EXCEPT ![DbOf[p]].dirty = FALSE]
    /\ Goto(p, "up")
    /\ UNCHANGED <<lock, roles, memberships, others, spent>>

\* A statement of a file fails.
FileFails(p) ==
    /\ proc[p].pc \in {"001", "file"}
    /\ Fault
    /\ db' = [db EXCEPT ![DbOf[p]].cause = "fault"]
    /\ EndWith(p, "failed")
    /\ UNCHANGED <<lock, roles, memberships, others>>

-----------------------------------------------------------------------------
(* The way out: the deferred revokes, innermost first, then the lock.      *)

Holds(p) == proc[p].own \/ proc[p].base
\* A deferred revoke is done with, the last one registered first.
Answered(p) ==
    IF proc[p].own THEN [proc EXCEPT ![p].own = FALSE] ELSE [proc EXCEPT ![p].base = FALSE]

\* Fault: only applyRemainingMigrations' own grant is taken back.
UndoOwnGrantOnly(p) ==
    /\ proc[p].pc = "undo" /\ Holds(p)
    /\ IF proc[p].own THEN Revoke(CredOf[p]) ELSE UNCHANGED memberships
    /\ proc' = Answered(p)
    /\ UNCHANGED <<lock, roles, db, others, spent>>

\* revokeLedgerOwner for either grant, at the second count or deferred;
\* revoking what 001 revoked already is a warning.
RevokeLedgerOwner(p) ==
    /\ proc[p].pc = "undo" /\ Holds(p)
    /\ Revoke(CredOf[p])
    /\ proc' = Answered(p)
    /\ UNCHANGED <<lock, roles, db, others, spent>>

\* The revoke fails, or its answer is lost, and the caller is told.
RevokeFails(p) ==
    /\ proc[p].pc = "undo" /\ Holds(p)
    /\ Fault
    /\ \/ Revoke(CredOf[p])
       \/ /\ left' = IF CredOf[p] \in member THEN left \cup {<<CredOf[p], "told">>} ELSE left
          /\ UNCHANGED member
    /\ proc' = [Answered(p) EXCEPT ![p].res = "revoke-failed"]
    /\ UNCHANGED <<lock, roles, db, others>>

\* The connection that holds the lock closes.
ReleaseClusterLock(p) ==
    /\ proc[p].pc = "undo" /\ ~Holds(p)
    /\ Goto(p, "done")
    /\ lock' = lock \ {p}
    /\ UNCHANGED <<roles, memberships, db, others, spent>>

\* A connection or a query fails outside the files, or ctx ends while the run
\* waits for the lock.  A GRANT the server did not apply is one of them.
ConnectFails(p) ==
    /\ Going(p) /\ proc[p].pc \notin {"001", "file", "undo"}
    /\ Fault
    /\ EndWith(p, "failed")
    /\ UNCHANGED <<lock, roles, memberships, db, others>>

\* The process is killed: its lock, its membership and its sessions stay.
Kill(p) ==
    /\ Going(p)
    /\ Fault
    /\ Goto(p, "killed")
    /\ left' = IF Holds(p) /\ CredOf[p] \in member THEN left \cup {<<CredOf[p], "killed">>} ELSE left
    /\ db' = IF proc[p].pc \in {"001", "file"} THEN [db EXCEPT ![DbOf[p]].cause = "fault"] ELSE db
    /\ UNCHANGED <<lock, roles, member, others>>

\* The server notices the dead connection.
Reclaim(p) ==
    /\ proc[p].pc = "killed"
    /\ proc' = [proc EXCEPT ![p].pc = "done", ![p].res = "killed"]
    /\ lock' = lock \ {p}
    /\ UNCHANGED <<roles, memberships, db, others, spent>>

\* The call is made again.
Again(p) ==
    /\ proc[p].pc = "done" /\ proc[p].res # "ok"
    /\ Event
    /\ proc' = [proc EXCEPT ![p] = Idle]
    /\ UNCHANGED <<lock, roles, memberships, db, others>>

\* An application connects with, or leaves, the credential.
Join(c) ==
    /\ c \notin others
    /\ Event
    /\ others' = others \cup {c}
    /\ UNCHANGED <<lock, roles, memberships, db, proc>>

Leave(c) ==
    /\ c \in others
    /\ others' = others \ {c}
    /\ UNCHANGED <<lock, roles, memberships, db, proc, spent>>

\* A superuser, or a holder of ADMIN OPTION, makes the credential a member:
\* as the refusal's text asks (SET TRUE, INHERIT FALSE), inheriting as well, or
\* with ADMIN OPTION.  Runs leave this membership alone.
OperatorGrants(c) ==
    /\ owner /\ c \notin Super
    /\ Event
    /\ \E opts \in {{"set"}, {"set", "inherit"}, {"set", "admin"}} :
          operated' = [operated EXCEPT ![c] = @ \cup opts]
    /\ UNCHANGED <<lock, owner, admin, memberships, db, others, proc>>

Step(p) ==
    \/ AcquireClusterLock(p) \/ PrepareBaselineOwnerMembership(p)
    \/ GrantLedgerOwner(p) \/ AssertSoleAgain(p) \/ MigrateBaselineFirst(p)
    \/ ApplyBaseline(p) \/ PrepareLedgerOwnerIdentity(p) \/ OpenAsOwner(p)
    \/ UpNext(p) \/ UpFile(p) \/ RevokeLedgerOwner(p) \/ ReleaseClusterLock(p)

MigNext ==
    \/ \E p \in Runs : \/ Begin(p) \/ Step(p) \/ Again(p) \/ Kill(p) \/ Reclaim(p)
                       \/ FileFails(p) \/ RevokeFails(p) \/ ConnectFails(p)
                       \/ GrantUnanswered(p)
    \/ \E c \in Creds : Join(c) \/ Leave(c) \/ OperatorGrants(c)

MigSpec     == MigInit /\ [][MigNext]_migVars
-----------------------------------------------------------------------------
(* Properties.                                                             *)

\* 001 dies of a missing authority only under a credential an operator made a
\* member without ADMIN OPTION.  Such a credential can SET ROLE, so
\* prepareBaselineOwnerMembership lets it through, and 001's own GRANT refuses
\* it.  Any other run has what 001 needs before its first statement.
DirtyOnlyByOperator ==
    \A d \in Dbs :
        /\ db[d].cause # "set role"
        /\ db[d].cause = "grant" => \E p \in Runs : DbOf[p] = d /\ operated[CredOf[p]] # {}

\* What migrate.go says of dying inside 001 for want of authority: that it is
\* unreachable.
NeverDirtyForAuthority == \A d \in Dbs : db[d].cause \notin {"set role", "grant"}

\* A membership a run granted is one a going run still has to revoke, or one
\* that was left standing in one of three ways: the revoke failed and the
\* caller was told, the process was killed, or the GRANT's own answer was lost.
MembershipReturned ==
    \A c \in member :
        \/ \E p \in Runs : CredOf[p] = c /\ Going(p) /\ Holds(p)
        \/ \E l \in left : l[1] = c

\* No authority is left behind unaccounted for, and no database dirty for the
\* want of one that no operator arranged.
MigrationsSound == MembershipReturned /\ DirtyOnlyByOperator
=============================================================================
