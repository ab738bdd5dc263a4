---------------------------- MODULE AccountPolicy ----------------------------
(***************************************************************************)
(* Account policies (core/account_policy.go, postgres/                     *)
(* account_policy_store.go, account_policy_enforce.go) of one holder:      *)
(* SetPolicy, and the two write paths that must respect a policy,          *)
(* PostJournal and Reserve.  A step of a client is one statement of its    *)
(* transaction; READ COMMITTED gives every statement its own snapshot, so  *)
(* the dimensions of one journal may resolve against different ones.       *)
(*                                                                         *)
(* A dimension is <<currency, classification>>; 0 is the wildcard of both. *)
(* Of a journal only the legs on this holder are kept: the counterpart     *)
(* legs are on system holders, which carry no policy here.                 *)
(***************************************************************************)
EXTENDS Integers, Sequences, FiniteSets, FiniteSetsExt, SequencesExt

CONSTANTS
    Clients,      \* goroutines calling the stores
    NoClient,     \* holder of a free lock
    NCur,         \* currencies 1..NCur of the holder
    NCls,         \* classifications 1..NCls
    CreditNormal, \* those whose normal side is credit
    Journals,     \* journals callers may post: sequences of entries
    Inputs,       \* policies callers may set: [dim, pol] (before Validate)
    MaxCalls      \* bound: calls begun in a behaviour

Currencies == 1..NCur
Classes    == 1..NCls
Accounts   == Currencies \X Classes
None       == [status |-> "none", min |-> 0, enforce |-> FALSE]

\* AccountPolicyStatus.IsValid.
Statuses == {"active", "frozen", "closed"}

\* What AccountPolicyInput.Validate lets through: a classification needs a
\* currency, and the status is one of the three.
Validate(in) ==
    /\ in.dim[2] # 0 => in.dim[1] # 0
    /\ in.pol.status \in Statuses

VARIABLES
    policies,   \* [dimension -> committed row of account_policies, or None]
    audit,      \* committed rows of account_policy_changes, in id order
    bal,        \* [account -> committed balance]
    reserved,   \* [currency -> reservations committed]
    balLock,    \* [currency -> holder of the (holder, currency) balance lock]
    rowLock,    \* [dimension -> transaction holding the policy row]
    pc, call,   \* where a client is, and the call it is making
    seen,       \* [client -> what it has read so far]
    steady,     \* clients that began after the last holder-wide change
    calls

vars == <<policies, audit, bal, reserved, balLock, rowLock, pc, call, seen,
          steady, calls>>
tables == <<policies, audit, bal, reserved>>

Dims == {<<0, 0>>} \cup (Currencies \X {0}) \cup Accounts
AnyDim == (0..NCur) \X (0..NCls)

Init ==
    /\ policies = [d \in AnyDim |-> None]
    /\ audit    = <<>>
    /\ bal      = [a \in Accounts |-> 0]
    /\ reserved = [c \in Currencies |-> 0]
    /\ balLock  = [c \in Currencies |-> NoClient]
    /\ rowLock  = [d \in AnyDim |-> NoClient]
    /\ pc       = [c \in Clients |-> "idle"]
    /\ call     = [c \in Clients |-> <<>>]
    /\ seen     = [c \in Clients |-> <<>>]
    /\ steady   = {}
    /\ calls    = 0

-----------------------------------------------------------------------------
(* Signs and priority.                                                     *)

\* core.Sign: an entry on its classification's normal side increases it.
Sign(cls, side) ==
    IF (cls \in CreditNormal) = (side = "credit") THEN 1 ELSE -1

SignedAmount(e) == Sign(e.dim[2], e.side) * e.amount

Sum(j, Keep) == FoldLeft(LAMBDA s, e : s + IF e \in Keep THEN SignedAmount(e) ELSE 0,
                         0, j)

\* Fault: a row for all currencies is preferred to one for the currency.
EffectiveWideFirst(d) ==
    LET match == {x \in {<<0, 0>>, <<d[1], 0>>, d} : policies[x] # None}
    IN  IF match = {} THEN <<>>
        ELSE CHOOSE x \in match : \A y \in match : x[1] <= y[1]

\* GetEffectiveAccountPolicy: of the rows that match with wildcards, the one
\* with most non-wildcard columns, then the larger currency, then the larger
\* classification.  <<>> when no row matches.
GetEffectiveAccountPolicy(d) ==
    LET match == {x \in AnyDim : /\ x[1] \in {d[1], 0} /\ x[2] \in {d[2], 0}
                                 /\ policies[x] # None}
        score(x) == (IF x[1] # 0 THEN 1 ELSE 0) + (IF x[2] # 0 THEN 1 ELSE 0)
        before(x, y) == \/ score(x) > score(y)
                        \/ score(x) = score(y) /\ x[1] > y[1]
                        \/ score(x) = score(y) /\ x[1] = y[1] /\ x[2] >= y[2]
    IN  IF match = {} THEN <<>>
        ELSE CHOOSE x \in match : \A y \in match : before(x, y)

-----------------------------------------------------------------------------
Goto(c, l) == pc' = [pc EXCEPT ![c] = l]

BeginCall(c, what, at) ==
    /\ pc[c] = "idle"
    /\ calls < MaxCalls
    /\ calls'  = calls + 1
    /\ call'   = [call EXCEPT ![c] = what]
    /\ steady' = steady \cup {c}
    /\ Goto(c, at)
    /\ UNCHANGED <<tables, balLock, rowLock, seen>>

\* COMMIT or ROLLBACK: every lock goes.
EndTx(c) ==
    /\ Goto(c, "idle")
    /\ call'    = [call EXCEPT ![c] = <<>>]
    /\ seen'    = [seen EXCEPT ![c] = <<>>]
    /\ balLock' = [x \in Currencies |-> IF balLock[x] = c THEN NoClient ELSE balLock[x]]
    /\ rowLock' = [d \in AnyDim |-> IF rowLock[d] = c THEN NoClient ELSE rowLock[d]]

Abort(c) == EndTx(c) /\ UNCHANGED <<tables, steady, calls>>

\* acquireBalanceLocks over the currencies the call touches, in order.
LockBalance(c, need, here, next) ==
    /\ pc[c] = here
    /\ \/ /\ \A x \in need : balLock[x] = c
          /\ Goto(c, next)
          /\ UNCHANGED balLock
       \/ \E x \in need :
          /\ balLock[x] = NoClient
          /\ \A y \in need : y < x => balLock[y] = c
          /\ balLock' = [balLock EXCEPT ![x] = c]
          /\ UNCHANGED pc
    /\ UNCHANGED <<tables, rowLock, call, seen, steady, calls>>

-----------------------------------------------------------------------------
(* SetPolicy.                                                              *)

SetPolicy(c) ==
    \E in \in Inputs : Validate(in) /\ BeginCall(c, <<"set", in>>, "setLock")

\* Only a policy on a currency takes that currency's balance lock.
SetLock(c) ==
    /\ call[c] # <<>> /\ call[c][1] = "set"
    /\ LockBalance(c, {call[c][2].dim[1]} \ {0}, "setLock", "load")

\* GetAccountPolicyForUpdate: waits for the row's holder and locks the row; a
\* row that is not committed yet is not there to be locked.
GetAccountPolicyForUpdate(c) ==
    LET d == call[c][2].dim IN
    /\ pc[c] = "load"
    /\ Goto(c, "upsert")
    /\ \/ /\ policies[d] # None
          /\ rowLock[d] = NoClient
          /\ rowLock' = [rowLock EXCEPT ![d] = c]
       \/ /\ policies[d] = None
          /\ UNCHANGED rowLock
    /\ seen' = [seen EXCEPT ![c] = <<policies[d]>>]
    /\ UNCHANGED <<tables, balLock, call, steady, calls>>

\* UpsertAccountPolicy: INSERT ... ON CONFLICT DO UPDATE waits for whoever
\* holds the row, an uncommitted insert of it included.
UpsertAccountPolicy(c) ==
    LET d == call[c][2].dim IN
    /\ pc[c] = "upsert"
    /\ rowLock[d] \in {c, NoClient}
    /\ rowLock' = [rowLock EXCEPT ![d] = c]
    /\ Goto(c, "setCommit")
    /\ UNCHANGED <<tables, balLock, call, seen, steady, calls>>

\* InsertAccountPolicyChange and COMMIT: the row and its audit row appear
\* together.  old_state is what was loaded, not what the upsert replaced.
SetCommit(c) ==
    LET in == call[c][2] IN
    /\ pc[c] = "setCommit"
    /\ policies' = [policies EXCEPT ![in.dim] = in.pol]
    /\ audit' = Append(audit, [dim |-> in.dim, old |-> seen[c][1], new |-> in.pol])
    /\ steady' = IF in.dim[1] = 0 THEN {} ELSE steady
    /\ EndTx(c)
    /\ UNCHANGED <<bal, reserved, calls>>

-----------------------------------------------------------------------------
(* PostJournal: the part between the balance locks and the inserts.        *)

PostJournal(c) == \E j \in Journals : BeginCall(c, <<"post", j>>, "postLock")

DimsOf(j) == {e.dim : e \in Range(j)}

PostLock(c) ==
    /\ call[c] # <<>> /\ call[c][1] = "post"
    /\ LockBalance(c, {d[1] : d \in DimsOf(call[c][2])}, "postLock", "resolve")

Resolved(c) == {r.dim : r \in Range(seen[c])}

\* enforceAccountPolicies, first loop: the effective policy of the next entry's
\* dimension; a closed one ends the call.
Resolve(c) ==
    LET j == call[c][2]
        todo == {i \in DOMAIN j : j[i].dim \notin Resolved(c)} IN
    /\ pc[c] = "resolve"
    /\ todo # {}
    /\ LET d == j[Min(todo)].dim
           x == GetEffectiveAccountPolicy(d)
           p == IF x = <<>> THEN None ELSE policies[x] IN
       IF p.status = "closed"
       THEN Abort(c)
       ELSE /\ seen' = [seen EXCEPT ![c] = Append(@, [dim |-> d, id |-> x, pol |-> p])]
            /\ UNCHANGED <<tables, balLock, rowLock, pc, call, steady, calls>>

\* Second loop: no net decrease of a currency under a frozen policy row.
NotFrozen(c, j) ==
    \A r \in Range(seen[c]) : r.pol.status = "frozen" =>
        LET under == {s.dim : s \in {s \in Range(seen[c]) :
                                        s.id = r.id /\ s.dim[1] = r.dim[1]}}
        IN  Sum(j, {e \in Range(j) : e.dim \in under}) >= 0

\* Third loop: the balance after the whole journal is not below the floor.
AboveFloor(c, j) ==
    \A r \in Range(seen[c]) : r.pol.enforce =>
        bal[r.dim] + Sum(j, {e \in Range(j) : e.dim = r.dim}) >= r.pol.min

\* Judge once every dimension is resolved; the inserts and COMMIT follow under
\* the same locks.
Enforce(c) ==
    LET j == call[c][2] IN
    /\ pc[c] = "resolve"
    /\ DimsOf(j) \subseteq Resolved(c)
    /\ IF NotFrozen(c, j) /\ AboveFloor(c, j)
       THEN /\ Goto(c, "postCommit")
            /\ UNCHANGED <<tables, balLock, rowLock, call, seen, steady, calls>>
       ELSE Abort(c)

PostCommit(c) ==
    LET j == call[c][2] IN
    /\ pc[c] = "postCommit"
    /\ bal' = [a \in Accounts |-> bal[a] + Sum(j, {e \in Range(j) : e.dim = a})]
    /\ EndTx(c)
    /\ UNCHANGED <<policies, audit, reserved, steady, calls>>

-----------------------------------------------------------------------------
(* Reserve: consumption, whatever the direction of later entries.          *)

Reserve(c) == \E x \in Currencies : BeginCall(c, <<"reserve", x>>, "resLock")

ResLock(c) ==
    /\ call[c] # <<>> /\ call[c][1] = "reserve"
    /\ LockBalance(c, {call[c][2]}, "resLock", "resCheck")

\* The policy of <<currency, 0>>; frozen and closed both refuse.
ResCheck(c) ==
    LET x == GetEffectiveAccountPolicy(<<call[c][2], 0>>) IN
    /\ pc[c] = "resCheck"
    /\ IF x # <<>> /\ policies[x].status \in {"frozen", "closed"}
       THEN Abort(c)
       ELSE /\ Goto(c, "resCommit")
            /\ UNCHANGED <<tables, balLock, rowLock, call, seen, steady, calls>>

ResCommit(c) ==
    /\ pc[c] = "resCommit"
    /\ reserved' = [reserved EXCEPT ![call[c][2]] = @ + 1]
    /\ EndTx(c)
    /\ UNCHANGED <<policies, audit, bal, steady, calls>>

\* A lost connection, a cancelled context, a failed statement.
Rollback(c) == pc[c] # "idle" /\ Abort(c)

Next ==
    \E c \in Clients :
        \/ SetPolicy(c) \/ SetLock(c) \/ GetAccountPolicyForUpdate(c)
        \/ UpsertAccountPolicy(c) \/ SetCommit(c)
        \/ PostJournal(c) \/ PostLock(c) \/ Resolve(c) \/ Enforce(c) \/ PostCommit(c)
        \/ Reserve(c) \/ ResLock(c) \/ ResCheck(c) \/ ResCommit(c)
        \/ Rollback(c)

PolicySpec == Init /\ [][Next]_vars

-----------------------------------------------------------------------------

\* The rung of the ladder that governs d now: the account, its currency, the
\* whole holder.
Governs(d) ==
    IF policies[d] # None THEN d
    ELSE IF policies[<<d[1], 0>>] # None THEN <<d[1], 0>> ELSE <<0, 0>>

\* The rung binds client c: it is pinned to a currency, or it has not changed
\* since c began.
Binds(c, d) == Governs(d)[1] # 0 \/ c \in steady

\* What a committing journal may do to the accounts whose policy binds it.
Respected(c) ==
    LET delta(d) == bal'[d] - bal[d]
        bound == {d \in Accounts : Binds(c, d)} IN
    /\ \A d \in bound :
          delta(d) # 0 =>
             /\ policies[Governs(d)].status # "closed"
             /\ policies[Governs(d)].enforce => bal'[d] >= policies[Governs(d)].min
    /\ \A d \in bound : policies[Governs(d)].status = "frozen" =>
          LET same == {a \in Accounts : a[1] = d[1] /\ Governs(a) = Governs(d)}
          IN  MapThenSumSet(delta, same) >= 0

\* The policy in force when a journal or a reservation commits is respected:
\* nothing moves on a closed account, a frozen one loses nothing in any
\* currency, a floor is kept.  For a policy on a currency this holds however
\* SetPolicy interleaves with the call (both take the balance lock); for a
\* holder-wide one only when it did not change during the call.
PolicyRespected ==
    /\ \A c \in Clients : pc[c] = "postCommit" /\ pc'[c] = "idle" => Respected(c)
    /\ \A c \in Clients : pc[c] = "resCommit" /\ reserved' # reserved =>
          LET d == <<call[c][2], 0>> IN
          Binds(c, d) => policies[Governs(d)].status \notin {"frozen", "closed"}
=============================================================================
