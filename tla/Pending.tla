-------------------------------- MODULE Pending --------------------------------
(***************************************************************************)
(* Pending deposits (postgres/pending_store.go) of one holder in one       *)
(* currency: AddPending, ConfirmPending, CancelPending and the timeout     *)
(* sweep ExpirePendingOlderThan.  A journal is [key, kind, amt]; the       *)
(* pending balance is what its entries in the pending classification sum   *)
(* to.  Every journal touches two pairs, the system's counterpart and the  *)
(* user, locked in that order (the counterpart of holder H is -H).         *)
(***************************************************************************)
EXTENDS Integers, Sequences, FiniteSets, FiniteSetsExt, Functions

CONSTANTS
    Depositors,  \* callers
    Expirers,    \* callers that run the timeout sweep
    NoDepositor, \* holder of a free lock
    DepositKeys, \* idempotency keys of callers
    Deposits,    \* amounts of deposits
    Gated,       \* TRUE: the verified-balance term of ConfirmPending is configured
    PendingOps,  \* operations callers use
    MaxRequests, \* bound: calls of callers
    MaxDeaths    \* bound: transactions that die

Pairs == <<"system", "user">>

ASSUME PendingAssumption ==
    /\ NoDepositor \notin Depositors /\ Expirers \subseteq Depositors
    /\ Deposits \subseteq Nat \ {0} /\ Gated \in BOOLEAN
    /\ PendingOps \subseteq {"add", "confirm", "cancel"}

VARIABLES
    log,         \* committed journals, in the order of their ids
    old,         \* keys of the journals created before the cutoff
    keyLock,     \* keys somebody holds the idempotency lock of: <<key, holder>>
    pairLock,    \* [pair -> holder of its balance lock]
    at, req,     \* [Depositors -> place in the call; the call]
    verified,    \* [Depositors -> authorized pending balance read before the transaction]
    outcome,     \* [Depositors -> the call just ended and how]
    requests, deaths

pendingLocks == <<keyLock, pairLock>>
pendingVars  == <<log, old, pendingLocks, at, req, verified, outcome, requests, deaths>>

NoRequest == [op |-> "none", key |-> <<>>, amt |-> 0]

PendingInit ==
    /\ log      = <<>>
    /\ old      = {}
    /\ keyLock  = {}
    /\ pairLock = [p \in {"system", "user"} |-> NoDepositor]
    /\ at       = [c \in Depositors |-> "idle"]
    /\ req      = [c \in Depositors |-> NoRequest]
    /\ verified = [c \in Depositors |-> 0]
    /\ outcome  = [c \in Depositors |-> <<NoRequest, "none">>]
    /\ requests = 0
    /\ deaths   = 0

-----------------------------------------------------------------------------
Posted == {log[i] : i \in DOMAIN log}

\* The amount journal j adds to the pending classification.
Effect(j) == IF j.kind = "add" THEN j.amt ELSE -j.amt

\* pendingBalanceFromEntries, and GetBalance: what the committed entries sum to.
PendingBalance == SumFunctionOnSet([j \in Posted |-> Effect(j)], Posted)

ByKey(k) == {j \in Posted : j.key = k}

Move(c, l) == at' = [at EXCEPT ![c] = l]
Advance(c, l) ==
    /\ Move(c, l)
    /\ UNCHANGED <<log, old, req, verified, outcome, requests, deaths>>

Finish(c, how) ==
    /\ outcome' = [outcome EXCEPT ![c] = <<req[c], how>>]
    /\ keyLock' = {l \in keyLock : l[2] # c}
    /\ pairLock' = [p \in DOMAIN pairLock |-> IF pairLock[p] = c THEN NoDepositor ELSE pairLock[p]]
    /\ req' = [req EXCEPT ![c] = NoRequest]
    /\ verified' = [verified EXCEPT ![c] = 0]
    /\ Move(c, "idle")
    /\ UNCHANGED <<old, requests>>

\* ensureJournalMatchesInput.
AlreadyPosted(c) ==
    /\ ByKey(req[c].key) # {}
    /\ \E j \in ByKey(req[c].key) :
          Finish(c, IF j.kind = req[c].op /\ j.amt = req[c].amt THEN "replayed" ELSE "conflict")
    /\ UNCHANGED <<log, deaths>>

-----------------------------------------------------------------------------
Request(c, op) ==
    /\ c \notin Expirers /\ at[c] = "idle"
    /\ op \in PendingOps /\ requests < MaxRequests
    /\ requests' = requests + 1
    /\ \E k \in DepositKeys, a \in Deposits :
          req' = [req EXCEPT ![c] = [op |-> op, key |-> <<"key", k>>, amt |-> a]]
    /\ outcome' = [outcome EXCEPT ![c] = <<NoRequest, "none">>]
    /\ Move(c, IF op = "add" THEN "idem" ELSE "lookup")
    /\ UNCHANGED <<log, old, pendingLocks, verified, deaths>>

\* AddPending posts an ordinary journal; the other two look at the key first.
AddPending(c)     == Request(c, "add")
ConfirmPending(c) == Request(c, "confirm")
CancelPending(c)  == Request(c, "cancel")

\* The first look at the key, outside any lock.
FirstLook(c) ==
    /\ at[c] = "lookup"
    /\ \/ AlreadyPosted(c)
       \/ /\ ByKey(req[c].key) = {}
          /\ Advance(c, IF req[c].op = "confirm" /\ Gated THEN "verify" ELSE "idem")
          /\ UNCHANGED pendingLocks

\* VerifiedBalance: the authorized figure, before the transaction opens.
ReadVerified(c) ==
    /\ at[c] = "verify"
    /\ verified' = [verified EXCEPT ![c] = PendingBalance]
    /\ Move(c, "idem")
    /\ UNCHANGED <<log, old, pendingLocks, req, outcome, requests, deaths>>

LockKey(c) ==
    /\ at[c] = "idem"
    /\ \A l \in keyLock : l[1] # req[c].key
    /\ keyLock' = keyLock \cup {<<req[c].key, c>>}
    /\ Advance(c, IF req[c].op = "add" THEN "recheck" ELSE "bal")
    /\ UNCHANGED pairLock

\* acquireBalanceLocks, one pair at a time, in the order of Pairs.
LockPairs(c) ==
    /\ at[c] = "bal"
    /\ LET want == IF pairLock[Pairs[1]] # c THEN Pairs[1] ELSE Pairs[2]
       IN  /\ pairLock[want] = NoDepositor
           /\ pairLock' = [pairLock EXCEPT ![want] = c]
           /\ Advance(c, IF want = Pairs[1] THEN "bal"
                         ELSE IF req[c].op = "add" THEN "post" ELSE "recheck")
    /\ UNCHANGED keyLock

\* The second look at the key: PostJournal takes it before its balance locks, confirm
\* and cancel under them.
Recheck(c) ==
    /\ at[c] = "recheck"
    /\ \/ AlreadyPosted(c)
       \/ /\ ByKey(req[c].key) = {}
          /\ Advance(c, IF req[c].op = "add" THEN "bal" ELSE "gate")
          /\ UNCHANGED pendingLocks

\* Fault: with the authorized figure at hand, the entries are not summed again.
GateOnVerified(c) ==
    /\ at[c] = "gate"
    /\ LET base == IF req[c].op = "confirm" /\ Gated THEN verified[c] ELSE PendingBalance
       IN  IF base < req[c].amt
           THEN Finish(c, "insufficient") /\ UNCHANGED <<log, deaths>>
           ELSE Advance(c, "post") /\ UNCHANGED pendingLocks

\* The gate: the smaller of the authorized figure and the entries under the lock.
Gate(c) ==
    /\ at[c] = "gate"
    /\ LET base == IF req[c].op = "confirm" /\ Gated
                   THEN Min({verified[c], PendingBalance}) ELSE PendingBalance
       IN  IF base < req[c].amt
           THEN Finish(c, "insufficient") /\ UNCHANGED <<log, deaths>>
           ELSE Advance(c, "post") /\ UNCHANGED pendingLocks

\* PostJournal or PostAuthorized, and the commit.
Post(c) ==
    /\ at[c] = "post"
    /\ log' = Append(log, [key |-> req[c].key, kind |-> req[c].op,
                           amt |-> req[c].amt])
    /\ Finish(c, "posted")
    /\ UNCHANGED deaths

Abort(c) ==
    /\ at[c] \notin {"idle", "lookup", "verify"}
    /\ deaths < MaxDeaths
    /\ deaths' = deaths + 1
    /\ Finish(c, "failed")
    /\ UNCHANGED log

-----------------------------------------------------------------------------
(* The timeout sweep.                                                      *)

\* A deposit's created_at falls behind the cutoff; older journals do so first.
Age ==
    /\ \E i \in DOMAIN log :
          /\ log[i].key \notin old
          /\ \A h \in 1..(i - 1) : log[h].key \in old
          /\ old' = old \cup {log[i].key}
    /\ UNCHANGED <<log, pendingLocks, at, req, verified, outcome, requests, deaths>>

\* ListPendingJournalsOlderThan: per holder and currency, the oldest deposit_pending
\* journal behind the cutoff (DISTINCT ON ... ORDER BY id).
Stale == {i \in DOMAIN log : log[i].kind = "add" /\ log[i].key \in old}

\* One row of ExpirePendingOlderThan: skipped when nothing is pending, capped to what
\* is, cancelled under the key of the journal.
ExpirePendingOlderThan(c) ==
    /\ c \in Expirers /\ at[c] = "idle"
    /\ Stale # {} /\ PendingBalance > 0
    /\ LET j == log[Min(Stale)]
       IN  req' = [req EXCEPT ![c] =
              [op |-> "cancel", key |-> <<"expire", j.key>>, amt |-> Min({j.amt, PendingBalance})]]
    /\ outcome' = [outcome EXCEPT ![c] = <<NoRequest, "none">>]
    /\ Move(c, "lookup")
    /\ UNCHANGED <<log, old, pendingLocks, verified, requests, deaths>>

-----------------------------------------------------------------------------
PendingStep(c) ==
    \/ FirstLook(c) \/ ReadVerified(c) \/ LockKey(c) \/ LockPairs(c) \/ Recheck(c) \/ Gate(c)
    \/ Post(c)

PendingNext ==
    \/ \E c \in Depositors : AddPending(c) \/ ConfirmPending(c) \/ CancelPending(c)
    \/ \E c \in Depositors : PendingStep(c) \/ Abort(c) \/ ExpirePendingOlderThan(c)
    \/ Age

PendingSpec == PendingInit /\ [][PendingNext]_pendingVars
-----------------------------------------------------------------------------

\* No race of confirms, cancels, retries and sweeps takes more out of pending than was
\* put in: the gate of checkPendingBalanceAndPost is decided under the balance lock, and
\* an authorized figure read earlier never raises it.
NeverOverdrawn == PendingBalance >= 0
=============================================================================
