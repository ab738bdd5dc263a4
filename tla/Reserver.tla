------------------------------- MODULE Reserver -------------------------------
(***************************************************************************)
(* Reservations (postgres/reserver_store.go, reserver_discharge_auth.go),  *)
(* capture.go and the expiry sweep of service/expiration.go, on one        *)
(* (holder, currency) pair.  Reserve takes the idempotency lock and the    *)
(* balance lock; Settle, SettlePartial, FinalizeSettlement and Release     *)
(* take only the reservation's row lock; Capture takes the locks of its    *)
(* charge first and then settles and posts in one transaction.             *)
(*                                                                         *)
(* A reservation is named by its idempotency key.  What leaves the         *)
(* available balance leaves through Capture: a host that spends by a raw   *)
(* journal is outside what a reservation promises (capture.go).            *)
(***************************************************************************)
EXTENDS Integers, FiniteSets, Functions

CONSTANTS
    Clients,    \* goroutines calling the store, and one transaction each
    Sweepers,   \* those that run ExpireStaleReservations
    NoClient,   \* holder of a free lock
    Names,      \* idempotency keys of reservations
    OpKeys,     \* idempotency keys of discharges and captures
    Amounts,    \* amounts clients ask for
    TTLs,       \* values of ExpiresIn
    Opening,    \* available balance at the start
    Signing,    \* TRUE: WithAuth is configured
    Ops,        \* the operations clients call
    MaxTime,    \* bound: clock
    MaxCalls,   \* bound: calls of clients other than sweeps
    MaxFaults   \* bound: transactions that die

ASSUME ReserverAssumption ==
    /\ NoClient \notin Clients /\ Sweepers \subseteq Clients /\ IsFiniteSet(Names)
    /\ Amounts \subseteq Nat \ {0} /\ TTLs \subseteq Nat \ {0}
    /\ Opening \in Nat /\ Signing \in BOOLEAN
    /\ Ops \subseteq {"reserve", "gated", "settle", "partial", "finalize", "release",
                      "capture", "capturePartial"}

VARIABLES
    clock,      \* clock_timestamp() of the database
    bal,        \* committed sum of the available-role entries
    resv,       \* [Names -> row of reservations]
    claims,     \* committed operation receipts and settlement legs
    idemLock,   \* [Names \cup OpKeys -> holder of the idempotency lock]
    balLock,    \* holder of the pair's balance lock
    rowLock,    \* [Names -> holder of the row lock (SELECT ... FOR UPDATE)]
    pc,         \* [Clients -> place in the call]
    call,       \* [Clients -> operation and its arguments]
    mem,        \* [Clients -> what the call has read]
    pend,       \* [Clients -> uncommitted writes]
    result,     \* [Clients -> how the last call ended]
    calls, faults

lockVars == <<idemLock, balLock, rowLock>>
dbVars   == <<bal, resv, claims>>
vars     == <<clock, dbVars, lockVars, pc, call, mem, pend, result, calls, faults>>

NoRow   == [status |-> "none", amt |-> 0, settled |-> 0, exp |-> 0, ttl |-> 0]
NoCall  == [op |-> "none", name |-> "none", key |-> <<>>, amt |-> 0, ttl |-> 0]
NoMem   == [start |-> 0, base |-> 0, verified |-> 0, credit |-> [r \in Names |-> 0],
            done |-> FALSE]
NoWrite == [row |-> NoRow, claim |-> {}]

Terminal == {"settled", "released"}
Live     == {"active", "settling"}
Reserves == {"reserve", "gated"}
Captures == {"capture", "capturePartial"}

\* What a discharge writes: Capture settles, in full or in part.
Claimed(op) == IF op = "capture" THEN "settle"
               ELSE IF op = "capturePartial" THEN "partial" ELSE op

\* Receipts and legs are two tables, each with a unique idempotency key.
Table(op) == IF Claimed(op) = "partial" THEN "legs" ELSE "receipts"

\* The transitions of core/reserve.go that an operation may make.
Target(op) == CASE op = "settle"   -> "settled"
                [] op = "partial"  -> "settling"
                [] op = "finalize" -> "settled"
                [] op = "release"  -> "released"

-----------------------------------------------------------------------------
(* The reads of Reserve.                                                   *)

Outstanding(row) == IF row.status = "active" THEN row.amt
                    ELSE IF row.status = "settling" THEN row.amt - row.settled ELSE 0

\* SumActiveReservations: by the state machine, expired or not.
SumActive == SumFunction([r \in Names |-> Outstanding(resv[r])])

Unexpired(now) == {r \in Names : resv[r].status # "none" /\ resv[r].exp > now}

\* GetExpiredReservations: what the sweep lists.
ExpiredReservations == {r \in Names : resv[r].status \in Live /\ resv[r].exp < clock}

\* The two tables of claims, read by reservation.
ReceiptsOf(r) == {m \in claims : m.table = "receipts" /\ m.name = r}
LegsOf(r)     == {m \in claims : m.table = "legs" /\ m.name = r}
ClaimsOn(r)   == ReceiptsOf(r) \cup LegsOf(r)

\* verifiedDischarges: what the signed claims release of each reservation.
Verified(r) ==
    IF \E m \in ClaimsOn(r) : ~ m.signed THEN 0
    ELSE IF ReceiptsOf(r) # {} THEN resv[r].amt
    ELSE SumFunction([m \in LegsOf(r) |-> m.amt])

VerifiedDischarges ==
    [r \in Names |-> IF Signing /\ r \in Unexpired(clock) THEN Verified(r) ELSE 0]

\* The holds of the gate, at the start of the transaction: without signing every
\* unexpired reservation counts in full ...
SumHoldsIgnoringDischarge(now) == SumFunction([r \in Unexpired(now) |-> resv[r].amt])

\* ... and with it, net of what verified claims have released.
SumHoldsNetOfVerifiedDischarge(now, credit) ==
    SumFunction([r \in Unexpired(now) |->
                    IF resv[r].amt > credit[r] THEN resv[r].amt - credit[r] ELSE 0])

-----------------------------------------------------------------------------
ReserverInit ==
    /\ clock    = 0
    /\ bal      = Opening
    /\ resv     = [r \in Names |-> NoRow]
    /\ claims   = {}
    /\ idemLock = [k \in Names \cup OpKeys |-> NoClient]
    /\ balLock  = NoClient
    /\ rowLock  = [r \in Names |-> NoClient]
    /\ pc       = [c \in Clients |-> "idle"]
    /\ call     = [c \in Clients |-> NoCall]
    /\ mem      = [c \in Clients |-> NoMem]
    /\ pend     = [c \in Clients |-> NoWrite]
    /\ result   = [c \in Clients |-> "none"]
    /\ calls    = 0
    /\ faults   = 0

Goto(c, l)     == pc' = [pc EXCEPT ![c] = l]
Learn(c, m)    == mem' = [mem EXCEPT ![c] = m]
Row(c)         == resv[call[c].name]

Tick ==
    /\ clock < MaxTime
    /\ clock' = clock + 1
    /\ UNCHANGED <<dbVars, lockVars, pc, call, mem, pend, result, calls, faults>>

\* The claim under the call's key, if any.
Existing(q) == {m \in claims : m.table = Table(q.op) /\ m.key = q.key}

SameClaim(m, q) == m.name = q.name /\ m.op = Claimed(q.op) /\ m.amt = q.amt

SameRow(row, q) == row.amt = q.amt /\ row.ttl = q.ttl

\* The call was already carried out when it was made: it is a retry.
Done(q) == IF q.op \in Reserves
           THEN resv[q.name].status # "none" /\ SameRow(resv[q.name], q)
           ELSE \E m \in Existing(q) : SameClaim(m, q)

Call(c, q, l) ==
    /\ pc[c] = "idle"
    /\ call'   = [call EXCEPT ![c] = q]
    /\ Learn(c, [NoMem EXCEPT !.done = Done(q), !.start = clock])
    /\ result' = [result EXCEPT ![c] = "none"]
    /\ Goto(c, l)
    /\ UNCHANGED <<clock, dbVars, lockVars, pend, faults>>

Reserve(c) ==
    /\ calls < MaxCalls /\ calls' = calls + 1
    /\ \E op \in Ops \cap Reserves, r \in Names, a \in Amounts, t \in TTLs :
          Call(c, [op |-> op, name |-> r, key |-> <<r>>, amt |-> a, ttl |-> t],
               IF op = "gated" THEN "verify" ELSE "lookup")

\* Capture derives the keys of its settlement and its charge from the caller's.
Derived(op, k) == IF op \in Captures THEN <<k, "settle">> ELSE <<k>>

\* A call about a reservation that exists, under a key the caller chooses.
Discharge(c, op, amts, l) ==
    /\ op \in Ops
    /\ calls < MaxCalls /\ calls' = calls + 1
    /\ \E r \in Names, k \in OpKeys, a \in amts :
          /\ resv[r].status # "none"
          /\ Call(c, [op |-> op, name |-> r, key |-> Derived(op, k), amt |-> a, ttl |-> 0], l)

Settle(c)             == Discharge(c, "settle", Amounts, "row")
SettlePartial(c)      == Discharge(c, "partial", Amounts, "row")
FinalizeSettlement(c) == Discharge(c, "finalize", {0}, "row")
Release(c)            == Discharge(c, "release", {0}, "row")
Capture(c)            == \E op \in Captures : Discharge(c, op, Amounts, "idem")

\* ExpireStaleReservations acts on the status it has just read.
Sweep(c) ==
    /\ c \in Sweepers
    /\ \E r \in Names :
          /\ r \in ExpiredReservations
          /\ LET op == IF resv[r].status = "settling" THEN "finalize" ELSE "release"
             IN  Call(c, [op |-> op, name |-> r, key |-> <<r, op>>,
                          amt |-> 0, ttl |-> 0], "row")
    /\ UNCHANGED calls

Begin(c) == \/ Reserve(c) \/ Settle(c) \/ SettlePartial(c)
            \/ FinalizeSettlement(c) \/ Release(c) \/ Capture(c)

-----------------------------------------------------------------------------
(* The end of a transaction.                                               *)

End(c, res) ==
    /\ Goto(c, "idle")
    /\ call'   = [call EXCEPT ![c] = NoCall]
    /\ mem'    = [mem EXCEPT ![c] = NoMem]
    /\ pend'   = [pend EXCEPT ![c] = NoWrite]
    /\ result' = [result EXCEPT ![c] = res]
    /\ idemLock' = [k \in DOMAIN idemLock |->
                       IF idemLock[k] = c THEN NoClient ELSE idemLock[k]]
    /\ rowLock'  = [r \in Names |-> IF rowLock[r] = c THEN NoClient ELSE rowLock[r]]
    /\ balLock'  = IF balLock = c THEN NoClient ELSE balLock
    /\ UNCHANGED calls

Answer(c, res) == End(c, res) /\ UNCHANGED <<clock, dbVars, faults>>

Die(c) ==
    /\ pc[c] # "idle"
    /\ faults < MaxFaults
    /\ faults' = faults + 1
    /\ End(c, "lost")
    /\ UNCHANGED <<clock, dbVars>>

\* A step of the call that writes nothing.
Quiet(c, l) ==
    /\ Goto(c, l)
    /\ UNCHANGED <<clock, dbVars, call, pend, result, calls, faults>>

-----------------------------------------------------------------------------
(* Reserve.                                                                *)

\* requireVerifiedAvailableBalance and then verifiedDischarges, both before the
\* transaction is opened.  The verifier itself always answers.
Verify(c) ==
    /\ \/ /\ pc[c] = "verify"
          /\ Learn(c, [mem[c] EXCEPT !.verified = bal])
          /\ Quiet(c, "credit")
       \/ /\ pc[c] = "credit"
          /\ Learn(c, [mem[c] EXCEPT !.credit = VerifiedDischarges])
          /\ Quiet(c, "lookup")
    /\ UNCHANGED lockVars

\* GetReservationByIdempotencyKey and ensureReservationMatchesInput.  The
\* transaction, and with it now(), starts after the first look-up.
Lookup(c, here, next) ==
    /\ pc[c] = here
    /\ \/ /\ Row(c).status = "none"
          /\ Learn(c, IF here = "lookup" THEN [mem[c] EXCEPT !.start = clock] ELSE mem[c])
          /\ Quiet(c, next)
          /\ UNCHANGED lockVars
       \/ /\ Row(c).status # "none"
          /\ Answer(c, IF SameRow(Row(c), call[c]) THEN "ok" ELSE "conflict")

\* acquireIdempotencyLock: Reserve locks its own key, Capture (LockForTemplates)
\* the keys of its settlement and charge.
LockIdem(c) ==
    /\ pc[c] = "idem"
    /\ idemLock[call[c].key[1]] = NoClient
    /\ idemLock' = [idemLock EXCEPT ![call[c].key[1]] = c]
    /\ Quiet(c, IF call[c].op \in Captures THEN "balance" ELSE "recheck")
    /\ UNCHANGED <<mem, balLock, rowLock>>

LockBalance(c) ==
    /\ pc[c] = "balance"
    /\ balLock = NoClient
    /\ balLock' = c
    /\ Quiet(c, IF call[c].op \in Captures THEN "row" ELSE "base")
    /\ UNCHANGED <<mem, idemLock, rowLock>>

\* Fault: the gate's figure is used without the one taken under the lock.
ReadBaseVerified(c) ==
    /\ pc[c] = "base"
    /\ Learn(c, [mem[c] EXCEPT !.base = IF call[c].op = "gated" THEN mem[c].verified
                                                                ELSE bal])
    /\ Quiet(c, "held")
    /\ UNCHANGED lockVars

\* The available base: checkpoint + delta, or under the gate the smaller of the
\* verified figure and a recomputation under the lock.
ReadBase(c) ==
    /\ pc[c] = "base"
    /\ Learn(c, [mem[c] EXCEPT !.base =
                    IF call[c].op = "gated" /\ mem[c].verified < bal
                    THEN mem[c].verified ELSE bal])
    /\ Quiet(c, "held")
    /\ UNCHANGED lockVars

Held(c) == IF call[c].op # "gated" THEN SumActive
           ELSE IF Signing THEN SumHoldsNetOfVerifiedDischarge(mem[c].start, mem[c].credit)
           ELSE SumHoldsIgnoringDischarge(mem[c].start)

\* The row InsertReservation writes; the database adds ExpiresIn to its own clock.
NewReservation(c) ==
    [status |-> "active", amt |-> call[c].amt, settled |-> 0,
     exp |-> clock + call[c].ttl, ttl |-> call[c].ttl]

\* The holds, the comparison and InsertReservation.
InsertReservation(c) ==
    /\ pc[c] = "held"
    /\ \/ /\ mem[c].base - Held(c) >= call[c].amt
          /\ pend' = [pend EXCEPT ![c].row = NewReservation(c)]
          /\ Goto(c, "commit")
          /\ UNCHANGED <<clock, dbVars, lockVars, call, mem, result, calls, faults>>
       \/ /\ mem[c].base - Held(c) < call[c].amt
          /\ Answer(c, "insufficient")

-----------------------------------------------------------------------------
(* Settle, SettlePartial, FinalizeSettlement, Release; Capture runs the     *)
(* first two under the locks of its charge.                                 *)

\* SELECT ... FOR UPDATE.
LockRow(c) ==
    /\ pc[c] = "row"
    /\ rowLock[call[c].name] = NoClient
    /\ rowLock' = [rowLock EXCEPT ![call[c].name] = c]
    /\ Quiet(c, "check")
    /\ UNCHANGED <<mem, idemLock, balLock>>

\* ReservationExpiredNow
ExpiredNow(c) == Row(c).exp <= clock

\* refuseExpiredSettlement: only what records new spend.
Expired(c) == Claimed(call[c].op) \in {"settle", "partial"} /\ ExpiredNow(c)

\* The status and amount checks of the four operations.
SettleAllowed(c)   == Row(c).status = "active" /\ call[c].amt <= Row(c).amt
PartialAllowed(c)  == /\ Row(c).status \in Live
                      /\ Row(c).settled + call[c].amt <= Row(c).amt

FinalizeAllowed(c) == Row(c).status = "settling"
ReleaseAllowed(c)  == Row(c).status \in Live

Allowed(c) ==
    CASE Claimed(call[c].op) = "settle"   -> SettleAllowed(c)
      [] Claimed(call[c].op) = "partial"  -> PartialAllowed(c)
      [] Claimed(call[c].op) = "finalize" -> FinalizeAllowed(c)
      [] Claimed(call[c].op) = "release"  -> ReleaseAllowed(c)

\* Fault: expiry is looked at before the replay.
CheckExpiryFirst(c) ==
    /\ pc[c] = "check"
    /\ IF Expired(c) THEN Answer(c, "invalid")
       ELSE IF Existing(call[c]) # {}
       THEN IF \E m \in Existing(call[c]) : SameClaim(m, call[c])
            THEN Quiet(c, "commit") /\ UNCHANGED <<mem, lockVars>>
            ELSE Answer(c, "conflict")
       ELSE IF Allowed(c) THEN Quiet(c, "apply") /\ UNCHANGED <<mem, lockVars>>
       ELSE Answer(c, "invalid")

\* The replay short-circuit comes before expiry and status.  A replayed Capture
\* finds its charge too and commits nothing.
Check(c) ==
    /\ pc[c] = "check"
    /\ \/ /\ \E m \in Existing(call[c]) : SameClaim(m, call[c])
          /\ Quiet(c, "commit")
          /\ UNCHANGED <<mem, lockVars>>
       \/ /\ \E m \in Existing(call[c]) : ~ SameClaim(m, call[c])
          /\ Answer(c, "conflict")
       \/ /\ Existing(call[c]) = {}
          /\ Expired(c) \/ ~ Allowed(c)
          /\ Answer(c, "invalid")
       \/ /\ Existing(call[c]) = {}
          /\ ~ Expired(c) /\ Allowed(c)
          /\ Quiet(c, "apply")
          /\ UNCHANGED <<mem, lockVars>>

\* Another transaction has inserted the same key and not committed yet: the
\* unique index makes this one wait.
KeyInFlight(c) ==
    \E d \in Clients \ {c} : \E m \in pend[d].claim :
        m.table = Table(call[c].op) /\ m.key = call[c].key

NewRow(c) ==
    [Row(c) EXCEPT !.status  = Target(Claimed(call[c].op)),
                   !.settled = IF Claimed(call[c].op) = "partial" THEN @ + call[c].amt
                               ELSE IF Claimed(call[c].op) = "settle" THEN call[c].amt
                               ELSE @]

\* The claim of a call; one written inside a caller's transaction is not signed.
NewClaim(c, table) ==
    [table |-> table, key |-> call[c].key, name |-> call[c].name,
     op |-> Claimed(call[c].op), amt |-> call[c].amt, charged |-> call[c].op \in Captures,
     signed |-> Signing /\ call[c].op \notin Captures]

\* InsertReservationOperationReceipt and InsertReservationSettlementLeg.
InsertReceipt(c) == {m \in {NewClaim(c, "receipts")} : Table(call[c].op) = "receipts"}
InsertLeg(c)     == {m \in {NewClaim(c, "legs")} : Table(call[c].op) = "legs"}

\* The update of the row and the receipt or leg (ON CONFLICT DO NOTHING); for
\* Capture, the charge.
Apply(c) ==
    /\ pc[c] = "apply"
    /\ ~ KeyInFlight(c)
    /\ \/ /\ Existing(call[c]) = {}
          /\ pend' = [pend EXCEPT ![c] =
                [row |-> NewRow(c), claim |-> InsertReceipt(c) \cup InsertLeg(c)]]
          /\ Goto(c, IF call[c].op \in Captures THEN "charge" ELSE "commit")
          /\ UNCHANGED <<clock, dbVars, lockVars, call, mem, result, calls, faults>>
       \/ /\ Existing(call[c]) # {}
          /\ Answer(c, "conflict")

\* Fault: the charge is posted without looking its key up.
ChargeUnmatched(c) ==
    /\ pc[c] = "charge"
    /\ Quiet(c, "commit")
    /\ UNCHANGED <<mem, lockVars>>

\* Capture's ExecuteTemplate: a charge already posted under the caller's key is
\* one of the other mode, and its payload does not match.
Charge(c) ==
    /\ pc[c] = "charge"
    /\ IF \E m \in claims : m.charged /\ m.key = call[c].key
       THEN Answer(c, "conflict")
       ELSE Quiet(c, "commit") /\ UNCHANGED <<mem, lockVars>>

\* COMMIT: the row, the claim and the entries of the charge become visible
\* together; the acknowledgement may be lost.
Commit(c) ==
    /\ pc[c] = "commit"
    /\ IF pend[c].row.status = "none" THEN UNCHANGED resv
       ELSE resv' = [resv EXCEPT ![call[c].name] = pend[c].row]
    /\ claims' = claims \cup pend[c].claim
    /\ bal' = IF \E m \in pend[c].claim : m.charged THEN bal - call[c].amt ELSE bal
    /\ \E res \in {"ok", "lost"} : End(c, res)
    /\ UNCHANGED <<clock, faults>>

Step(c) ==
    \/ Verify(c) \/ Lookup(c, "lookup", "idem") \/ LockIdem(c)
    \/ Lookup(c, "recheck", "balance") \/ LockBalance(c)
    \/ ReadBase(c) \/ InsertReservation(c)
    \/ LockRow(c) \/ Check(c) \/ Apply(c) \/ Charge(c) \/ Commit(c)

ReserverNext == Tick \/ \E c \in Clients : Begin(c) \/ Sweep(c) \/ Step(c) \/ Die(c)

ReserverSpec == ReserverInit /\ [][ReserverNext]_vars

\* A call goes on when it can, and the sweep runs on a ticker.
FairReserverSpec ==
    /\ ReserverSpec
    /\ \A c \in Clients : WF_vars(Step(c)) /\ WF_vars(Sweep(c))

-----------------------------------------------------------------------------

\* No over-sell (I-4, I-11, I-49, I-65): what the live reservations that have
\* not expired may still capture is covered by the balance, although discharges
\* take no balance lock, the gate's figures are stale and the clock moves on.
HoldsCovered ==
    SumFunction([r \in Unexpired(clock) |-> Outstanding(resv[r])]) <= bal

\* Every discharge is applied exactly once (I-3): a caller's key stands for one
\* claim and one charge, a reservation's settled amount is the sum of its claims,
\* and the balance has fallen by the captured ones.
AppliedOnce ==
    /\ \A m, n \in claims :
          m.key = n.key /\ (m.table = n.table \/ (m.charged /\ n.charged)) => m = n
    /\ \A r \in Names :
          resv[r].settled = SumFunction([m \in ClaimsOn(r) |-> m.amt])
    /\ bal = Opening - SumFunction([m \in {n \in claims : n.charged} |-> m.amt])

\* A retry of a call that was carried out is never refused, although the
\* reservation has since expired, been wound down or used up the balance.
RetryNotRefused ==
    [][\A c \in Clients : mem[c].done /\ pc[c] # "idle" /\ pc'[c] = "idle" =>
          result'[c] \in {"ok", "lost"}]_vars

\* service/expiration.go: "settling ones (partially settled via SettlePartial)
\* are finalized instead": the sweep never releases a reservation with legs.
SweepKeepsPartial ==
    \A m \in claims : m.key = <<m.name, "release">> =>
        \A l \in ClaimsOn(m.name) : l.op # "partial"

\* A reservation the sweep owes an end.
Overdue(r) == resv[r].status \in Live /\ resv[r].exp < clock
=============================================================================
