--------------------------------- MODULE Sweep ---------------------------------
(***************************************************************************)
(* Sweeping deposit addresses into the treasury (service/onchain.go        *)
(* sweepTick and below, chains/evm/sweeper.go).  Every token of a chain is *)
(* swept by a job of its own, on every replica; all of them broadcast with *)
(* one signer and so share one sequence of nonces.  The hash of a fee      *)
(* bump, the number of bumps and the stuck timer live in the memory of one *)
(* process.  The node behind it is the environment: it mines what it has   *)
(* in its pool, may drop it, and may mine a transaction that was replaced. *)
(***************************************************************************)
EXTENDS Integers, Sequences, FiniteSets, FiniteSetsExt

CONSTANTS
    Tokens, Replicas,
    GasCeiling, MaxSweepBumps,
    MaxNonce,          \* bound: nonces of the signer
    MaxTx,             \* bound: broadcasts
    MaxMarket,         \* bound: market price of gas
    MaxMarketMoves,    \* bound: moves of the market price
    MaxDeaths,         \* bound: replicas that die
    MaxDrops,          \* bound: transactions the node drops from its pool
    MaxLate            \* bound: replaced transactions that are mined nevertheless

ASSUME SweepAssumption ==
    GasCeiling \in Nat \ {0} /\ MaxSweepBumps \in Nat /\ MaxNonce \in Nat /\ MaxDrops \in Nat

VARIABLES
    txs,               \* every broadcast [tok, nonce, fee]; its hash is its index
    mined, pool,       \* [Nonces -> hash, 0: none]
    market, moves, drops, late, deaths,
    bookings,          \* [Tokens \X Nonces -> booking], by idempotency key
    lock,              \* advisory lock "sweep:<chain>": the job that holds it
    job,               \* [Jobs -> the tick in progress]
    sweepTx, sweepBump, sweepClock,   \* [Replicas -> [keys -> ...]]
    lastFee            \* [Replicas -> [Nonces -> fee, 0: none]] (evm.Sweeper)

Nonces == 1..MaxNonce
Keys   == Tokens \X Nonces
Jobs   == Replicas \X Tokens
NoTick == [pc |-> "idle"]
NoLock == <<>>

txVars    == <<txs, mined, pool>>
envVars   == <<market, moves, drops, late>>
memoryVars == <<sweepTx, sweepBump, sweepClock, lastFee>>
sweepVars == <<txVars, envVars, deaths, bookings, lock, job, memoryVars>>

SweepInit ==
    /\ txs = <<>>
    /\ mined = [n \in Nonces |-> 0] /\ pool = [n \in Nonces |-> 0]
    /\ market = 1 /\ moves = 0 /\ drops = 0 /\ late = 0 /\ deaths = 0
    /\ bookings = [k \in Keys |-> [status |-> "none", nonce |-> 0, ref |-> 0]]
    /\ lock = NoLock /\ job = [j \in Jobs |-> NoTick]
    /\ sweepTx = [r \in Replicas |-> [k \in Keys |-> 0]]
    /\ sweepBump = [r \in Replicas |-> [k \in Keys |-> 0]]
    /\ sweepClock = [r \in Replicas |-> [k \in Keys |-> "none"]]
    /\ lastFee = [r \in Replicas |-> [n \in Nonces |-> 0]]

-----------------------------------------------------------------------------
(* The chain and the node.                                                 *)

TxIncluded(h) == h # 0 /\ \E n \in Nonces : mined[n] = h

MarketMoves ==
    /\ moves < MaxMarketMoves /\ moves' = moves + 1
    /\ market' \in (1..MaxMarket) \ {market}
    /\ UNCHANGED <<txVars, drops, late, deaths, bookings, lock, job, memoryVars>>

\* Nonces are mined in order.
NextMined == Cardinality({n \in Nonces : mined[n] # 0}) + 1

MineNonce ==
    /\ NextMined \in Nonces /\ pool[NextMined] # 0
    /\ mined' = [mined EXCEPT ![NextMined] = pool[NextMined]]
    /\ pool' = [pool EXCEPT ![NextMined] = 0]
    /\ UNCHANGED <<txs, envVars, deaths, bookings, lock, job, memoryVars>>

MineReplaced ==
    /\ late < MaxLate /\ late' = late + 1
    /\ NextMined \in Nonces
    /\ \E h \in DOMAIN txs :
          /\ txs[h].nonce = NextMined /\ pool[NextMined] \notin {0, h}
          /\ mined' = [mined EXCEPT ![NextMined] = h]
    /\ pool' = [pool EXCEPT ![NextMined] = 0]
    /\ UNCHANGED <<txs, market, moves, drops, deaths, bookings, lock, job, memoryVars>>

NodeDrops ==
    /\ drops < MaxDrops /\ drops' = drops + 1
    /\ \E n \in Nonces : pool[n] # 0 /\ pool' = [pool EXCEPT ![n] = 0]
    /\ UNCHANGED <<txs, mined, market, moves, late, deaths, bookings, lock, job, memoryVars>>

\* PendingNonceAt: the mined nonces and those that follow in the pool.
NextNonce ==
    Min({n \in 1..MaxNonce + 1 : n = MaxNonce + 1 \/ (mined[n] = 0 /\ pool[n] = 0)})

-----------------------------------------------------------------------------
(* evm.Sweeper.                                                            *)

\* At least 12.5% more, which the node asks of a replacement.
BumpFee(fee) == fee + 1

\* A hash the node still knows: in the pool or mined.
Known(h) == TxIncluded(h) \/ \E n \in Nonces : pool[n] = h

PriorFeeFloor(r, nonce, prior) ==
    IF prior # 0 /\ Known(prior) THEN txs[prior].fee ELSE lastFee[r][nonce]

QuoteFee(r, nonce, prior) ==
    LET floor == PriorFeeFloor(r, nonce, prior)
    IN IF floor = 0 THEN market ELSE Max({market, BumpFee(floor)})

\* SendTransaction: refused for a spent nonce and for a replacement that does not pay.
Accepts(nonce, fee) ==
    /\ mined[nonce] = 0
    /\ pool[nonce] # 0 => fee >= BumpFee(txs[pool[nonce]].fee)

Broadcast(r, tok, nonce, fee) ==
    /\ txs' = Append(txs, [tok |-> tok, nonce |-> nonce, fee |-> fee])
    /\ pool' = [pool EXCEPT ![nonce] = Len(txs) + 1]
    /\ lastFee' = [lastFee EXCEPT ![r] =
                      [n \in Nonces |-> IF n < nonce THEN 0 ELSE IF n = nonce THEN fee ELSE @[n]]]
    /\ UNCHANGED mined

-----------------------------------------------------------------------------
(* One tick of a job.                                                      *)

Proceed(j, rec) == job' = [job EXCEPT ![j] = rec]
EndTick(j) == Proceed(j, NoTick) /\ lock' = NoLock

InStatus(tok, st) == {k \in Keys : k[1] = tok /\ bookings[k].status = st}

\* One job of the chain runs; above the ceiling the round is skipped.
TickBegin(j) ==
    /\ job[j] = NoTick /\ lock = NoLock
    /\ market <= GasCeiling
    /\ lock' = j
    /\ Proceed(j, [pc |-> "find"])
    /\ UNCHANGED <<txVars, envVars, deaths, bookings, memoryVars>>

\* A pending booking first, then a sent one, then a failed one; otherwise the balances
\* are scanned and the round ends when no address is due.
FindSweep(j) ==
    LET tok == j[2]
        inFlight == IF InStatus(tok, "pending") # {} THEN InStatus(tok, "pending")
                    ELSE InStatus(tok, "sent")
    IN
    /\ job[j].pc = "find"
    /\ \/ \E k \in inFlight :
             Proceed(j, IF bookings[k].status = "pending"
                     THEN [pc |-> "resume", key |-> k] ELSE [pc |-> "sent", key |-> k])
          /\ UNCHANGED lock
       \/ inFlight = {} /\ Proceed(j, [pc |-> "nonce"]) /\ UNCHANGED lock
       \/ inFlight = {} /\ EndTick(j)
    /\ UNCHANGED <<txVars, envVars, deaths, bookings, memoryVars>>

\* A failed booking is revived at the nonce just read, or a new one is created under it.
StartSweep(j) ==
    LET tok == j[2]  n == job[j].nonce IN
    /\ job[j].pc = "create"
    /\ IF InStatus(tok, "failed") # {}
       THEN \E k \in InStatus(tok, "failed") :
               /\ bookings' = [bookings EXCEPT ![k].status = "pending", ![k].nonce = n]
               /\ Proceed(j, [pc |-> "quote", key |-> k, prior |-> 0])
       ELSE /\ bookings' = IF bookings[<<tok, n>>].status = "none"
                           THEN [bookings EXCEPT ![<<tok, n>>] =
                                    [status |-> "pending", nonce |-> n, ref |-> 0]]
                           ELSE bookings
            /\ Proceed(j, [pc |-> "quote", key |-> <<tok, n>>, prior |-> 0])
    /\ UNCHANGED <<txVars, envVars, deaths, lock, memoryVars>>

\* Bound: a sweep starts when its dispatch and all its bumps fit in MaxTx.
ReadNonce(j) ==
    /\ job[j].pc = "nonce"
    /\ IF NextNonce \in Nonces /\ Len(txs) + MaxSweepBumps < MaxTx
       THEN Proceed(j, [pc |-> "create", nonce |-> NextNonce]) /\ UNCHANGED lock
       ELSE EndTick(j)
    /\ UNCHANGED <<txVars, envVars, deaths, bookings, memoryVars>>

\* Fault: a booking found pending is dispatched without asking for the nonce.
ResumeBlind(j) ==
    /\ job[j].pc = "resume"
    /\ Proceed(j, [pc |-> "quote", key |-> job[j].key, prior |-> 0]) /\ UNCHANGED lock
    /\ UNCHANGED <<txVars, envVars, deaths, bookings, memoryVars>>

\* An earlier tick may have broadcast and lost the hash: then the nonce is spent, and
\* the tick refuses.
Orphaned(j) == job[j].pc = "resume" /\ NextNonce > bookings[job[j].key].nonce

Resume(j) ==
    /\ job[j].pc = "resume"
    /\ IF Orphaned(j) THEN EndTick(j)
       ELSE Proceed(j, [pc |-> "quote", key |-> job[j].key, prior |-> 0]) /\ UNCHANGED lock
    /\ UNCHANGED <<txVars, envVars, deaths, bookings, memoryVars>>

\* ReplacementGasPrice against the ceiling.
Quote(j) ==
    /\ job[j].pc = "quote"
    /\ LET k == job[j].key IN
       IF \/ bookings[k].status \notin {"pending", "sent"}
          \/ QuoteFee(j[1], bookings[k].nonce, job[j].prior) > GasCeiling
       THEN EndTick(j)
       ELSE Proceed(j, [job[j] EXCEPT !.pc = "send"]) /\ UNCHANGED lock
    /\ UNCHANGED <<txVars, envVars, deaths, bookings, memoryVars>>

\* BatchSweep quotes again.  The first dispatch is then recorded in a transaction of
\* its own; a bump stays in memory.
BatchSweep(j) ==
    LET r == j[1]  k == job[j].key  n == bookings[k].nonce
        fee == QuoteFee(r, n, job[j].prior)
    IN
    /\ job[j].pc = "send"
    /\ \/ /\ Accepts(n, fee) /\ Len(txs) < MaxTx
          /\ Broadcast(r, k[1], n, fee)
          /\ sweepClock' = [sweepClock EXCEPT ![r][k] = "waiting"]
          /\ IF job[j].prior = 0
             THEN /\ Proceed(j, [pc |-> "record", key |-> k, hash |-> Len(txs) + 1])
                  /\ UNCHANGED <<lock, sweepTx, sweepBump>>
             ELSE /\ sweepTx' = [sweepTx EXCEPT ![r][k] = Len(txs) + 1]
                  /\ sweepBump' = [sweepBump EXCEPT ![r][k] = @ + 1]
                  /\ EndTick(j)
       \/ /\ ~(Accepts(n, fee) /\ Len(txs) < MaxTx)
          /\ EndTick(j) /\ UNCHANGED <<txVars, memoryVars>>
    /\ UNCHANGED <<envVars, deaths, bookings>>

RecordSent(j) ==
    LET r == j[1]  k == job[j].key IN
    /\ job[j].pc = "record"
    /\ bookings' = [bookings EXCEPT ![k].status = "sent", ![k].ref = job[j].hash]
    /\ sweepTx' = [sweepTx EXCEPT ![r][k] = job[j].hash]
    /\ EndTick(j)
    /\ UNCHANGED <<txVars, envVars, deaths, sweepBump, sweepClock, lastFee>>

ForgetSweepTx(r, k) ==
    /\ sweepTx' = [sweepTx EXCEPT ![r][k] = 0]
    /\ sweepBump' = [sweepBump EXCEPT ![r][k] = 0]
    /\ sweepClock' = [sweepClock EXCEPT ![r][k] = "none"]
    /\ UNCHANGED lastFee

CurrentSweepTx(r, k) == IF sweepTx[r][k] # 0 THEN sweepTx[r][k] ELSE bookings[k].ref

Included(h) == TxIncluded(h)

RecheckSweepSent(j) ==
    LET r == j[1]  k == job[j].key  h == CurrentSweepTx(r, k) IN
    /\ job[j].pc = "sent"
    /\ \/ /\ Included(h)
          /\ bookings' = [bookings EXCEPT ![k].status = "confirmed", ![k].ref = h]
          /\ ForgetSweepTx(r, k) /\ EndTick(j)
       \/ /\ ~Included(h) /\ sweepClock[r][k] # "elapsed"
          /\ sweepClock' = [sweepClock EXCEPT ![r][k] = "waiting"]
          /\ EndTick(j)
          /\ UNCHANGED <<bookings, sweepTx, sweepBump, lastFee>>
       \/ /\ ~Included(h) /\ sweepClock[r][k] = "elapsed" /\ sweepBump[r][k] >= MaxSweepBumps
          /\ bookings' = [bookings EXCEPT ![k].status = "failed"]
          /\ ForgetSweepTx(r, k) /\ EndTick(j)
       \/ /\ ~Included(h) /\ sweepClock[r][k] = "elapsed" /\ sweepBump[r][k] < MaxSweepBumps
          /\ Proceed(j, [pc |-> "quote", key |-> k, prior |-> h])
          /\ UNCHANGED <<bookings, lock, memoryVars>>
    /\ UNCHANGED <<txVars, envVars, deaths>>

\* sweepStuckAfter has passed since the replica began to wait.
StuckAfter(r, k) ==
    /\ sweepClock[r][k] = "waiting"
    /\ sweepClock' = [sweepClock EXCEPT ![r][k] = "elapsed"]
    /\ UNCHANGED <<txVars, envVars, deaths, bookings, lock, job, sweepTx, sweepBump, lastFee>>

\* A replica dies, and its session's lock with it.
ReplicaDies(r) ==
    /\ deaths < MaxDeaths /\ deaths' = deaths + 1
    /\ job' = [j \in Jobs |-> IF j[1] = r THEN NoTick ELSE job[j]]
    /\ lock' = IF lock # NoLock /\ lock[1] = r THEN NoLock ELSE lock
    /\ sweepTx' = [sweepTx EXCEPT ![r] = [k \in Keys |-> 0]]
    /\ sweepBump' = [sweepBump EXCEPT ![r] = [k \in Keys |-> 0]]
    /\ sweepClock' = [sweepClock EXCEPT ![r] = [k \in Keys |-> "none"]]
    /\ lastFee' = [lastFee EXCEPT ![r] = [n \in Nonces |-> 0]]
    /\ UNCHANGED <<txVars, envVars, bookings>>

-----------------------------------------------------------------------------
Tick(j) ==
    \/ TickBegin(j) \/ FindSweep(j) \/ ReadNonce(j) \/ StartSweep(j) \/ Resume(j)
    \/ Quote(j) \/ BatchSweep(j) \/ RecordSent(j) \/ RecheckSweepSent(j)

SweepNext ==
    \/ MarketMoves \/ MineNonce \/ MineReplaced \/ NodeDrops
    \/ \E j \in Jobs : Tick(j)
    \/ \E r \in Replicas, k \in Keys : StuckAfter(r, k)
    \/ \E r \in Replicas : ReplicaDies(r)

SweepSpec == SweepInit /\ [][SweepNext]_sweepVars

\* The jobs tick, clocks run, and the node mines what stays in its pool.
FairSweepSpec ==
    /\ SweepSpec /\ WF_sweepVars(MineNonce)
    /\ \A j \in Jobs : WF_sweepVars(Tick(j))
    /\ \A r \in Replicas, k \in Keys : WF_sweepVars(StuckAfter(r, k))

-----------------------------------------------------------------------------

(* Every booking that is sent was the last to take its nonce: two tokens   *)
(* never have a sweep under way at one nonce of the signer they share      *)
(* (newSweepLockedJob), unless the node forgot one of them.                *)
OneSweepPerNonce ==
    \A k, l \in Keys :
        k # l /\ bookings[k].status = "sent" /\ bookings[l].status = "sent"
        => bookings[k].nonce # bookings[l].nonce

(* A sweep is confirmed only for a transaction of its own that was mined,  *)
(* however often it was bumped, dropped or revived.                        *)
ConfirmedLanded ==
    \A k \in Keys : bookings[k].status = "confirmed" =>
        /\ TxIncluded(bookings[k].ref)
        /\ txs[bookings[k].ref].tok = k[1]

(* G-M5: what was mined at a booking's nonce before its hash was recorded  *)
(* is not broadcast again: the first dispatch of a booking that already    *)
(* has a transaction at that nonce in the pool or mined never goes out.    *)
NoSecondDispatch ==
    \A j \in Jobs :
        job[j].pc = "send" /\ job[j].prior = 0 =>
            LET k == job[j].key  h == pool[bookings[k].nonce] IN
            h # 0 => txs[h].tok # k[1]

\* Bookings, broadcasts and nonces agree.
SweepsSound == OneSweepPerNonce /\ ConfirmedLanded /\ NoSecondDispatch
=============================================================================
