----------------------------- MODULE SweepProofs -----------------------------
(***************************************************************************)
(* A sweep is confirmed only for a transaction of its own token that was   *)
(* mined; and while the node forgets nothing, two sweeps never share a     *)
(* nonce and no booking is dispatched twice, for any tokens, replicas,     *)
(* nonces, bumps and deaths.  One signer serves every token, so the        *)
(* argument is about its nonces: one tick runs at a time, the nonces taken *)
(* are the first ones, and a booking that is dispatched first has the next *)
(* free one.                                                               *)
(***************************************************************************)
EXTENDS Sweep, WellFoundedInduction, TLAPS

\* A nonce of the signer is taken: the node has a transaction for it in its pool, or
\* has mined one.
Taken(n) == mined[n] # 0 \/ pool[n] # 0

\* Every nonce before n is taken, as PendingNonceAt reports it.
AllTakenBefore(n) == \A m \in Nonces : m < n => Taken(m)

\* h is a broadcast of the token of booking k.
OwnTx(h, k) == h \in DOMAIN txs /\ txs[h].tok = k[1]

\* The hashes in the tables and in memory are hashes of broadcasts, and no nonce is
\* both mined and in the pool.
TxShapes ==
    /\ \E S : txs \in Seq(S)
    /\ mined \in [Nonces -> 0..Len(txs)]
    /\ pool \in [Nonces -> 0..Len(txs)]
    /\ bookings \in [Keys -> [status : {"none", "pending", "sent", "failed", "confirmed"},
                              nonce : 0..MaxNonce, ref : 0..Len(txs)]]
    /\ sweepTx \in [Replicas -> [Keys -> 0..Len(txs)]]
    /\ job = [j \in Jobs |-> job[j]]
    /\ \A n \in Nonces : pool[n] # 0 => mined[n] = 0

\* What a tick that is under way carries from step to step.
TickShape(j) ==
    /\ job[j].pc \in {"idle", "find", "nonce", "create", "resume", "sent", "quote", "send", "record"}
    /\ job[j].pc = "create" => job[j].nonce \in Nonces
    /\ job[j].pc \in {"resume", "sent"} => job[j].key \in Keys
    /\ job[j].pc \in {"quote", "send"} => job[j] \in [pc : {"quote", "send"}, key : Keys, prior : 0..Len(txs)]
    /\ job[j].pc = "record" => job[j].key \in Keys /\ OwnTx(job[j].hash, job[j].key)

\* A booking's hash, on the record or in the memory of a replica, is of its own token.
OwnHashes ==
    /\ \A k \in Keys : bookings[k].ref # 0 => OwnTx(bookings[k].ref, k)
    /\ \A r \in Replicas, k \in Keys : sweepTx[r][k] # 0 => OwnTx(sweepTx[r][k], k)

\* A booking that exists, or that a tick is about to write, has a nonce.
NoncesGiven ==
    /\ \A k \in Keys : bookings[k].status # "none" => bookings[k].nonce \in Nonces
    /\ \A j \in Jobs : job[j].pc \in {"sent", "send", "record"} => bookings[job[j].key].nonce \in Nonces

\* With NoncesGiven, what makes ConfirmedLanded inductive, whatever the node does.
LandedInv == TxShapes /\ (\A j \in Jobs : TickShape(j)) /\ OwnHashes /\ ConfirmedLanded

\* One tick of the chain is under way, the one that holds the lock.
OneTick == \A j \in Jobs : job[j].pc # "idle" => lock = j

\* The nonces of the bookings, while the node forgets nothing.
NoncesKept ==
    /\ \A m, n \in Nonces : m < n /\ Taken(n) => Taken(m)
    /\ \A k \in Keys : bookings[k].status # "none" => AllTakenBefore(bookings[k].nonce)
    /\ \A k \in Keys : bookings[k].status = "sent" => Taken(bookings[k].nonce) /\ bookings[k].ref # 0

\* What a tick has established when it gets to each of its steps.
TickKnows(j) ==
    /\ job[j].pc \in {"nonce", "create"} => \A k \in Keys : k[1] = j[2] => bookings[k].status \notin {"pending", "sent"}
    /\ job[j].pc = "create" => ~Taken(job[j].nonce) /\ AllTakenBefore(job[j].nonce)
    /\ job[j].pc = "resume" => bookings[job[j].key].status = "pending"
    /\ job[j].pc = "sent" => bookings[job[j].key].status = "sent"
    /\ job[j].pc \in {"quote", "send"} =>
          \/ job[j].prior = 0 /\ bookings[job[j].key].status = "pending" /\ ~Taken(bookings[job[j].key].nonce)
          \/ job[j].prior # 0 /\ bookings[job[j].key].status = "sent"
          \/ job[j].pc = "quote" /\ bookings[job[j].key].status \notin {"pending", "sent"}
    /\ job[j].pc = "record" =>
          /\ bookings[job[j].key].status = "pending" /\ Taken(bookings[job[j].key].nonce)
          /\ \A k \in Keys : bookings[k].status = "sent" => bookings[k].nonce # bookings[job[j].key].nonce

SweepInv == LandedInv /\ NoncesGiven /\ OneTick /\ NoncesKept /\ OneSweepPerNonce /\ (\A j \in Jobs : TickKnows(j))

\* A key is a token and a nonce.
LEMMA KeyParts ==
    ASSUME NEW k \in Keys
    PROVE  k[1] \in Tokens /\ k[2] \in Nonces /\ k = <<k[1], k[2]>>
BY DEF Keys

\* A nonce is a positive number.
LEMMA NonceIsNat ==
    /\ \A n \in Nonces : n \in Nat /\ 1 <= n /\ n <= MaxNonce
    /\ \A n \in Nat : 1 <= n /\ n <= MaxNonce => n \in Nonces
BY SweepAssumption DEF Nonces

\* Broadcasts are only added: what was one hash's transaction stays it.
TxsGrow ==
    /\ \E S : txs' \in Seq(S)
    /\ Len(txs) \in Nat /\ Len(txs') \in Nat /\ Len(txs) <= Len(txs')
    /\ DOMAIN txs = 1..Len(txs) /\ DOMAIN txs' = 1..Len(txs')
    /\ \A h \in 1..Len(txs) : txs'[h] = txs[h]

\* No broadcast: the hashes are as they were.
LEMMA SameTxs ==
    ASSUME TxShapes, txs' = txs
    PROVE  TxsGrow
<1>1. PICK S : txs \in Seq(S)
  BY Zenon DEF TxShapes
<1>2. Len(txs) \in Nat /\ DOMAIN txs = 1..Len(txs)
  BY <1>1
<1>. QED BY <1>1, <1>2 DEF TxsGrow

\* A broadcast takes the next hash.
LEMMA OneMoreTx ==
    ASSUME TxShapes, NEW e, txs' = Append(txs, e)
    PROVE  TxsGrow /\ Len(txs') = Len(txs) + 1 /\ txs'[Len(txs) + 1] = e
<1>1. PICK S : txs \in Seq(S)
  BY Zenon DEF TxShapes
<1>2. Len(txs) \in Nat /\ DOMAIN txs = 1..Len(txs)
  BY <1>1
<1>3. txs \in Seq(S \cup {e})
  BY <1>1
<1>4. /\ txs' \in Seq(S \cup {e})
      /\ Len(txs') = Len(txs) + 1
      /\ \A h \in 1..Len(txs) : txs'[h] = txs[h]
      /\ txs'[Len(txs) + 1] = e
  BY <1>3
<1>5. DOMAIN txs' = 1..Len(txs')
  BY <1>4
<1>. QED BY <1>2, <1>4, <1>5 DEF TxsGrow

\* The shapes of the ticks other than j outlast a step of j, or of the node.
LEMMA TickShapesKept ==
    ASSUME TxsGrow, \A i \in Jobs : TickShape(i),
           NEW j, \A i \in Jobs : i # j => job'[i] = job[i], j \in Jobs => TickShape(j)'
    PROVE  \A i \in Jobs : TickShape(i)'
<1> SUFFICES ASSUME NEW i \in Jobs, i # j PROVE TickShape(i)'
  BY Zenon
<1>1. job'[i] = job[i] /\ TickShape(i)
  BY Zenon
<1>2. 0..Len(txs) \subseteq 0..Len(txs')
  BY DEF TxsGrow
<1>. QED BY <1>1, <1>2 DEF TickShape, OwnTx, TxsGrow

\* A nonce is mined once: what was included stays included.
LEMMA IncludedStays ==
    ASSUME \A n \in Nonces : mined[n] # 0 => mined'[n] = mined[n],
           NEW h, TxIncluded(h)
    PROVE  TxIncluded(h)'
BY Zenon DEF TxIncluded

\* Every step, seen by the bookings: hashes on the record and in memory are kept,
\* dropped, or of the booking's own token, and what is confirmed has landed.
LEMMA LandedKept ==
    ASSUME LandedInv, TxsGrow,
           mined' \in [Nonces -> 0..Len(txs')], pool' \in [Nonces -> 0..Len(txs')],
           bookings' \in [Keys -> [status : {"none", "pending", "sent", "failed", "confirmed"},
                                   nonce : 0..MaxNonce, ref : 0..Len(txs')]],
           sweepTx' \in [Replicas -> [Keys -> 0..Len(txs')]],
           job' = [j \in Jobs |-> job'[j]],
           \A n \in Nonces : pool'[n] # 0 => mined'[n] = 0,
           \A n \in Nonces : mined[n] # 0 => mined'[n] = mined[n],
           \A j \in Jobs : TickShape(j)',
           \A k \in Keys : bookings'[k].ref \in {0, bookings[k].ref} \/ OwnTx(bookings[k].ref, k)',
           \A r \in Replicas, k \in Keys :
               sweepTx'[r][k] \in {0, sweepTx[r][k]} \/ OwnTx(sweepTx[r][k], k)',
           \A k \in Keys : bookings'[k].status = "confirmed" =>
               \/ bookings'[k] = bookings[k]
               \/ TxIncluded(bookings[k].ref)' /\ OwnTx(bookings[k].ref, k)'
    PROVE  LandedInv'
<1>1. TxShapes'
  BY Zenon DEF TxShapes, TxsGrow
<1>2. ASSUME NEW h, NEW k \in Keys, OwnTx(h, k) PROVE OwnTx(h, k)'
  BY <1>2 DEF OwnTx, TxsGrow
<1>3. ASSUME NEW k \in Keys, bookings'[k].ref # 0 PROVE OwnTx(bookings[k].ref, k)'
  <2>1. CASE OwnTx(bookings[k].ref, k)'
    BY <2>1, Zenon
  <2>2. CASE bookings'[k].ref \in {0, bookings[k].ref}
    <3>1. PICK h : h = bookings[k].ref
      BY Zenon
    <3>2. OwnTx(h, k)
      BY <1>3, <2>2, <3>1, Zenon DEF LandedInv, OwnHashes
    <3>3. OwnTx(h, k)'
      BY <1>2, <3>2, Zenon
    <3>. QED BY <1>3, <2>2, <3>1, <3>3, Zenon DEF OwnTx
  <2>. QED BY <2>1, <2>2, Zenon
<1>4. ASSUME NEW r \in Replicas, NEW k \in Keys, sweepTx'[r][k] # 0 PROVE OwnTx(sweepTx[r][k], k)'
  <2>1. CASE OwnTx(sweepTx[r][k], k)'
    BY <2>1, Zenon
  <2>2. CASE sweepTx'[r][k] \in {0, sweepTx[r][k]}
    <3>1. PICK h : h = sweepTx[r][k]
      BY Zenon
    <3>2. OwnTx(h, k)
      BY <1>4, <2>2, <3>1, Zenon DEF LandedInv, OwnHashes
    <3>3. OwnTx(h, k)'
      BY <1>2, <3>2, Zenon
    <3>. QED BY <1>4, <2>2, <3>1, <3>3, Zenon DEF OwnTx
  <2>. QED BY <1>4, <2>1, <2>2, Zenon
<1>5. OwnHashes'
  BY <1>3, <1>4, Zenon DEF OwnHashes
<1>6. ASSUME NEW k \in Keys, bookings'[k].status = "confirmed"
      PROVE  TxIncluded(bookings[k].ref)' /\ txs'[bookings'[k].ref].tok = k[1]
  <2>1. CASE TxIncluded(bookings[k].ref)' /\ OwnTx(bookings[k].ref, k)'
    BY <2>1, Zenon DEF OwnTx
  <2>2. CASE bookings'[k] = bookings[k]
    <3>1. PICK h : h = bookings[k].ref
      BY Zenon
    <3>2. TxIncluded(h)
      BY <1>6, <2>2, <3>1, Zenon DEF LandedInv, ConfirmedLanded
    <3>3. TxIncluded(h)'
      BY <3>2, IncludedStays, Zenon
    <3>4. h # 0
      BY <3>2, Zenon DEF TxIncluded
    <3>. QED BY <1>3, <2>2, <3>1, <3>3, <3>4, Zenon DEF OwnTx, TxIncluded
  <2>. QED BY <1>6, <2>1, <2>2, Zenon
<1>7. ConfirmedLanded'
  BY <1>6, Zenon DEF ConfirmedLanded
<1>. QED BY <1>1, <1>5, <1>7, Zenon DEF LandedInv

\* Of all the ticks, a step of j moves its own.
OnlyTick(j) == job' = [i \in Jobs |-> job'[i]] /\ \A i \in Jobs : i # j => job'[i] = job[i]

\* Proceed puts the tick of j where it says.
LEMMA ProceedMoves ==
    ASSUME LandedInv, NEW j \in Jobs, NEW STATE rec, Proceed(j, rec)
    PROVE  OnlyTick(j) /\ job'[j] = rec
BY Zenon DEF LandedInv, TxShapes, Proceed, OnlyTick

\* EndTick ends it and gives the lock back.
LEMMA EndTickMoves ==
    ASSUME LandedInv, NEW j \in Jobs, EndTick(j)
    PROVE  OnlyTick(j) /\ job'[j] = NoTick /\ TickShape(j)'
<1>1. Proceed(j, NoTick)
  BY Zenon DEF EndTick
<1>2. OnlyTick(j) /\ job'[j] = NoTick
  BY <1>1, ProceedMoves, Zenon
<1>. QED BY <1>2 DEF TickShape, NoTick

\* A step of tick j that leaves transactions and bookings alone.
LEMMA TablesKept ==
    ASSUME LandedInv, UNCHANGED <<txVars, bookings, sweepTx>>,
           NEW j \in Jobs, OnlyTick(j), TickShape(j)'
    PROVE  LandedInv'
<1>0. UNCHANGED <<txs, mined, pool, bookings, sweepTx>>
  BY Zenon DEF txVars
<1>1. TxsGrow
  BY <1>0, SameTxs, Zenon DEF LandedInv
<1>2. \A i \in Jobs : TickShape(i)'
  BY <1>1, TickShapesKept, Zenon DEF OnlyTick, LandedInv
<1>3. TxShapes
  BY Zenon DEF LandedInv
<1>4. /\ mined' \in [Nonces -> 0..Len(txs')] /\ pool' \in [Nonces -> 0..Len(txs')]
      /\ bookings' \in [Keys -> [status : {"none", "pending", "sent", "failed", "confirmed"},
                                 nonce : 0..MaxNonce, ref : 0..Len(txs')]]
      /\ sweepTx' \in [Replicas -> [Keys -> 0..Len(txs')]]
      /\ \A n \in Nonces : pool'[n] # 0 => mined'[n] = 0
  BY <1>0, <1>3, Zenon DEF TxShapes
<1>5. /\ \A n \in Nonces : mined[n] # 0 => mined'[n] = mined[n]
      /\ \A k \in Keys : bookings'[k].ref \in {0, bookings[k].ref}
      /\ \A r \in Replicas, k \in Keys : sweepTx'[r][k] \in {0, sweepTx[r][k]}
      /\ \A k \in Keys : bookings'[k] = bookings[k]
  BY <1>0, Zenon
<1>6. job' = [i \in Jobs |-> job'[i]]
  BY Zenon DEF OnlyTick
<1>. QED BY <1>1, <1>2, <1>4, <1>5, <1>6, LandedKept, Zenon

\* A step of the node: nonces are mined once, and what is mined leaves the pool.
LEMMA NodeSteps ==
    ASSUME LandedInv, UNCHANGED <<txs, bookings, sweepTx, job>>,
           mined' \in [Nonces -> 0..Len(txs)], pool' \in [Nonces -> 0..Len(txs)],
           \A n \in Nonces : pool'[n] # 0 => mined'[n] = 0,
           \A n \in Nonces : mined[n] # 0 => mined'[n] = mined[n]
    PROVE  LandedInv'
<1>1. TxsGrow /\ TxShapes
  BY SameTxs, Zenon DEF LandedInv
<1>2. \A i \in Jobs : TickShape(i)'
  BY Zenon DEF LandedInv, TickShape, OwnTx
<1>3. job' = [i \in Jobs |-> job'[i]]
  BY <1>1, Zenon DEF TxShapes
<1>4. /\ bookings' \in [Keys -> [status : {"none", "pending", "sent", "failed", "confirmed"},
                                 nonce : 0..MaxNonce, ref : 0..Len(txs')]]
      /\ sweepTx' \in [Replicas -> [Keys -> 0..Len(txs')]]
      /\ mined' \in [Nonces -> 0..Len(txs')] /\ pool' \in [Nonces -> 0..Len(txs')]
  BY <1>1, Zenon DEF TxShapes
<1>5. /\ \A k \in Keys : bookings'[k].ref \in {0, bookings[k].ref}
      /\ \A r \in Replicas, k \in Keys : sweepTx'[r][k] \in {0, sweepTx[r][k]}
      /\ \A k \in Keys : bookings'[k] = bookings[k]
  BY Zenon
<1>. QED BY <1>1, <1>2, <1>3, <1>4, <1>5, LandedKept, Zenon

\* The node mines, mines what was replaced, or forgets.
LEMMA NodeLanded ==
    ASSUME LandedInv, MineNonce \/ MineReplaced \/ NodeDrops
    PROVE  LandedInv'
<1>0. /\ mined \in [Nonces -> 0..Len(txs)] /\ pool \in [Nonces -> 0..Len(txs)]
      /\ \A n \in Nonces : pool[n] # 0 => mined[n] = 0
      /\ Len(txs) \in Nat /\ DOMAIN txs = 1..Len(txs)
  BY SameTxs DEF LandedInv, TxShapes
<1>1. CASE MineNonce
  <2>1. NextMined \in Nonces /\ pool[NextMined] # 0
    BY <1>1, Zenon DEF MineNonce
  <2>2. /\ mined' = [mined EXCEPT ![NextMined] = pool[NextMined]]
        /\ pool' = [pool EXCEPT ![NextMined] = 0]
        /\ UNCHANGED <<txs, bookings, sweepTx, job>>
    BY <1>1, Zenon DEF MineNonce, memoryVars
  <2>3. PICK n \in Nonces : n = NextMined
    BY <2>1, Zenon
  <2>. QED BY <1>0, <2>1, <2>2, <2>3, NodeSteps, Zenon
<1>2. CASE MineReplaced
  <2>1. NextMined \in Nonces /\ UNCHANGED <<txs, bookings, sweepTx, job>>
    BY <1>2, Zenon DEF MineReplaced, memoryVars
  <2>2. PICK h \in DOMAIN txs : /\ pool[NextMined] \notin {0, h}
                                /\ mined' = [mined EXCEPT ![NextMined] = h]
    BY <1>2, Zenon DEF MineReplaced
  <2>3. pool' = [pool EXCEPT ![NextMined] = 0]
    BY <1>2, Zenon DEF MineReplaced
  <2>4. PICK n \in Nonces : n = NextMined
    BY <2>1, Zenon
  <2>. QED BY <1>0, <2>1, <2>2, <2>3, <2>4, NodeSteps
<1>3. CASE NodeDrops
  <2>1. UNCHANGED <<txs, mined, bookings, sweepTx, job>>
    BY <1>3, Zenon DEF NodeDrops, memoryVars
  <2>2. PICK n \in Nonces : pool' = [pool EXCEPT ![n] = 0]
    BY <1>3, Zenon DEF NodeDrops
  <2>. QED BY <1>0, <2>1, <2>2, NodeSteps, Zenon
<1>. QED BY <1>1, <1>2, <1>3, Zenon

\* A step of tick j that writes booking k, with no new broadcast.
LEMMA BookingWritten ==
    ASSUME LandedInv, UNCHANGED txVars, NEW j \in Jobs, OnlyTick(j), TickShape(j)', NEW k \in Keys,
           bookings' \in [Keys -> [status : {"none", "pending", "sent", "failed", "confirmed"},
                                   nonce : 0..MaxNonce, ref : 0..Len(txs)]],
           \A l \in Keys : l # k => bookings'[l] = bookings[l],
           bookings'[k].ref = bookings[k].ref \/ bookings'[k].ref = 0 \/ OwnTx(bookings'[k].ref, k),
           bookings'[k].status = "confirmed" =>
               bookings'[k] = bookings[k] \/ (TxIncluded(bookings'[k].ref) /\ OwnTx(bookings'[k].ref, k)),
           sweepTx' \in [Replicas -> [Keys -> 0..Len(txs)]],
           \A r \in Replicas, l \in Keys :
               sweepTx'[r][l] \in {0, sweepTx[r][l]} \/ OwnTx(sweepTx'[r][l], l)
    PROVE  LandedInv'
<1>0. UNCHANGED <<txs, mined, pool>>
  BY Zenon DEF txVars
<1>1. TxsGrow /\ TxShapes
  BY <1>0, SameTxs, Zenon DEF LandedInv
<1>2. \A i \in Jobs : TickShape(i)'
  BY <1>1, TickShapesKept, Zenon DEF OnlyTick, LandedInv
<1>3. /\ mined' \in [Nonces -> 0..Len(txs')] /\ pool' \in [Nonces -> 0..Len(txs')]
      /\ bookings' \in [Keys -> [status : {"none", "pending", "sent", "failed", "confirmed"},
                                 nonce : 0..MaxNonce, ref : 0..Len(txs')]]
      /\ sweepTx' \in [Replicas -> [Keys -> 0..Len(txs')]]
      /\ \A n \in Nonces : pool'[n] # 0 => mined'[n] = 0
  BY <1>0, <1>1, Zenon DEF TxShapes
<1>4. \A l \in Keys : bookings'[l].ref \in {0, bookings[l].ref} \/ OwnTx(bookings[l].ref, l)'
  <2>1. OwnTx(bookings'[k].ref, k) => OwnTx(bookings[k].ref, k)'
    BY <1>0, Zenon DEF OwnTx
  <2>. QED BY <2>1, Zenon
<1>5. \A r \in Replicas, l \in Keys : sweepTx'[r][l] \in {0, sweepTx[r][l]} \/ OwnTx(sweepTx[r][l], l)'
  BY <1>0, Zenon DEF OwnTx
<1>6. \A l \in Keys : bookings'[l].status = "confirmed" =>
          bookings'[l] = bookings[l] \/ (TxIncluded(bookings[l].ref)' /\ OwnTx(bookings[l].ref, l)')
  BY <1>0, Zenon DEF OwnTx, TxIncluded
<1>7. \A n \in Nonces : mined[n] # 0 => mined'[n] = mined[n]
  BY <1>0, Zenon
<1>8. job' = [i \in Jobs |-> job'[i]]
  BY Zenon DEF OnlyTick
<1>. QED BY <1>1, <1>2, <1>3, <1>4, <1>5, <1>6, <1>7, <1>8, LandedKept, Zenon

\* The steps of a tick that only read.
LEMMA ReadingSteps ==
    ASSUME LandedInv, NEW j \in Jobs,
           TickBegin(j) \/ FindSweep(j) \/ ReadNonce(j) \/ Resume(j) \/ Quote(j)
    PROVE  LandedInv' /\ OnlyTick(j)
<1>0. UNCHANGED <<txVars, bookings, sweepTx>>
  BY Zenon DEF TickBegin, FindSweep, ReadNonce, Resume, Quote, memoryVars
<1>1. SUFFICES OnlyTick(j) /\ TickShape(j)'
  BY <1>0, TablesKept, Zenon
<1>2. CASE EndTick(j)
  BY <1>2, EndTickMoves, Zenon
<1>3. CASE TickBegin(j)
  <2>1. Proceed(j, [pc |-> "find"])
    BY <1>3, Zenon DEF TickBegin
  <2>2. OnlyTick(j) /\ job'[j] = [pc |-> "find"]
    BY <2>1, ProceedMoves, Zenon
  <2>. QED BY <2>2 DEF TickShape
<1>4. CASE FindSweep(j)
  <2>1. CASE Proceed(j, [pc |-> "nonce"])
    <3>1. OnlyTick(j) /\ job'[j] = [pc |-> "nonce"]
      BY <2>1, ProceedMoves, Zenon
    <3>. QED BY <3>1 DEF TickShape
  <2>2. ASSUME NEW k \in Keys,
               Proceed(j, IF bookings[k].status = "pending"
                          THEN [pc |-> "resume", key |-> k] ELSE [pc |-> "sent", key |-> k])
        PROVE  OnlyTick(j) /\ TickShape(j)'
    <3>1. /\ OnlyTick(j)
          /\ job'[j] = IF bookings[k].status = "pending"
                       THEN [pc |-> "resume", key |-> k] ELSE [pc |-> "sent", key |-> k]
      BY <2>2, ProceedMoves, Zenon
    <3>. QED BY <3>1 DEF TickShape
  <2>. QED BY <1>2, <1>4, <2>1, <2>2, Zenon DEF FindSweep, InStatus
<1>5. CASE ReadNonce(j)
  <2>1. CASE NextNonce \in Nonces /\ Proceed(j, [pc |-> "create", nonce |-> NextNonce])
    <3>1. OnlyTick(j) /\ job'[j] = [pc |-> "create", nonce |-> NextNonce]
      BY <2>1, ProceedMoves, Zenon
    <3>. QED BY <2>1, <3>1 DEF TickShape
  <2>. QED BY <1>2, <1>5, <2>1, Zenon DEF ReadNonce
<1>6. CASE Resume(j)
  <2>1. CASE Proceed(j, [pc |-> "quote", key |-> job[j].key, prior |-> 0])
    <3>1. OnlyTick(j) /\ job'[j] = [pc |-> "quote", key |-> job[j].key, prior |-> 0]
      BY <2>1, ProceedMoves, Zenon
    <3>2. job[j].key \in Keys
      BY <1>6, Zenon DEF Resume, LandedInv, TickShape
    <3>3. Len(txs') \in Nat
      BY <1>0, SameTxs, Zenon DEF LandedInv, TxsGrow, txVars
    <3>4. job'[j] \in [pc : {"quote", "send"}, key : Keys, prior : 0..Len(txs')] /\ job'[j].pc = "quote"
      BY <3>1, <3>2, <3>3
    <3>. QED BY <3>1, <3>4, Zenon DEF TickShape
  <2>. QED BY <1>2, <1>6, <2>1, Zenon DEF Resume
<1>7. CASE Quote(j)
  <2>1. CASE Proceed(j, [job[j] EXCEPT !.pc = "send"])
    <3>1. OnlyTick(j) /\ job'[j] = [job[j] EXCEPT !.pc = "send"]
      BY <2>1, ProceedMoves, Zenon
    <3>2. job[j] \in [pc : {"quote", "send"}, key : Keys, prior : 0..Len(txs)]
      BY <1>7, Zenon DEF Quote, LandedInv, TickShape
    <3>3. job'[j] \in [pc : {"quote", "send"}, key : Keys, prior : 0..Len(txs')] /\ job'[j].pc = "send"
      BY <1>0, <3>1, <3>2, Zenon DEF txVars
    <3>. QED BY <3>1, <3>3, Zenon DEF TickShape
  <2>. QED BY <1>2, <1>7, <2>1, Zenon DEF Quote
<1>. QED BY <1>3, <1>4, <1>5, <1>6, <1>7, Zenon

\* A failed booking is revived, or a new one created, without a hash of its own yet.
LEMMA StartSweepLanded ==
    ASSUME LandedInv, NEW j \in Jobs, StartSweep(j)
    PROVE  LandedInv' /\ OnlyTick(j)
<1>0. UNCHANGED <<txVars, sweepTx>> /\ Len(txs') \in Nat /\ txs' = txs
  <2>1. UNCHANGED <<txVars, sweepTx>>
    BY Zenon DEF StartSweep, memoryVars
  <2>2. UNCHANGED txs
    BY <2>1, Zenon DEF txVars
  <2>. QED BY <2>1, <2>2, SameTxs, Zenon DEF LandedInv, TxsGrow
<1>1. PICK n \in Nonces : n = job[j].nonce
  BY Zenon DEF StartSweep, LandedInv, TickShape
<1>2. TxShapes /\ j[2] \in Tokens /\ n \in 0..MaxNonce
  BY NonceIsNat DEF LandedInv, Jobs
<1>3. \A r \in Replicas, l \in Keys : sweepTx'[r][l] \in {0, sweepTx[r][l]} \/ OwnTx(sweepTx'[r][l], l)
  BY <1>0, Zenon
<1>4. sweepTx' \in [Replicas -> [Keys -> 0..Len(txs)]]
  BY <1>0, <1>2, Zenon DEF TxShapes
<1>5. ASSUME NEW k \in Keys, Proceed(j, [pc |-> "quote", key |-> k, prior |-> 0])
      PROVE  OnlyTick(j) /\ TickShape(j)'
  <2>1. OnlyTick(j) /\ job'[j] = [pc |-> "quote", key |-> k, prior |-> 0]
    BY <1>5, ProceedMoves, Zenon
  <2>2. job'[j] \in [pc : {"quote", "send"}, key : Keys, prior : 0..Len(txs')] /\ job'[j].pc = "quote"
    BY <1>0, <2>1
  <2>. QED BY <2>1, <2>2, Zenon DEF TickShape
<1>6. CASE InStatus(j[2], "failed") # {}
  <2>1. PICK k \in Keys : /\ bookings' = [bookings EXCEPT ![k].status = "pending", ![k].nonce = n]
                          /\ Proceed(j, [pc |-> "quote", key |-> k, prior |-> 0])
    BY <1>1, <1>6, Zenon DEF StartSweep, InStatus
  <2>2. /\ bookings' \in [Keys -> [status : {"none", "pending", "sent", "failed", "confirmed"},
                                   nonce : 0..MaxNonce, ref : 0..Len(txs)]]
        /\ \A l \in Keys : l # k => bookings'[l] = bookings[l]
        /\ bookings'[k].ref = bookings[k].ref /\ bookings'[k].status = "pending"
    BY <1>2, <2>1, Zenon DEF TxShapes
  <2>. QED BY <1>0, <1>3, <1>4, <1>5, <2>1, <2>2, BookingWritten, Zenon
<1>7. CASE InStatus(j[2], "failed") = {}
  <2>1. PICK k \in Keys : k = <<j[2], n>>
    BY <1>2, Zenon DEF Keys
  <2>2. /\ bookings' = IF bookings[k].status = "none"
                       THEN [bookings EXCEPT ![k] = [status |-> "pending", nonce |-> n, ref |-> 0]]
                       ELSE bookings
        /\ Proceed(j, [pc |-> "quote", key |-> k, prior |-> 0])
    BY <1>1, <1>7, <2>1, Zenon DEF StartSweep
  <2>3. /\ bookings' \in [Keys -> [status : {"none", "pending", "sent", "failed", "confirmed"},
                                   nonce : 0..MaxNonce, ref : 0..Len(txs)]]
        /\ \A l \in Keys : l # k => bookings'[l] = bookings[l]
        /\ bookings'[k] = bookings[k] \/ (bookings'[k].ref = 0 /\ bookings'[k].status = "pending")
    <3>1. CASE bookings[k].status = "none"
      <4>1. 0 \in 0..Len(txs)
        BY <1>0
      <4>. QED BY <1>2, <2>2, <3>1, <4>1, Zenon DEF TxShapes
    <3>2. CASE bookings[k].status # "none"
      <4>1. bookings' = bookings
        BY <2>2, <3>2, Zenon
      <4>2. bookings' \in [Keys -> [status : {"none", "pending", "sent", "failed", "confirmed"},
                                     nonce : 0..MaxNonce, ref : 0..Len(txs)]]
        BY <1>2, <4>1, Zenon DEF TxShapes
      <4>. QED BY <4>1, <4>2, Zenon
    <3>. QED BY <3>1, <3>2, Zenon
  <2>. QED BY <1>0, <1>3, <1>4, <1>5, <2>2, <2>3, BookingWritten, Zenon
<1>. QED BY <1>6, <1>7, Zenon

\* The first dispatch is recorded under the hash it was broadcast with.
LEMMA RecordSentLanded ==
    ASSUME LandedInv, NEW j \in Jobs, RecordSent(j)
    PROVE  LandedInv' /\ OnlyTick(j)
<1>1. PICK k \in Keys : k = job[j].key
  BY Zenon DEF RecordSent, LandedInv, TickShape
<1>2. PICK h : h = job[j].hash
  BY Zenon
<1>3. OwnTx(h, k) /\ TxShapes
  BY <1>1, <1>2, Zenon DEF RecordSent, LandedInv, TickShape
<1>4. h \in 0..Len(txs) /\ j[1] \in Replicas
  <2>1. DOMAIN txs = 1..Len(txs) /\ Len(txs) \in Nat
    <3>1. PICK S : txs \in Seq(S)
      BY <1>3, Zenon DEF TxShapes
    <3>. QED BY <3>1
  <2>. QED BY <1>3, <2>1 DEF OwnTx, Jobs
<1>5. /\ bookings' = [bookings EXCEPT ![k].status = "sent", ![k].ref = h]
      /\ sweepTx' = [sweepTx EXCEPT ![j[1]][k] = h]
      /\ EndTick(j) /\ UNCHANGED txVars
  BY <1>1, <1>2, Zenon DEF RecordSent
<1>6. /\ bookings' \in [Keys -> [status : {"none", "pending", "sent", "failed", "confirmed"},
                                 nonce : 0..MaxNonce, ref : 0..Len(txs)]]
      /\ \A l \in Keys : l # k => bookings'[l] = bookings[l]
      /\ bookings'[k].ref = h /\ bookings'[k].status = "sent"
  BY <1>3, <1>4, <1>5, Zenon DEF TxShapes
<1>7. sweepTx' \in [Replicas -> [Keys -> 0..Len(txs)]]
  BY <1>3, <1>4, <1>5, Zenon DEF TxShapes
<1>8. \A r \in Replicas, l \in Keys : sweepTx'[r][l] \in {0, sweepTx[r][l]} \/ OwnTx(sweepTx'[r][l], l)
  BY <1>3, <1>4, <1>5, Zenon DEF TxShapes
<1>9. OnlyTick(j) /\ TickShape(j)'
  BY <1>5, EndTickMoves, Zenon
<1>. QED BY <1>3, <1>5, <1>6, <1>7, <1>8, <1>9, BookingWritten, Zenon

\* forgetSweepTx clears the memory of a booking.
LEMMA ForgetClears ==
    ASSUME LandedInv, NEW r \in Replicas, NEW k \in Keys, ForgetSweepTx(r, k)
    PROVE  /\ sweepTx' \in [Replicas -> [Keys -> 0..Len(txs)]]
           /\ \A q \in Replicas, l \in Keys : sweepTx'[q][l] \in {0, sweepTx[q][l]}
<1>1. sweepTx \in [Replicas -> [Keys -> 0..Len(txs)]] /\ 0 \in 0..Len(txs)
  <2>1. PICK S : txs \in Seq(S)
    BY Zenon DEF LandedInv, TxShapes
  <2>. QED BY <2>1 DEF LandedInv, TxShapes
<1>. QED BY <1>1, Zenon DEF ForgetSweepTx

\* A sweep is confirmed by the receipt of a hash of its own.
LEMMA RecheckLanded ==
    ASSUME LandedInv, NEW j \in Jobs, RecheckSweepSent(j)
    PROVE  LandedInv' /\ OnlyTick(j)
<1>1. PICK k \in Keys : k = job[j].key
  BY Zenon DEF RecheckSweepSent, LandedInv, TickShape
<1>2. TxShapes /\ OwnHashes /\ j[1] \in Replicas
  BY Zenon DEF LandedInv, Jobs
<1>3. PICK h \in 0..Len(txs) : h = CurrentSweepTx(j[1], k)
  <2>1. bookings[k].ref \in 0..Len(txs) /\ sweepTx[j[1]][k] \in 0..Len(txs)
    BY <1>2, Zenon DEF TxShapes
  <2>. QED BY <2>1, Zenon DEF CurrentSweepTx
<1>4. h # 0 => OwnTx(h, k)
  BY <1>2, <1>3, Zenon DEF OwnHashes, CurrentSweepTx
<1>5. UNCHANGED txVars /\ UNCHANGED txs
  BY Zenon DEF RecheckSweepSent, txVars
<1>6. CASE Included(h) /\ bookings' = [bookings EXCEPT ![k].status = "confirmed", ![k].ref = h]
           /\ ForgetSweepTx(j[1], k) /\ EndTick(j)
  <2>1. TxIncluded(h) /\ OwnTx(h, k)
    BY <1>4, <1>6, Zenon DEF Included, TxIncluded
  <2>2. /\ bookings' \in [Keys -> [status : {"none", "pending", "sent", "failed", "confirmed"},
                                   nonce : 0..MaxNonce, ref : 0..Len(txs)]]
        /\ \A l \in Keys : l # k => bookings'[l] = bookings[l]
        /\ bookings'[k].ref = h
    BY <1>2, <1>6, Zenon DEF TxShapes
  <2>3. OnlyTick(j) /\ TickShape(j)'
    BY <1>6, EndTickMoves, Zenon
  <2>4. /\ sweepTx' \in [Replicas -> [Keys -> 0..Len(txs)]]
        /\ \A q \in Replicas, l \in Keys : sweepTx'[q][l] \in {0, sweepTx[q][l]}
    BY <1>2, <1>6, ForgetClears, Zenon
  <2>. QED BY <1>5, <2>1, <2>2, <2>3, <2>4, BookingWritten, Zenon
<1>7. CASE EndTick(j) /\ UNCHANGED <<bookings, sweepTx>>
  BY <1>5, <1>7, EndTickMoves, TablesKept, Zenon
<1>8. CASE bookings' = [bookings EXCEPT ![k].status = "failed"] /\ ForgetSweepTx(j[1], k) /\ EndTick(j)
  <2>2. /\ bookings' \in [Keys -> [status : {"none", "pending", "sent", "failed", "confirmed"},
                                   nonce : 0..MaxNonce, ref : 0..Len(txs)]]
        /\ \A l \in Keys : l # k => bookings'[l] = bookings[l]
        /\ bookings'[k].ref = bookings[k].ref /\ bookings'[k].status = "failed"
    BY <1>2, <1>8, Zenon DEF TxShapes
  <2>3. OnlyTick(j) /\ TickShape(j)'
    BY <1>8, EndTickMoves, Zenon
  <2>4. /\ sweepTx' \in [Replicas -> [Keys -> 0..Len(txs)]]
        /\ \A q \in Replicas, l \in Keys : sweepTx'[q][l] \in {0, sweepTx[q][l]}
    BY <1>2, <1>8, ForgetClears, Zenon
  <2>. QED BY <1>5, <2>2, <2>3, <2>4, BookingWritten, Zenon
<1>9. CASE Proceed(j, [pc |-> "quote", key |-> k, prior |-> h]) /\ UNCHANGED <<bookings, memoryVars>>
  <2>1. OnlyTick(j) /\ job'[j] = [pc |-> "quote", key |-> k, prior |-> h]
    BY <1>9, ProceedMoves, Zenon
  <2>2. job'[j] \in [pc : {"quote", "send"}, key : Keys, prior : 0..Len(txs')] /\ job'[j].pc = "quote"
    BY <1>3, <1>5, <2>1
  <2>3. TickShape(j)'
    BY <2>1, <2>2, Zenon DEF TickShape
  <2>. QED BY <1>5, <1>9, <2>1, <2>3, TablesKept, Zenon DEF memoryVars
<1>. QED BY <1>1, <1>3, <1>6, <1>7, <1>8, <1>9, Zenon DEF RecheckSweepSent

\* BatchSweep adds one broadcast, in the pool at the booking's nonce.
LEMMA BroadcastFacts ==
    ASSUME LandedInv, NEW r \in Replicas, NEW k \in Keys, NEW n \in Nonces, NEW STATE fee,
           Broadcast(r, k[1], n, fee), mined[n] = 0
    PROVE  /\ TxsGrow /\ Len(txs') = Len(txs) + 1 /\ Len(txs) \in Nat
           /\ OwnTx(Len(txs), k)'
           /\ mined' = mined /\ mined' \in [Nonces -> 0..Len(txs')]
           /\ pool' = [pool EXCEPT ![n] = Len(txs) + 1] /\ pool' \in [Nonces -> 0..Len(txs')]
           /\ \A m \in Nonces : pool'[m] # 0 => mined'[m] = 0
<1>1. PICK e : e = [tok |-> k[1], nonce |-> n, fee |-> fee]
  BY Zenon
<1>2. txs' = Append(txs, e) /\ e.tok = k[1] /\ TxShapes
  BY <1>1, Zenon DEF Broadcast, LandedInv
<1>3. TxsGrow /\ Len(txs') = Len(txs) + 1 /\ txs'[Len(txs) + 1] = e
  BY <1>2, OneMoreTx, Zenon
<1>4. Len(txs) \in Nat /\ DOMAIN txs' = 1..Len(txs')
  BY <1>3, Zenon DEF TxsGrow
<1>5. OwnTx(Len(txs), k)'
  BY <1>2, <1>3, <1>4 DEF OwnTx
<1>6. /\ mined' = mined
      /\ pool' = [pool EXCEPT ![n] = Len(txs) + 1]
  BY Zenon DEF Broadcast
<1>7. mined' \in [Nonces -> 0..Len(txs')] /\ pool' \in [Nonces -> 0..Len(txs')]
  BY <1>2, <1>3, <1>4, <1>6 DEF TxShapes
<1>8. \A m \in Nonces : pool'[m] # 0 => mined'[m] = 0
  BY <1>2, <1>6, Zenon DEF TxShapes
<1>. QED BY <1>3, <1>4, <1>5, <1>6, <1>7, <1>8, Zenon

\* The tables after a broadcast hold the same hashes, and the ones a broadcast added.
LEMMA TablesAfterBroadcast ==
    ASSUME LandedInv, TxsGrow, UNCHANGED bookings
    PROVE  /\ bookings' \in [Keys -> [status : {"none", "pending", "sent", "failed", "confirmed"},
                                      nonce : 0..MaxNonce, ref : 0..Len(txs')]]
           /\ sweepTx \in [Replicas -> [Keys -> 0..Len(txs')]]
<1>1. 0..Len(txs) \subseteq 0..Len(txs')
  BY DEF TxsGrow
<1>2. TxShapes
  BY Zenon DEF LandedInv
<1>. QED BY <1>1, <1>2, ZenonT(30) DEF TxShapes

\* A broadcast, first or bump, carries the token of the booking it is for.
LEMMA BatchSweepLanded ==
    ASSUME LandedInv, NEW j \in Jobs, BatchSweep(j), bookings[job[j].key].nonce \in Nonces
    PROVE  LandedInv' /\ OnlyTick(j)
<1>1. PICK k \in Keys : k = job[j].key
  BY Zenon DEF BatchSweep, LandedInv, TickShape
<1>2. PICK n \in Nonces : n = bookings[k].nonce
  BY <1>1, Zenon
<1>3. TxShapes /\ j[1] \in Replicas /\ UNCHANGED bookings
  BY Zenon DEF LandedInv, Jobs, BatchSweep
<1>4. CASE EndTick(j) /\ UNCHANGED <<txVars, memoryVars>>
  BY <1>3, <1>4, EndTickMoves, TablesKept, Zenon DEF memoryVars
<1>5. ASSUME NEW STATE fee, Accepts(n, fee), Broadcast(j[1], k[1], n, fee),
             \/ /\ Proceed(j, [pc |-> "record", key |-> k, hash |-> Len(txs) + 1])
                /\ UNCHANGED sweepTx
             \/ /\ sweepTx' = [sweepTx EXCEPT ![j[1]][k] = Len(txs) + 1]
                /\ EndTick(j)
      PROVE  LandedInv' /\ OnlyTick(j)
  <2>0. mined[n] = 0
    BY <1>5, Zenon DEF Accepts
  <2>1. /\ TxsGrow /\ Len(txs') = Len(txs) + 1 /\ Len(txs) \in Nat
        /\ OwnTx(Len(txs), k)'
        /\ mined' = mined /\ mined' \in [Nonces -> 0..Len(txs')] /\ pool' \in [Nonces -> 0..Len(txs')]
        /\ \A m \in Nonces : pool'[m] # 0 => mined'[m] = 0
    BY <1>3, <1>5, <2>0, BroadcastFacts, Zenon
  <2>2. OnlyTick(j) /\ TickShape(j)'
    <3>1. CASE EndTick(j)
      BY <3>1, EndTickMoves, Zenon
    <3>2. CASE Proceed(j, [pc |-> "record", key |-> k, hash |-> Len(txs) + 1])
      <4>1. OnlyTick(j) /\ job'[j] = [pc |-> "record", key |-> k, hash |-> Len(txs) + 1]
        BY <3>2, ProceedMoves, Zenon
      <4>2. OwnTx(job[j].hash, k)'
        BY <2>1, <4>1 DEF OwnTx
      <4>. QED BY <4>1, <4>2 DEF TickShape
    <3>. QED BY <1>5, <3>1, <3>2, Zenon
  <2>3. \A i \in Jobs : TickShape(i)'
    BY <2>1, <2>2, TickShapesKept, Zenon DEF OnlyTick, LandedInv
  <2>4. /\ bookings' \in [Keys -> [status : {"none", "pending", "sent", "failed", "confirmed"},
                                   nonce : 0..MaxNonce, ref : 0..Len(txs')]]
        /\ sweepTx \in [Replicas -> [Keys -> 0..Len(txs')]]
    BY <1>3, <2>1, TablesAfterBroadcast, Zenon
  <2>5. Len(txs) + 1 \in 0..Len(txs')
    BY <2>1
  <2>6. sweepTx' \in [Replicas -> [Keys -> 0..Len(txs')]]
    <3>1. CASE UNCHANGED sweepTx
      BY <2>4, <3>1, Zenon
    <3>2. CASE sweepTx' = [sweepTx EXCEPT ![j[1]][k] = Len(txs) + 1]
      BY <2>4, <2>5, <3>2, Zenon
    <3>. QED BY <1>5, <3>1, <3>2, Zenon
  <2>7. \A r \in Replicas, l \in Keys :
            sweepTx'[r][l] \in {0, sweepTx[r][l]} \/ OwnTx(sweepTx[r][l], l)'
    <3>1. CASE UNCHANGED sweepTx
      BY <3>1, Zenon
    <3>2. CASE sweepTx' = [sweepTx EXCEPT ![j[1]][k] = Len(txs) + 1]
      <4>1. sweepTx'[j[1]][k] = Len(txs')
        BY <1>3, <2>1, <2>4, <3>2, Zenon
      <4>2. \A r \in Replicas, l \in Keys : <<r, l>> = <<j[1], k>> \/ sweepTx'[r][l] = sweepTx[r][l]
        BY <1>3, <2>4, <3>2, Zenon
      <4>3. OwnTx(sweepTx[j[1]][k], k)'
        BY <2>1, <4>1, Zenon DEF OwnTx
      <4>. QED BY <4>2, <4>3, Zenon
    <3>. QED BY <1>5, <3>1, <3>2, Zenon
  <2>8. /\ \A l \in Keys : bookings'[l].ref \in {0, bookings[l].ref}
        /\ \A l \in Keys : bookings'[l] = bookings[l]
        /\ \A m \in Nonces : mined[m] # 0 => mined'[m] = mined[m]
    BY <1>3, <2>1, Zenon
  <2>9. job' = [i \in Jobs |-> job'[i]]
    BY <2>2, Zenon DEF OnlyTick
  <2>. QED BY <2>1, <2>2, <2>3, <2>4, <2>6, <2>7, <2>8, <2>9, LandedKept, Zenon
<1>. QED BY <1>1, <1>2, <1>4, <1>5, Zenon DEF BatchSweep

\* A replica that dies forgets its hashes, and the steps outside the ticks touch none.
LEMMA OutsideLanded ==
    ASSUME LandedInv,
           \/ MarketMoves
           \/ \E r \in Replicas, k \in Keys : StuckAfter(r, k)
           \/ \E r \in Replicas : ReplicaDies(r)
    PROVE  LandedInv'
<1>0. UNCHANGED <<txs, mined, pool, bookings>>
  BY Zenon DEF MarketMoves, StuckAfter, ReplicaDies, txVars
<1>1. TxsGrow /\ TxShapes
  BY <1>0, SameTxs, Zenon DEF LandedInv
<1>2. /\ mined' \in [Nonces -> 0..Len(txs')] /\ pool' \in [Nonces -> 0..Len(txs')]
      /\ bookings' \in [Keys -> [status : {"none", "pending", "sent", "failed", "confirmed"},
                                 nonce : 0..MaxNonce, ref : 0..Len(txs')]]
      /\ \A n \in Nonces : pool'[n] # 0 => mined'[n] = 0
  BY <1>0, <1>1, Zenon DEF TxShapes
<1>3. /\ \A k \in Keys : bookings'[k].ref \in {0, bookings[k].ref}
      /\ \A k \in Keys : bookings'[k] = bookings[k]
      /\ \A n \in Nonces : mined[n] # 0 => mined'[n] = mined[n]
  BY <1>0, Zenon
<1>4. CASE UNCHANGED <<sweepTx, job>>
  BY <1>0, <1>1, <1>4, NodeSteps, Zenon DEF TxShapes
<1>5. ASSUME NEW r \in Replicas, ReplicaDies(r) PROVE LandedInv'
  <2>1. /\ job' = [j \in Jobs |-> IF j[1] = r THEN NoTick ELSE job[j]]
        /\ sweepTx' = [sweepTx EXCEPT ![r] = [k \in Keys |-> 0]]
    BY <1>5, Zenon DEF ReplicaDies
  <2>2. 0 \in 0..Len(txs') /\ sweepTx \in [Replicas -> [Keys -> 0..Len(txs')]]
    BY <1>0, <1>1 DEF TxsGrow, TxShapes
  <2>3. /\ sweepTx' \in [Replicas -> [Keys -> 0..Len(txs')]]
        /\ \A q \in Replicas, k \in Keys : sweepTx'[q][k] \in {0, sweepTx[q][k]}
    BY <2>1, <2>2, Zenon
  <2>4. job' = [j \in Jobs |-> job'[j]]
    BY <2>1, Zenon
  <2>5. ASSUME NEW j \in Jobs PROVE TickShape(j)'
    <3>1. CASE job'[j] = NoTick
      BY <3>1 DEF TickShape, NoTick
    <3>2. CASE job'[j] = job[j]
      BY <1>0, <3>2, Zenon DEF LandedInv, TickShape, OwnTx
    <3>. QED BY <2>1, <3>1, <3>2, Zenon
  <2>. QED BY <1>1, <1>2, <1>3, <2>3, <2>4, <2>5, LandedKept, Zenon
<1>. QED BY <1>4, <1>5, Zenon DEF MarketMoves, StuckAfter, memoryVars

\* A nonce once given is replaced only by another.
LEMMA NoncesGivenKept ==
    ASSUME LandedInv, NoncesGiven,
           \A k \in Keys : bookings'[k].nonce = bookings[k].nonce \/ bookings'[k].nonce \in Nonces,
           \A k \in Keys : bookings'[k].status # "none" =>
                               bookings[k].status # "none" \/ bookings'[k].nonce \in Nonces,
           NEW j, \A i \in Jobs : i # j => job'[i] \in {NoTick, job[i]},
           j \in Jobs /\ job'[j].pc \in {"sent", "send", "record"} => bookings'[job'[j].key].nonce \in Nonces
    PROVE  NoncesGiven'
<1>1. ASSUME NEW i \in Jobs, job'[i].pc \in {"sent", "send", "record"} PROVE bookings'[job'[i].key].nonce \in Nonces
  <2>1. CASE i = j
    BY <1>1, <2>1, Zenon
  <2>2. CASE i # j
    <3>1. job'[i] = job[i]
      BY <1>1, <2>2 DEF NoTick
    <3>2. job[i].key \in Keys /\ bookings[job[i].key].nonce \in Nonces
      BY <1>1, <3>1, Zenon DEF LandedInv, TickShape, NoncesGiven
    <3>. QED BY <3>1, <3>2, Zenon
  <2>. QED BY <2>1, <2>2, Zenon
<1>2. ASSUME NEW k \in Keys, bookings'[k].status # "none" PROVE bookings'[k].nonce \in Nonces
  BY <1>2, Zenon DEF NoncesGiven
<1>. QED BY <1>1, <1>2, Zenon DEF NoncesGiven

\* The steps outside the ticks give no nonces.
LEMMA OutsideNonces ==
    ASSUME LandedInv, NoncesGiven,
           \/ MarketMoves \/ MineNonce \/ MineReplaced \/ NodeDrops
           \/ \E r \in Replicas, k \in Keys : StuckAfter(r, k)
           \/ \E r \in Replicas : ReplicaDies(r)
    PROVE  NoncesGiven'
<1>1. UNCHANGED bookings
  BY Zenon DEF MarketMoves, MineNonce, MineReplaced, NodeDrops, StuckAfter, ReplicaDies
<1>2. \A i \in Jobs : job'[i] \in {NoTick, job[i]}
  BY ZenonT(30) DEF MarketMoves, MineNonce, MineReplaced, NodeDrops, StuckAfter, ReplicaDies
<1>3. \A i \in Jobs : job'[i].pc \in {"sent", "send", "record"} => job'[i] = job[i]
  BY <1>2 DEF NoTick
<1>. QED BY <1>1, <1>3, Zenon DEF NoncesGiven

\* Every step of a tick keeps the hashes to their tokens, and gives nonces before it
\* broadcasts.
LEMMA TickLanded ==
    ASSUME LandedInv, NoncesGiven, NEW j \in Jobs, Tick(j)
    PROVE  LandedInv' /\ NoncesGiven' /\ OnlyTick(j)
<1>0. TxShapes
  BY Zenon DEF LandedInv
<1>1. CASE TickBegin(j) \/ FindSweep(j) \/ ReadNonce(j) \/ Resume(j) \/ Quote(j)
  <2>1. LandedInv' /\ OnlyTick(j) /\ UNCHANGED bookings
    BY <1>1, ReadingSteps, Zenon DEF TickBegin, FindSweep, ReadNonce, Resume, Quote
  <2>2. job'[j].pc \in {"sent", "send", "record"} => bookings'[job'[j].key].nonce \in Nonces
    <3>1. CASE EndTick(j)
      <4>1. job'[j] = NoTick
        BY <3>1, EndTickMoves, Zenon
      <4>. QED BY <4>1 DEF NoTick
    <3>2. CASE Quote(j) /\ ~EndTick(j)
      <4>1. Proceed(j, [job[j] EXCEPT !.pc = "send"])
        BY <3>2, Zenon DEF Quote
      <4>2. job'[j] = [job[j] EXCEPT !.pc = "send"]
        BY <4>1, ProceedMoves, Zenon
      <4>3. job[j] \in [pc : {"quote", "send"}, key : Keys, prior : 0..Len(txs)]
        BY <3>2, Zenon DEF Quote, LandedInv, TickShape
      <4>4. job'[j].key = job[j].key /\ job[j].key \in Keys
        BY <4>2, <4>3, Zenon
      <4>5. bookings[job[j].key].status # "none"
        BY <3>2, Zenon DEF Quote
      <4>. QED BY <2>1, <4>4, <4>5, Zenon DEF NoncesGiven
    <3>3. CASE TickBegin(j)
      <4>1. Proceed(j, [pc |-> "find"])
        BY <3>3, Zenon DEF TickBegin
      <4>2. job'[j] = [pc |-> "find"]
        BY <4>1, ProceedMoves, Zenon
      <4>. QED BY <4>2
    <3>4. CASE FindSweep(j) /\ ~EndTick(j)
      <4>1. CASE Proceed(j, [pc |-> "nonce"])
        <5>1. job'[j] = [pc |-> "nonce"]
          BY <4>1, ProceedMoves, Zenon
        <5>. QED BY <5>1
      <4>2. ASSUME NEW k \in Keys, bookings[k].status # "none",
                   Proceed(j, IF bookings[k].status = "pending"
                              THEN [pc |-> "resume", key |-> k] ELSE [pc |-> "sent", key |-> k])
            PROVE  job'[j].pc \in {"sent", "send", "record"} => bookings'[job'[j].key].nonce \in Nonces
        <5>1. job'[j] = IF bookings[k].status = "pending"
                        THEN [pc |-> "resume", key |-> k] ELSE [pc |-> "sent", key |-> k]
          BY <4>2, ProceedMoves, Zenon
        <5>2. bookings'[k].nonce \in Nonces
          BY <2>1, <4>2, Zenon DEF NoncesGiven
        <5>3. job'[j].pc = "sent" => job'[j].key = k
          BY <5>1
        <5>4. job'[j].pc \in {"resume", "sent"}
          BY <5>1
        <5>. QED BY <5>2, <5>3, <5>4, Zenon
      <4>. QED BY <3>4, <4>1, <4>2, Zenon DEF FindSweep, InStatus
    <3>5. CASE ReadNonce(j) /\ ~EndTick(j)
      <4>1. Proceed(j, [pc |-> "create", nonce |-> NextNonce])
        BY <3>5, Zenon DEF ReadNonce
      <4>2. job'[j] = [pc |-> "create", nonce |-> NextNonce]
        BY <4>1, ProceedMoves, Zenon
      <4>. QED BY <4>2
    <3>6. CASE Resume(j) /\ ~EndTick(j)
      <4>1. Proceed(j, [pc |-> "quote", key |-> job[j].key, prior |-> 0])
        BY <3>6, Zenon DEF Resume
      <4>2. job'[j] = [pc |-> "quote", key |-> job[j].key, prior |-> 0]
        BY <4>1, ProceedMoves, Zenon
      <4>. QED BY <4>2
    <3>. QED BY <1>1, <3>1, <3>2, <3>3, <3>4, <3>5, <3>6, Zenon
  <2>. QED BY <2>1, <2>2, NoncesGivenKept, Zenon DEF OnlyTick
<1>2. CASE StartSweep(j)
  <2>1. LandedInv' /\ OnlyTick(j)
    BY <1>2, StartSweepLanded, Zenon
  <2>2. PICK n \in Nonces : n = job[j].nonce
    BY <1>2, Zenon DEF StartSweep, LandedInv, TickShape
  <2>3. PICK k \in Keys : /\ \/ bookings' = [bookings EXCEPT ![k].status = "pending", ![k].nonce = n]
                             \/ bookings' = [bookings EXCEPT ![k] = [status |-> "pending", nonce |-> n, ref |-> 0]]
                             \/ bookings' = bookings
                          /\ Proceed(j, [pc |-> "quote", key |-> k, prior |-> 0])
    <3>1. <<j[2], n>> \in Keys
      BY Zenon DEF Keys, Jobs
    <3>. QED BY <1>2, <2>2, <3>1, Zenon DEF StartSweep, InStatus
  <2>4. /\ \A l \in Keys : bookings'[l].nonce = bookings[l].nonce \/ bookings'[l].nonce \in Nonces
        /\ \A l \in Keys : bookings'[l].status # "none" =>
                               bookings[l].status # "none" \/ bookings'[l].nonce \in Nonces
    <3>1. CASE bookings' = [bookings EXCEPT ![k].status = "pending", ![k].nonce = n]
      BY <1>0, <3>1, ZenonT(30) DEF TxShapes
    <3>2. CASE bookings' = [bookings EXCEPT ![k] = [status |-> "pending", nonce |-> n, ref |-> 0]]
      BY <1>0, <3>2, Zenon DEF TxShapes
    <3>. QED BY <2>3, <3>1, <3>2, Zenon
  <2>5. job'[j] = [pc |-> "quote", key |-> k, prior |-> 0]
    BY <2>3, ProceedMoves, Zenon
  <2>. QED BY <2>1, <2>4, <2>5, NoncesGivenKept DEF OnlyTick
<1>3. CASE BatchSweep(j)
  <2>1. bookings[job[j].key].nonce \in Nonces
    BY <1>3, Zenon DEF NoncesGiven, BatchSweep
  <2>2. LandedInv' /\ OnlyTick(j) /\ UNCHANGED bookings
    BY <1>3, <2>1, BatchSweepLanded, Zenon DEF BatchSweep
  <2>3. job'[j].pc \in {"sent", "send", "record"} => bookings'[job'[j].key].nonce \in Nonces
    <3>1. CASE EndTick(j)
      <4>1. job'[j] = NoTick
        BY <3>1, EndTickMoves, Zenon
      <4>. QED BY <4>1 DEF NoTick
    <3>2. CASE ~EndTick(j)
      <4>1. Proceed(j, [pc |-> "record", key |-> job[j].key, hash |-> Len(txs) + 1])
        BY <1>3, <3>2, Zenon DEF BatchSweep
      <4>2. job'[j] = [pc |-> "record", key |-> job[j].key, hash |-> Len(txs) + 1]
        BY <4>1, ProceedMoves, Zenon
      <4>3. job'[j].key = job[j].key
        BY <4>2
      <4>. QED BY <2>1, <2>2, <4>3, Zenon
    <3>. QED BY <3>1, <3>2, Zenon
  <2>. QED BY <2>2, <2>3, NoncesGivenKept, Zenon DEF OnlyTick
<1>4. CASE RecordSent(j) \/ (RecheckSweepSent(j) /\ EndTick(j))
  <2>1. LandedInv' /\ OnlyTick(j)
    BY <1>4, RecordSentLanded, RecheckLanded, Zenon
  <2>2. PICK k \in Keys : k = job[j].key
    BY <1>4, Zenon DEF RecordSent, RecheckSweepSent, LandedInv, TickShape
  <2>3. bookings[k].nonce \in Nonces
    BY <1>4, <2>2, Zenon DEF RecordSent, RecheckSweepSent, NoncesGiven
  <2>4. /\ \A l \in Keys : l # k => bookings'[l] = bookings[l]
        /\ bookings'[k].nonce = bookings[k].nonce
    <3>1. \/ \E st, h : bookings' = [bookings EXCEPT ![k].status = st, ![k].ref = h]
          \/ \E st : bookings' = [bookings EXCEPT ![k].status = st]
          \/ bookings' = bookings
      <4>1. CASE RecordSent(j)
        BY <2>2, <4>1, Zenon DEF RecordSent
      <4>2. CASE RecheckSweepSent(j)
        BY <2>2, <4>2, Zenon DEF RecheckSweepSent
      <4>. QED BY <1>4, <4>1, <4>2, Zenon
    <3>. QED BY <1>0, <3>1, Zenon DEF TxShapes
  <2>5. job'[j] = NoTick
    BY <1>4, EndTickMoves, Zenon DEF RecordSent
  <2>. QED BY <2>1, <2>3, <2>4, <2>5, NoncesGivenKept DEF OnlyTick, NoTick
<1>5. CASE RecheckSweepSent(j) /\ ~EndTick(j)
  <2>1. LandedInv' /\ OnlyTick(j)
    BY <1>5, RecheckLanded, Zenon
  <2>2. UNCHANGED bookings /\ Proceed(j, [pc |-> "quote", key |-> job[j].key,
                                          prior |-> CurrentSweepTx(j[1], job[j].key)])
    BY <1>5, Zenon DEF RecheckSweepSent
  <2>3. job'[j] = [pc |-> "quote", key |-> job[j].key, prior |-> CurrentSweepTx(j[1], job[j].key)]
    BY <2>2, ProceedMoves, Zenon
  <2>4. job'[j].pc = "quote"
    BY <2>3
  <2>. QED BY <2>1, <2>2, <2>4, NoncesGivenKept, Zenon DEF OnlyTick
<1>. QED BY <1>1, <1>2, <1>3, <1>4, <1>5, Zenon DEF Tick

\* PendingNonceAt reports the first nonce that is not taken.
LEMMA NextNonceIsFirst ==
    /\ NextNonce \in 1..MaxNonce + 1
    /\ NextNonce \in Nonces => ~Taken(NextNonce)
    /\ AllTakenBefore(NextNonce)
<1> DEFINE F == {n \in 1..MaxNonce + 1 : n = MaxNonce + 1 \/ (mined[n] = 0 /\ pool[n] = 0)}
<1>1. F \subseteq Nat /\ MaxNonce + 1 \in F
  BY SweepAssumption
<1>2. PICK x \in F : \A y \in F : ~ (<<y, x>> \in OpToRel(<, Nat))
  <2>1. F # {}
    BY <1>1, Zenon
  <2> HIDE DEF F
  <2>. QED BY <1>1, <2>1, NatLessThanWellFounded, WFMin, Zenon
<1>3. \A y \in F : x <= y
  <2>1. \A y \in F : ~(y < x)
    BY <1>1, <1>2, Zenon DEF OpToRel
  <2>. QED BY <1>1, <2>1
<1>4. NextNonce = Min(F)
  BY Zenon DEF NextNonce
<1>5. Min(F) \in F /\ \A y \in F : Min(F) <= y
  <2> HIDE DEF F
  <2>. QED BY <1>3, Zenon DEF Min
<1>6. PICK n \in F : n = NextNonce /\ \A y \in F : n <= y
  BY <1>4, <1>5, Zenon
<1>7. n \in Nonces => ~Taken(n)
  BY SweepAssumption DEF Nonces, Taken
<1>8. AllTakenBefore(n)
  <2> SUFFICES ASSUME NEW m \in Nonces, m < n PROVE Taken(m)
    BY Zenon DEF AllTakenBefore
  <2>1. m \in 1..MaxNonce + 1 /\ m # MaxNonce + 1 /\ n \in Nat
    BY <1>1, SweepAssumption DEF Nonces
  <2>2. m \notin F
    BY <1>6, <2>1
  <2>. QED BY <2>1, <2>2, Zenon DEF Taken
<1>. QED BY <1>6, <1>7, <1>8, Zenon

\* While a tick is under way, every other one is idle.
LEMMA OthersIdle ==
    ASSUME OneTick, NEW j \in Jobs, job[j].pc # "idle", NEW i \in Jobs, i # j
    PROVE  job[i].pc = "idle"
BY Zenon DEF OneTick

\* An idle tick has established nothing yet.
LEMMA IdleKnowsNothing ==
    /\ \A j \in Jobs : job[j].pc = "idle" => TickKnows(j)
    /\ \A j \in Jobs : job'[j].pc = "idle" => TickKnows(j)'
BY Zenon DEF TickKnows

\* What a step that takes no nonce and frees none keeps, when ticks only stop in it.
LEMMA SameNonces ==
    ASSUME SweepInv, LandedInv', NoncesGiven', OneTick', UNCHANGED bookings,
           \A i \in Jobs : job'[i].pc = "idle" \/ job'[i] = job[i],
           \A n \in Nonces : Taken(n)' <=> Taken(n)
    PROVE  SweepInv'
<1>1. ASSUME NEW n \in Nonces PROVE Taken(n)' <=> Taken(n)
  BY Zenon
<1>2. ASSUME NEW n PROVE AllTakenBefore(n)' <=> AllTakenBefore(n)
  BY <1>1, Zenon DEF AllTakenBefore
<1>3. NoncesKept'
  <2>1. \A m, n \in Nonces : m < n /\ Taken(n)' => Taken(m)'
    BY <1>1, Zenon DEF SweepInv, NoncesKept
  <2>2. ASSUME NEW k \in Keys, bookings'[k].status # "none" PROVE AllTakenBefore(bookings[k].nonce)'
    <3>1. PICK n : n = bookings[k].nonce
      BY Zenon
    <3>2. AllTakenBefore(n)
      BY <2>2, <3>1, Zenon DEF SweepInv, NoncesKept
    <3>3. AllTakenBefore(n)' /\ n = bookings'[k].nonce
      BY <1>2, <3>1, <3>2, Zenon
    <3>. QED BY <3>3, Zenon DEF AllTakenBefore
  <2>3. ASSUME NEW k \in Keys, bookings'[k].status = "sent"
        PROVE  Taken(bookings[k].nonce)' /\ bookings'[k].ref # 0
    <3>1. PICK n \in Nonces : n = bookings[k].nonce
      BY <2>3, Zenon DEF SweepInv, NoncesGiven
    <3>2. Taken(n) /\ bookings[k].ref # 0
      BY <2>3, <3>1, Zenon DEF SweepInv, NoncesKept
    <3>3. Taken(n)'
      BY <1>1, <3>2, Zenon
    <3>. QED BY <3>1, <3>2, <3>3, Zenon DEF Taken
  <2>. QED BY <2>1, <2>2, <2>3, Zenon DEF NoncesKept
<1>4. OneSweepPerNonce'
  BY Zenon DEF SweepInv, OneSweepPerNonce
<1>5. ASSUME NEW j \in Jobs, job'[j].pc # "idle" PROVE TickKnows(j)'
  <2>0. TickKnows(j) /\ TickShape(j) /\ job'[j] = job[j] /\ bookings' = bookings
    BY <1>5, Zenon DEF SweepInv, LandedInv
  <2>1. CASE job[j].pc = "create"
    <3>1. PICK n \in Nonces : n = job[j].nonce
      BY <2>0, <2>1, Zenon DEF TickShape
    <3>2. ~Taken(n)' /\ AllTakenBefore(n)'
      BY <1>1, <1>2, <2>0, <2>1, <3>1, Zenon DEF TickKnows
    <3>3. ~Taken(job[j].nonce)' /\ AllTakenBefore(job[j].nonce)'
      BY <2>0, <3>1, <3>2, Zenon DEF Taken, AllTakenBefore
    <3>. QED BY <2>0, <2>1, <3>3, Zenon DEF TickKnows
  <2>2. CASE job[j].pc \in {"quote", "send", "record"} /\ bookings[job[j].key].status # "none"
    <3>1. job[j].key \in Keys
      BY <2>0, <2>2, Zenon DEF TickShape
    <3>2. PICK n \in Nonces : n = bookings[job[j].key].nonce
      BY <2>2, <3>1, Zenon DEF SweepInv, NoncesGiven
    <3>3. Taken(n)' <=> Taken(n)
      BY <1>1, Zenon
    <3>4. Taken(bookings[job[j].key].nonce)' <=> Taken(bookings[job[j].key].nonce)
      BY <2>0, <3>2, <3>3, Zenon DEF Taken
    <3>. QED BY <2>0, <2>2, <3>4, Zenon DEF TickKnows
  <2>3. CASE job[j].pc \in {"quote", "send", "record"} /\ bookings[job[j].key].status = "none"
    BY <2>0, <2>3, Zenon DEF TickKnows
  <2>4. CASE job[j].pc \notin {"create", "quote", "send", "record"}
    BY <2>0, <2>4, Zenon DEF TickKnows
  <2>. QED BY <2>1, <2>2, <2>3, <2>4, Zenon
<1>. QED BY <1>3, <1>4, <1>5, IdleKnowsNothing, Zenon DEF SweepInv

\* The node mines a nonce that was taken, and it stays taken; nothing else outside the
\* ticks concerns the nonces, unless the node forgets a transaction.
LEMMA OutsideKept ==
    ASSUME SweepInv,
           \/ MarketMoves \/ MineNonce \/ MineReplaced
           \/ \E r \in Replicas, k \in Keys : StuckAfter(r, k)
           \/ \E r \in Replicas : ReplicaDies(r)
    PROVE  SweepInv'
<1>0. LandedInv /\ NoncesGiven /\ OneTick /\ TxShapes
  BY Zenon DEF SweepInv, LandedInv
<1>1. LandedInv' /\ NoncesGiven'
  BY <1>0, NodeLanded, OutsideLanded, OutsideNonces, Zenon
<1>2. UNCHANGED bookings
  BY Zenon DEF MarketMoves, MineNonce, MineReplaced, StuckAfter, ReplicaDies
<1>3. \A i \in Jobs : job'[i].pc = "idle" \/ job'[i] = job[i]
  <2>1. ASSUME NEW r \in Replicas, ReplicaDies(r), NEW i \in Jobs PROVE job'[i] \in {NoTick, job[i]}
    BY <2>1, Zenon DEF ReplicaDies
  <2>2. CASE ~\E r \in Replicas : ReplicaDies(r)
    BY <2>2, Zenon DEF MarketMoves, MineNonce, MineReplaced, StuckAfter
  <2>. QED BY <2>1, <2>2 DEF NoTick
<1>4. OneTick'
  <2>1. CASE ~\E r \in Replicas : ReplicaDies(r)
    <3>1. UNCHANGED <<job, lock>>
      BY <2>1, Zenon DEF MarketMoves, MineNonce, MineReplaced, StuckAfter
    <3>. QED BY <1>0, <3>1, Zenon DEF OneTick
  <2>2. ASSUME NEW r \in Replicas, ReplicaDies(r), NEW i \in Jobs, job'[i].pc # "idle" PROVE lock' = i
    <3>1. i[1] # r /\ job'[i] = job[i]
      BY <2>2, Zenon DEF ReplicaDies, NoTick
    <3>2. lock = i
      BY <1>0, <2>2, <3>1, Zenon DEF OneTick
    <3>. QED BY <2>2, <3>1, <3>2, Zenon DEF ReplicaDies
  <2>. QED BY <2>1, <2>2, Zenon DEF OneTick
<1>5. \A n \in Nonces : Taken(n)' <=> Taken(n)
  <2>1. CASE UNCHANGED <<mined, pool>>
    BY <2>1, Zenon DEF Taken
  <2>2. CASE MineNonce \/ MineReplaced
    <3>1. DOMAIN txs = 1..Len(txs)
      BY <1>0 DEF TxShapes
    <3>2. PICK m : m = NextMined
      BY Zenon
    <3>3. m \in Nonces /\ pool[m] # 0 /\ pool' = [pool EXCEPT ![m] = 0]
      BY <2>2, <3>2, Zenon DEF MineNonce, MineReplaced
    <3>4. \E h : h # 0 /\ mined' = [mined EXCEPT ![m] = h]
      <4>1. CASE MineNonce
        BY <3>2, <4>1, Zenon DEF MineNonce
      <4>2. CASE MineReplaced
        <5>1. PICK h \in DOMAIN txs : mined' = [mined EXCEPT ![m] = h]
          BY <3>2, <4>2, Zenon DEF MineReplaced
        <5>2. h # 0
          BY <3>1, <5>1
        <5>. QED BY <5>1, <5>2, Zenon
      <4>. QED BY <2>2, <4>1, <4>2, Zenon
    <3>. QED BY <1>0, <3>3, <3>4, Zenon DEF Taken, TxShapes
  <2>3. CASE ~(MineNonce \/ MineReplaced)
    BY <2>1, <2>3, Zenon DEF MarketMoves, StuckAfter, ReplicaDies, txVars
  <2>. QED BY <2>2, <2>3, Zenon
<1>. QED BY <1>1, <1>2, <1>3, <1>4, <1>5, SameNonces, Zenon

\* What is left to show of a step of tick j.
LEMMA TickKept ==
    ASSUME SweepInv, NEW j \in Jobs, Tick(j),
           job[j].pc # "idle" \/ lock = NoLock, job'[j].pc = "idle" \/ lock' = j,
           NoncesKept', OneSweepPerNonce', TickKnows(j)'
    PROVE  SweepInv'
<1>1. LandedInv' /\ NoncesGiven' /\ OnlyTick(j)
  BY TickLanded, Zenon DEF SweepInv
<1>2. ASSUME NEW i \in Jobs, i # j PROVE job'[i].pc = "idle"
  <2>1. job'[i] = job[i]
    BY <1>1, <1>2, Zenon DEF OnlyTick
  <2>2. CASE lock = NoLock
    <3>1. i # NoLock
      BY DEF Jobs, NoLock
    <3>. QED BY <2>1, <2>2, <3>1, Zenon DEF SweepInv, OneTick
  <2>3. CASE job[j].pc # "idle"
    BY <1>2, <2>1, <2>3, Zenon DEF SweepInv, OneTick
  <2>. QED BY <2>2, <2>3, Zenon
<1>3. OneTick'
  BY <1>2, Zenon DEF OneTick
<1>4. \A i \in Jobs : TickKnows(i)'
  BY <1>2, IdleKnowsNothing, Zenon
<1>. QED BY <1>1, <1>3, <1>4, Zenon DEF SweepInv

\* A step that leaves the bookings and the broadcasts alone keeps the nonces.
LEMMA NothingTaken ==
    ASSUME SweepInv, UNCHANGED <<txVars, bookings>>
    PROVE  NoncesKept' /\ OneSweepPerNonce'
<1>1. UNCHANGED <<mined, pool, bookings>>
  BY Zenon DEF txVars
<1>. QED BY <1>1, Zenon DEF SweepInv, NoncesKept, OneSweepPerNonce, AllTakenBefore, Taken

\* A tick that ends has nothing more to remember.
LEMMA EndTickKept ==
    ASSUME SweepInv, NEW j \in Jobs, Tick(j), EndTick(j), job[j].pc # "idle",
           NoncesKept', OneSweepPerNonce'
    PROVE  SweepInv'
<1>1. job'[j] = NoTick
  BY EndTickMoves, Zenon DEF SweepInv
<1>2. job'[j].pc = "idle"
  BY <1>1 DEF NoTick
<1>. QED BY <1>2, IdleKnowsNothing, TickKept, Zenon

\* A tick begins, looks for a sweep under way, reads the nonce, asks whether a pending
\* booking was broadcast already, and quotes.
LEMMA ReadingKept ==
    ASSUME SweepInv, NEW j \in Jobs,
           TickBegin(j) \/ FindSweep(j) \/ ReadNonce(j) \/ Resume(j) \/ Quote(j)
    PROVE  SweepInv'
<1>0. /\ LandedInv /\ Tick(j) /\ UNCHANGED <<txVars, bookings>> /\ TickShape(j) /\ TickKnows(j)
      /\ UNCHANGED <<mined, pool>>
  BY Zenon DEF SweepInv, LandedInv, Tick, TickBegin, FindSweep, ReadNonce, Resume, Quote, txVars
<1>1. NoncesKept' /\ OneSweepPerNonce'
  BY <1>0, NothingTaken, Zenon
<1>2. CASE TickBegin(j)
  <2>1. job'[j] = [pc |-> "find"]
    BY <1>0, <1>2, ProceedMoves, Zenon DEF TickBegin
  <2>2. job'[j].pc = "find" /\ lock = NoLock /\ lock' = j
    BY <1>2, <2>1 DEF TickBegin
  <2>3. TickKnows(j)'
    BY <2>2, Zenon DEF TickKnows
  <2>. QED BY <1>0, <1>1, <2>2, <2>3, TickKept, Zenon
<1>3. ASSUME job[j].pc # "idle", ~EndTick(j), lock' = lock, TickKnows(j)' PROVE SweepInv'
  BY <1>0, <1>1, <1>3, TickKept, Zenon DEF SweepInv, OneTick
<1>4. CASE EndTick(j) /\ ~TickBegin(j)
  <2>1. job[j].pc # "idle"
    BY <1>4, Zenon DEF FindSweep, ReadNonce, Resume, Quote
  <2>. QED BY <1>0, <1>1, <1>4, <2>1, EndTickKept, Zenon
<1>5. CASE FindSweep(j) /\ ~EndTick(j)
  <2>1. job[j].pc # "idle" /\ lock' = lock
    BY <1>5, Zenon DEF FindSweep
  <2>2. CASE \E k \in InStatus(j[2], "pending") \cup InStatus(j[2], "sent") :
                Proceed(j, IF bookings[k].status = "pending"
                        THEN [pc |-> "resume", key |-> k] ELSE [pc |-> "sent", key |-> k])
    <3>1. PICK k \in InStatus(j[2], "pending") \cup InStatus(j[2], "sent") :
                Proceed(j, IF bookings[k].status = "pending"
                        THEN [pc |-> "resume", key |-> k] ELSE [pc |-> "sent", key |-> k])
      BY <2>2, Zenon
    <3>2. job'[j] = IF bookings[k].status = "pending"
                    THEN [pc |-> "resume", key |-> k] ELSE [pc |-> "sent", key |-> k]
      BY <1>0, <3>1, ProceedMoves, Zenon
    <3>3. k \in Keys /\ bookings[k].status \in {"pending", "sent"} /\ bookings' = bookings
      BY <1>0, <3>1, Zenon DEF InStatus
    <3>4. TickKnows(j)'
      <4>1. CASE bookings[k].status = "pending"
        BY <3>2, <3>3, <4>1 DEF TickKnows
      <4>2. CASE bookings[k].status = "sent"
        BY <3>2, <3>3, <4>2 DEF TickKnows
      <4>. QED BY <3>3, <4>1, <4>2, Zenon
    <3>. QED BY <1>3, <1>5, <2>1, <3>4, Zenon
  <2>3. CASE /\ InStatus(j[2], "pending") = {} /\ InStatus(j[2], "sent") = {}
             /\ Proceed(j, [pc |-> "nonce"])
    <3>1. job'[j] = [pc |-> "nonce"]
      BY <1>0, <2>3, ProceedMoves, Zenon
    <3>2. job'[j].pc = "nonce" /\ bookings' = bookings
      BY <1>0, <3>1
    <3>3. \A k \in Keys : k[1] = j[2] => bookings[k].status \notin {"pending", "sent"}
      BY <2>3, Zenon DEF InStatus
    <3>4. TickKnows(j)'
      BY <3>2, <3>3, Zenon DEF TickKnows
    <3>. QED BY <1>3, <1>5, <2>1, <3>4, Zenon
  <2>. QED BY <1>5, <2>2, <2>3, Zenon DEF FindSweep
<1>6. CASE ReadNonce(j) /\ ~EndTick(j)
  <2>1. /\ job[j].pc = "nonce" /\ lock' = lock /\ NextNonce \in Nonces
        /\ Proceed(j, [pc |-> "create", nonce |-> NextNonce])
    BY <1>6, Zenon DEF ReadNonce
  <2>2. PICK n \in Nonces : n = NextNonce
    BY <2>1, Zenon
  <2>3. job'[j] = [pc |-> "create", nonce |-> NextNonce]
    BY <1>0, <2>1, ProceedMoves, Zenon
  <2>4. job'[j].pc = "create" /\ job'[j].nonce = n /\ bookings' = bookings
    BY <1>0, <2>2, <2>3
  <2>5. ~Taken(n) /\ AllTakenBefore(n)
    BY <2>2, NextNonceIsFirst, Zenon
  <2>6. (~Taken(job[j].nonce) /\ AllTakenBefore(job[j].nonce))'
    BY <1>0, <2>4, <2>5, Zenon DEF Taken, AllTakenBefore
  <2>7. \A k \in Keys : k[1] = j[2] => bookings'[k].status \notin {"pending", "sent"}
    BY <1>0, <2>1, <2>4, Zenon DEF TickKnows
  <2>8. TickKnows(j)'
    BY <2>4, <2>6, <2>7, Zenon DEF TickKnows
  <2>. QED BY <1>3, <1>6, <2>1, <2>8, Zenon
<1>7. CASE Resume(j) /\ ~EndTick(j)
  <2>1. /\ job[j].pc = "resume" /\ lock' = lock /\ ~Orphaned(j)
        /\ Proceed(j, [pc |-> "quote", key |-> job[j].key, prior |-> 0])
    BY <1>7, Zenon DEF Resume
  <2>2. PICK k \in Keys : k = job[j].key
    BY <1>0, <2>1, Zenon DEF TickShape
  <2>3. bookings[k].status = "pending"
    BY <1>0, <2>1, <2>2, Zenon DEF TickKnows
  <2>4. PICK n \in Nonces : n = bookings[k].nonce
    BY <2>3, Zenon DEF SweepInv, NoncesGiven
  <2>5. ~Taken(n)
    <3>1. AllTakenBefore(n)
      BY <2>3, <2>4, Zenon DEF SweepInv, NoncesKept
    <3>2. ~(NextNonce > n)
      BY <2>1, <2>2, <2>4, Zenon DEF Orphaned
    <3>3. NextNonce \in Nat /\ 1 <= NextNonce /\ n \in Nat /\ n <= MaxNonce
      BY NextNonceIsFirst, NonceIsNat, SweepAssumption
    <3>4. NextNonce \in Nonces
      BY <3>2, <3>3, NonceIsNat, SweepAssumption
    <3>5. ~Taken(NextNonce)
      BY <3>4, NextNonceIsFirst, Zenon
    <3>6. PICK m \in Nonces : m = NextNonce /\ ~Taken(m)
      BY <3>4, <3>5, Zenon
    <3>7. ~(m < n)
      BY <3>1, <3>6, Zenon DEF AllTakenBefore
    <3>8. m = n
      BY <3>2, <3>3, <3>6, <3>7
    <3>. QED BY <3>6, <3>8, Zenon
  <2>6. job'[j] = [pc |-> "quote", key |-> job[j].key, prior |-> 0]
    BY <1>0, <2>1, ProceedMoves, Zenon
  <2>7. job'[j].pc = "quote" /\ job'[j].key = k /\ job'[j].prior = 0 /\ bookings' = bookings
    BY <1>0, <2>2, <2>6
  <2>8. ~Taken(bookings[job[j].key].nonce)'
    BY <1>0, <2>4, <2>5, <2>7, Zenon DEF Taken
  <2>9. TickKnows(j)'
    BY <2>3, <2>7, <2>8, Zenon DEF TickKnows
  <2>. QED BY <1>3, <1>7, <2>1, <2>9, Zenon
<1>8. CASE Quote(j) /\ ~EndTick(j)
  <2>1. /\ job[j].pc = "quote" /\ lock' = lock /\ bookings[job[j].key].status \in {"pending", "sent"}
        /\ Proceed(j, [job[j] EXCEPT !.pc = "send"])
    BY <1>8, Zenon DEF Quote
  <2>2. job'[j] = [job[j] EXCEPT !.pc = "send"]
    BY <1>0, <2>1, ProceedMoves, Zenon
  <2>3. job'[j].pc = "send" /\ job'[j].key = job[j].key /\ job'[j].prior = job[j].prior /\ bookings' = bookings
    BY <1>0, <2>1, <2>2, Zenon DEF TickShape
  <2>4. Taken(bookings[job[j].key].nonce)' <=> Taken(bookings[job[j].key].nonce)
    BY <1>0, <2>3, Zenon DEF Taken
  <2>5. TickKnows(j)'
    BY <1>0, <2>1, <2>3, <2>4, Zenon DEF TickKnows
  <2>. QED BY <1>3, <1>8, <2>1, <2>5, Zenon
<1>. QED BY <1>2, <1>4, <1>5, <1>6, <1>7, <1>8, Zenon

\* A booking is written at a nonce before which every other is taken; one that is sent
\* took its nonce, and no other booking that is sent has it.
LEMMA BookingKept ==
    ASSUME SweepInv, UNCHANGED txVars, NEW k \in Keys, NEW n \in Nonces,
           \A l \in Keys : l # k => bookings'[l] = bookings[l],
           bookings'[k].nonce = n, AllTakenBefore(n),
           bookings'[k].status = "sent" =>
               /\ Taken(n) /\ bookings'[k].ref # 0
               /\ \A l \in Keys : l # k /\ bookings[l].status = "sent" => bookings[l].nonce # n
    PROVE  NoncesKept' /\ OneSweepPerNonce'
<1>0. UNCHANGED <<mined, pool>> /\ NoncesKept /\ OneSweepPerNonce
  BY Zenon DEF txVars, SweepInv
<1>1. \A l, m \in Nonces : l < m /\ Taken(m)' => Taken(l)'
  BY <1>0, Zenon DEF NoncesKept, Taken
<1>2. ASSUME NEW l \in Keys, bookings'[l].status # "none" PROVE AllTakenBefore(bookings[l].nonce)'
  <2>1. PICK m : m = bookings'[l].nonce
    BY Zenon
  <2>2. AllTakenBefore(m)
    BY <1>0, <1>2, <2>1, Zenon DEF NoncesKept
  <2>. QED BY <1>0, <2>1, <2>2, Zenon DEF AllTakenBefore, Taken
<1>3. ASSUME NEW l \in Keys, bookings'[l].status = "sent" PROVE Taken(bookings[l].nonce)' /\ bookings'[l].ref # 0
  <2>1. PICK m : m = bookings'[l].nonce
    BY Zenon
  <2>2. Taken(m) /\ bookings'[l].ref # 0
    BY <1>0, <1>3, <2>1, Zenon DEF NoncesKept
  <2>. QED BY <1>0, <2>1, <2>2, Zenon DEF Taken
<1>4. OneSweepPerNonce'
  <2> SUFFICES ASSUME NEW l \in Keys, NEW m \in Keys, l # m,
                      bookings'[l].status = "sent", bookings'[m].status = "sent"
               PROVE  bookings'[l].nonce # bookings'[m].nonce
    BY Zenon DEF OneSweepPerNonce
  <2>1. CASE l # k /\ m # k
    BY <1>0, <2>1, Zenon DEF OneSweepPerNonce
  <2>2. CASE l = k \/ m = k
    BY <2>2, Zenon
  <2>. QED BY <2>1, <2>2, Zenon
<1>. QED BY <1>1, <1>2, <1>3, <1>4, Zenon DEF NoncesKept

\* A failed booking is revived, or a new one created, at a nonce that is free.
LEMMA StartSweepKept ==
    ASSUME SweepInv, NEW j \in Jobs, StartSweep(j)
    PROVE  SweepInv'
<1>0. /\ LandedInv /\ Tick(j) /\ TickShape(j) /\ TickKnows(j) /\ TxShapes /\ UNCHANGED txVars
      /\ UNCHANGED <<mined, pool>> /\ job[j].pc = "create" /\ lock' = lock
  BY Zenon DEF SweepInv, LandedInv, Tick, StartSweep, txVars
<1>1. PICK n \in Nonces : n = job[j].nonce
  BY <1>0, Zenon DEF TickShape
<1>2. ~Taken(n) /\ AllTakenBefore(n) /\ lock' = j
  BY <1>0, <1>1, Zenon DEF TickKnows, SweepInv, OneTick
<1>3. \A k \in Keys : k[1] = j[2] => bookings[k].status \notin {"pending", "sent"}
  BY <1>0, Zenon DEF TickKnows
<1>4. ASSUME NEW k \in Keys, job'[j] = [pc |-> "quote", key |-> k, prior |-> 0],
             bookings'[k].nonce = n, bookings'[k].status = "pending",
             \A l \in Keys : l # k => bookings'[l] = bookings[l]
      PROVE  SweepInv'
  <2>1. NoncesKept' /\ OneSweepPerNonce'
    BY <1>0, <1>2, <1>4, BookingKept, Zenon
  <2>2. job'[j].pc = "quote" /\ job'[j].key = k /\ job'[j].prior = 0
    BY <1>4
  <2>3. ~Taken(bookings[job[j].key].nonce)'
    BY <1>0, <1>2, <1>4, <2>2, Zenon DEF Taken
  <2>4. TickKnows(j)'
    BY <1>4, <2>2, <2>3, Zenon DEF TickKnows
  <2>. QED BY <1>0, <1>2, <2>1, <2>4, TickKept, Zenon
<1>5. CASE InStatus(j[2], "failed") # {}
  <2>1. PICK k \in InStatus(j[2], "failed") :
               /\ bookings' = [bookings EXCEPT ![k].status = "pending", ![k].nonce = n]
               /\ Proceed(j, [pc |-> "quote", key |-> k, prior |-> 0])
    BY <1>1, <1>5, Zenon DEF StartSweep
  <2>2. k \in Keys
    BY Zenon DEF InStatus
  <2>3. job'[j] = [pc |-> "quote", key |-> k, prior |-> 0]
    BY <1>0, <2>1, ProceedMoves, Zenon
  <2>4. /\ bookings'[k].nonce = n /\ bookings'[k].status = "pending"
        /\ \A l \in Keys : l # k => bookings'[l] = bookings[l]
    BY <1>0, <2>1, <2>2, Zenon DEF TxShapes
  <2>. QED BY <1>4, <2>2, <2>3, <2>4, Zenon
<1>6. CASE InStatus(j[2], "failed") = {}
  <2>1. PICK k \in Keys : k = <<j[2], n>>
    BY Zenon DEF Jobs, Keys
  <2>2. /\ bookings' = IF bookings[k].status = "none"
                       THEN [bookings EXCEPT ![k] = [status |-> "pending", nonce |-> n, ref |-> 0]]
                       ELSE bookings
        /\ Proceed(j, [pc |-> "quote", key |-> k, prior |-> 0])
    BY <1>1, <1>6, <2>1, Zenon DEF StartSweep
  <2>3. job'[j] = [pc |-> "quote", key |-> k, prior |-> 0]
    BY <1>0, <2>2, ProceedMoves, Zenon
  <2>4. CASE bookings[k].status = "none"
    <3>1. bookings' = [bookings EXCEPT ![k] = [status |-> "pending", nonce |-> n, ref |-> 0]]
      BY <2>2, <2>4, Zenon
    <3>2. /\ bookings'[k].nonce = n /\ bookings'[k].status = "pending"
          /\ \A l \in Keys : l # k => bookings'[l] = bookings[l]
      BY <1>0, <3>1, Zenon DEF TxShapes
    <3>. QED BY <1>4, <2>3, <3>2, Zenon
  <2>5. CASE bookings[k].status # "none"
    <3>1. bookings' = bookings /\ job'[j].pc = "quote" /\ job'[j].key = k
      BY <2>2, <2>3, <2>5
    <3>2. bookings'[k].status \notin {"pending", "sent"}
      BY <1>3, <2>1, <3>1, Zenon
    <3>3. TickKnows(j)'
      BY <3>1, <3>2, Zenon DEF TickKnows
    <3>4. NoncesKept' /\ OneSweepPerNonce'
      BY <1>0, <3>1, NothingTaken, Zenon
    <3>. QED BY <1>0, <1>2, <3>3, <3>4, TickKept, Zenon
  <2>. QED BY <2>4, <2>5, Zenon
<1>. QED BY <1>5, <1>6, Zenon

\* The first dispatch is recorded.
LEMMA RecordSentKept ==
    ASSUME SweepInv, NEW j \in Jobs, RecordSent(j)
    PROVE  SweepInv'
<1>0. /\ LandedInv /\ Tick(j) /\ TickShape(j) /\ TickKnows(j) /\ TxShapes /\ UNCHANGED txVars
      /\ job[j].pc = "record" /\ EndTick(j)
  BY Zenon DEF SweepInv, LandedInv, Tick, RecordSent
<1>1. PICK k \in Keys : k = job[j].key
  BY <1>0, Zenon DEF TickShape
<1>2. PICK h : h = job[j].hash
  BY Zenon
<1>3. h # 0
  BY <1>0, <1>2 DEF TickShape, OwnTx, TxShapes
<1>4. /\ bookings[k].status = "pending" /\ Taken(bookings[k].nonce)
      /\ \A l \in Keys : bookings[l].status = "sent" => bookings[l].nonce # bookings[k].nonce
  BY <1>0, <1>1, Zenon DEF TickKnows
<1>5. PICK n \in Nonces : n = bookings[k].nonce
  BY <1>4, Zenon DEF SweepInv, NoncesGiven
<1>6. AllTakenBefore(n)
  BY <1>4, <1>5, Zenon DEF SweepInv, NoncesKept
<1>7. bookings' = [bookings EXCEPT ![k].status = "sent", ![k].ref = h]
  BY <1>1, <1>2, Zenon DEF RecordSent
<1>8. /\ bookings'[k].nonce = n /\ bookings'[k].ref = h
      /\ \A l \in Keys : l # k => bookings'[l] = bookings[l]
  BY <1>0, <1>5, <1>7, Zenon DEF TxShapes
<1>9. NoncesKept' /\ OneSweepPerNonce'
  BY <1>0, <1>3, <1>4, <1>5, <1>6, <1>8, BookingKept, ZenonT(30)
<1>. QED BY <1>0, <1>9, EndTickKept, Zenon

\* A sweep that is sent is confirmed, waits, fails, or is quoted for a bump; the bump
\* names the transaction it replaces.
LEMMA RecheckKept ==
    ASSUME SweepInv, NEW j \in Jobs, RecheckSweepSent(j)
    PROVE  SweepInv'
<1>0. /\ LandedInv /\ Tick(j) /\ TickShape(j) /\ TickKnows(j) /\ TxShapes /\ UNCHANGED txVars
      /\ job[j].pc = "sent"
  BY Zenon DEF SweepInv, LandedInv, Tick, RecheckSweepSent
<1>1. PICK k \in Keys : k = job[j].key
  BY <1>0, Zenon DEF TickShape
<1>2. bookings[k].status = "sent"
  BY <1>0, <1>1, Zenon DEF TickKnows
<1>3. PICK n \in Nonces : n = bookings[k].nonce
  BY <1>2, Zenon DEF SweepInv, NoncesGiven
<1>4. AllTakenBefore(n) /\ bookings[k].ref # 0
  BY <1>2, <1>3, Zenon DEF SweepInv, NoncesKept
<1>5. PICK h : h = CurrentSweepTx(j[1], k)
  BY Zenon
<1>6. CASE UNCHANGED bookings /\ EndTick(j)
  <2>1. NoncesKept' /\ OneSweepPerNonce'
    BY <1>0, <1>6, NothingTaken, Zenon
  <2>. QED BY <1>0, <1>6, <2>1, EndTickKept, Zenon
<1>7. CASE /\ \/ bookings' = [bookings EXCEPT ![k].status = "confirmed", ![k].ref = h]
              \/ bookings' = [bookings EXCEPT ![k].status = "failed"]
           /\ EndTick(j)
  <2>1. /\ bookings'[k].nonce = n /\ bookings'[k].status # "sent"
        /\ \A l \in Keys : l # k => bookings'[l] = bookings[l]
    BY <1>0, <1>3, <1>7, ZenonT(30) DEF TxShapes
  <2>2. NoncesKept' /\ OneSweepPerNonce'
    BY <1>0, <1>4, <2>1, BookingKept, Zenon
  <2>. QED BY <1>0, <1>7, <2>2, EndTickKept, Zenon
<1>8. CASE UNCHANGED <<bookings, lock>> /\ Proceed(j, [pc |-> "quote", key |-> k, prior |-> h])
  <2>1. NoncesKept' /\ OneSweepPerNonce'
    BY <1>0, <1>8, NothingTaken, Zenon
  <2>2. job'[j] = [pc |-> "quote", key |-> k, prior |-> h]
    BY <1>0, <1>8, ProceedMoves, Zenon
  <2>3. job'[j].pc = "quote" /\ job'[j].key = k /\ job'[j].prior = h /\ bookings'[k].status = "sent"
    BY <1>2, <1>8, <2>2
  <2>4. h # 0
    BY <1>4, <1>5, Zenon DEF CurrentSweepTx
  <2>5. TickKnows(j)'
    BY <2>3, <2>4, Zenon DEF TickKnows
  <2>6. lock' = j
    BY <1>0, <1>8, Zenon DEF SweepInv, OneTick
  <2>. QED BY <1>0, <2>1, <2>5, <2>6, TickKept, Zenon
<1>. QED BY <1>1, <1>5, <1>6, <1>7, <1>8, ZenonT(30), Zenon DEF RecheckSweepSent

\* A broadcast takes the nonce of its booking, before which every nonce was taken: for
\* the first dispatch it was free, for a bump it is the one the sweep already has.
LEMMA BatchSweepKept ==
    ASSUME SweepInv, NEW j \in Jobs, BatchSweep(j)
    PROVE  SweepInv'
<1>0. /\ LandedInv /\ Tick(j) /\ TickShape(j) /\ TickKnows(j) /\ TxShapes /\ UNCHANGED bookings
      /\ job[j].pc = "send" /\ NoncesKept /\ OneSweepPerNonce
  BY Zenon DEF SweepInv, LandedInv, Tick, BatchSweep
<1>1. PICK k \in Keys : k = job[j].key
  BY <1>0, Zenon DEF TickShape
<1>2. PICK n \in Nonces : n = bookings[k].nonce
  BY <1>0, <1>1, Zenon DEF SweepInv, NoncesGiven
<1>3. /\ bookings[k].status \in {"pending", "sent"}
      /\ job[j].prior = 0 => bookings[k].status = "pending" /\ ~Taken(n)
  BY <1>0, <1>1, <1>2, Zenon DEF TickKnows
<1>4. AllTakenBefore(n)
  BY <1>0, <1>2, <1>3, Zenon DEF NoncesKept
<1>5. CASE EndTick(j) /\ UNCHANGED txVars
  <2>1. NoncesKept' /\ OneSweepPerNonce'
    BY <1>0, <1>5, NothingTaken, Zenon
  <2>. QED BY <1>0, <1>5, <2>1, EndTickKept, Zenon
<1>6. CASE /\ mined' = mined /\ pool' = [pool EXCEPT ![n] = Len(txs) + 1]
           /\ \/ EndTick(j)
              \/ /\ job[j].prior = 0 /\ UNCHANGED lock
                 /\ Proceed(j, [pc |-> "record", key |-> k, hash |-> Len(txs) + 1])
  <2>0. Len(txs) \in Nat /\ pool \in [Nonces -> 0..Len(txs)]
    BY <1>0, SameTxs DEF TxShapes
  <2>1. ASSUME NEW m \in Nonces PROVE Taken(m)' <=> Taken(m) \/ m = n
    BY <1>6, <2>0 DEF Taken
  <2>2. ASSUME NEW m, AllTakenBefore(m) PROVE AllTakenBefore(m)'
    BY <2>1, <2>2, Zenon DEF AllTakenBefore
  <2>3. NoncesKept'
    <3>1. ASSUME NEW l \in Nonces, NEW m \in Nonces, l < m, Taken(m)' PROVE Taken(l)'
      BY <1>0, <1>4, <2>1, <3>1, Zenon DEF NoncesKept, AllTakenBefore
    <3>2. ASSUME NEW l \in Keys, bookings'[l].status # "none" PROVE AllTakenBefore(bookings[l].nonce)'
      <4>1. PICK m : m = bookings[l].nonce
        BY Zenon
      <4>2. AllTakenBefore(m)'
        BY <1>0, <2>2, <3>2, <4>1, Zenon DEF NoncesKept
      <4>. QED BY <1>0, <4>1, <4>2, Zenon DEF AllTakenBefore
    <3>3. ASSUME NEW l \in Keys, bookings'[l].status = "sent"
          PROVE  Taken(bookings[l].nonce)' /\ bookings'[l].ref # 0
      <4>1. PICK m \in Nonces : m = bookings[l].nonce
        BY <1>0, <3>3, Zenon DEF SweepInv, NoncesGiven
      <4>2. Taken(m)' /\ bookings'[l].ref # 0
        BY <1>0, <2>1, <3>3, <4>1, Zenon DEF NoncesKept
      <4>. QED BY <1>0, <4>1, <4>2, Zenon DEF Taken
    <3>. QED BY <3>1, <3>2, <3>3, Zenon DEF NoncesKept
  <2>4. OneSweepPerNonce'
    BY <1>0, Zenon DEF OneSweepPerNonce
  <2>5. CASE EndTick(j)
    BY <1>0, <2>3, <2>4, <2>5, EndTickKept, Zenon
  <2>6. CASE /\ job[j].prior = 0 /\ UNCHANGED lock
             /\ Proceed(j, [pc |-> "record", key |-> k, hash |-> Len(txs) + 1])
    <3>1. job'[j] = [pc |-> "record", key |-> k, hash |-> Len(txs) + 1]
      BY <1>0, <2>6, ProceedMoves, Zenon
    <3>2. job'[j].pc = "record" /\ job'[j].key = k /\ bookings' = bookings
      BY <1>0, <3>1
    <3>3. Taken(bookings[job[j].key].nonce)'
      <4>1. Taken(n)'
        BY <2>1, Zenon
      <4>. QED BY <1>2, <3>2, <4>1, Zenon DEF Taken
    <3>4. ASSUME NEW l \in Keys, bookings'[l].status = "sent" PROVE bookings'[l].nonce # n
      BY <1>0, <1>3, <2>6, <3>4, Zenon DEF NoncesKept
    <3>5. TickKnows(j)'
      BY <1>2, <1>3, <2>6, <3>2, <3>3, <3>4, Zenon DEF TickKnows
    <3>6. lock' = j
      BY <1>0, <2>6, Zenon DEF SweepInv, OneTick
    <3>. QED BY <1>0, <2>3, <2>4, <3>5, <3>6, TickKept, Zenon
  <2>. QED BY <1>6, <2>5, <2>6, Zenon
<1>. QED BY <1>1, <1>2, <1>5, <1>6, ZenonT(30), Zenon DEF BatchSweep, Broadcast

\* Before the first tick nothing is broadcast, booked or under way.
LEMMA SweepInitial == SweepInit => SweepInv
<1> SUFFICES ASSUME SweepInit PROVE SweepInv
  BY Zenon
<1>0. Len(txs) = 0 /\ txs \in Seq({}) /\ MaxNonce \in Nat
  BY SweepAssumption DEF SweepInit
<1>1. \A j \in Jobs : job[j].pc = "idle"
  BY Zenon DEF SweepInit, NoTick
<1>2. \A k \in Keys : bookings[k].status = "none" /\ bookings[k].ref = 0
  BY Zenon DEF SweepInit
<1>3. \A n \in Nonces : ~Taken(n)
  BY Zenon DEF SweepInit, Taken
<1>4. TxShapes
  <2>1. /\ mined \in [Nonces -> 0..Len(txs)] /\ pool \in [Nonces -> 0..Len(txs)]
        /\ sweepTx \in [Replicas -> [Keys -> 0..Len(txs)]]
    BY <1>0 DEF SweepInit
  <2>2. bookings \in [Keys -> [status : {"none", "pending", "sent", "failed", "confirmed"},
                               nonce : 0..MaxNonce, ref : 0..Len(txs)]]
    BY <1>0 DEF SweepInit
  <2>3. job = [j \in Jobs |-> job[j]] /\ \A n \in Nonces : pool[n] # 0 => mined[n] = 0
    BY Zenon DEF SweepInit
  <2>. QED BY <1>0, <2>1, <2>2, <2>3, Zenon DEF TxShapes
<1>5. \A j \in Jobs : TickShape(j)
  BY <1>1, Zenon DEF TickShape
<1>6. OwnHashes
  BY <1>2, Zenon DEF OwnHashes, SweepInit
<1>7. ConfirmedLanded /\ OneSweepPerNonce
  BY <1>2, Zenon DEF ConfirmedLanded, OneSweepPerNonce
<1>8. NoncesGiven /\ OneTick /\ NoncesKept
  BY <1>1, <1>2, <1>3, Zenon DEF NoncesGiven, OneTick, NoncesKept
<1>9. \A j \in Jobs : TickKnows(j)
  BY <1>1, IdleKnowsNothing, Zenon
<1>. QED BY <1>4, <1>5, <1>6, <1>7, <1>8, <1>9, Zenon DEF SweepInv, LandedInv

\* Whatever the node mines, replaces or forgets, whichever replicas die and however often
\* a sweep is bumped, fails and is revived: a sweep is confirmed only for a transaction of
\* its own token that was mined (recheckSweepSent).
THEOREM SweepsLanded == SweepSpec => []ConfirmedLanded
<1>1. SweepInit => LandedInv /\ NoncesGiven
  BY SweepInitial, Zenon DEF SweepInv
<1>2. LandedInv /\ NoncesGiven /\ [SweepNext]_sweepVars => LandedInv' /\ NoncesGiven'
  <2> SUFFICES ASSUME LandedInv, NoncesGiven, [SweepNext]_sweepVars PROVE LandedInv' /\ NoncesGiven'
    BY Zenon
  <2>1. CASE \/ MarketMoves \/ MineNonce \/ MineReplaced \/ NodeDrops
             \/ \E r \in Replicas, k \in Keys : StuckAfter(r, k)
             \/ \E r \in Replicas : ReplicaDies(r)
    BY <2>1, NodeLanded, OutsideLanded, OutsideNonces, Zenon
  <2>2. CASE \E j \in Jobs : Tick(j)
    BY <2>2, TickLanded, Zenon
  <2>3. CASE UNCHANGED sweepVars
    <3>1. UNCHANGED <<txs, mined, pool, bookings, sweepTx, job>>
      BY <2>3, Zenon DEF sweepVars, txVars, memoryVars
    <3>. QED BY <3>1, Zenon DEF LandedInv, NoncesGiven, TxShapes, TickShape, OwnHashes, OwnTx, ConfirmedLanded, TxIncluded
  <2>. QED BY <2>1, <2>2, <2>3, Zenon DEF SweepNext
<1>3. LandedInv /\ NoncesGiven => ConfirmedLanded
  BY Zenon DEF LandedInv
<1>. QED BY <1>1, <1>2, <1>3, PTL DEF SweepSpec

\* The inductive invariant of the sweeps, in every behaviour in which the node forgets no
\* transaction: one tick at a time, the nonces taken are the first ones, and what a tick
\* has established still holds when it acts on it.
THEOREM SweepInvariant == SweepSpec /\ [][~NodeDrops]_sweepVars => []SweepInv
<1>1. SweepInv /\ [SweepNext]_sweepVars /\ [~NodeDrops]_sweepVars => SweepInv'
  <2> SUFFICES ASSUME SweepInv, [SweepNext]_sweepVars, [~NodeDrops]_sweepVars PROVE SweepInv'
    BY Zenon
  <2>1. CASE \/ MarketMoves \/ MineNonce \/ MineReplaced
             \/ \E r \in Replicas, k \in Keys : StuckAfter(r, k)
             \/ \E r \in Replicas : ReplicaDies(r)
    BY <2>1, OutsideKept, Zenon
  <2>2. CASE \E j \in Jobs : Tick(j)
    BY <2>2, ReadingKept, StartSweepKept, BatchSweepKept, RecordSentKept, RecheckKept, Zenon DEF Tick
  <2>3. CASE UNCHANGED sweepVars
    <3>1. UNCHANGED <<txs, mined, pool, bookings, sweepTx, job, lock>>
      BY <2>3, Zenon DEF sweepVars, txVars, memoryVars
    <3>2. LandedInv' /\ NoncesGiven'
      BY <3>1, Zenon DEF SweepInv, LandedInv, NoncesGiven, TxShapes, TickShape, OwnHashes, OwnTx, ConfirmedLanded, TxIncluded
    <3>3. OneTick'
      BY <3>1, Zenon DEF SweepInv, OneTick
    <3>4. \A n \in Nonces : Taken(n)' <=> Taken(n)
      BY <3>1, Zenon DEF Taken
    <3>. QED BY <3>1, <3>2, <3>3, <3>4, SameNonces, Zenon
  <2>. QED BY <2>1, <2>2, <2>3, Zenon DEF SweepNext
<1>. QED BY <1>1, SweepInitial, PTL DEF SweepSpec

\* In such a behaviour, two tokens never have a sweep under way at one nonce of the signer
\* they share, and the first dispatch of a booking never goes out at a nonce at which its
\* token has a transaction already, whichever replica's tick or crash comes in between
\* (newSweepLockedJob, G-M5).
THEOREM SweepsAreSound == SweepSpec /\ [][~NodeDrops]_sweepVars => []SweepsSound
<1>1. SweepInv => SweepsSound
  <2> SUFFICES ASSUME SweepInv PROVE SweepsSound
    BY Zenon
  <2>1. ASSUME NEW j \in Jobs, job[j].pc = "send", job[j].prior = 0
        PROVE  pool[bookings[job[j].key].nonce] = 0
    BY <2>1, Zenon DEF SweepInv, TickKnows, Taken
  <2>2. NoSecondDispatch
    BY <2>1, Zenon DEF NoSecondDispatch
  <2>. QED BY <2>2, Zenon DEF SweepInv, LandedInv, SweepsSound
<1>. QED BY <1>1, SweepInvariant, PTL
==============================================================================
