-------------------------------- MODULE Deposit --------------------------------
(***************************************************************************)
(* The life of one deposit booking in service/onchain.go: sightings,       *)
(* confirmations, the review gate and the humans behind it, the recheck    *)
(* loops of several replicas with their in-memory counters, and deep       *)
(* reorganisations of a credited deposit.  Every thread reads the booking  *)
(* once and acts on what it read; only Booker.Transition looks at the row  *)
(* again.  The chain is the environment: the transfer may leave it, come   *)
(* back in the same or in another block, and a node that has not caught up *)
(* may deny it.                                                            *)
(***************************************************************************)
EXTENDS Integers, FiniteSets, FiniteSetsExt

CONSTANTS
    Ingesters,         \* threads that ingest sightings (watcher, webhook)
    Recheckers,        \* recheck loops, one per replica
    Reviewers,         \* people who approve and reject
    Confirmations, ShallowReorgMisses, ConfirmEvidenceMisses, DeepReorgMisses,
    ReconcileFailureLimit, ReorgRecheckWindow,
    Sizes,             \* amounts considered: "small", "reconciled" (from ReconcileCeiling),
                       \* "over_ceiling" (above AutoCreditCeiling)
    AutoReverse,       \* ReorgPolicyAutoReverse
    MaxBlock,          \* bound: height of the chain
    MaxMoves,          \* bound: times the transfer leaves its block
    MaxWrong,          \* bound: denials by a node that has not caught up
    MaxDown,           \* bound: calls to the second source that fail
    MaxCrashes

ASSUME DepositAssumption ==
    /\ Confirmations \in Nat \ {0}
    /\ ShallowReorgMisses \in Nat \ {0} /\ ConfirmEvidenceMisses \in Nat \ {0}
    /\ DeepReorgMisses \in Nat \ {0} /\ ReconcileFailureLimit \in Nat \ {0}
    /\ Sizes \subseteq {"small", "reconciled", "over_ceiling"} /\ AutoReverse \in BOOLEAN
    /\ MaxBlock \in Nat /\ MaxWrong \in Nat

VARIABLES
    tip, at,           \* height of the chain; block of the transfer, 0: in none
    deep,              \* it has once been Confirmations deep
    moved,             \* times it has left its block
    wrong, down,
    size,              \* of the amount
    status, ref, block,\* the booking: status, channel_ref, metadata.block_number
    receipts,          \* booking_transition_receipts, by target status
    journal,           \* deposit_confirm journal: "none", "auto" or "human"
    reversed,
    anomalies,         \* deposit_reorgs, by kind
    th,                \* [Threads -> the call in progress]
    misses,            \* [Recheckers -> consecutive misses by kind, in memory]
    recon,             \* [Threads -> consecutive failures of the second source]
    crashes

Threads == Ingesters \union Recheckers \union Reviewers

chainVars == <<tip, at, deep, moved, size>>
rowVars   == <<status, ref, block, receipts>>
dbVars    == <<rowVars, journal, reversed, anomalies>>
memVars   == <<misses, recon>>
bounds    == <<wrong, down, crashes>>
vars      == <<chainVars, dbVars, th, memVars, bounds>>

Idle   == [pc |-> "idle"]
NoMiss == [shallow |-> 0, evidence |-> 0, deep |-> 0]
Kinds  == {"shallow_reorg_failed", "deep_reorg"}

Init ==
    /\ tip = 1 /\ at = 1 /\ deep = (Confirmations = 1) /\ moved = 0 /\ size \in Sizes
    /\ status = "none" /\ ref = "none" /\ block = 0
    /\ receipts = [s \in {} |-> "none"]
    /\ journal = "none" /\ reversed = FALSE
    /\ anomalies = [k \in Kinds |-> "none"]
    /\ th = [t \in Threads |-> Idle]
    /\ misses = [r \in Recheckers |-> NoMiss] /\ recon = [t \in Threads |-> 0]
    /\ wrong = 0 /\ down = 0 /\ crashes = 0

-----------------------------------------------------------------------------
(* The chain.                                                              *)

IsDeep(b, t) == b # 0 /\ t - b + 1 >= Confirmations

Mine ==
    /\ tip < MaxBlock /\ tip' = tip + 1
    /\ deep' = (deep \/ IsDeep(at, tip + 1))
    /\ UNCHANGED <<at, moved, size, dbVars, th, memVars, bounds>>

\* Bound: the last block the transfer may be mined in, so that the bounded chain can
\* still bury it.
LastBlock == MaxBlock - Confirmations + 1

\* The transfer leaves its block, for the mempool or for another block.
Drop ==
    /\ moved < MaxMoves /\ moved' = moved + 1
    /\ at' \in ({0} \union 1..Min({tip, LastBlock})) \ {at}
    /\ deep' = (deep \/ IsDeep(at', tip))
    /\ UNCHANGED <<tip, size, dbVars, th, memVars, bounds>>

\* A node's answer to "is it there": a denial may be wrong, an assertion is not.
Answer(truth, ans) ==
    \/ ans = truth /\ UNCHANGED wrong
    \/ truth /\ ~ans /\ wrong < MaxWrong /\ wrong' = wrong + 1

-----------------------------------------------------------------------------
(* The booking row: Booker.Transition with depositTransitionKey.           *)

DepositLifecycle ==
    {<<"pending", "confirming">>, <<"pending", "failed">>, <<"pending", "expired">>,
     <<"confirming", "confirmed">>, <<"confirming", "failed">>, <<"confirming", "review">>,
     <<"review", "confirmed">>, <<"review", "failed">>}

\* The key is (booking, target): a call for a target already reached replays when its
\* payload is the recorded one, and conflicts otherwise.
Transition(to, payload, res) ==
    \/ /\ to \in DOMAIN receipts
       /\ res = IF receipts[to] = payload THEN "ok" ELSE "conflict"
       /\ UNCHANGED rowVars
    \/ /\ to \notin DOMAIN receipts /\ <<status, to>> \notin DepositLifecycle
       /\ res = "invalid"
       /\ UNCHANGED rowVars
    \/ /\ to \notin DOMAIN receipts /\ <<status, to>> \in DepositLifecycle
       /\ res = "ok"
       /\ status' = to /\ ref' = payload.ref
       /\ receipts' = [s \in DOMAIN receipts \union {to} |->
                          IF s = to THEN payload ELSE receipts[s]]
       /\ UNCHANGED block

Payload(r, meta) == [ref |-> r, meta |-> meta]

Goto(t, rec) == th' = [th EXCEPT ![t] = rec]
Done(t) == Goto(t, Idle)

\* Rest of the call of t: what it read of the booking (st), whether it believes the
\* transfer confirmed (conf), the channel_ref to write and who acts.
Call(pc, st, conf, r, who) == [pc |-> pc, st |-> st, conf |-> conf, ref |-> r, who |-> who]

-----------------------------------------------------------------------------
(* IngestDeposit.                                                          *)

\* The producer saw the transfer in a block with so many confirmations ...
Sight(i) ==
    /\ th[i] = Idle /\ at # 0
    /\ Goto(i, [pc |-> "create", block |-> at, conf |-> IsDeep(at, tip)])
    /\ UNCHANGED <<chainVars, dbVars, memVars, bounds>>

\* ... and reports it, perhaps again.  The key identifies the transfer and
\* block_number is not compared, so an existing booking is read back as it is.
CreateBooking(i) ==
    /\ th[i].pc = "create"
    /\ IF status = "none"
       THEN status' = "pending" /\ block' = th[i].block
       ELSE UNCHANGED <<status, block>>
    /\ Goto(i, Call("advance", IF status = "none" THEN "pending" ELSE status,
                    th[i].conf, "log", "auto"))
    /\ UNCHANGED <<chainVars, ref, receipts, journal, reversed, anomalies, memVars, bounds>>

\* advanceConfirmation up to the review gate.
AdvanceConfirmation(t) ==
    /\ th[t].pc = "advance"
    /\ \/ /\ th[t].st \in {"confirmed", "failed", "expired", "review"}
          /\ Done(t) /\ UNCHANGED rowVars
       \/ /\ th[t].st = "pending"
          /\ \E res \in {"ok", "conflict", "invalid"} :
                /\ Transition("confirming", Payload(th[t].ref, "none"), res)
                /\ IF res = "ok" THEN Goto(t, [th[t] EXCEPT !.st = "confirming"]) ELSE Done(t)
       \/ /\ th[t].st = "confirming"
          /\ IF th[t].conf THEN Goto(t, [th[t] EXCEPT !.pc = "gate"]) ELSE Done(t)
          /\ UNCHANGED rowVars
    /\ UNCHANGED <<chainVars, journal, reversed, anomalies, memVars, bounds>>

ToReview(t, reason) ==
    Goto(t, [pc |-> "review", st |-> th[t].st, ref |-> th[t].ref, reason |-> reason])

\* DepositConfirmer.ConfirmDeposit: consecutive failures are counted, and at the limit
\* the booking goes to review.
ConfirmDeposit(t) ==
    \/ /\ down < MaxDown
       /\ down' = down + 1
       /\ IF recon[t] + 1 >= ReconcileFailureLimit
          THEN recon' = [recon EXCEPT ![t] = 0] /\ ToReview(t, "unavailable")
          ELSE recon' = [recon EXCEPT ![t] = @ + 1] /\ Done(t)
       /\ UNCHANGED wrong
    \/ \E ans \in BOOLEAN :
          /\ Answer(at # 0, ans)
          /\ recon' = [recon EXCEPT ![t] = 0]
          /\ IF ans THEN Goto(t, [th[t] EXCEPT !.pc = "post"]) ELSE ToReview(t, "mismatch")
          /\ UNCHANGED down

ReviewGate(t) ==
    /\ th[t].pc = "gate"
    /\ \/ size = "over_ceiling" /\ ToReview(t, "over_ceiling") /\ UNCHANGED <<recon, wrong, down>>
       \/ size = "small" /\ Goto(t, [th[t] EXCEPT !.pc = "post"])
          /\ UNCHANGED <<recon, wrong, down>>
       \/ size = "reconciled" /\ ConfirmDeposit(t)
    /\ UNCHANGED <<chainVars, dbVars, misses, crashes>>

\* A rechecker's evidence counter is cleared once the booking is in review.
RouteToReview(t) ==
    /\ th[t].pc = "review"
    /\ \E res \in {"ok", "conflict", "invalid"} :
          /\ Transition("review", Payload(th[t].ref, th[t].reason), res)
          /\ misses' = IF t \in Recheckers /\ res = "ok"
                       THEN [misses EXCEPT ![t].evidence = 0] ELSE misses
    /\ Done(t)
    /\ UNCHANGED <<chainVars, journal, reversed, anomalies, recon, bounds>>

\* RunInTx: the transition and the journal, whose key is the booking's, together.
PostDepositConfirmedJournal(t) ==
    /\ th[t].pc = "post"
    /\ \E res \in {"ok", "conflict", "invalid"} :
          /\ Transition("confirmed", Payload(th[t].ref, th[t].who), res)
          /\ journal' = IF res = "ok" /\ journal = "none" THEN th[t].who ELSE journal
    /\ Done(t)
    /\ UNCHANGED <<chainVars, reversed, anomalies, memVars, bounds>>

-----------------------------------------------------------------------------
(* Humans.                                                                 *)

ApproveReview(h) ==
    /\ th[h] = Idle /\ status = "review"
    /\ Goto(h, Call("post", "review", TRUE, ref, "human"))
    /\ UNCHANGED <<chainVars, dbVars, memVars, bounds>>

RejectReview(h) ==
    /\ th[h] = Idle /\ status = "review"
    /\ Goto(h, Call("reject", "review", TRUE, ref, "human"))
    /\ UNCHANGED <<chainVars, dbVars, memVars, bounds>>

Reject(h) ==
    /\ th[h].pc = "reject"
    /\ \E res \in {"ok", "conflict", "invalid"} :
          Transition("failed", Payload(th[h].ref, "human"), res)
    /\ Done(h)
    /\ UNCHANGED <<chainVars, journal, reversed, anomalies, memVars, bounds>>

ResolveReorg(k) ==
    /\ anomalies[k] = "open"
    /\ anomalies' = [anomalies EXCEPT ![k] = "resolved"]
    /\ UNCHANGED <<chainVars, rowVars, journal, reversed, th, memVars, bounds>>

-----------------------------------------------------------------------------
(* recheckOneDeposit: pending and confirming bookings.                     *)

\* Confirmations are counted from the block the booking recorded.
RecheckBegin(r) ==
    /\ th[r] = Idle /\ status \in {"pending", "confirming"}
    /\ LET conf == IsDeep(block, tip) IN
       /\ Goto(r, Call(IF conf THEN "evidence" ELSE "included", status, conf, "log", "auto"))
       /\ misses' = IF conf THEN [misses EXCEPT ![r].shallow = 0] ELSE misses
    /\ UNCHANGED <<chainVars, dbVars, recon, bounds>>

\* Below the threshold: enough consecutive denials fail the booking.
RecheckShallow(r) ==
    /\ th[r].pc = "included"
    /\ \E ans \in BOOLEAN :
          /\ Answer(at # 0, ans)
          /\ misses' = [misses EXCEPT ![r].shallow =
                           IF ans THEN 0 ELSE Min({@ + 1, ShallowReorgMisses})]
          /\ IF ~ans /\ misses'[r].shallow >= ShallowReorgMisses
             THEN Goto(r, [th[r] EXCEPT !.pc = "fail"]) ELSE Done(r)
    /\ UNCHANGED <<chainVars, dbVars, recon, down, crashes>>

RecheckFail(r) ==
    /\ th[r].pc = "fail"
    /\ \E res \in {"ok", "conflict", "invalid"} :
          /\ Transition("failed", Payload("log", "none"), res)
          /\ IF res = "ok"
             THEN /\ misses' = [misses EXCEPT ![r].shallow = 0]
                  /\ Goto(r, [pc |-> "record", kind |-> "shallow_reorg_failed"])
             ELSE UNCHANGED misses /\ Done(r)
    /\ UNCHANGED <<chainVars, journal, reversed, anomalies, recon, bounds>>

\* ON CONFLICT (booking_uid, kind): a resolved row stays resolved.
RecordDepositReorg(kind) ==
    anomalies' = [anomalies EXCEPT ![kind] = IF @ = "none" THEN "open" ELSE @]

RecordReorg(r) ==
    /\ th[r].pc = "record"
    /\ RecordDepositReorg(th[r].kind)
    /\ IF /\ th[r].kind = "deep_reorg" /\ AutoReverse
          /\ misses[r].deep >= DeepReorgMisses /\ journal # "none"
       THEN Goto(r, [pc |-> "reverse"]) ELSE Done(r)
    /\ UNCHANGED <<chainVars, rowVars, journal, reversed, memVars, bounds>>

\* Fault: any inclusion corroborates.
CorroboratedAnywhere == at # 0

\* corroborateBeforeConfirm: the recorded block still carries the transfer.
Corroborated == at # 0 /\ at = block

RecheckEvidence(r) ==
    /\ th[r].pc = "evidence"
    /\ \E ans \in BOOLEAN :
          /\ Answer(Corroborated, ans)
          /\ misses' = [misses EXCEPT ![r].evidence =
                           IF ans THEN 0 ELSE Min({@ + 1, ConfirmEvidenceMisses})]
          /\ IF ans THEN Goto(r, [th[r] EXCEPT !.pc = "advance"])
             ELSE IF misses'[r].evidence >= ConfirmEvidenceMisses
                  THEN Goto(r, [th[r] EXCEPT !.pc = "unverified", !.ref = "unverified"])
                  ELSE Done(r)
    /\ UNCHANGED <<chainVars, dbVars, recon, down, crashes>>

\* review is reached from confirming only.
RecheckUnverified(r) ==
    /\ th[r].pc = "unverified"
    /\ IF th[r].st = "pending"
       THEN \E res \in {"ok", "conflict", "invalid"} :
               /\ Transition("confirming", Payload(th[r].ref, "none"), res)
               /\ IF res = "ok" THEN ToReview(r, "unverified") ELSE Done(r)
       ELSE ToReview(r, "unverified") /\ UNCHANGED rowVars
    /\ UNCHANGED <<chainVars, journal, reversed, anomalies, memVars, bounds>>

-----------------------------------------------------------------------------
(* recheckOneConfirmedDeposit.                                             *)

RecheckConfirmed(r) ==
    /\ th[r] = Idle /\ status = "confirmed" /\ tip - block <= ReorgRecheckWindow
    /\ \E ans \in BOOLEAN :
          /\ Answer(at # 0, ans)
          /\ misses' = [misses EXCEPT ![r].deep =
                           IF ans THEN 0 ELSE Min({@ + 1, DeepReorgMisses})]
          /\ Goto(r, IF ans THEN Idle ELSE [pc |-> "record", kind |-> "deep_reorg"])
    /\ UNCHANGED <<chainVars, dbVars, recon, down, crashes>>

\* ReverseJournal's key is the journal and the reason: a second call changes nothing.
ReverseJournal(r) ==
    /\ th[r].pc = "reverse"
    /\ reversed' = TRUE
    /\ misses' = [misses EXCEPT ![r].deep = 0]
    /\ Done(r)
    /\ UNCHANGED <<chainVars, rowVars, journal, anomalies, recon, bounds>>

\* The process of t dies: its call and its counters are gone.
Crash(t) ==
    /\ crashes < MaxCrashes /\ crashes' = crashes + 1
    /\ th[t] # Idle
    /\ Done(t)
    /\ misses' = IF t \in Recheckers THEN [misses EXCEPT ![t] = NoMiss] ELSE misses
    /\ recon' = [recon EXCEPT ![t] = 0]
    /\ UNCHANGED <<chainVars, dbVars, wrong, down>>

-----------------------------------------------------------------------------
\* The steps every call that reached the confirmation shares.
Continue(t) ==
    \/ AdvanceConfirmation(t) \/ ReviewGate(t) \/ RouteToReview(t)
    \/ PostDepositConfirmedJournal(t)

Ingest(i) == Sight(i) \/ CreateBooking(i) \/ Continue(i)

Recheck(r) ==
    \/ RecheckBegin(r) \/ RecheckShallow(r) \/ RecheckFail(r) \/ RecordReorg(r)
    \/ RecheckEvidence(r) \/ RecheckUnverified(r) \/ RecheckConfirmed(r) \/ ReverseJournal(r)
    \/ Continue(r)

Review(h) == ApproveReview(h) \/ RejectReview(h) \/ Reject(h) \/ PostDepositConfirmedJournal(h)

Next ==
    \/ Mine \/ Drop
    \/ \E i \in Ingesters : Ingest(i)
    \/ \E r \in Recheckers : Recheck(r)
    \/ \E h \in Reviewers : Review(h)
    \/ \E k \in Kinds : ResolveReorg(k)
    \/ \E t \in Threads : Crash(t)

Spec == Init /\ [][Next]_vars

\* Blocks keep coming and the recheck loops keep ticking.
FairSpec == Spec /\ WF_vars(Mine) /\ \A r \in Recheckers : WF_vars(Recheck(r))

-----------------------------------------------------------------------------

(* I-21: a deposit is credited exactly when it is confirmed.  Whatever the *)
(* threads raced on, no journal exists beside pending, review or failed.   *)
CreditedIffConfirmed == (journal # "none") = (status = "confirmed")

(* Nothing is credited by machine that was not once Confirmations deep in  *)
(* the chain, although confirmations are counted from the block the        *)
(* booking first recorded and the transfer may have moved since            *)
(* (corroborateBeforeConfirm).                                             *)
CreditedWasDeep == journal = "auto" => deep

(* While the transfer never left its block, fewer wrong denials than the   *)
(* thresholds neither fail the booking nor reverse its journal: only       *)
(* consecutive denials to one replica count (WithShallowReorgMisses,       *)
(* WithDeepReorgMisses).                                                   *)
WrongDenialsHarmless ==
    moved = 0 => /\ ~reversed
                 /\ status = "failed" => receipts["failed"].meta = "human"

(* Only a human moves a deposit out of review (I-21, advanceConfirmation). *)
OnlyHumansLeaveReview ==
    [][status = "review" /\ status' # "review" =>
          receipts'[status'].meta = "human"]_vars

\* The credit, the status and the chain agree.
CreditSound == CreditedIffConfirmed /\ CreditedWasDeep /\ WrongDenialsHarmless
=============================================================================
