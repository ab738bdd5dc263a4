----------------------------- MODULE DepositProofs -----------------------------
(***************************************************************************)
(* A deposit is credited exactly when it is confirmed, a machine credits   *)
(* only what was once deep in the chain, and a few wrong denials do no     *)
(* harm, for any number of threads, replicas, reviewers and blocks.        *)
(***************************************************************************)
EXTENDS Deposit, TLAPS

Statuses == {"none", "pending", "confirming", "review", "confirmed", "failed", "expired"}
Refs     == {"none", "log", "unverified"}
Answers  == {"ok", "conflict", "invalid"}

CallPcs == {"advance", "gate", "post", "reject", "evidence", "included", "fail", "unverified"}

Calls == [pc : CallPcs, st : Statuses, conf : BOOLEAN, ref : Refs, who : {"auto", "human"}]

Shape ==
    /\ tip \in Nat /\ at \in Nat /\ deep \in BOOLEAN
    /\ status \in Statuses /\ ref \in Refs /\ block \in Nat
    /\ th = [t \in Threads |-> th[t]]

\* A confirmed booking has the receipt of its confirmation and a journal.
RowAgrees ==
    /\ "confirmed" \in DOMAIN receipts <=> status = "confirmed"
    /\ journal # "none" <=> status = "confirmed"

\* What a call rec believes, when the transfer was deep if d, the booking is in status
\* s with block b, and the chain is n high: confirmations counted from the transfer's own
\* block, or from the booking's and then corroborated, mean that it was deep.
Knows(rec, d, s, b, n) ==
    /\ rec.pc = "create" =>
          rec.block \in Nat /\ rec.conf \in BOOLEAN /\ (rec.conf => d)
    /\ rec.pc \in CallPcs => rec \in Calls
    /\ rec.pc = "review" => rec.ref \in Refs
    /\ rec.pc \in {"gate", "post"} => rec.conf
    /\ rec.pc \in {"advance", "gate", "post"} /\ rec.conf /\ rec.who = "auto" => d
    /\ rec.pc = "evidence" => s # "none" /\ IsDeep(b, n)

CreditInv ==
    /\ Shape /\ RowAgrees /\ CreditedWasDeep
    /\ IsDeep(at, tip) => deep
    /\ \A t \in Threads : Knows(th[t], deep, status, block, tip)

-----------------------------------------------------------------------------

\* The lesser of two integers.
LEMMA MinTwo ==
    ASSUME NEW a \in Int, NEW b \in Int
    PROVE  Min({a, b}) \in {a, b} /\ Min({a, b}) <= a /\ Min({a, b}) <= b
<1>1. \E x \in {a, b} : \A y \in {a, b} : x <= y
    <2>1. CASE a <= b
        BY <2>1
    <2>2. CASE ~(a <= b)
        BY <2>2
    <2>. QED  BY <2>1, <2>2, Zenon
<1>2. Min({a, b}) \in {a, b} /\ \A y \in {a, b} : Min({a, b}) <= y
    BY <1>1, Zenon DEF Min
<1>. QED  BY <1>2, Zenon

\* What is deep in a chain is deep in a longer one.
LEMMA DeepStays ==
    ASSUME NEW b \in Nat, NEW m \in Nat, NEW n \in Nat, m <= n, IsDeep(b, m)
    PROVE  IsDeep(b, n)
<1>1. Confirmations \in Nat
    BY DepositAssumption, Zenon
<1>. QED  BY <1>1 DEF IsDeep

\* The chain grows, what was deep stays so, and a booking keeps its block.
Grows ==
    /\ tip' \in Nat /\ tip <= tip' /\ deep' \in BOOLEAN /\ (deep => deep')
    /\ status # "none" => status' # "none" /\ block' = block

\* Then a call that does nothing believes nothing wrong.
LEMMA KnowsStays ==
    ASSUME NEW rec, CreditInv, Grows, Knows(rec, deep, status, block, tip)
    PROVE  Knows(rec, deep', status', block', tip')
<1>1. ASSUME rec.pc = "evidence" PROVE status' # "none" /\ IsDeep(block', tip')
    <2>1. status # "none" /\ IsDeep(block, tip)
        BY <1>1, Zenon DEF Knows
    <2>2. status' # "none" /\ block' = block /\ block \in Nat /\ tip \in Nat
        BY <2>1, Zenon DEF Grows, CreditInv, Shape
    <2>3. tip' \in Nat /\ tip <= tip'
        BY Zenon DEF Grows
    <2>4. IsDeep(block, tip')
        BY <2>1, <2>2, <2>3, DeepStays, Zenon
    <2>. QED  BY <2>2, <2>4, Zenon
<1>2. deep => deep'
    BY Zenon DEF Grows
<1>. QED  BY <1>1, <1>2, Zenon DEF Knows

\* The belief of the thread that takes a step is all there is to show.
LEMMA OneThread ==
    ASSUME CreditInv, Grows, NEW t \in Threads, NEW rec, Goto(t, rec),
           Knows(rec, deep', status', block', tip')
    PROVE  /\ \A u \in Threads : Knows(th'[u], deep', status', block', tip')
           /\ th' = [u \in Threads |-> th'[u]]
<1>1. th = [u \in Threads |-> th[u]] /\ th' = [th EXCEPT ![t] = rec]
    BY Zenon DEF CreditInv, Shape, Goto
<1>2. th' = [u \in Threads |-> IF u = t THEN rec ELSE th[u]]
    BY <1>1, Zenon
<1>3. ASSUME NEW u \in Threads PROVE Knows(th'[u], deep', status', block', tip')
    <2>1. Knows(th[u], deep', status', block', tip')
        BY KnowsStays, Zenon DEF CreditInv
    <2>2. th'[u] = IF u = t THEN rec ELSE th[u]
        BY <1>2, Zenon
    <2>. QED  BY <2>1, <2>2, Zenon
<1>. QED  BY <1>2, <1>3, Zenon

\* A thread at rest believes nothing.
LEMMA IdleKnows == ASSUME NEW d, NEW s, NEW b, NEW n PROVE Knows(Idle, d, s, b, n)
<1>1. Idle.pc = "idle"
    BY Zenon DEF Idle
<1>. QED  BY <1>1, Zenon DEF Knows, CallPcs

\* Whatever a transition answers, the row keeps its block and its shape, and the receipts
\* of confirmations are where they were.
LEMMA TransitionRow ==
    ASSUME CreditInv, NEW to \in Statuses \ {"none"}, NEW p, p.ref \in Refs, NEW res,
           Transition(to, p, res)
    PROVE  /\ status' \in Statuses /\ ref' \in Refs /\ block' = block
           /\ status # "none" => status' # "none"
           /\ "confirmed" \in DOMAIN receipts' <=> status' = "confirmed"
           /\ to # "confirmed" => (status' = "confirmed" <=> status = "confirmed")
           /\ status = "confirmed" => status' = "confirmed"
           /\ to = "confirmed" => (res = "ok" <=> status' = "confirmed") \/ status = "confirmed"
<1>1. status \in Statuses /\ ref \in Refs /\ ("confirmed" \in DOMAIN receipts <=> status = "confirmed")
    BY Zenon DEF CreditInv, Shape, RowAgrees
<1>2. CASE UNCHANGED rowVars /\ to \in DOMAIN receipts
    BY <1>1, <1>2, Zenon DEF rowVars
<1>3. CASE UNCHANGED rowVars /\ to \notin DOMAIN receipts /\ res = "invalid"
    BY <1>1, <1>3, Zenon DEF rowVars
<1>4. CASE /\ <<status, to>> \in DepositLifecycle /\ status' = to /\ ref' = p.ref /\ res = "ok"
           /\ receipts' = [s \in DOMAIN receipts \union {to} |->
                              IF s = to THEN p ELSE receipts[s]]
           /\ UNCHANGED block
    <2>1. status # "confirmed" /\ DOMAIN receipts' = DOMAIN receipts \union {to}
        BY <1>4, Zenon DEF DepositLifecycle
    <2>. QED  BY <1>1, <1>4, <2>1, Zenon
<1>. QED  BY <1>2, <1>3, <1>4, Zenon DEF Transition

\* A call that leaves the booking and its journal alone.
LEMMA BesideStep ==
    ASSUME CreditInv, NEW t \in Threads, NEW rec, Goto(t, rec),
           UNCHANGED <<chainVars, rowVars, journal>>, Knows(rec, deep, status, block, tip)
    PROVE  CreditInv'
<1>1. /\ tip' = tip /\ at' = at /\ deep' = deep /\ status' = status /\ ref' = ref
      /\ block' = block /\ receipts' = receipts /\ journal' = journal
    BY Zenon DEF chainVars, rowVars
<1>2. Grows
    BY <1>1 DEF Grows, CreditInv, Shape
<1>3. /\ \A u \in Threads : Knows(th'[u], deep', status', block', tip')
      /\ th' = [u \in Threads |-> th'[u]]
    BY <1>1, <1>2, OneThread, Zenon
<1>4. Shape'
    BY <1>1, <1>3, Zenon DEF CreditInv, Shape
<1>5. RowAgrees' /\ CreditedWasDeep' /\ (IsDeep(at, tip) => deep)'
    BY <1>1, Zenon DEF CreditInv, RowAgrees, CreditedWasDeep, IsDeep
<1>. QED  BY <1>3, <1>4, <1>5, Zenon DEF CreditInv

\* A call that only reads, or keeps counters in memory.
LEMMA QuietStep ==
    ASSUME CreditInv, NEW t \in Threads, NEW rec, Goto(t, rec), UNCHANGED <<chainVars, dbVars>>,
           Knows(rec, deep, status, block, tip)
    PROVE  CreditInv'
<1>1. UNCHANGED <<chainVars, rowVars, journal>>
    BY Zenon DEF dbVars
<1>. QED  BY <1>1, BesideStep, Zenon

\* A call that asks for a transition, and credits when it confirms.
LEMMA RowStep ==
    ASSUME CreditInv, NEW t \in Threads, NEW rec, Goto(t, rec), UNCHANGED chainVars,
           NEW to \in Statuses \ {"none"}, NEW p, p.ref \in Refs, NEW res,
           Transition(to, p, res),
           journal' # "none" <=> status' = "confirmed", journal' = "auto" => deep,
           Knows(rec, deep, status', block, tip)
    PROVE  CreditInv'
<1>1. tip' = tip /\ at' = at /\ deep' = deep
    BY Zenon DEF chainVars
<1>2. /\ status' \in Statuses /\ ref' \in Refs /\ block' = block
      /\ status # "none" => status' # "none"
      /\ "confirmed" \in DOMAIN receipts' <=> status' = "confirmed"
    BY TransitionRow, Zenon
<1>3. Grows
    BY <1>1, <1>2 DEF Grows, CreditInv, Shape
<1>4. /\ \A u \in Threads : Knows(th'[u], deep', status', block', tip')
      /\ th' = [u \in Threads |-> th'[u]]
    BY <1>1, <1>2, <1>3, OneThread, Zenon
<1>5. Shape'
    BY <1>1, <1>2, <1>4, Zenon DEF CreditInv, Shape
<1>6. RowAgrees' /\ CreditedWasDeep' /\ (IsDeep(at, tip) => deep)'
    BY <1>1, <1>2, Zenon DEF CreditInv, RowAgrees, CreditedWasDeep, IsDeep
<1>. QED  BY <1>4, <1>5, <1>6, Zenon DEF CreditInv

\* ... where a transition that does not confirm credits nothing.
LEMMA PlainRowStep ==
    ASSUME CreditInv, NEW t \in Threads, NEW rec, Goto(t, rec), UNCHANGED <<chainVars, journal>>,
           NEW to \in Statuses \ {"none", "confirmed"}, NEW p, p.ref \in Refs, NEW res,
           Transition(to, p, res), Knows(rec, deep, status', block, tip)
    PROVE  CreditInv'
<1>1. journal' = journal /\ UNCHANGED chainVars
    BY Zenon
<1>2. status' = "confirmed" <=> status = "confirmed"
    BY TransitionRow, Zenon
<1>3. (journal' # "none" <=> status' = "confirmed") /\ (journal' = "auto" => deep)
    BY <1>1, <1>2, Zenon DEF CreditInv, RowAgrees, CreditedWasDeep
<1>. QED  BY <1>1, <1>3, RowStep, Zenon

-----------------------------------------------------------------------------
(* The chain.                                                              *)

\* The steps of the chain leave bookings and calls alone.
LEMMA ChainStep ==
    ASSUME CreditInv, tip' \in Nat, tip <= tip', at' \in Nat,
           deep' = (deep \/ IsDeep(at', tip')), UNCHANGED <<dbVars, th>>
    PROVE  CreditInv'
<1>1. /\ status' = status /\ ref' = ref /\ block' = block /\ receipts' = receipts
      /\ journal' = journal /\ th' = th
    BY Zenon DEF dbVars, rowVars
<1>2. deep \in BOOLEAN /\ deep' \in BOOLEAN /\ (deep => deep') /\ (IsDeep(at', tip') => deep')
    BY Zenon DEF CreditInv, Shape, IsDeep
<1>3. Grows
    BY <1>1, <1>2, Zenon DEF Grows
<1>4. \A u \in Threads : Knows(th'[u], deep', status', block', tip')
    BY <1>1, <1>3, KnowsStays, Zenon DEF CreditInv
<1>5. Shape'
    BY <1>1, <1>2, Zenon DEF CreditInv, Shape
<1>6. RowAgrees' /\ CreditedWasDeep' /\ (IsDeep(at, tip) => deep)'
    BY <1>1, <1>2, Zenon DEF CreditInv, RowAgrees, CreditedWasDeep, IsDeep
<1>. QED  BY <1>4, <1>5, <1>6, Zenon DEF CreditInv

\* A block is mined.
LEMMA MineCredit == ASSUME CreditInv, Mine PROVE CreditInv'
<1>1. tip' = tip + 1 /\ at' = at /\ tip \in Nat /\ at \in Nat /\ UNCHANGED <<dbVars, th>>
    BY Zenon DEF Mine, CreditInv, Shape
<1>2. deep' = (deep \/ IsDeep(at', tip'))
    BY <1>1, Zenon DEF Mine
<1>3. tip' \in Nat /\ tip <= tip' /\ at' \in Nat
    BY <1>1
<1>. QED  BY <1>1, <1>2, <1>3, ChainStep, Zenon

\* The transfer leaves its block.
LEMMA DropCredit == ASSUME CreditInv, Drop PROVE CreditInv'
<1>1. tip' = tip /\ tip \in Nat /\ UNCHANGED <<dbVars, th>>
    BY Zenon DEF Drop, CreditInv, Shape
<1>2. at' \in Nat
    <2>1. LastBlock \in Int
        BY DepositAssumption DEF LastBlock
    <2>2. tip \in Int /\ Min({tip, LastBlock}) \in {tip, LastBlock}
        BY <1>1, <2>1, MinTwo
    <2>3. Min({tip, LastBlock}) \in Int
        BY <2>1, <2>2, Zenon
    <2>. QED  BY <2>3 DEF Drop
<1>3. deep' = (deep \/ IsDeep(at', tip'))
    BY <1>1, Zenon DEF Drop
<1>. QED  BY <1>1, <1>2, <1>3, ChainStep

-----------------------------------------------------------------------------
(* IngestDeposit.                                                          *)

\* The producer reports what the chain shows: then it is deep now.
LEMMA SightCredit == ASSUME CreditInv, NEW i \in Threads, Sight(i) PROVE CreditInv'
<1> DEFINE rec == [pc |-> "create", block |-> at, conf |-> IsDeep(at, tip)]
<1>1. Goto(i, rec) /\ UNCHANGED <<chainVars, dbVars>>
    BY Zenon DEF Sight
<1>2. rec.pc = "create" /\ rec.block = at /\ rec.conf = IsDeep(at, tip)
    BY Zenon
<1>3. at \in Nat /\ IsDeep(at, tip) \in BOOLEAN /\ (IsDeep(at, tip) => deep)
    BY Zenon DEF CreditInv, Shape, IsDeep
<1>. HIDE DEF rec
<1>4. Knows(rec, deep, status, block, tip)
    BY <1>2, <1>3, Zenon DEF Knows, CallPcs
<1>. QED  BY <1>1, <1>4, QuietStep, Zenon

\* The fields of a call.
LEMMA CallFields ==
    ASSUME NEW pc \in CallPcs, NEW st \in Statuses, NEW conf \in BOOLEAN, NEW r \in Refs,
           NEW who \in {"auto", "human"}
    PROVE  /\ Call(pc, st, conf, r, who) \in Calls
           /\ Call(pc, st, conf, r, who).pc = pc /\ Call(pc, st, conf, r, who).st = st
           /\ Call(pc, st, conf, r, who).conf = conf /\ Call(pc, st, conf, r, who).who = who
BY Zenon DEF Call, Calls

\* The booking is created, or read back.
LEMMA CreateBookingCredit == ASSUME CreditInv, NEW i \in Threads, CreateBooking(i) PROVE CreditInv'
<1>1. PICK rec : rec = Call("advance", IF status = "none" THEN "pending" ELSE status,
                            th[i].conf, "log", "auto")
    BY Zenon
<1>2. Goto(i, rec) /\ UNCHANGED <<chainVars, ref, receipts, journal>>
    BY <1>1, Zenon DEF CreateBooking
<1>3. th[i].pc = "create" /\ Knows(th[i], deep, status, block, tip)
    BY Zenon DEF CreateBooking, CreditInv
<1>4. th[i].block \in Nat /\ th[i].conf \in BOOLEAN /\ (th[i].conf => deep)
    BY <1>3, Zenon DEF Knows
<1>5. /\ status' \in Statuses /\ status' # "none" /\ block' \in Nat
      /\ status # "none" => status' = status /\ block' = block
      /\ status' = "confirmed" <=> status = "confirmed"
    BY <1>4, Zenon DEF CreateBooking, CreditInv, Shape, Statuses
<1>6. /\ tip' = tip /\ at' = at /\ deep' = deep /\ ref' = ref /\ receipts' = receipts
      /\ journal' = journal
    BY <1>2, Zenon DEF chainVars
<1>7. Grows
    BY <1>5, <1>6 DEF Grows, CreditInv, Shape
<1>8. Knows(rec, deep', status', block', tip')
    <2>1. status \in Statuses
        BY Zenon DEF CreditInv, Shape
    <2>2. rec \in Calls /\ rec.pc = "advance" /\ rec.conf = th[i].conf
        BY <1>1, <1>4, <2>1, CallFields, SMTT(30) DEF CallPcs, Statuses, Refs
    <2>. QED  BY <2>2, <1>4, <1>6, Zenon DEF Knows
<1>9. /\ \A u \in Threads : Knows(th'[u], deep', status', block', tip')
      /\ th' = [u \in Threads |-> th'[u]]
    BY <1>2, <1>7, <1>8, OneThread, Zenon
<1>10. Shape'
    BY <1>5, <1>6, <1>9, Zenon DEF CreditInv, Shape
<1>11. RowAgrees' /\ CreditedWasDeep' /\ (IsDeep(at, tip) => deep)'
    BY <1>5, <1>6, Zenon DEF CreditInv, RowAgrees, CreditedWasDeep, IsDeep
<1>. QED  BY <1>9, <1>10, <1>11, Zenon DEF CreditInv

\* A call that is elsewhere believes nothing that matters here.
LEMMA ElsewhereKnows ==
    ASSUME NEW rec, rec.pc \notin CallPcs \cup {"create", "review"}, NEW d, NEW s, NEW b, NEW n
    PROVE  Knows(rec, d, s, b, n)
BY Zenon DEF Knows, CallPcs

\* A call on its way to review.
LEMMA ToReviewKnows ==
    ASSUME NEW t, NEW reason, ToReview(t, reason), th[t].ref \in Refs, NEW d, NEW s, NEW b, NEW n
    PROVE  \E rec : Goto(t, rec) /\ Knows(rec, d, s, b, n)
<1>1. PICK rec : rec = [pc |-> "review", st |-> th[t].st, ref |-> th[t].ref, reason |-> reason]
    BY Zenon
<1>2. rec.pc = "review" /\ rec.ref = th[t].ref
    BY <1>1, Zenon
<1>3. Knows(rec, d, s, b, n)
    BY <1>2, Zenon DEF Knows, CallPcs
<1>4. Goto(t, rec)
    BY <1>1, Zenon DEF ToReview
<1>. QED  BY <1>3, <1>4, Zenon

\* What is known of a call under way.
LEMMA CallUnderWay ==
    ASSUME CreditInv, NEW t \in Threads, th[t].pc \in CallPcs
    PROVE  /\ th[t] \in Calls /\ Knows(th[t], deep, status, block, tip)
           /\ th[t].st \in Statuses /\ th[t].conf \in BOOLEAN /\ th[t].ref \in Refs
           /\ th[t].who \in {"auto", "human"}
<1>1. Knows(th[t], deep, status, block, tip)
    BY Zenon DEF CreditInv
<1>2. th[t] \in Calls
    BY <1>1, Zenon DEF Knows
<1>. QED  BY <1>1, <1>2, Zenon DEF Calls

\* A call goes on, with its status or its place replaced.
LEMMA CallGoesOn ==
    ASSUME NEW rec \in Calls
    PROVE  /\ \A x \in Statuses : [rec EXCEPT !.st = x] \in Calls
              /\ [rec EXCEPT !.st = x].pc = rec.pc /\ [rec EXCEPT !.st = x].conf = rec.conf
              /\ [rec EXCEPT !.st = x].who = rec.who
           /\ \A x \in CallPcs : [rec EXCEPT !.pc = x] \in Calls
              /\ [rec EXCEPT !.pc = x].pc = x /\ [rec EXCEPT !.pc = x].conf = rec.conf
              /\ [rec EXCEPT !.pc = x].who = rec.who
BY Zenon DEF Calls

\* The payload of a transition carries its reference.
LEMMA PayloadRef == ASSUME NEW r, NEW m PROVE Payload(r, m).ref = r /\ Payload(r, m).meta = m
BY Zenon DEF Payload

\* advanceConfirmation.
LEMMA AdvanceCredit == ASSUME CreditInv, NEW t \in Threads, AdvanceConfirmation(t) PROVE CreditInv'
<1>1. /\ th[t].pc = "advance" /\ UNCHANGED <<chainVars, journal, reversed, anomalies>>
      /\ th[t] \in Calls /\ Knows(th[t], deep, status, block, tip)
      /\ th[t].conf \in BOOLEAN /\ th[t].ref \in Refs
    BY CallUnderWay, Zenon DEF AdvanceConfirmation, CallPcs
<1>2. CASE Done(t) /\ UNCHANGED rowVars
    BY <1>1, <1>2, IdleKnows, QuietStep, Zenon DEF Done, dbVars
<1>3. ASSUME NEW res, Transition("confirming", Payload(th[t].ref, "none"), res),
             IF res = "ok" THEN Goto(t, [th[t] EXCEPT !.st = "confirming"]) ELSE Done(t)
      PROVE  CreditInv'
    <2>1. "confirming" \in Statuses \ {"none", "confirmed"} /\ Payload(th[t].ref, "none").ref \in Refs
        BY <1>1, PayloadRef, Zenon DEF Statuses
    <2>2. CASE Done(t)
        BY <1>1, <1>3, <2>1, <2>2, IdleKnows, PlainRowStep, Zenon DEF Done
    <2>3. CASE Goto(t, [th[t] EXCEPT !.st = "confirming"])
        <3>1. PICK rec : rec = [th[t] EXCEPT !.st = "confirming"]
            BY Zenon
        <3>2. rec \in Calls /\ rec.pc = "advance" /\ rec.conf = th[t].conf /\ rec.who = th[t].who
            BY <1>1, <3>1, CallGoesOn, Zenon DEF Statuses
        <3>3. Knows(rec, deep, status', block, tip)
            BY <1>1, <3>2, Zenon DEF Knows
        <3>. QED  BY <1>1, <1>3, <2>1, <2>3, <3>1, <3>3, PlainRowStep, Zenon
    <2>. QED  BY <1>3, <2>2, <2>3, Zenon
<1>4. CASE th[t].conf /\ Goto(t, [th[t] EXCEPT !.pc = "gate"]) /\ UNCHANGED rowVars
    <2>1. PICK rec : rec = [th[t] EXCEPT !.pc = "gate"]
        BY Zenon
    <2>2. rec \in Calls /\ rec.pc = "gate" /\ rec.conf = th[t].conf /\ rec.who = th[t].who
        BY <1>1, <2>1, CallGoesOn, Zenon DEF CallPcs
    <2>3. Knows(rec, deep, status, block, tip)
        BY <1>1, <1>4, <2>2, Zenon DEF Knows
    <2>. QED  BY <1>1, <1>4, <2>1, <2>3, QuietStep, Zenon DEF dbVars
<1>. QED  BY <1>2, <1>3, <1>4, Zenon DEF AdvanceConfirmation

\* The review gate lets a call through to the journal or sends it to review.
LEMMA ReviewGateCredit == ASSUME CreditInv, NEW t \in Threads, ReviewGate(t) PROVE CreditInv'
<1>1. /\ th[t].pc = "gate" /\ UNCHANGED <<chainVars, dbVars>>
      /\ th[t] \in Calls /\ Knows(th[t], deep, status, block, tip) /\ th[t].ref \in Refs
    BY CallUnderWay, Zenon DEF ReviewGate, CallPcs
<1>2. CASE \E reason : ToReview(t, reason)
    BY <1>1, <1>2, ToReviewKnows, QuietStep, Zenon
<1>3. CASE Done(t)
    BY <1>1, <1>3, IdleKnows, QuietStep, Zenon DEF Done
<1>4. CASE Goto(t, [th[t] EXCEPT !.pc = "post"])
    <2>1. PICK rec : rec = [th[t] EXCEPT !.pc = "post"]
        BY Zenon
    <2>2. rec \in Calls /\ rec.pc = "post" /\ rec.conf = th[t].conf /\ rec.who = th[t].who
        BY <1>1, <2>1, CallGoesOn, Zenon DEF CallPcs
    <2>3. Knows(rec, deep, status, block, tip)
        BY <1>1, <2>2, Zenon DEF Knows
    <2>. QED  BY <1>1, <1>4, <2>1, <2>3, QuietStep, Zenon
<1>. QED  BY <1>2, <1>3, <1>4, Zenon DEF ReviewGate, ConfirmDeposit

\* routeToReview.
LEMMA RouteToReviewCredit == ASSUME CreditInv, NEW t \in Threads, RouteToReview(t) PROVE CreditInv'
<1>1. Done(t) /\ UNCHANGED <<chainVars, journal>> /\ th[t].ref \in Refs
    BY Zenon DEF RouteToReview, CreditInv, Knows
<1>2. PICK res \in Answers : Transition("review", Payload(th[t].ref, th[t].reason), res)
    BY Zenon DEF RouteToReview, Answers
<1>3. "review" \in Statuses \ {"none", "confirmed"} /\ Payload(th[t].ref, th[t].reason).ref \in Refs
    BY <1>1, PayloadRef, Zenon DEF Statuses
<1>. QED  BY <1>1, <1>2, <1>3, IdleKnows, PlainRowStep, Zenon DEF Done

\* A call that confirms has a booking it credits, or one that is credited.
LEMMA PostCredit ==
    ASSUME CreditInv, NEW t \in Threads, PostDepositConfirmedJournal(t) PROVE CreditInv'
<1>1. /\ th[t].pc = "post" /\ Done(t) /\ UNCHANGED chainVars
      /\ Knows(th[t], deep, status, block, tip) /\ th[t].conf
      /\ th[t].ref \in Refs /\ th[t].who \in {"auto", "human"}
    <2>1. th[t].pc = "post" /\ Done(t) /\ UNCHANGED chainVars
        BY Zenon DEF PostDepositConfirmedJournal
    <2>2. th[t].pc \in CallPcs
        BY <2>1, Zenon DEF CallPcs
    <2>. QED  BY <2>1, <2>2, CallUnderWay, Zenon DEF Knows
<1>2. PICK res \in Answers :
          /\ Transition("confirmed", Payload(th[t].ref, th[t].who), res)
          /\ journal' = IF res = "ok" /\ journal = "none" THEN th[t].who ELSE journal
    BY Zenon DEF PostDepositConfirmedJournal, Answers
<1>3. "confirmed" \in Statuses \ {"none"} /\ Payload(th[t].ref, th[t].who).ref \in Refs
    BY <1>1, PayloadRef, Zenon DEF Statuses
<1>4. /\ (res = "ok" <=> status' = "confirmed") \/ status = "confirmed"
      /\ status = "confirmed" => status' = "confirmed"
    BY <1>2, <1>3, TransitionRow, Zenon
<1>5. (journal # "none" <=> status = "confirmed") /\ (journal = "auto" => deep)
    BY Zenon DEF CreditInv, RowAgrees, CreditedWasDeep
<1>6. th[t].who = "auto" => deep
    BY <1>1, Zenon DEF Knows
<1>7. (journal' # "none" <=> status' = "confirmed") /\ (journal' = "auto" => deep)
    BY <1>1, <1>2, <1>4, <1>5, <1>6, Zenon
<1>. QED  BY <1>1, <1>2, <1>3, <1>7, IdleKnows, RowStep, Zenon DEF Done

-----------------------------------------------------------------------------
(* Humans.                                                                 *)

\* A human decides on what is in review.
LEMMA ReviewCredit ==
    ASSUME CreditInv, NEW h \in Threads, ApproveReview(h) \/ RejectReview(h) PROVE CreditInv'
<1>1. UNCHANGED <<chainVars, dbVars>> /\ ref \in Refs
    BY Zenon DEF ApproveReview, RejectReview, CreditInv, Shape
<1>2. PICK p, rec :
          p \in {"post", "reject"} /\ Goto(h, rec) /\ rec = Call(p, "review", TRUE, ref, "human")
    BY Zenon DEF ApproveReview, RejectReview
<1>3. rec \in Calls /\ rec.pc = p /\ rec.conf = TRUE /\ rec.who = "human"
    <2>1. p \in CallPcs /\ "review" \in Statuses /\ TRUE \in BOOLEAN /\ "human" \in {"auto", "human"}
        BY <1>2, Zenon DEF CallPcs, Statuses
    <2>2. Call(p, "review", TRUE, ref, "human") \in Calls
        BY <1>1, <2>1, Zenon DEF Call, Calls
    <2>. QED  BY <1>2, <2>2, Zenon DEF Call
<1>4. Knows(rec, deep, status, block, tip)
    BY <1>2, <1>3, Zenon DEF Knows
<1>. QED  BY <1>1, <1>2, <1>4, QuietStep, Zenon

\* A rejected deposit fails.
LEMMA RejectCredit == ASSUME CreditInv, NEW h \in Threads, Reject(h) PROVE CreditInv'
<1>1. Done(h) /\ UNCHANGED <<chainVars, journal>> /\ th[h].pc = "reject"
    BY Zenon DEF Reject
<1>2. th[h].ref \in Refs
    BY <1>1, CallUnderWay, Zenon DEF CallPcs
<1>3. PICK res \in Answers : Transition("failed", Payload(th[h].ref, "human"), res)
    BY Zenon DEF Reject, Answers
<1>4. "failed" \in Statuses \ {"none", "confirmed"} /\ Payload(th[h].ref, "human").ref \in Refs
    BY <1>2, PayloadRef, Zenon DEF Statuses
<1>. QED  BY <1>1, <1>3, <1>4, IdleKnows, PlainRowStep, Zenon DEF Done

\* Anomalies are beside the booking.
LEMMA AnomalyCredit ==
    ASSUME CreditInv, UNCHANGED <<chainVars, rowVars, journal, th>> PROVE CreditInv'
<1>1. /\ tip' = tip /\ at' = at /\ deep' = deep /\ status' = status /\ ref' = ref
      /\ block' = block /\ receipts' = receipts /\ journal' = journal /\ th' = th
    BY Zenon DEF chainVars, rowVars
<1>. QED  BY <1>1, Zenon DEF CreditInv, Shape, RowAgrees, CreditedWasDeep, IsDeep

-----------------------------------------------------------------------------
(* The recheck loops.                                                      *)

\* A recheck counts confirmations from the booking's block.
LEMMA RecheckBeginCredit == ASSUME CreditInv, NEW r \in Threads, RecheckBegin(r) PROVE CreditInv'
<1>1. PICK conf \in BOOLEAN : conf = IsDeep(block, tip)
    BY Zenon DEF IsDeep
<1>2. PICK p : p = IF conf THEN "evidence" ELSE "included"
    BY Zenon
<1>3. PICK rec : rec = Call(p, status, conf, "log", "auto")
    BY Zenon
<1>4. /\ Goto(r, rec) /\ UNCHANGED <<chainVars, dbVars>>
      /\ status # "none" /\ status \in Statuses
    <2>1. status \in {"pending", "confirming"} /\ UNCHANGED <<chainVars, dbVars>>
        BY Zenon DEF RecheckBegin
    <2>2. Goto(r, rec)
        BY <1>1, <1>2, <1>3, Zenon DEF RecheckBegin
    <2>. QED  BY <2>1, <2>2, Zenon DEF Statuses
<1>5. p \in CallPcs /\ p \in {"evidence", "included"} /\ (p = "evidence" => conf)
    BY <1>2, Zenon DEF CallPcs
<1>6. rec \in Calls /\ rec.pc = p
    <2>1. "log" \in Refs /\ "auto" \in {"auto", "human"}
        BY Zenon DEF Refs
    <2>2. Call(p, status, conf, "log", "auto") \in Calls
        BY <1>4, <1>5, <2>1, Zenon DEF Call, Calls
    <2>. QED  BY <1>3, <2>2, Zenon DEF Call
<1>7. Knows(rec, deep, status, block, tip)
    BY <1>1, <1>4, <1>5, <1>6, Zenon DEF Knows
<1>. QED  BY <1>4, <1>7, QuietStep, Zenon

\* Below the threshold a recheck ends, or fails the booking.
LEMMA RecheckShallowCredit == ASSUME CreditInv, NEW r \in Threads, RecheckShallow(r) PROVE CreditInv'
<1>1. UNCHANGED <<chainVars, dbVars>> /\ th[r].pc = "included"
    BY Zenon DEF RecheckShallow
<1>2. CASE Done(r)
    BY <1>1, <1>2, IdleKnows, QuietStep, Zenon DEF Done
<1>3. CASE Goto(r, [th[r] EXCEPT !.pc = "fail"])
    <2>1. PICK rec : rec = [th[r] EXCEPT !.pc = "fail"]
        BY Zenon
    <2>2. th[r] \in Calls
        BY <1>1, CallUnderWay, Zenon DEF CallPcs
    <2>3. rec \in Calls /\ rec.pc = "fail"
        BY <2>1, <2>2, CallGoesOn, Zenon DEF CallPcs
    <2>4. Knows(rec, deep, status, block, tip)
        BY <2>3, Zenon DEF Knows
    <2>. QED  BY <1>1, <1>3, <2>1, <2>4, QuietStep, Zenon
<1>. QED  BY <1>2, <1>3, Zenon DEF RecheckShallow

\* The booking of a transfer that is gone fails.
LEMMA RecheckFailCredit == ASSUME CreditInv, NEW r \in Threads, RecheckFail(r) PROVE CreditInv'
<1>1. UNCHANGED <<chainVars, journal>>
    BY Zenon DEF RecheckFail
<1>2. PICK res \in Answers :
          /\ Transition("failed", Payload("log", "none"), res)
          /\ Goto(r, [pc |-> "record", kind |-> "shallow_reorg_failed"]) \/ Done(r)
    BY Zenon DEF RecheckFail, Answers
<1>3. "failed" \in Statuses \ {"none", "confirmed"} /\ Payload("log", "none").ref \in Refs
    BY PayloadRef, Zenon DEF Statuses, Refs
<1>4. PICK rec : Goto(r, rec) /\ Knows(rec, deep, status', block, tip)
    <2>1. CASE Done(r)
        BY <2>1, IdleKnows, Zenon DEF Done
    <2>2. CASE Goto(r, [pc |-> "record", kind |-> "shallow_reorg_failed"])
        <3>1. PICK rec : rec = [pc |-> "record", kind |-> "shallow_reorg_failed"]
            BY Zenon
        <3>2. rec.pc = "record"
            BY <3>1, Zenon
        <3>3. Knows(rec, deep, status', block, tip)
            BY <3>2, Zenon DEF Knows, CallPcs
        <3>. QED  BY <2>2, <3>1, <3>3, Zenon
    <2>. QED  BY <1>2, <2>1, <2>2, Zenon
<1>. QED  BY <1>1, <1>2, <1>3, <1>4, PlainRowStep, Zenon

\* The anomaly of a reorganisation, and the reversal it may lead to.
LEMMA RecordReorgCredit == ASSUME CreditInv, NEW r \in Threads, RecordReorg(r) PROVE CreditInv'
<1>1. UNCHANGED <<chainVars, rowVars, journal>>
    BY Zenon DEF RecordReorg
<1>2. CASE Done(r)
    BY <1>1, <1>2, IdleKnows, BesideStep, Zenon DEF Done
<1>3. CASE Goto(r, [pc |-> "reverse"])
    <2>1. PICK rec : rec = [pc |-> "reverse"]
        BY Zenon
    <2>2. rec.pc = "reverse"
        BY <2>1, Zenon
    <2>3. Knows(rec, deep, status, block, tip)
        BY <2>2, Zenon DEF Knows, CallPcs
    <2>. QED  BY <1>1, <1>3, <2>1, <2>3, BesideStep, Zenon
<1>. QED  BY <1>2, <1>3, Zenon DEF RecordReorg

\* The evidence that the booking's block still carries the transfer makes the count of
\* its confirmations a count of the transfer's.
LEMMA RecheckEvidenceCredit == ASSUME CreditInv, NEW r \in Threads, RecheckEvidence(r) PROVE CreditInv'
<1>1. UNCHANGED <<chainVars, dbVars>> /\ th[r].pc = "evidence"
    BY Zenon DEF RecheckEvidence
<1>2. th[r] \in Calls /\ Knows(th[r], deep, status, block, tip)
    BY <1>1, CallUnderWay, Zenon DEF CallPcs
<1>3. CASE Done(r)
    BY <1>1, <1>3, IdleKnows, QuietStep, Zenon DEF Done
<1>4. CASE Corroborated /\ Goto(r, [th[r] EXCEPT !.pc = "advance"])
    <2>1. PICK rec : rec = [th[r] EXCEPT !.pc = "advance"]
        BY Zenon
    <2>2. rec \in Calls /\ rec.pc = "advance"
        BY <1>2, <2>1, CallGoesOn, Zenon DEF CallPcs
    <2>3. deep
        BY <1>1, <1>2, <1>4, Zenon DEF Knows, Corroborated, CreditInv
    <2>4. Knows(rec, deep, status, block, tip)
        BY <2>2, <2>3, Zenon DEF Knows
    <2>. QED  BY <1>1, <1>4, <2>1, <2>4, QuietStep, Zenon
<1>5. CASE Goto(r, [th[r] EXCEPT !.pc = "unverified", !.ref = "unverified"])
    <2>1. PICK rec : rec = [th[r] EXCEPT !.pc = "unverified", !.ref = "unverified"]
        BY Zenon
    <2>2. rec \in Calls /\ rec.pc = "unverified"
        BY <1>2, <2>1, Zenon DEF CallPcs, Refs, Calls
    <2>3. Knows(rec, deep, status, block, tip)
        BY <2>2, Zenon DEF Knows
    <2>. QED  BY <1>1, <1>5, <2>1, <2>3, QuietStep, Zenon
<1>. QED  BY <1>3, <1>4, <1>5, Zenon DEF RecheckEvidence, Answer

\* review is reached from confirming.
LEMMA RecheckUnverifiedCredit ==
    ASSUME CreditInv, NEW r \in Threads, RecheckUnverified(r) PROVE CreditInv'
<1>1. UNCHANGED <<chainVars, journal, reversed, anomalies>> /\ th[r].pc = "unverified"
    BY Zenon DEF RecheckUnverified
<1>2. th[r].ref \in Refs
    BY <1>1, CallUnderWay, Zenon DEF CallPcs
<1>3. ASSUME NEW s, ToReview(r, "unverified") \/ Done(r)
      PROVE  \E rec : Goto(r, rec) /\ Knows(rec, deep, s, block, tip)
    BY <1>2, <1>3, ToReviewKnows, IdleKnows, Zenon DEF Done
<1>4. CASE ToReview(r, "unverified") /\ UNCHANGED rowVars
    <2>1. UNCHANGED <<chainVars, rowVars, journal>>
        BY <1>1, <1>4, Zenon
    <2>. QED  BY <1>3, <1>4, <2>1, BesideStep, Zenon
<1>5. ASSUME NEW res, Transition("confirming", Payload(th[r].ref, "none"), res),
             ToReview(r, "unverified") \/ Done(r)
      PROVE  CreditInv'
    <2>1. "confirming" \in Statuses \ {"none", "confirmed"} /\ Payload(th[r].ref, "none").ref \in Refs
        BY <1>2, PayloadRef, Zenon DEF Statuses
    <2>2. UNCHANGED <<chainVars, journal>>
        BY <1>1, Zenon
    <2>. QED  BY <1>3, <1>5, <2>1, <2>2, PlainRowStep, Zenon
<1>. QED  BY <1>4, <1>5, Zenon DEF RecheckUnverified

\* A recheck of a credited deposit counts misses and may lead to an anomaly.
LEMMA RecheckConfirmedCredit ==
    ASSUME CreditInv, NEW r \in Threads, RecheckConfirmed(r) PROVE CreditInv'
<1>1. UNCHANGED <<chainVars, dbVars>>
    BY Zenon DEF RecheckConfirmed
<1>2. CASE Goto(r, Idle)
    BY <1>1, <1>2, IdleKnows, QuietStep, Zenon
<1>3. CASE Goto(r, [pc |-> "record", kind |-> "deep_reorg"])
    <2>1. PICK rec : rec = [pc |-> "record", kind |-> "deep_reorg"]
        BY Zenon
    <2>2. rec.pc = "record"
        BY <2>1, Zenon
    <2>3. Knows(rec, deep, status, block, tip)
        BY <2>2, Zenon DEF Knows, CallPcs
    <2>. QED  BY <1>1, <1>3, <2>1, <2>3, QuietStep, Zenon
<1>. QED  BY <1>2, <1>3, Zenon DEF RecheckConfirmed

\* A reversal, and the death of a process.
LEMMA EndCredit ==
    ASSUME CreditInv, NEW t \in Threads, ReverseJournal(t) \/ Crash(t) PROVE CreditInv'
<1>1. Done(t) /\ UNCHANGED <<chainVars, rowVars, journal>>
    BY Zenon DEF ReverseJournal, Crash, dbVars
<1>. QED  BY <1>1, IdleKnows, BesideStep, Zenon DEF Done

\* No step of any thread, of the chain or of a human credits what it should not.
LEMMA CreditNext == CreditInv /\ [Next]_vars => CreditInv'
<1> SUFFICES ASSUME CreditInv, [Next]_vars PROVE CreditInv'
    BY Zenon
<1>1. Ingesters \subseteq Threads /\ Recheckers \subseteq Threads /\ Reviewers \subseteq Threads
    BY Zenon DEF Threads
<1>2. CASE Mine \/ Drop
    BY <1>2, MineCredit, DropCredit, Zenon
<1>3. ASSUME NEW t \in Threads, Continue(t) PROVE CreditInv'
    BY <1>3, AdvanceCredit, ReviewGateCredit, RouteToReviewCredit, PostCredit, Zenon DEF Continue
<1>4. ASSUME NEW i \in Ingesters, Ingest(i) PROVE CreditInv'
    BY <1>1, <1>3, <1>4, SightCredit, CreateBookingCredit, Zenon DEF Ingest
<1>5. ASSUME NEW r \in Recheckers, Recheck(r) PROVE CreditInv'
    BY <1>1, <1>3, <1>5, RecheckBeginCredit, RecheckShallowCredit, RecheckFailCredit,
       RecordReorgCredit, RecheckEvidenceCredit, RecheckUnverifiedCredit,
       RecheckConfirmedCredit, EndCredit, Zenon DEF Recheck
<1>6. ASSUME NEW h \in Reviewers, Review(h) PROVE CreditInv'
    BY <1>1, <1>6, ReviewCredit, RejectCredit, PostCredit, Zenon DEF Review
<1>7. ASSUME NEW k, ResolveReorg(k) PROVE CreditInv'
    <2>1. UNCHANGED <<chainVars, rowVars, journal, th>>
        BY <1>7, Zenon DEF ResolveReorg
    <2>. QED  BY <2>1, AnomalyCredit, Zenon
<1>8. ASSUME NEW t \in Threads, Crash(t) PROVE CreditInv'
    BY <1>8, EndCredit, Zenon
<1>9. CASE UNCHANGED vars
    <2>1. UNCHANGED <<chainVars, rowVars, journal, th>>
        BY <1>9, Zenon DEF vars, dbVars
    <2>. QED  BY <2>1, AnomalyCredit, Zenon
<1>. QED  BY <1>2, <1>4, <1>5, <1>6, <1>7, <1>8, <1>9, Zenon DEF Next

\* At first there is no booking, and the transfer is in the first block.
LEMMA CreditInit == Init => CreditInv
<1> SUFFICES ASSUME Init PROVE CreditInv
    BY Zenon
<1>1. Shape
    BY Zenon DEF Init, Shape, Statuses, Refs
<1>2. RowAgrees /\ CreditedWasDeep
    BY Zenon DEF Init, RowAgrees, CreditedWasDeep
<1>3. IsDeep(at, tip) => deep
    <2>1. deep = (Confirmations = 1) /\ at = 1 /\ tip = 1
        BY Zenon DEF Init
    <2>2. IsDeep(1, 1) => Confirmations = 1
        BY DepositAssumption DEF IsDeep
    <2>. QED  BY <2>1, <2>2, Zenon
<1>4. ASSUME NEW t \in Threads PROVE Knows(th[t], deep, status, block, tip)
    <2>1. th[t] = Idle
        BY Zenon DEF Init
    <2>. QED  BY <2>1, IdleKnows, Zenon
<1>. QED  BY <1>1, <1>2, <1>3, <1>4, Zenon DEF CreditInv

\* In every behaviour a deposit has its journal exactly when it is confirmed, and a machine
\* credits only what was once as deep as the chain's confirmations ask
\* (postDepositConfirmedJournal, corroborateBeforeConfirm).
THEOREM CreditedWhenConfirmed == Spec => [](CreditedIffConfirmed /\ CreditedWasDeep)
<1>1. CreditInv => CreditedIffConfirmed /\ CreditedWasDeep
    BY Zenon DEF CreditInv, RowAgrees, CreditedIffConfirmed
<1>. QED  BY CreditInit, CreditNext, <1>1, PTL DEF Spec

-----------------------------------------------------------------------------
(* Wrong denials.                                                          *)

Counters == [Recheckers -> [shallow : Nat, evidence : Nat, deep : Nat]]

\* No replica has counted more misses than there were wrong denials.
Bounded(m, w) == \A r \in Recheckers : m[r].shallow <= w /\ m[r].deep <= w

\* While the transfer never left its block nobody is about to fail or to reverse.
Calm(rec) == rec.pc \notin {"fail", "reverse"}

FailedByHuman == status = "failed" => receipts["failed"].meta = "human"

DenialInv ==
    /\ moved \in Nat /\ wrong \in Nat /\ wrong <= MaxWrong /\ misses \in Counters
    /\ moved = 0 =>
          /\ at # 0 /\ ~reversed /\ FailedByHuman
          /\ Bounded(misses, wrong)
          /\ \A t \in Threads : Calm(th[t])

\* Fewer wrong denials than either threshold.
FewWrong == MaxWrong < ShallowReorgMisses /\ MaxWrong < DeepReorgMisses

\* One counter of one replica is set.
LEMMA CounterSet ==
    ASSUME NEW m \in Counters, NEW r \in Recheckers, NEW n \in Nat
    PROVE  /\ [m EXCEPT ![r].shallow = n] \in Counters
           /\ [m EXCEPT ![r].evidence = n] \in Counters
           /\ [m EXCEPT ![r].deep = n] \in Counters
           /\ \A w \in Nat : Bounded(m, w) /\ n <= w =>
                 /\ Bounded([m EXCEPT ![r].shallow = n], w)
                 /\ Bounded([m EXCEPT ![r].deep = n], w)
           /\ \A w \in Nat : Bounded(m, w) => Bounded([m EXCEPT ![r].evidence = n], w)
<1>1. /\ [m EXCEPT ![r].shallow = n] \in Counters
      /\ [m EXCEPT ![r].evidence = n] \in Counters
      /\ [m EXCEPT ![r].deep = n] \in Counters
    BY Zenon DEF Counters
<1>2. ASSUME NEW u \in Recheckers
      PROVE  /\ [m EXCEPT ![r].shallow = n][u].shallow = IF u = r THEN n ELSE m[u].shallow
             /\ [m EXCEPT ![r].shallow = n][u].deep = m[u].deep
             /\ [m EXCEPT ![r].evidence = n][u].shallow = m[u].shallow
             /\ [m EXCEPT ![r].evidence = n][u].deep = m[u].deep
             /\ [m EXCEPT ![r].deep = n][u].shallow = m[u].shallow
             /\ [m EXCEPT ![r].deep = n][u].deep = IF u = r THEN n ELSE m[u].deep
    BY Zenon DEF Counters
<1>3. ASSUME NEW w \in Nat, Bounded(m, w), n <= w
      PROVE  Bounded([m EXCEPT ![r].shallow = n], w) /\ Bounded([m EXCEPT ![r].deep = n], w)
    BY <1>2, <1>3 DEF Bounded
<1>4. ASSUME NEW w \in Nat, Bounded(m, w) PROVE Bounded([m EXCEPT ![r].evidence = n], w)
    BY <1>2, <1>4, Zenon DEF Bounded
<1>. QED  BY <1>1, <1>3, <1>4, Zenon

\* A bound on the misses holds when there may be more.
LEMMA BoundGrows ==
    ASSUME NEW m \in Counters, NEW v \in Nat, NEW w \in Nat, v <= w, Bounded(m, v)
    PROVE  Bounded(m, w)
BY DEF Bounded, Counters

\* The next value of a counter, after the answer to a question whose truthful answer is
\* yes: a miss is one more wrong denial.
LEMMA NextCount ==
    ASSUME NEW k \in Nat, NEW lim \in Nat, NEW truth \in BOOLEAN, NEW ans \in BOOLEAN,
           Answer(truth, ans), wrong \in Nat, wrong <= MaxWrong
    PROVE  /\ wrong' \in Nat /\ wrong <= wrong' /\ wrong' <= MaxWrong
           /\ (IF ans THEN 0 ELSE Min({k + 1, lim})) \in Nat
           /\ truth /\ k <= wrong => (IF ans THEN 0 ELSE Min({k + 1, lim})) <= wrong'
<1>1. Min({k + 1, lim}) \in Nat /\ Min({k + 1, lim}) <= k + 1
    <2>1. k + 1 \in Int /\ lim \in Int
        OBVIOUS
    <2>2. Min({k + 1, lim}) \in {k + 1, lim} /\ Min({k + 1, lim}) <= k + 1
        BY <2>1, MinTwo, Zenon
    <2>. QED  BY <2>2
<1>2. MaxWrong \in Nat
    BY DepositAssumption, Zenon
<1>3. CASE ans
    <2>1. wrong' = wrong
        BY <1>3, Zenon DEF Answer
    <2>. QED  BY <1>2, <1>3, <2>1
<1>4. CASE ~ans /\ truth
    <2>1. wrong < MaxWrong /\ wrong' = wrong + 1
        BY <1>4, Zenon DEF Answer
    <2>. QED  BY <1>1, <1>2, <1>4, <2>1
<1>5. CASE ~ans /\ ~truth
    <2>1. wrong' = wrong
        BY <1>5, Zenon DEF Answer
    <2>. QED  BY <1>1, <1>2, <1>5, <2>1
<1>. QED  BY <1>3, <1>4, <1>5, Zenon

\* A booking fails by a human, or not in the step.
LEMMA FailedTransition ==
    ASSUME NEW to, NEW p, NEW res, Transition(to, p, res), to = "failed" => p.meta = "human",
           FailedByHuman
    PROVE  FailedByHuman'
<1>1. CASE UNCHANGED rowVars
    BY <1>1, Zenon DEF rowVars, FailedByHuman
<1>2. CASE /\ status' = to
           /\ receipts' = [s \in DOMAIN receipts \union {to} |->
                              IF s = to THEN p ELSE receipts[s]]
    BY <1>2, Zenon DEF FailedByHuman
<1>. QED  BY <1>1, <1>2, Zenon DEF Transition

\* A step of one thread that keeps the chain in place.
LEMMA DenialStep ==
    ASSUME CreditInv, DenialInv, NEW t \in Threads, NEW rec, Goto(t, rec),
           moved' = moved, at' = at,
           wrong' \in Nat, wrong' <= MaxWrong, misses' \in Counters,
           moved = 0 => ~reversed' /\ FailedByHuman' /\ Bounded(misses', wrong') /\ Calm(rec)
    PROVE  DenialInv'
<1>1. th' = [th EXCEPT ![t] = rec] /\ th = [u \in Threads |-> th[u]]
    BY Zenon DEF Goto, CreditInv, Shape
<1>2. th' = [u \in Threads |-> IF u = t THEN rec ELSE th[u]]
    BY <1>1, Zenon
<1>3. ASSUME moved = 0, NEW u \in Threads PROVE Calm(th'[u])
    <2>1. Calm(rec) /\ Calm(th[u]) /\ th'[u] = IF u = t THEN rec ELSE th[u]
        BY <1>2, <1>3, Zenon DEF DenialInv
    <2>. QED  BY <2>1, Zenon
<1>. QED  BY <1>3, Zenon DEF DenialInv, Bounded, Calm, FailedByHuman

\* ... that asks the chain nothing, and counts nothing or forgets.
LEMMA DenialStay ==
    ASSUME CreditInv, DenialInv, NEW t \in Threads, NEW rec, Goto(t, rec), UNCHANGED chainVars,
           wrong' = wrong, misses' \in Counters, moved = 0 => Bounded(misses', wrong),
           moved = 0 => ~reversed' /\ FailedByHuman' /\ Calm(rec)
    PROVE  DenialInv'
<1>1. moved' = moved /\ at' = at
    BY Zenon DEF chainVars
<1>2. wrong' \in Nat /\ wrong' <= MaxWrong
    BY Zenon DEF DenialInv
<1>3. moved = 0 => Bounded(misses', wrong')
    BY Zenon
<1>. QED  BY <1>1, <1>2, <1>3, DenialStep, Zenon

\* ... and leaves booking and counters as they are.
LEMMA DenialRest ==
    ASSUME CreditInv, DenialInv, NEW t \in Threads, NEW rec, Goto(t, rec),
           UNCHANGED <<chainVars, rowVars, reversed, misses, wrong>>, moved = 0 => Calm(rec)
    PROVE  DenialInv'
<1>1. UNCHANGED chainVars /\ wrong' = wrong /\ misses' = misses /\ reversed' = reversed
    BY Zenon
<1>2. status' = status /\ receipts' = receipts
    BY Zenon DEF rowVars
<1>3. FailedByHuman => FailedByHuman'
    BY <1>2, Zenon DEF FailedByHuman
<1>4. misses \in Counters /\ (moved = 0 => ~reversed /\ FailedByHuman /\ Bounded(misses, wrong))
    BY Zenon DEF DenialInv
<1>5. moved = 0 => ~reversed'
    BY <1>1, <1>4
<1>. QED  BY <1>1, <1>3, <1>4, <1>5, DenialStay, Zenon

\* ... or asks for a transition.
LEMMA DenialRow ==
    ASSUME CreditInv, DenialInv, NEW t \in Threads, NEW rec, Goto(t, rec),
           UNCHANGED <<chainVars, reversed, wrong>>, misses' \in Counters,
           moved = 0 => Bounded(misses', wrong) /\ Calm(rec),
           NEW to, NEW p, NEW res, Transition(to, p, res),
           moved = 0 => (to = "failed" => p.meta = "human")
    PROVE  DenialInv'
<1>1. UNCHANGED chainVars /\ wrong' = wrong /\ reversed' = reversed
    BY Zenon
<1>2. moved = 0 => FailedByHuman'
    BY FailedTransition, Zenon DEF DenialInv
<1>3. moved = 0 => ~reversed'
    <2>1. moved = 0 => ~reversed
        BY Zenon DEF DenialInv
    <2>. QED  BY <1>1, <2>1
<1>. QED  BY <1>1, <1>2, <1>3, DenialStay, Zenon

\* What is known of the counters and of wrong denials.
LEMMA Known ==
    ASSUME DenialInv
    PROVE  /\ moved \in Nat /\ wrong \in Nat /\ wrong <= MaxWrong /\ misses \in Counters
           /\ moved = 0 => at # 0 /\ ~reversed /\ FailedByHuman /\ Bounded(misses, wrong)
           /\ \A r \in Recheckers : /\ misses[r].shallow \in Nat /\ misses[r].deep \in Nat
                                   /\ misses[r].evidence \in Nat
<1>1. /\ moved \in Nat /\ wrong \in Nat /\ wrong <= MaxWrong /\ misses \in Counters
      /\ moved = 0 => at # 0 /\ ~reversed /\ FailedByHuman /\ Bounded(misses, wrong)
    BY Zenon DEF DenialInv
<1>2. \A r \in Recheckers : /\ misses[r].shallow \in Nat /\ misses[r].deep \in Nat
                           /\ misses[r].evidence \in Nat
    BY <1>1, Zenon DEF Counters
<1>. QED  BY <1>1, <1>2, Zenon

\* Blocks are mined, and the transfer moves.
LEMMA ChainDenial == ASSUME CreditInv, DenialInv, Mine \/ Drop PROVE DenialInv'
<1>1. CASE Drop
    <2>1. moved' = moved + 1 /\ wrong' = wrong /\ misses' = misses
        BY <1>1, Zenon DEF Drop, memVars, bounds
    <2>2. moved' \in Nat /\ moved' # 0 /\ wrong' \in Nat /\ wrong' <= MaxWrong /\ misses' \in Counters
        BY <2>1, Known
    <2>. QED  BY <2>2, Zenon DEF DenialInv
<1>2. CASE Mine
    <2>1. /\ moved' = moved /\ wrong' = wrong /\ misses' = misses /\ at' = at
          /\ reversed' = reversed /\ status' = status /\ receipts' = receipts /\ th' = th
        BY <1>2, Zenon DEF Mine, memVars, bounds, dbVars, rowVars
    <2>2. FailedByHuman => FailedByHuman'
        BY <2>1, Zenon DEF FailedByHuman
    <2>3. moved' = 0 => ~reversed'
        BY <2>1, Known, Zenon
    <2>. QED  BY <2>1, <2>2, <2>3, Zenon DEF DenialInv, Bounded, Calm
<1>. QED  BY <1>1, <1>2, Zenon

\* Sightings, and what a human decides.
LEMMA BeginDenial ==
    ASSUME CreditInv, DenialInv, NEW t \in Threads,
           Sight(t) \/ ApproveReview(t) \/ RejectReview(t)
    PROVE  DenialInv'
<1>1. UNCHANGED <<chainVars, rowVars, reversed, misses, wrong>>
    BY Zenon DEF Sight, ApproveReview, RejectReview, dbVars, memVars, bounds
<1>2. PICK rec : Goto(t, rec) /\ Calm(rec)
    <2>1. CASE Sight(t)
        <3>1. PICK rec : rec = [pc |-> "create", block |-> at, conf |-> IsDeep(at, tip)]
            BY Zenon
        <3>2. Calm(rec)
            BY <3>1, Zenon DEF Calm
        <3>. QED  BY <2>1, <3>1, <3>2, Zenon DEF Sight
    <2>2. CASE ApproveReview(t)
        <3>1. PICK rec : rec = Call("post", "review", TRUE, ref, "human")
            BY Zenon
        <3>2. Calm(rec)
            BY <3>1, Zenon DEF Calm, Call
        <3>. QED  BY <2>2, <3>1, <3>2, Zenon DEF ApproveReview
    <2>3. CASE RejectReview(t)
        <3>1. PICK rec : rec = Call("reject", "review", TRUE, ref, "human")
            BY Zenon
        <3>2. Calm(rec)
            BY <3>1, Zenon DEF Calm, Call
        <3>. QED  BY <2>3, <3>1, <3>2, Zenon DEF RejectReview
    <2>. QED  BY <2>1, <2>2, <2>3, Zenon
<1>. QED  BY <1>1, <1>2, DenialRest, Zenon

\* A booking that is created has not failed.
LEMMA CreateBookingDenial ==
    ASSUME CreditInv, DenialInv, NEW i \in Threads, CreateBooking(i) PROVE DenialInv'
<1>1. /\ UNCHANGED chainVars /\ wrong' = wrong /\ misses' = misses /\ reversed' = reversed
      /\ receipts' = receipts /\ (status' = "failed" => status = "failed")
    BY Zenon DEF CreateBooking, memVars, bounds
<1>2. PICK rec : Goto(i, rec) /\ rec.pc = "advance"
    <2>1. PICK rec : rec = Call("advance", IF status = "none" THEN "pending" ELSE status,
                                th[i].conf, "log", "auto")
        BY Zenon
    <2>2. rec.pc = "advance"
        BY <2>1, Zenon DEF Call
    <2>. QED  BY <2>1, <2>2, Zenon DEF CreateBooking
<1>3. Calm(rec)
    BY <1>2, Zenon DEF Calm
<1>4. FailedByHuman => FailedByHuman'
    BY <1>1, Zenon DEF FailedByHuman
<1>5. moved = 0 => ~reversed'
    BY <1>1, Known, Zenon
<1>. QED  BY <1>1, <1>2, <1>3, <1>4, <1>5, Known, DenialStay, Zenon

\* The places a call goes to.
LEMMA PlacesCalm ==
    /\ Calm(Idle)
    /\ \A t, reason : ToReview(t, reason) => \E rec : Goto(t, rec) /\ Calm(rec)
    /\ \A rec \in Calls : /\ rec.pc = "advance" => Calm([rec EXCEPT !.st = "confirming"])
                          /\ Calm([rec EXCEPT !.pc = "gate"]) /\ Calm([rec EXCEPT !.pc = "post"])
                          /\ Calm([rec EXCEPT !.pc = "advance"])
                          /\ Calm([rec EXCEPT !.pc = "unverified", !.ref = "unverified"])
<1>1. Calm(Idle)
    BY Zenon DEF Calm, Idle
<1>2. ASSUME NEW t, NEW reason, ToReview(t, reason) PROVE \E rec : Goto(t, rec) /\ Calm(rec)
    <2>1. PICK rec : rec = [pc |-> "review", st |-> th[t].st, ref |-> th[t].ref, reason |-> reason]
        BY Zenon
    <2>2. Calm(rec)
        BY <2>1, Zenon DEF Calm
    <2>. QED  BY <1>2, <2>1, <2>2, Zenon DEF ToReview
<1>3. ASSUME NEW rec \in Calls
      PROVE  /\ [rec EXCEPT !.st = "confirming"].pc = rec.pc
             /\ [rec EXCEPT !.pc = "gate"].pc = "gate" /\ [rec EXCEPT !.pc = "post"].pc = "post"
             /\ [rec EXCEPT !.pc = "advance"].pc = "advance"
             /\ [rec EXCEPT !.pc = "unverified", !.ref = "unverified"].pc = "unverified"
    BY Zenon DEF Calls
<1>4. ASSUME NEW rec \in Calls
      PROVE  /\ rec.pc = "advance" => Calm([rec EXCEPT !.st = "confirming"])
             /\ Calm([rec EXCEPT !.pc = "gate"]) /\ Calm([rec EXCEPT !.pc = "post"])
             /\ Calm([rec EXCEPT !.pc = "advance"])
             /\ Calm([rec EXCEPT !.pc = "unverified", !.ref = "unverified"])
    BY <1>3, Zenon DEF Calm
<1>. QED  BY <1>1, <1>2, <1>4, Zenon

\* advanceConfirmation.
LEMMA AdvanceDenial ==
    ASSUME CreditInv, DenialInv, NEW t \in Threads, AdvanceConfirmation(t) PROVE DenialInv'
<1>1. UNCHANGED <<chainVars, reversed, misses, wrong>> /\ th[t].pc = "advance"
    BY Zenon DEF AdvanceConfirmation, memVars, bounds
<1>2. th[t] \in Calls
    BY <1>1, CallUnderWay, Zenon DEF CallPcs
<1>3. misses' \in Counters /\ (moved = 0 => Bounded(misses', wrong))
    BY <1>1, Known, Zenon
<1>4. ASSUME UNCHANGED rowVars, NEW rec, Goto(t, rec), Calm(rec) PROVE DenialInv'
    <2>1. UNCHANGED <<chainVars, rowVars, reversed, misses, wrong>>
        BY <1>1, <1>4, Zenon
    <2>. QED  BY <1>4, <2>1, DenialRest, Zenon
<1>5. ASSUME NEW res, Transition("confirming", Payload(th[t].ref, "none"), res),
             NEW rec, Goto(t, rec), Calm(rec)
      PROVE  DenialInv'
    <2>1. "confirming" # "failed" /\ UNCHANGED <<chainVars, reversed, wrong>>
        BY <1>1, Zenon
    <2>. QED  BY <1>3, <1>5, <2>1, DenialRow, Zenon
<1>. QED  BY <1>1, <1>2, <1>4, <1>5, PlacesCalm, Zenon DEF AdvanceConfirmation, Done

\* The review gate; the second source may deny.
LEMMA ReviewGateDenial ==
    ASSUME CreditInv, DenialInv, NEW t \in Threads, ReviewGate(t) PROVE DenialInv'
<1>1. UNCHANGED <<chainVars, rowVars, reversed, misses>> /\ th[t].pc = "gate"
    BY Zenon DEF ReviewGate, dbVars
<1>2. th[t] \in Calls
    BY <1>1, CallUnderWay, Zenon DEF CallPcs
<1>3. PICK rec : Goto(t, rec) /\ Calm(rec)
    BY <1>2, PlacesCalm, Zenon DEF ReviewGate, ConfirmDeposit, Done
<1>4. wrong' \in Nat /\ wrong <= wrong' /\ wrong' <= MaxWrong
    <2>1. CASE wrong' = wrong
        BY <2>1, Known
    <2>2. CASE wrong < MaxWrong /\ wrong' = wrong + 1
        BY <2>2, Known, DepositAssumption
    <2>. QED  BY <2>1, <2>2, Zenon DEF ReviewGate, ConfirmDeposit, Answer
<1>5. moved' = moved /\ at' = at /\ misses' = misses /\ reversed' = reversed
    BY <1>1, Zenon DEF chainVars
<1>6. FailedByHuman => FailedByHuman'
    BY <1>1, Zenon DEF FailedByHuman, rowVars
<1>7. misses' \in Counters /\ (moved = 0 => ~reversed' /\ Bounded(misses, wrong) /\ misses \in Counters)
    BY <1>5, Known, Zenon
<1>8. moved = 0 => Bounded(misses', wrong')
    BY <1>4, <1>5, <1>7, Known, BoundGrows, Zenon
<1>. QED  BY <1>3, <1>4, <1>5, <1>6, <1>7, <1>8, Known, DenialStep, Zenon

\* A counter that is cleared.
LEMMA Cleared ==
    ASSUME DenialInv, NEW r \in Recheckers
    PROVE  /\ [misses EXCEPT ![r].shallow = 0] \in Counters
           /\ [misses EXCEPT ![r].evidence = 0] \in Counters
           /\ [misses EXCEPT ![r].deep = 0] \in Counters
           /\ moved = 0 => /\ Bounded([misses EXCEPT ![r].shallow = 0], wrong)
                           /\ Bounded([misses EXCEPT ![r].evidence = 0], wrong)
                           /\ Bounded([misses EXCEPT ![r].deep = 0], wrong)
<1>1. 0 \in Nat /\ 0 <= wrong /\ wrong \in Nat /\ misses \in Counters
    BY Known
<1>. QED  BY <1>1, Known, CounterSet, Zenon

\* routeToReview.
LEMMA RouteToReviewDenial ==
    ASSUME CreditInv, DenialInv, NEW t \in Threads, RouteToReview(t) PROVE DenialInv'
<1>1. UNCHANGED <<chainVars, reversed, wrong>> /\ Goto(t, Idle)
    BY Zenon DEF RouteToReview, bounds, Done
<1>2. PICK res : Transition("review", Payload(th[t].ref, th[t].reason), res)
    BY Zenon DEF RouteToReview
<1>3. misses' \in Counters /\ (moved = 0 => Bounded(misses', wrong))
    <2>1. CASE misses' = misses
        BY <2>1, Known, Zenon
    <2>2. CASE t \in Recheckers /\ misses' = [misses EXCEPT ![t].evidence = 0]
        BY <2>2, Cleared, Zenon
    <2>. QED  BY <2>1, <2>2, Zenon DEF RouteToReview
<1>4. "review" # "failed"
    BY Zenon
<1>. QED  BY <1>1, <1>2, <1>3, <1>4, PlacesCalm, DenialRow, Zenon

\* The journal, and a human's rejection.
LEMMA DecisionDenial ==
    ASSUME CreditInv, DenialInv, NEW t \in Threads, PostDepositConfirmedJournal(t) \/ Reject(t)
    PROVE  DenialInv'
<1>1. UNCHANGED <<chainVars, reversed, wrong, misses>> /\ Goto(t, Idle)
    BY Zenon DEF PostDepositConfirmedJournal, Reject, bounds, memVars, Done
<1>2. PICK to, p, res : Transition(to, p, res) /\ (to = "failed" => p.meta = "human")
    <2>1. CASE PostDepositConfirmedJournal(t)
        <3>1. PICK res : Transition("confirmed", Payload(th[t].ref, th[t].who), res)
            BY <2>1, Zenon DEF PostDepositConfirmedJournal
        <3>2. "confirmed" # "failed"
            BY Zenon
        <3>. QED  BY <3>1, <3>2, Zenon
    <2>2. CASE Reject(t)
        <3>1. PICK p, res : p = Payload(th[t].ref, "human") /\ Transition("failed", p, res)
            BY <2>2, Zenon DEF Reject
        <3>2. p.meta = "human"
            BY <3>1, PayloadRef, Zenon
        <3>. QED  BY <3>1, <3>2, Zenon
    <2>. QED  BY <2>1, <2>2, Zenon
<1>3. misses' \in Counters /\ (moved = 0 => Bounded(misses', wrong))
    BY <1>1, Known, Zenon
<1>4. UNCHANGED <<chainVars, reversed, wrong>>
    BY <1>1, Zenon
<1>. QED  BY <1>1, <1>2, <1>3, <1>4, PlacesCalm, DenialRow, Zenon

\* A recheck begins; above the threshold its shallow misses are cleared.
LEMMA RecheckBeginDenial ==
    ASSUME CreditInv, DenialInv, NEW r \in Recheckers, r \in Threads, RecheckBegin(r)
    PROVE  DenialInv'
<1>1. UNCHANGED <<chainVars, rowVars, reversed, wrong>>
    BY Zenon DEF RecheckBegin, dbVars, bounds
<1>2. PICK rec : Goto(r, rec) /\ Calm(rec)
    <2>1. PICK p, rec : /\ p \in {"evidence", "included"} /\ Goto(r, rec)
                        /\ rec = Call(p, status, IsDeep(block, tip), "log", "auto")
        BY Zenon DEF RecheckBegin
    <2>2. Calm(rec)
        BY <2>1, Zenon DEF Calm, Call
    <2>. QED  BY <2>1, <2>2, Zenon
<1>3. misses' \in Counters /\ (moved = 0 => Bounded(misses', wrong))
    <2>1. CASE misses' = misses
        BY <2>1, Known, Zenon
    <2>2. CASE misses' = [misses EXCEPT ![r].shallow = 0]
        BY <2>2, Cleared, Zenon
    <2>. QED  BY <2>1, <2>2, Zenon DEF RecheckBegin
<1>4. UNCHANGED chainVars /\ wrong' = wrong /\ reversed' = reversed
    BY <1>1, Zenon
<1>5. FailedByHuman => FailedByHuman'
    BY <1>1, Zenon DEF FailedByHuman, rowVars
<1>6. moved = 0 => ~reversed'
    BY <1>4, Known, Zenon
<1>. QED  BY <1>2, <1>3, <1>4, <1>5, <1>6, Known, DenialStay, Zenon

\* The shallow misses stay below their threshold while the transfer is where it was.
LEMMA RecheckShallowDenial ==
    ASSUME FewWrong, CreditInv, DenialInv, NEW r \in Recheckers, r \in Threads, RecheckShallow(r)
    PROVE  DenialInv'
<1>1. UNCHANGED <<chainVars, rowVars, reversed>>
    BY Zenon DEF RecheckShallow, dbVars
<1>2. PICK ans \in BOOLEAN :
          /\ Answer(at # 0, ans)
          /\ misses' = [misses EXCEPT ![r].shallow =
                           IF ans THEN 0 ELSE Min({@ + 1, ShallowReorgMisses})]
          /\ IF ~ans /\ misses'[r].shallow >= ShallowReorgMisses
             THEN Goto(r, [th[r] EXCEPT !.pc = "fail"]) ELSE Done(r)
    BY Zenon DEF RecheckShallow
<1>3. PICK n : n = IF ans THEN 0 ELSE Min({misses[r].shallow + 1, ShallowReorgMisses})
    BY Zenon
<1>4. /\ wrong' \in Nat /\ wrong <= wrong' /\ wrong' <= MaxWrong /\ n \in Nat
      /\ at # 0 /\ misses[r].shallow <= wrong => n <= wrong'
    <2>1. /\ misses[r].shallow \in Nat /\ ShallowReorgMisses \in Nat /\ (at # 0) \in BOOLEAN
          /\ wrong \in Nat /\ wrong <= MaxWrong
        BY Known, DepositAssumption, Zenon
    <2>. QED  BY <1>2, <1>3, <2>1, NextCount, Zenon
<1>5. misses' = [misses EXCEPT ![r].shallow = n] /\ misses \in Counters /\ misses' \in Counters
    BY <1>2, <1>3, <1>4, Known, CounterSet, Zenon
<1>6. misses'[r].shallow = n
    BY <1>4, <1>5, Zenon DEF Counters
<1>7. ASSUME moved = 0 PROVE n <= wrong' /\ Bounded(misses', wrong')
    <2>1. at # 0 /\ Bounded(misses, wrong) /\ wrong \in Nat
        BY <1>7, Known, Zenon
    <2>2. misses[r].shallow <= wrong
        BY <2>1, Zenon DEF Bounded
    <2>3. n <= wrong' /\ Bounded(misses, wrong')
        BY <1>4, <1>5, <2>1, <2>2, BoundGrows, Zenon
    <2>. QED  BY <1>4, <1>5, <2>3, CounterSet, Zenon
<1>8. PICK rec : Goto(r, rec) /\ (moved = 0 => Calm(rec))
    <2>1. CASE Done(r)
        BY <2>1, PlacesCalm, Zenon DEF Done
    <2>2. CASE misses'[r].shallow >= ShallowReorgMisses /\ Goto(r, [th[r] EXCEPT !.pc = "fail"])
        <3>1. moved # 0
            BY <1>4, <1>6, <1>7, <2>2, DepositAssumption DEF FewWrong
        <3>. QED  BY <2>2, <3>1, Zenon
    <2>. QED  BY <1>2, <2>1, <2>2, Zenon
<1>9. moved' = moved /\ at' = at /\ reversed' = reversed
    BY <1>1, Zenon DEF chainVars
<1>10. FailedByHuman => FailedByHuman'
    BY <1>1, Zenon DEF FailedByHuman, rowVars
<1>11. moved = 0 => ~reversed'
    BY <1>9, Known, Zenon
<1>. QED  BY <1>4, <1>5, <1>7, <1>8, <1>9, <1>10, <1>11, Known, DenialStep, Zenon

\* Only a booking whose transfer moved is failed by a machine.
LEMMA RecheckFailDenial ==
    ASSUME CreditInv, DenialInv, NEW r \in Recheckers, r \in Threads, RecheckFail(r)
    PROVE  DenialInv'
<1>1. UNCHANGED <<chainVars, reversed, wrong>> /\ th[r].pc = "fail"
    BY Zenon DEF RecheckFail, bounds
<1>2. moved # 0
    BY <1>1, Zenon DEF DenialInv, Calm
<1>3. PICK res, rec : Transition("failed", Payload("log", "none"), res) /\ Goto(r, rec)
    BY Zenon DEF RecheckFail, Done
<1>4. misses' \in Counters
    <2>1. CASE misses' = misses
        BY <2>1, Known, Zenon
    <2>2. CASE misses' = [misses EXCEPT ![r].shallow = 0]
        BY <2>2, Cleared, Zenon
    <2>. QED  BY <2>1, <2>2, Zenon DEF RecheckFail
<1>. QED  BY <1>1, <1>2, <1>3, <1>4, DenialRow, Zenon

\* The misses that lead to a reversal are not all wrong.
LEMMA RecordReorgDenial ==
    ASSUME FewWrong, CreditInv, DenialInv, NEW r \in Recheckers, r \in Threads, RecordReorg(r)
    PROVE  DenialInv'
<1>1. UNCHANGED <<chainVars, rowVars, reversed, misses, wrong>>
    BY Zenon DEF RecordReorg, memVars, bounds
<1>2. PICK rec : Goto(r, rec) /\ (moved = 0 => Calm(rec))
    <2>1. CASE Done(r)
        BY <2>1, PlacesCalm, Zenon DEF Done
    <2>2. CASE misses[r].deep >= DeepReorgMisses /\ Goto(r, [pc |-> "reverse"])
        <3>1. moved = 0 => misses[r].deep <= wrong
            BY Known, Zenon DEF Bounded
        <3>2. moved # 0
            BY <2>2, <3>1, Known, DepositAssumption DEF FewWrong
        <3>. QED  BY <2>2, <3>2, Zenon
    <2>. QED  BY <2>1, <2>2, Zenon DEF RecordReorg
<1>. QED  BY <1>1, <1>2, DenialRest, Zenon

\* Evidence has a counter of its own.
LEMMA RecheckEvidenceDenial ==
    ASSUME CreditInv, DenialInv, NEW r \in Recheckers, r \in Threads, RecheckEvidence(r)
    PROVE  DenialInv'
<1>1. UNCHANGED <<chainVars, rowVars, reversed>> /\ th[r].pc = "evidence"
    BY Zenon DEF RecheckEvidence, dbVars
<1>2. th[r] \in Calls
    BY <1>1, CallUnderWay, Zenon DEF CallPcs
<1>3. PICK ans \in BOOLEAN :
          /\ Answer(Corroborated, ans)
          /\ misses' = [misses EXCEPT ![r].evidence =
                           IF ans THEN 0 ELSE Min({@ + 1, ConfirmEvidenceMisses})]
    BY Zenon DEF RecheckEvidence
<1>4. PICK n : n = IF ans THEN 0 ELSE Min({misses[r].evidence + 1, ConfirmEvidenceMisses})
    BY Zenon
<1>5. wrong' \in Nat /\ wrong <= wrong' /\ wrong' <= MaxWrong /\ n \in Nat
    <2>1. /\ misses[r].evidence \in Nat /\ ConfirmEvidenceMisses \in Nat
          /\ wrong \in Nat /\ wrong <= MaxWrong
        BY Known, DepositAssumption, Zenon
    <2>2. Corroborated \in BOOLEAN
        BY Zenon DEF Corroborated
    <2>. QED  BY <1>3, <1>4, <2>1, <2>2, NextCount, Zenon
<1>6. misses' = [misses EXCEPT ![r].evidence = n] /\ misses \in Counters /\ misses' \in Counters
    BY <1>3, <1>4, <1>5, Known, CounterSet, Zenon
<1>7. ASSUME moved = 0 PROVE Bounded(misses', wrong')
    <2>1. Bounded(misses, wrong) /\ wrong \in Nat
        BY <1>7, Known, Zenon
    <2>2. Bounded(misses, wrong')
        BY <1>5, <1>6, <2>1, BoundGrows, Zenon
    <2>. QED  BY <1>5, <1>6, <2>2, CounterSet, Zenon
<1>8. PICK rec : Goto(r, rec) /\ Calm(rec)
    BY <1>2, PlacesCalm, Zenon DEF RecheckEvidence, Done
<1>9. moved' = moved /\ at' = at /\ reversed' = reversed
    BY <1>1, Zenon DEF chainVars
<1>10. FailedByHuman => FailedByHuman'
    BY <1>1, Zenon DEF FailedByHuman, rowVars
<1>11. moved = 0 => ~reversed'
    BY <1>9, Known, Zenon
<1>. QED  BY <1>5, <1>6, <1>7, <1>8, <1>9, <1>10, <1>11, Known, DenialStep, Zenon

\* An unverified deposit goes to review.
LEMMA RecheckUnverifiedDenial ==
    ASSUME CreditInv, DenialInv, NEW r \in Recheckers, r \in Threads, RecheckUnverified(r)
    PROVE  DenialInv'
<1>1. UNCHANGED <<chainVars, reversed, misses, wrong>>
    BY Zenon DEF RecheckUnverified, memVars, bounds
<1>2. PICK rec : Goto(r, rec) /\ Calm(rec)
    BY PlacesCalm, Zenon DEF RecheckUnverified, Done
<1>3. CASE UNCHANGED rowVars
    <2>1. UNCHANGED <<chainVars, rowVars, reversed, misses, wrong>>
        BY <1>1, <1>3, Zenon
    <2>. QED  BY <1>2, <2>1, DenialRest, Zenon
<1>4. ASSUME NEW res, Transition("confirming", Payload(th[r].ref, "none"), res)
      PROVE  DenialInv'
    <2>1. "confirming" # "failed" /\ UNCHANGED <<chainVars, reversed, wrong>>
        BY <1>1, Zenon
    <2>2. misses' \in Counters /\ (moved = 0 => Bounded(misses', wrong))
        BY <1>1, Known, Zenon
    <2>. QED  BY <1>2, <1>4, <2>1, <2>2, DenialRow, Zenon
<1>. QED  BY <1>3, <1>4, Zenon DEF RecheckUnverified

\* The deep misses of a replica are at most the wrong denials, too.
LEMMA RecheckConfirmedDenial ==
    ASSUME CreditInv, DenialInv, NEW r \in Recheckers, r \in Threads, RecheckConfirmed(r)
    PROVE  DenialInv'
<1>1. UNCHANGED <<chainVars, rowVars, reversed>>
    BY Zenon DEF RecheckConfirmed, dbVars
<1>2. PICK ans \in BOOLEAN :
          /\ Answer(at # 0, ans)
          /\ misses' = [misses EXCEPT ![r].deep =
                           IF ans THEN 0 ELSE Min({@ + 1, DeepReorgMisses})]
    BY Zenon DEF RecheckConfirmed
<1>3. PICK n : n = IF ans THEN 0 ELSE Min({misses[r].deep + 1, DeepReorgMisses})
    BY Zenon
<1>4. /\ wrong' \in Nat /\ wrong <= wrong' /\ wrong' <= MaxWrong /\ n \in Nat
      /\ at # 0 /\ misses[r].deep <= wrong => n <= wrong'
    <2>1. /\ misses[r].deep \in Nat /\ DeepReorgMisses \in Nat /\ (at # 0) \in BOOLEAN
          /\ wrong \in Nat /\ wrong <= MaxWrong
        BY Known, DepositAssumption, Zenon
    <2>. QED  BY <1>2, <1>3, <2>1, NextCount, Zenon
<1>5. misses' = [misses EXCEPT ![r].deep = n] /\ misses \in Counters /\ misses' \in Counters
    BY <1>2, <1>3, <1>4, Known, CounterSet, Zenon
<1>6. ASSUME moved = 0 PROVE Bounded(misses', wrong')
    <2>1. at # 0 /\ Bounded(misses, wrong) /\ wrong \in Nat
        BY <1>6, Known, Zenon
    <2>2. misses[r].deep <= wrong
        BY <2>1, Zenon DEF Bounded
    <2>3. n <= wrong' /\ Bounded(misses, wrong')
        BY <1>4, <1>5, <2>1, <2>2, BoundGrows, Zenon
    <2>. QED  BY <1>4, <1>5, <2>3, CounterSet, Zenon
<1>7. PICK rec : Goto(r, rec) /\ Calm(rec)
    <2>1. PICK rec : rec = [pc |-> "record", kind |-> "deep_reorg"]
        BY Zenon
    <2>2. Calm(rec)
        BY <2>1, Zenon DEF Calm
    <2>. QED  BY <2>1, <2>2, PlacesCalm, Zenon DEF RecheckConfirmed
<1>8. moved' = moved /\ at' = at /\ reversed' = reversed
    BY <1>1, Zenon DEF chainVars
<1>9. FailedByHuman => FailedByHuman'
    BY <1>1, Zenon DEF FailedByHuman, rowVars
<1>10. moved = 0 => ~reversed'
    BY <1>8, Known, Zenon
<1>. QED  BY <1>4, <1>5, <1>6, <1>7, <1>8, <1>9, <1>10, Known, DenialStep, Zenon

\* Only the journal of a transfer that moved is reversed.
LEMMA ReverseDenial ==
    ASSUME CreditInv, DenialInv, NEW r \in Recheckers, r \in Threads, ReverseJournal(r)
    PROVE  DenialInv'
<1>1. UNCHANGED chainVars /\ wrong' = wrong /\ th[r].pc = "reverse" /\ Goto(r, Idle)
    BY Zenon DEF ReverseJournal, bounds, Done
<1>2. moved # 0
    BY <1>1, Zenon DEF DenialInv, Calm
<1>3. misses' \in Counters
    BY Cleared, Zenon DEF ReverseJournal
<1>. QED  BY <1>1, <1>2, <1>3, DenialStay, Zenon

\* A process that dies forgets its counters.
LEMMA CrashDenial ==
    ASSUME CreditInv, DenialInv, NEW t \in Threads, Crash(t) PROVE DenialInv'
<1>1. UNCHANGED <<chainVars, rowVars, reversed, wrong>> /\ Goto(t, Idle)
    BY Zenon DEF Crash, dbVars, Done
<1>2. misses' \in Counters /\ (moved = 0 => Bounded(misses', wrong))
    <2>1. CASE misses' = misses
        BY <2>1, Known, Zenon
    <2>2. CASE t \in Recheckers /\ misses' = [misses EXCEPT ![t] = NoMiss]
        <3>1. misses \in Counters /\ wrong \in Nat /\ (moved = 0 => Bounded(misses, wrong))
            BY Known, Zenon
        <3>2. misses' \in Counters
            BY <2>2, <3>1, Zenon DEF Counters, NoMiss
        <3>3. ASSUME NEW u \in Recheckers
              PROVE  misses'[u] = IF u = t THEN NoMiss ELSE misses[u]
            BY <2>2, <3>1, Zenon DEF Counters
        <3>4. NoMiss.shallow <= wrong /\ NoMiss.deep <= wrong
            BY <3>1 DEF NoMiss
        <3>5. Bounded(misses, wrong) => Bounded(misses', wrong)
            BY <3>3, <3>4, Zenon DEF Bounded
        <3>. QED  BY <3>1, <3>2, <3>5, Zenon
    <2>. QED  BY <2>1, <2>2, Zenon DEF Crash
<1>3. UNCHANGED chainVars /\ wrong' = wrong /\ reversed' = reversed
    BY <1>1, Zenon
<1>4. FailedByHuman => FailedByHuman'
    BY <1>1, Zenon DEF FailedByHuman, rowVars
<1>5. moved = 0 => ~reversed'
    BY <1>3, Known, Zenon
<1>. QED  BY <1>1, <1>2, <1>3, <1>4, <1>5, Known, PlacesCalm, DenialStay, Zenon

\* A step beside the booking, the chain and the threads.
LEMMA BesideDenial ==
    ASSUME DenialInv, UNCHANGED <<chainVars, rowVars, reversed, th, misses, wrong>>
    PROVE  DenialInv'
<1>1. /\ moved' = moved /\ wrong' = wrong /\ misses' = misses /\ at' = at
      /\ reversed' = reversed /\ status' = status /\ receipts' = receipts /\ th' = th
    BY Zenon DEF chainVars, rowVars
<1>2. FailedByHuman => FailedByHuman'
    BY <1>1, Zenon DEF FailedByHuman
<1>3. moved' = 0 => ~reversed'
    BY <1>1, Known
<1>. QED  BY <1>1, <1>2, <1>3, Zenon DEF DenialInv, Bounded, Calm

\* No step counts more misses than there were wrong denials.
LEMMA DenialNext == ASSUME FewWrong PROVE CreditInv /\ DenialInv /\ [Next]_vars => DenialInv'
<1> SUFFICES ASSUME CreditInv, DenialInv, [Next]_vars PROVE DenialInv'
    BY Zenon
<1>1. Ingesters \subseteq Threads /\ Recheckers \subseteq Threads /\ Reviewers \subseteq Threads
    BY Zenon DEF Threads
<1>2. CASE Mine \/ Drop
    BY <1>2, ChainDenial, Zenon
<1>3. ASSUME NEW t \in Threads, Continue(t) PROVE DenialInv'
    BY <1>3, AdvanceDenial, ReviewGateDenial, RouteToReviewDenial, DecisionDenial, Zenon DEF Continue
<1>4. ASSUME NEW i \in Ingesters, Ingest(i) PROVE DenialInv'
    BY <1>1, <1>3, <1>4, BeginDenial, CreateBookingDenial, Zenon DEF Ingest
<1>5. ASSUME NEW r \in Recheckers, Recheck(r) PROVE DenialInv'
    BY <1>1, <1>3, <1>5, RecheckBeginDenial, RecheckShallowDenial, RecheckFailDenial,
       RecordReorgDenial, RecheckEvidenceDenial, RecheckUnverifiedDenial,
       RecheckConfirmedDenial, ReverseDenial, Zenon DEF Recheck
<1>6. ASSUME NEW h \in Reviewers, Review(h) PROVE DenialInv'
    BY <1>1, <1>6, BeginDenial, DecisionDenial, Zenon DEF Review
<1>7. ASSUME NEW k, ResolveReorg(k) PROVE DenialInv'
    <2>1. UNCHANGED <<chainVars, rowVars, reversed, th, misses, wrong>>
        BY <1>7, Zenon DEF ResolveReorg, memVars, bounds
    <2>. QED  BY <2>1, BesideDenial, Zenon
<1>8. ASSUME NEW t \in Threads, Crash(t) PROVE DenialInv'
    BY <1>8, CrashDenial, Zenon
<1>9. CASE UNCHANGED vars
    <2>1. UNCHANGED <<chainVars, rowVars, reversed, th, misses, wrong>>
        BY <1>9, Zenon DEF vars, dbVars, memVars, bounds
    <2>. QED  BY <2>1, BesideDenial, Zenon
<1>. QED  BY <1>2, <1>4, <1>5, <1>6, <1>7, <1>8, <1>9, Zenon DEF Next

\* At first nobody has denied anything.
LEMMA DenialInit == Init => DenialInv
<1> SUFFICES ASSUME Init PROVE DenialInv
    BY Zenon
<1>1. /\ moved = 0 /\ wrong = 0 /\ at = 1 /\ ~reversed /\ status = "none"
      /\ misses = [r \in Recheckers |-> NoMiss] /\ th = [t \in Threads |-> Idle]
    BY Zenon DEF Init
<1>2. misses \in Counters /\ Bounded(misses, wrong)
    BY <1>1 DEF Counters, NoMiss, Bounded
<1>3. moved \in Nat /\ wrong \in Nat /\ wrong <= MaxWrong /\ at # 0 /\ FailedByHuman
    BY <1>1, DepositAssumption DEF FailedByHuman
<1>4. \A t \in Threads : Calm(th[t])
    BY <1>1, PlacesCalm, Zenon
<1>. QED  BY <1>1, <1>2, <1>3, <1>4, Zenon DEF DenialInv

\* With fewer wrong denials than either threshold, the credit, the status and the chain
\* agree in every behaviour: what never left its block is neither failed nor reversed by a
\* machine (recheckOneDeposit, recheckOneConfirmedDeposit, WithShallowReorgMisses,
\* WithDeepReorgMisses).
THEOREM CreditsSound == ASSUME FewWrong PROVE Spec => []CreditSound
<1>1. CreditInv /\ DenialInv => CreditSound
    BY Zenon DEF CreditInv, RowAgrees, DenialInv, FailedByHuman, CreditSound,
       CreditedIffConfirmed, WrongDenialsHarmless
<1>2. CreditInv /\ DenialInv /\ [Next]_vars => DenialInv'
    BY DenialNext, Zenon
<1>. QED  BY CreditInit, CreditNext, DenialInit, <1>1, <1>2, PTL DEF Spec
================================================================================
